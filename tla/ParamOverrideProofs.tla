------------------------- MODULE ParamOverrideProofs -------------------------
(***************************************************************************)
(* Proofs about the request rewriter of ParamOverride, for all keys,       *)
(* bodies and settings the rewriter is given (InputsAssumption):           *)
(*   - the document's top-level keys stay among Keys and the loop index    *)
(*     within the program (TypeOK);                                        *)
(*   - index -1 names the last item of an array (NegativeIndexIsLast);     *)
(*   - append and prepend keep the items of the array at the operation's   *)
(*     path (ArrayEditsKeepItems), for top-level and indexed paths alike.  *)
(* That every array at every depth of the document is a sequence is a     *)
(* statement about values of unbounded nesting: it needs induction over    *)
(* the nesting, which is out of the prover's reach, so the two properties *)
(* about arrays carry it as a hypothesis on the array they are about.      *)
(* The lemmas about sequences and about the path operators come first.     *)
(***************************************************************************)
EXTENDS ParamOverride, SequenceTheorems, TLAPS

-----------------------------------------------------------------------------
(***************************************************************************)
(* Sequences: IsSeq(s) says s is a sequence of whatever it holds.          *)
(***************************************************************************)

\* A sequence over any set is a sequence of its own range.
LEMMA SeqIsSeq ==
    ASSUME NEW S, NEW s \in Seq(S)
    PROVE  IsSeq(s)
<1>1. s \in [1..Len(s) -> Range(s)] /\ Len(s) \in Nat
    BY LenProperties DEF Range
<1>. QED  BY <1>1, SeqDef DEF IsSeq

\* What IsSeq gives a proof: a length and the sequence typing.
LEMMA IsSeqProperties ==
    ASSUME NEW s, IsSeq(s)
    PROVE  /\ Len(s) \in Nat
           /\ s \in Seq(Range(s))
           /\ DOMAIN s = 1..Len(s)
    BY LenProperties DEF IsSeq

\* Two sequences joined are a sequence, indexed as the two parts.
LEMMA ConcatIsSeq ==
    ASSUME NEW s, NEW t, IsSeq(s), IsSeq(t)
    PROVE  /\ IsSeq(s \o t)
           /\ Len(s \o t) = Len(s) + Len(t)
           /\ \A i \in 1..Len(s) + Len(t) :
                 (s \o t)[i] = IF i <= Len(s) THEN s[i] ELSE t[i - Len(s)]
<1>. DEFINE U == Range(s) \cup Range(t)
<1>1. s \in Seq(U) /\ t \in Seq(U)
    BY IsSeqProperties, SeqMonotonic
<1>2. s \o t \in Seq(U)
    BY <1>1, ConcatProperties
<1>. QED  BY <1>1, <1>2, ConcatProperties, SeqIsSeq


\* Items (modifyArray): the items a well-formed value is spliced in as.
LEMMA ItemsIsSeq ==
    ASSUME NEW v, ValueOK(v)
    PROVE  IsSeq(Items(v))
<1>1. CASE v.t = "arr"
    BY <1>1 DEF ValueOK, Items
<1>2. CASE v.t # "arr"
    <2>1. <<v>> \in Seq({v})
        OBVIOUS
    <2>. QED  BY <1>2, <2>1, SeqIsSeq DEF Items
<1>. QED  BY <1>1, <1>2

-----------------------------------------------------------------------------
(***************************************************************************)
(* The path operators (gjson.Get, sjson.Set, sjson.Delete and              *)
(* processNegativeIndex): which keys they touch, and that a set is read    *)
(* back where it was made. None of this depends on the shape of values.    *)
(***************************************************************************)

\* processNegativeIndex changes at most the index of a path.
LEMMA NegativeIndexKey ==
    ASSUME NEW d, NEW p \in Path
    PROVE  ProcessNegativeIndex(d, p).key = p.key /\ p.key \in Keys
    BY DEF ProcessNegativeIndex, Path

\* sjson.Set adds the key of its path and keeps the others.
LEMMA SetPathDomain ==
    ASSUME NEW d, NEW p, NEW v
    PROVE  DOMAIN SetPath(d, p, v) = DOMAIN d \cup {p.key}
    BY DEF SetPath

\* sjson.Delete adds no key.
LEMMA DeletePathDomain ==
    ASSUME NEW d, NEW p
    PROVE  DOMAIN DeletePath(d, p) \subseteq DOMAIN d
    BY DEF DeletePath

\* sjson.Set that does not fail yields the document SetPath builds.
LEMMA SetResultDoc ==
    ASSUME NEW d, NEW p, NEW v, ~SetResult(d, p, v).err
    PROVE  SetResult(d, p, v).doc = SetPath(d, p, v)
    BY DEF SetResult, Ok, ExecFailed

\* modifyValue ends in one sjson.Set at its path, or in an error.
LEMMA ModifyValueSets ==
    ASSUME NEW d, NEW p, NEW value, NEW keepOrigin, NEW isPrepend,
           ~ModifyValue(d, p, value, keepOrigin, isPrepend).err
    PROVE  \E v : ModifyValue(d, p, value, keepOrigin, isPrepend).doc = SetPath(d, p, v)
<1>. DEFINE r == ModifyValue(d, p, value, keepOrigin, isPrepend)
            cur == GetPath(d, p).v
<1>1. CASE GetPath(d, p).t = "arr"
    <2>1. r = SetResult(d, p, Arr(IF isPrepend THEN Items(value) \o cur
                                               ELSE cur \o Items(value)))
        BY <1>1 DEF ModifyValue, ModifyArray
    <2>. QED  BY <2>1, SetResultDoc
<1>2. CASE GetPath(d, p).t = "str"
    <2>1. r = SetResult(d, p, Str(IF isPrepend THEN GoString(value) \o cur
                                               ELSE cur \o GoString(value)))
        BY <1>2 DEF ModifyValue, ModifyString
    <2>. QED  BY <2>1, SetResultDoc
<1>3. CASE GetPath(d, p).t = "obj"
    <2>1. r = MergeObjects(d, p, value, keepOrigin)
        BY <1>3 DEF ModifyValue
    <2>2. value.t \in {"obj", "null"}
        BY <2>1 DEF MergeObjects, ExecFailed
    <2>3. \E v : r = SetResult(d, p, v)
        BY <2>1, <2>2 DEF MergeObjects
    <2>. QED  BY <2>3, SetResultDoc
<1>4. CASE GetPath(d, p).t \notin {"arr", "str", "obj"}
    BY <1>4 DEF ModifyValue, ExecFailed
<1>. QED  BY <1>1, <1>2, <1>3, <1>4

\* The switch of applyOperations adds no key outside Keys.
LEMMA ExecOperationKeys ==
    ASSUME NEW d, DOMAIN d \subseteq Keys, NEW op, OpOK(op),
           ~ExecOperation(d, op).err
    PROVE  DOMAIN ExecOperation(d, op).doc \subseteq Keys
<1>. DEFINE path == ProcessNegativeIndex(d, op.path)
            from == ProcessNegativeIndex(d, op.from)
            to   == ProcessNegativeIndex(d, op.to)
            r    == ExecOperation(d, op)
<1>1. path.key \in Keys /\ to.key \in Keys
    BY NegativeIndexKey DEF OpOK
<1>2. CASE op.mode = "delete"
    BY <1>2, DeletePathDomain DEF ExecOperation, Ok
<1>3. CASE op.mode = "set"
    <2>1. CASE op.keepOrigin /\ GetPath(d, path) # Missing
        BY <1>3, <2>1 DEF ExecOperation, Ok
    <2>2. CASE ~(op.keepOrigin /\ GetPath(d, path) # Missing)
        <3>1. r = SetResult(d, path, op.value)
            BY <1>3, <2>2 DEF ExecOperation
        <3>2. r.doc = SetPath(d, path, op.value)
            BY <3>1, SetResultDoc
        <3>3. DOMAIN SetPath(d, path, op.value) = DOMAIN d \cup {path.key}
            BY SetPathDomain
        <3>. QED  BY <1>1, <3>2, <3>3
    <2>. QED  BY <2>1, <2>2
<1>4. CASE op.mode = "move"
    <2>1. r = MoveValue(d, from, to)
        BY <1>4 DEF ExecOperation
    <2>2. r.doc = DeletePath(SetPath(d, to, GetPath(d, from)), from)
        BY <2>1 DEF MoveValue, Ok, ExecFailed
    <2>3. DOMAIN SetPath(d, to, GetPath(d, from)) = DOMAIN d \cup {to.key}
        BY SetPathDomain
    <2>4. DOMAIN DeletePath(SetPath(d, to, GetPath(d, from)), from)
            \subseteq DOMAIN SetPath(d, to, GetPath(d, from))
        BY DeletePathDomain
    <2>. QED  BY <1>1, <2>2, <2>3, <2>4
<1>5. CASE op.mode \in {"prepend", "append"}
    <2>. DEFINE isP == op.mode = "prepend"
    <2>1. r = ModifyValue(d, path, op.value, op.keepOrigin, isP)
        BY <1>5 DEF ExecOperation
    <2>2. PICK v : r.doc = SetPath(d, path, v)
        BY <2>1, ModifyValueSets
    <2>3. DOMAIN SetPath(d, path, v) = DOMAIN d \cup {path.key}
        BY SetPathDomain
    <2>. QED  BY <1>1, <2>2, <2>3
<1>6. CASE op.mode \notin {"delete", "set", "move", "prepend", "append"}
    BY <1>6 DEF ExecOperation, ExecFailed
<1>. QED  BY <1>2, <1>3, <1>4, <1>5, <1>6

-----------------------------------------------------------------------------
(***************************************************************************)
(* TypeOK is inductive: the legacy merge and every operation of the        *)
(* program keep the document's keys, and the loop index moves by one.      *)
(***************************************************************************)

\* A body the rewriter is given starts a well-typed state.
LEMMA InitTypeOK == Init => TypeOK
<1>. SUFFICES ASSUME Init PROVE TypeOK
    OBVIOUS
<1>1. DocOK(doc)
    BY InputsAssumption DEF Init
<1>2. IsSeq(<<>>) /\ Len(<<>>) = 0
    BY EmptySeq, SeqIsSeq
<1>. QED  BY <1>1, <1>2 DEF Init, TypeOK, DocOK, Phases

\* applyOperationsLegacy: the merged map has the body's keys, the
\* setting's, and at most the "operations" key besides.
LEMMA LegacyMergeKeys ==
    ASSUME NEW ov \in InputOverrides, NEW d, DOMAIN d \subseteq Keys
    PROVE  DOMAIN MergeLegacy(LegacyMap(ov), d) \subseteq Keys \cup {"operations"}
<1>1. DOMAIN MergeLegacy(LegacyMap(ov), d) = DOMAIN LegacyMap(ov) \cup DOMAIN d
    BY DEF MergeLegacy
<1>2. CASE ov.kind = "map"
    BY <1>1, <1>2, InputsAssumption DEF LegacyMap, DocOK
<1>3. CASE ov.kind # "map"
    BY <1>1, <1>3 DEF LegacyMap
<1>. QED  BY <1>2, <1>3

\* The program's operations at index j are typed operations.
LEMMA OpAt ==
    ASSUME TypeOK, NEW j \in 1..Len(ops)
    PROVE  OpOK(ops[j])
    BY DEF TypeOK

\* Every step keeps TypeOK.
LEMMA NextTypeOK == TypeOK /\ [Next]_vars => TypeOK'
<1>. SUFFICES ASSUME TypeOK, [Next]_vars PROVE TypeOK'
    OBVIOUS
<1>0. Len(ops) \in Nat /\ k \in Nat
    BY IsSeqProperties DEF TypeOK
<1>1. CASE Dispatch
    <2>1. CASE override.kind = "empty" /\ phase' = "ok" /\ UNCHANGED <<doc, ops, k>>
        BY <1>1, <2>1 DEF Dispatch, TypeOK, Phases
    <2>2. CASE TryParseOperations(override) /\ ops' = override.ops
               /\ phase' = "running" /\ UNCHANGED <<doc, k>>
        <3>1. IsSeq(ops') /\ \A j \in 1..Len(ops') : OpOK(ops'[j])
            BY <2>2, InputsAssumption DEF TypeOK, TryParseOperations
        <3>2. Len(ops') \in Nat
            BY <3>1, IsSeqProperties
        <3>3. phase = "start" /\ k = 1
            BY <1>1, <2>2 DEF Dispatch, TypeOK
        <3>. QED  BY <1>1, <2>2, <3>1, <3>2, <3>3 DEF Dispatch, TypeOK, Phases
    <2>3. CASE override.kind # "empty" /\ ~TryParseOperations(override)
               /\ doc' = MergeLegacy(LegacyMap(override), doc) /\ phase' = "ok"
               /\ UNCHANGED <<ops, k>>
        <3>1. DOMAIN doc \subseteq Keys /\ override \in InputOverrides
            BY <1>1 DEF Dispatch, TypeOK
        <3>. QED  BY <1>1, <2>3, <3>1, LegacyMergeKeys DEF Dispatch, TypeOK, Phases
    <2>. QED  BY <1>1, <2>1, <2>2, <2>3 DEF Dispatch
<1>2. CASE ConditionFailed
    BY <1>2 DEF ConditionFailed, TypeOK, Phases
<1>3. CASE OperationSkipped
    BY <1>0, <1>3 DEF OperationSkipped, TypeOK
<1>4. CASE OperationApplied
    <2>1. DOMAIN doc \subseteq Keys /\ k \in 1..Len(ops)
        BY <1>0, <1>4 DEF OperationApplied, TypeOK
    <2>2. OpOK(ops[k])
        BY <2>1, OpAt
    <2>3. DOMAIN doc' \subseteq Keys
        BY <1>4, <2>1, <2>2, ExecOperationKeys DEF OperationApplied
    <2>. QED  BY <1>0, <1>4, <2>1, <2>3 DEF OperationApplied, TypeOK
<1>5. CASE OperationFailed
    BY <1>5 DEF OperationFailed, TypeOK, Phases
<1>6. CASE Finish
    BY <1>6 DEF Finish, TypeOK, Phases
<1>7. CASE UNCHANGED vars
    BY <1>7 DEF vars, TypeOK
<1>. QED  BY <1>1, <1>2, <1>3, <1>4, <1>5, <1>6, <1>7 DEF Next

\* The document the rewriter works on keeps its top-level keys among Keys
\* until the run ends (applyOperations, lines 301-338; sjson.Set adds only
\* the key its path names), and the loop index stays in range.
THEOREM TypeCorrect == Spec => []TypeOK
    BY InitTypeOK, NextTypeOK, PTL DEF Spec

-----------------------------------------------------------------------------
(***************************************************************************)
(* Index -1 names the last item.                                           *)
(***************************************************************************)

\* processNegativeIndex resolves -1 against a non-empty array to its last
\* index, and gjson.Get reads the last item there.
LEMMA NegativeOneIsLast ==
    ASSUME NEW d, NEW x \in DOMAIN d, d[x].t = "arr", IsSeq(d[x].v),
           d[x].v # <<>>
    PROVE  GetPath(d, ProcessNegativeIndex(d, At(x, -1))) = Last(d[x].v)
<1>. DEFINE s == d[x].v
            n == Len(s)
<1>1. n \in Nat /\ s \in Seq(Range(s)) /\ DOMAIN s = 1..n
    BY IsSeqProperties
<1>2. n >= 1
    BY <1>1, EmptySeq
<1>3. HasIdx(At(x, -1)) /\ At(x, -1).key = x /\ At(x, -1).idx = -1
    BY DEF HasIdx, At
<1>4. ProcessNegativeIndex(d, At(x, -1)) = At(x, n - 1)
    BY <1>1, <1>2, <1>3 DEF ProcessNegativeIndex, At
<1>5. GetPath(d, At(x, n - 1)) = s[n]
    BY <1>1, <1>2 DEF GetPath, HasIdx, At, Slot
<1>. QED  BY <1>4, <1>5 DEF Last

\* Spec 4.1 and 9: index -1 names the last item of the array a key holds
\* at that point of the program (processNegativeIndex, lines 184-213), in
\* every reachable state, whatever operations ran before.
THEOREM NegativeIndexIsLastInvariant == Spec => []NegativeIndexIsLast
<1>1. NegativeIndexIsLast
    BY NegativeOneIsLast DEF NegativeIndexIsLast
<1>. QED  BY <1>1, PTL

-----------------------------------------------------------------------------
(***************************************************************************)
(* Prefixes and suffixes (SequencesExt) of joined sequences.               *)
(***************************************************************************)

\* A sequence that agrees with the first Len(a) items of b is its prefix.
LEMMA PrefixByItems ==
    ASSUME NEW a, NEW b, IsSeq(a), IsSeq(b), Len(a) <= Len(b),
           \A i \in 1..Len(a) : a[i] = b[i]
    PROVE  IsPrefix(a, b)
<1>. DEFINE U == Range(a) \cup Range(b)
<1>1. a \in Seq(U) /\ b \in Seq(U) /\ Len(a) \in Nat /\ Len(b) \in Nat
    BY IsSeqProperties, SeqMonotonic
<1>2. \A i \in 1..Len(a) : a[i] \in U /\ b[i] \in U
    BY <1>1, ElementOfSeq
<1>3. /\ SubSeq(a, 1, Len(a)) \in Seq(U) /\ SubSeq(b, 1, Len(a)) \in Seq(U)
      /\ Len(SubSeq(a, 1, Len(a))) = Len(a) /\ Len(SubSeq(b, 1, Len(a))) = Len(a)
      /\ \A i \in 1..Len(a) : SubSeq(a, 1, Len(a))[i] = a[i]
      /\ \A i \in 1..Len(a) : SubSeq(b, 1, Len(a))[i] = b[i]
    BY <1>1, <1>2, SubSeqProperties
<1>4. SubSeq(a, 1, Len(a)) = SubSeq(b, 1, Len(a))
    BY <1>3, SeqEqual
<1>. QED  BY <1>4 DEF IsPrefix

\* Reverse (SequencesExt) of a sequence is a sequence of the same length.
LEMMA ReverseIsSeq ==
    ASSUME NEW s, IsSeq(s)
    PROVE  /\ IsSeq(Reverse(s))
           /\ Len(Reverse(s)) = Len(s)
           /\ \A i \in 1..Len(s) : Reverse(s)[i] = s[Len(s) - i + 1]
<1>1. Len(s) \in Nat /\ s \in Seq(Range(s))
    BY IsSeqProperties
<1>2. \A i \in 1..Len(s) : s[Len(s) - i + 1] \in Range(s)
    BY <1>1, ElementOfSeq
<1>3. Reverse(s) \in [1..Len(s) -> Range(s)]
    BY <1>2 DEF Reverse
<1>4. Reverse(s) \in Seq(Range(s))
    BY <1>1, <1>3, SeqDef
<1>5. IsSeq(Reverse(s))
    BY <1>4, SeqIsSeq
<1>6. Len(Reverse(s)) = Len(s)
    <2>1. Len(Reverse(s)) \in Nat /\ DOMAIN Reverse(s) = 1..Len(Reverse(s))
        BY <1>4, LenProperties
    <2>2. DOMAIN Reverse(s) = 1..Len(s)
        BY DEF Reverse
    <2>. QED  BY <1>1, <2>1, <2>2
<1>. QED  BY <1>5, <1>6 DEF Reverse

\* modifyArray for append: the items the array held are its prefix.
LEMMA PrefixOfConcat ==
    ASSUME NEW s, NEW t, IsSeq(s), IsSeq(t)
    PROVE  IsPrefix(s, s \o t)
<1>1. Len(s) \in Nat /\ Len(t) \in Nat
    BY IsSeqProperties
<1>2. IsSeq(s \o t) /\ Len(s \o t) = Len(s) + Len(t)
      /\ \A i \in 1..Len(s) + Len(t) :
            (s \o t)[i] = IF i <= Len(s) THEN s[i] ELSE t[i - Len(s)]
    BY ConcatIsSeq
<1>3. Len(s) <= Len(s \o t) /\ \A i \in 1..Len(s) : s[i] = (s \o t)[i]
    BY <1>1, <1>2
<1>. QED  BY <1>2, <1>3, PrefixByItems

\* modifyArray for prepend: the items the array held are its suffix.
LEMMA SuffixOfConcat ==
    ASSUME NEW s, NEW t, IsSeq(s), IsSeq(t)
    PROVE  IsSuffix(s, t \o s)
<1>1. Len(s) \in Nat /\ Len(t) \in Nat
    BY IsSeqProperties
<1>2. IsSeq(t \o s) /\ Len(t \o s) = Len(t) + Len(s)
      /\ \A i \in 1..Len(t) + Len(s) :
            (t \o s)[i] = IF i <= Len(t) THEN t[i] ELSE s[i - Len(t)]
    BY ConcatIsSeq
<1>3. /\ IsSeq(Reverse(s)) /\ IsSeq(Reverse(t \o s))
      /\ Len(Reverse(s)) = Len(s) /\ Len(Reverse(t \o s)) = Len(t) + Len(s)
      /\ \A i \in 1..Len(s) : Reverse(s)[i] = s[Len(s) - i + 1]
      /\ \A i \in 1..Len(t) + Len(s) :
            Reverse(t \o s)[i] = (t \o s)[Len(t) + Len(s) - i + 1]
    <2>1. IsSeq(Reverse(s)) /\ Len(Reverse(s)) = Len(s)
          /\ \A i \in 1..Len(s) : Reverse(s)[i] = s[Len(s) - i + 1]
        BY ReverseIsSeq
    <2>2. IsSeq(Reverse(t \o s)) /\ Len(Reverse(t \o s)) = Len(t \o s)
          /\ \A i \in 1..Len(t \o s) :
                Reverse(t \o s)[i] = (t \o s)[Len(t \o s) - i + 1]
        <3>. HIDE DEF IsSeq
        <3>. QED  BY <1>2, ReverseIsSeq
    <2>. QED  BY <1>2, <2>1, <2>2
<1>4. \A i \in 1..Len(s) : Reverse(s)[i] = Reverse(t \o s)[i]
    BY <1>1, <1>2, <1>3
<1>5. Len(Reverse(s)) <= Len(Reverse(t \o s))
    BY <1>1, <1>3
<1>. QED  BY <1>3, <1>4, <1>5, PrefixByItems DEF IsSuffix

\* An array is its own prefix and its own suffix (a step that leaves
\* it alone).
LEMMA PrefixSuffixRefl ==
    ASSUME NEW s, IsSeq(s)
    PROVE  IsPrefix(s, s) /\ IsSuffix(s, s)
<1>1. IsSeq(Reverse(s)) /\ Len(Reverse(s)) \in Nat
    BY ReverseIsSeq, IsSeqProperties
<1>2. Len(s) \in Nat
    BY IsSeqProperties
<1>. QED  BY <1>1, <1>2, PrefixByItems DEF IsSuffix

\* The items of an array value.
LEMMA ArrItems ==
    ASSUME NEW a, NEW s, a = Arr(s)
    PROVE  a.v = s
    BY DEF Arr

\* gjson.Get reads back what sjson.Set wrote at a path that exists: a
\* top-level key, an item of an array or a member of an object.
LEMMA GetSetSame ==
    ASSUME NEW d, NEW p, NEW w, GetPath(d, p) # Missing
    PROVE  GetPath(SetPath(d, p, w), p) = w
<1>. DEFINE e == SetPath(d, p, w)
            cur == d[p.key]
<1>1. p.key \in DOMAIN d /\ p.key \in DOMAIN e
    BY DEF GetPath, SetPath
<1>2. CASE ~HasIdx(p)
    <2>1. e[p.key] = w
        BY <1>2 DEF SetPath
    <2>. QED  BY <1>1, <1>2, <2>1 DEF GetPath
<1>3. CASE HasIdx(p)
    <2>1. cur.t \in {"arr", "obj"} /\ Slot(cur, p.idx) \in DOMAIN cur.v
        BY <1>1, <1>3 DEF GetPath
    <2>2. e[p.key] = SetIndexed(cur, p.idx, w)
        BY <1>1, <1>3 DEF SetPath, AtKey
    <2>3. CASE cur.t = "arr"
        <3>1. p.idx + 1 \in DOMAIN cur.v
            BY <2>1, <2>3 DEF Slot
        <3>2. e[p.key] = Arr([cur.v EXCEPT ![p.idx + 1] = w])
            BY <2>2, <2>3, <3>1 DEF SetIndexed
        <3>3. e[p.key].t = "arr" /\ e[p.key].v = [cur.v EXCEPT ![p.idx + 1] = w]
            BY <3>2 DEF Arr
        <3>4. Slot(e[p.key], p.idx) = p.idx + 1
            BY <3>3 DEF Slot
        <3>. QED  BY <1>1, <1>3, <3>1, <3>3, <3>4 DEF GetPath
    <2>4. CASE cur.t = "obj"
        <3>1. p.idx \in DOMAIN cur.v
            BY <2>1, <2>4 DEF Slot
        <3>2. e[p.key] = Obj([y \in DOMAIN cur.v \cup {p.idx} |->
                              IF y = p.idx THEN w ELSE cur.v[y]])
            BY <2>2, <2>4 DEF SetIndexed
        <3>3. e[p.key].t = "obj" /\ p.idx \in DOMAIN e[p.key].v /\ e[p.key].v[p.idx] = w
            BY <3>2 DEF Obj
        <3>4. Slot(e[p.key], p.idx) = p.idx
            BY <3>3 DEF Slot
        <3>. QED  BY <1>1, <1>3, <3>3, <3>4 DEF GetPath
    <2>. QED  BY <2>1, <2>3, <2>4
<1>. QED  BY <1>2, <1>3

\* One append or prepend on an array at its resolved path: the array that
\* path then holds has the old items as a prefix (append) or a suffix
\* (prepend).
LEMMA ArrayEditStep ==
    ASSUME NEW d, NEW op, OpOK(op),
           op.mode \in {"append", "prepend"}, ~ExecOperation(d, op).err,
           NEW p, p = ProcessNegativeIndex(d, op.path),
           GetPath(d, p).t = "arr", IsSeq(GetPath(d, p).v)
    PROVE  LET old == GetPath(d, p).v
               new == GetPath(ExecOperation(d, op).doc, p).v
           IN  /\ op.mode = "append" => IsPrefix(old, new)
               /\ op.mode = "prepend" => IsSuffix(old, new)
<1>. DEFINE isP == op.mode = "prepend"
            old == GetPath(d, p).v
            grown == IF isP THEN Items(op.value) \o old ELSE old \o Items(op.value)
            r == ExecOperation(d, op)
<1>1. r = ModifyValue(d, p, op.value, op.keepOrigin, isP)
    BY DEF ExecOperation
<1>2. r = SetResult(d, p, Arr(grown))
    BY <1>1 DEF ModifyValue, ModifyArray
<1>3. r.doc = SetPath(d, p, Arr(grown))
    BY <1>2, SetResultDoc
<1>4. GetPath(d, p) # Missing
    BY DEF Missing
<1>5. GetPath(r.doc, p) = Arr(grown)
    BY <1>3, <1>4, GetSetSame
<1>6. GetPath(r.doc, p).v = grown
    BY <1>5, ArrItems
<1>7. IsSeq(Items(op.value))
    BY ItemsIsSeq DEF OpOK
<1>8. isP => IsSuffix(old, grown)
    BY <1>7, SuffixOfConcat
<1>9. ~isP => IsPrefix(old, grown)
    BY <1>7, PrefixOfConcat
<1>. QED  BY <1>6, <1>8, <1>9

\* Spec 4.1: append adds after the items the target array holds and
\* prepend before them (modifyArray, lines 384-391): in every step of every
\* program, the array at the operation's path, top-level or indexed and
\* resolved against the document as earlier operations left it, keeps its
\* original items in order.
THEOREM ArrayEditsKeepItemsHolds == Spec => ArrayEditsKeepItems
<1>1. TypeOK /\ [Next]_vars =>
        [phase = "running" /\ k' = k + 1 =>
           LET p == ProcessNegativeIndex(doc, ops[k].path)
               old == GetPath(doc, p)
               new == GetPath(doc', p)
           IN  old.t = "arr" /\ IsSeq(old.v) =>
                 /\ ops[k].mode = "append" => IsPrefix(old.v, new.v)
                 /\ ops[k].mode = "prepend" => IsSuffix(old.v, new.v)]_vars
    <2>. DEFINE p == ProcessNegativeIndex(doc, ops[k].path)
    <2>. SUFFICES ASSUME TypeOK, [Next]_vars, phase = "running", k' = k + 1,
                         GetPath(doc, p).t = "arr", IsSeq(GetPath(doc, p).v)
                  PROVE  /\ ops[k].mode = "append" =>
                              IsPrefix(GetPath(doc, p).v, GetPath(doc', p).v)
                         /\ ops[k].mode = "prepend" =>
                              IsSuffix(GetPath(doc, p).v, GetPath(doc', p).v)
        OBVIOUS
    <2>0. k \in Nat /\ Len(ops) \in Nat
        BY IsSeqProperties DEF TypeOK
    <2>1. CASE OperationSkipped
        BY <2>1, PrefixSuffixRefl DEF OperationSkipped
    <2>2. CASE OperationApplied
        <3>1. k \in 1..Len(ops)
            BY <2>0, <2>2 DEF OperationApplied, TypeOK
        <3>2. OpOK(ops[k])
            BY <3>1, OpAt
        <3>3. doc' = ExecOperation(doc, ops[k]).doc /\ ~ExecOperation(doc, ops[k]).err
            BY <2>2 DEF OperationApplied
        <3>4. CASE ops[k].mode \in {"append", "prepend"}
            <4>1. /\ ops[k].mode = "append" =>
                       IsPrefix(GetPath(doc, p).v,
                                GetPath(ExecOperation(doc, ops[k]).doc, p).v)
                  /\ ops[k].mode = "prepend" =>
                       IsSuffix(GetPath(doc, p).v,
                                GetPath(ExecOperation(doc, ops[k]).doc, p).v)
                BY <3>2, <3>3, <3>4, ArrayEditStep
            <4>. QED  BY <3>3, <4>1
        <3>. QED  BY <3>4
    <2>3. CASE Dispatch \/ ConditionFailed \/ OperationFailed \/ Finish
              \/ UNCHANGED vars
        BY <2>0, <2>3 DEF Dispatch, ConditionFailed, OperationFailed, Finish, vars
    <2>. QED  BY <2>1, <2>2, <2>3 DEF Next
<1>. QED  BY <1>1, TypeCorrect, PTL DEF Spec, ArrayEditsKeepItems
=============================================================================
