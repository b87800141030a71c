--------------------------- MODULE ParamOverride ---------------------------
(***************************************************************************)
(* The request rewriter (src/unnamed/part_001, package common):            *)
(* ApplyParamOverride chooses between the legacy top-level merge and the   *)
(* structured program, and applyOperations runs the program one operation  *)
(* at a time against the current document: the condition gate, the        *)
(* negative-index resolution, and set, delete, move, prepend and append.   *)
(*                                                                         *)
(* A JSON document is a function from top-level keys to values. A value is *)
(* a scalar, an array (a sequence of values) or an object (a function from *)
(* member names to values). Strings are sequences of one-character         *)
(* strings, so that prefix, suffix and contains compare what the code      *)
(* compares. Paths are a top-level key, or a key and an index, which names *)
(* an array item or an object member. gjson and sjson, which read and      *)
(* write paths, are libraries outside the repository: they are modelled    *)
(* by their documented behaviour. The texts of nested arrays and objects   *)
(* (gjson's Raw) are abstracted to their brackets.                         *)
(***************************************************************************)
EXTENDS Integers, Sequences, SequencesExt, TLC

CONSTANTS
    Keys,           \* the keys of documents and objects
    InputDocs,      \* request bodies the rewriter is applied to
    InputOverrides  \* the channels' param_override settings

-----------------------------------------------------------------------------
Missing == [t |-> "missing"]
Null == [t |-> "null"]
Num(n) == [t |-> "num", v |-> n]
Str(s) == [t |-> "str", v |-> s]
Bool(b) == [t |-> "bool", v |-> b]
Arr(s) == [t |-> "arr", v |-> s]
Obj(f) == [t |-> "obj", v |-> f]

\* A path: a top-level key, or a key and an array index.
Top(k) == [key |-> k]
At(k, i) == [key |-> k, idx |-> i]
HasIdx(p) == "idx" \in DOMAIN p

(***************************************************************************)
(* The shape of the values a document holds: a JSON tag, and an array's    *)
(* items a sequence. Items may be arrays again: an indexed set or move     *)
(* nests one value in another.                                             *)
(***************************************************************************)
ValueTags == {"null", "num", "str", "bool", "obj", "arr"}
IsSeq(s) == s \in Seq(Range(s))
ValueOK(v) == v.t \in ValueTags /\ (v.t = "arr" => IsSeq(v.v))

\* gjson's Type: booleans are the two types True and False, arrays and
\* objects the one type JSON.
GType(v) ==
    CASE v.t \in {"arr", "obj"} -> "JSON"
      [] v.t = "bool"           -> IF v.v THEN "True" ELSE "False"
      [] OTHER                  -> v.t

Digits == <<"0", "1", "2", "3", "4", "5", "6", "7", "8", "9">>

\* gjson Result.String(): numbers in decimal (one digit here), the raw text
\* of arrays and objects.
ValueString(v) ==
    IF v.t = "str" THEN v.v
    ELSE IF v.t = "num" THEN <<Digits[v.v + 1]>>
    ELSE IF v.t = "bool" THEN IF v.v THEN <<"t", "r", "u", "e">>
                                     ELSE <<"f", "a", "l", "s", "e">>
    ELSE IF v.t = "arr" THEN <<"[", "]">>
    ELSE IF v.t = "obj" THEN <<"{", "}">>
    ELSE <<>>

\* fmt.Sprintf("%v", value) of the decoded Go value (modifyString).
GoString(v) ==
    IF v.t = "null" THEN <<"<", "n", "i", "l", ">">>
    ELSE IF v.t = "obj" THEN <<"m", "a", "p", "[", "]">>
    ELSE ValueString(v)

(***************************************************************************)
(* An index names an item of an array (items count from 0) or the member  *)
(* of an object whose name is the index's text.                           *)
(***************************************************************************)
Slot(v, i) == IF v.t = "arr" THEN i + 1 ELSE i

\* The value a key holds, or Missing.
AtKey(d, x) == IF x \in DOMAIN d THEN d[x] ELSE Missing

\* gjson.Get with a path.
GetPath(d, p) ==
    IF p.key \notin DOMAIN d THEN Missing
    ELSE IF ~HasIdx(p) THEN d[p.key]
    ELSE IF d[p.key].t \in {"arr", "obj"} /\ Slot(d[p.key], p.idx) \in DOMAIN d[p.key].v
         THEN d[p.key].v[Slot(d[p.key], p.idx)]
         ELSE Missing

Nulls(n) == [j \in 1..n |-> Null]

(***************************************************************************)
(* sjson.Set on a key and an index, when the key holds cur: an item of an  *)
(* array is replaced, an index past the end pads the array with nulls, -1 *)
(* appends; an object gets the member; a missing key or a scalar becomes a *)
(* new array, or for a negative index a new object (-1 on a missing key    *)
(* builds an array).                                                       *)
(***************************************************************************)
SetIndexed(cur, i, v) ==
    IF cur.t = "arr"
      THEN IF i + 1 \in DOMAIN cur.v THEN Arr([cur.v EXCEPT ![i + 1] = v])
           ELSE IF i = -1 THEN Arr(Append(cur.v, v))
           ELSE Arr(cur.v \o Nulls(i - Len(cur.v)) \o <<v>>)
    ELSE IF cur.t = "obj"
      THEN Obj([y \in DOMAIN cur.v \cup {i} |-> IF y = i THEN v ELSE cur.v[y]])
    ELSE IF i >= 0 THEN Arr(Nulls(i) \o <<v>>)
    ELSE IF i = -1 /\ cur = Missing THEN Arr(<<v>>)
    ELSE Obj([y \in {i} |-> v])

\* sjson.Set refuses an index below -1 into an array: it is no number.
SetFails(d, p) == HasIdx(p) /\ AtKey(d, p.key).t = "arr" /\ p.idx < -1

\* The document sjson.Set produces when it does not fail.
SetPath(d, p, v) ==
    [x \in DOMAIN d \cup {p.key} |->
        IF x # p.key THEN d[x]
        ELSE IF HasIdx(p) THEN SetIndexed(AtKey(d, x), p.idx, v)
        ELSE v]

\* sjson.Delete: a missing path leaves the document as it is.
DeletePath(d, p) ==
    IF p.key \notin DOMAIN d THEN d
    ELSE IF ~HasIdx(p) THEN [x \in DOMAIN d \ {p.key} |-> d[x]]
    ELSE IF GetPath(d, p) = Missing THEN d
    ELSE IF d[p.key].t = "arr"
         THEN [d EXCEPT ![p.key] = Arr(RemoveAt(@.v, p.idx + 1))]
         ELSE [d EXCEPT ![p.key] = Obj([y \in DOMAIN @.v \ {p.idx} |-> @.v[y]])]

\* Mutant: the negative index counted one further from the end.
ProcessNegativeIndexOffByOne(d, p) ==
    IF /\ HasIdx(p)
       /\ p.idx < 0
       /\ p.key \in DOMAIN d
       /\ d[p.key].t = "arr"
       /\ Len(d[p.key].v) + p.idx - 1 >= 0
    THEN [p EXCEPT !.idx = Len(d[p.key].v) + p.idx - 1]
    ELSE p

(***************************************************************************)
(* processNegativeIndex (lines 184-213) for a path with one index: a       *)
(* negative index counts from the end of the array the document holds     *)
(* now; an index out of range leaves the path as it is.                    *)
(***************************************************************************)
ProcessNegativeIndex(d, p) ==
    IF /\ HasIdx(p)
       /\ p.idx < 0
       /\ p.key \in DOMAIN d
       /\ d[p.key].t = "arr"
       /\ Len(d[p.key].v) + p.idx >= 0
    THEN [p EXCEPT !.idx = Len(d[p.key].v) + p.idx]
    ELSE p
-----------------------------------------------------------------------------
(***************************************************************************)
(* Conditions (lines 125-284). A comparison yields a result or an error.   *)
(***************************************************************************)
Res(b) == [err |-> FALSE, val |-> b]
Failed == [err |-> TRUE, val |-> FALSE]

\* compareEqual (lines 239-261): two booleans compare by value; otherwise
\* the gjson types must agree or the comparison fails with an error.
CompareEqual(jv, tv) ==
    IF jv.t = "bool" /\ tv.t = "bool" THEN Res(jv.v = tv.v)
    ELSE IF GType(jv) # GType(tv) THEN Failed
    ELSE IF jv.t \in {"num", "str"} THEN Res(jv.v = tv.v)
    ELSE Res(ValueString(jv) = ValueString(tv))

\* compareNumeric (lines 263-284): both sides must be numbers.
CompareNumeric(jv, tv, op) ==
    IF jv.t # "num" \/ tv.t # "num" THEN Failed
    ELSE Res(CASE op = "gt"  -> jv.v > tv.v
               [] op = "gte" -> jv.v >= tv.v
               [] op = "lt"  -> jv.v < tv.v
               [] op = "lte" -> jv.v <= tv.v)

\* compareGjsonValues (lines 216-237); the mode is already lower-cased.
CompareGjsonValues(jv, tv, mode) ==
    CASE mode = "full"     -> CompareEqual(jv, tv)
      [] mode = "prefix"   -> Res(IsPrefix(ValueString(tv), ValueString(jv)))
      [] mode = "suffix"   -> Res(IsSuffix(ValueString(tv), ValueString(jv)))
      [] mode = "contains" -> Res(ValueString(tv) \in SubSeqs(ValueString(jv)))
      [] mode \in {"gt", "gte", "lt", "lte"} -> CompareNumeric(jv, tv, mode)
      [] OTHER             -> Failed

(***************************************************************************)
(* checkSingleCondition (lines 155-182): a missing path passes iff         *)
(* pass_missing_key; an error is returned as it is; invert flips a result. *)
(***************************************************************************)
CheckSingleCondition(d, c) ==
    LET v == GetPath(d, ProcessNegativeIndex(d, c.path))
        r == CompareGjsonValues(v, c.value, c.mode)
    IN  IF v = Missing THEN Res(c.passMissingKey)
        ELSE IF r.err THEN r
        ELSE Res(r.val # c.invert)

\* strings.ToUpper(logic) == "AND".
AndSpellings == {"AND", "ANd", "AnD", "And", "aND", "aNd", "anD", "and"}

(***************************************************************************)
(* checkConditions (lines 125-153): no condition passes; the first error  *)
(* aborts; AND needs every result, anything else (OR) one of them.         *)
(***************************************************************************)
CheckConditions(d, cs, logic) ==
    LET rs == [j \in 1..Len(cs) |-> CheckSingleCondition(d, cs[j])] IN
    IF \E j \in 1..Len(cs) : rs[j].err THEN Failed
    ELSE IF cs = <<>> THEN Res(TRUE)
    ELSE IF logic \in AndSpellings THEN Res(\A j \in 1..Len(cs) : rs[j].val)
    ELSE Res(\E j \in 1..Len(cs) : rs[j].val)
-----------------------------------------------------------------------------
(***************************************************************************)
(* Operations (lines 341-435). An execution yields a document or an error. *)
(***************************************************************************)
Ok(d) == [err |-> FALSE, doc |-> d]
ExecFailed == [err |-> TRUE, doc |-> <<>>]

\* sjson.Set, with its error.
SetResult(d, p, v) == IF SetFails(d, p) THEN ExecFailed ELSE Ok(SetPath(d, p, v))

\* modifyArray (lines 366-392): an array value is spliced in item by item.
Items(v) == IF v.t = "arr" THEN v.v ELSE <<v>>

\* Mutant: prepend and append swapped.
ModifyArraySwapped(d, p, value, isPrepend) ==
    LET cur == GetPath(d, p).v IN
    SetResult(d, p, Arr(IF isPrepend THEN cur \o Items(value)
                                     ELSE Items(value) \o cur))

ModifyArray(d, p, value, isPrepend) ==
    LET cur == GetPath(d, p).v IN
    SetResult(d, p, Arr(IF isPrepend THEN Items(value) \o cur
                                     ELSE cur \o Items(value)))

\* modifyString (lines 394-404).
ModifyString(d, p, value, isPrepend) ==
    LET cur == GetPath(d, p).v IN
    SetResult(d, p, Str(IF isPrepend THEN GoString(value) \o cur
                                     ELSE cur \o GoString(value)))

(***************************************************************************)
(* mergeObjects (lines 406-435). A non-object value fails to unmarshal     *)
(* into a map, except null, which yields an empty map. With keep_origin a  *)
(* key is taken from the value when result[k] == nil: absent, or null.     *)
(***************************************************************************)
MergeObjects(d, p, value, keepOrigin) ==
    LET cur == GetPath(d, p).v
        new == IF value.t = "obj" THEN value.v ELSE <<>>
        Keep(k) == keepOrigin /\ k \in DOMAIN cur /\ cur[k] # Null
    IN  IF value.t \notin {"obj", "null"} THEN ExecFailed
        ELSE SetResult(d, p, Obj([k \in DOMAIN cur \cup DOMAIN new |->
                                    IF k \in DOMAIN new /\ ~Keep(k)
                                      THEN new[k] ELSE cur[k]]))

\* modifyValue (lines 353-364): by the type of the current value.
ModifyValue(d, p, value, keepOrigin, isPrepend) ==
    IF GetPath(d, p).t = "arr" THEN ModifyArray(d, p, value, isPrepend)
    ELSE IF GetPath(d, p).t = "str" THEN ModifyString(d, p, value, isPrepend)
    ELSE IF GetPath(d, p).t = "obj" THEN MergeObjects(d, p, value, keepOrigin)
    ELSE ExecFailed

\* moveValue (lines 341-351): set at the target, then delete the source.
MoveValue(d, from, to) ==
    IF GetPath(d, from) = Missing THEN ExecFailed
    ELSE IF SetFails(d, to) THEN ExecFailed
    ELSE Ok(DeletePath(SetPath(d, to, GetPath(d, from)), from))

(***************************************************************************)
(* The switch of applyOperations (lines 312-336), on paths resolved        *)
(* against the current document. A set with keep_origin on an existing     *)
(* path continues without a change.                                        *)
(***************************************************************************)
ExecOperation(d, op) ==
    LET path == ProcessNegativeIndex(d, op.path)
        from == ProcessNegativeIndex(d, op.from)
        to   == ProcessNegativeIndex(d, op.to)
    IN  IF op.mode = "delete" THEN Ok(DeletePath(d, path))
        ELSE IF op.mode = "set"
          THEN IF op.keepOrigin /\ GetPath(d, path) # Missing
                 THEN Ok(d)
                 ELSE SetResult(d, path, op.value)
        ELSE IF op.mode = "move" THEN MoveValue(d, from, to)
        ELSE IF op.mode = "prepend"
          THEN ModifyValue(d, path, op.value, op.keepOrigin, TRUE)
        ELSE IF op.mode = "append"
          THEN ModifyValue(d, path, op.value, op.keepOrigin, FALSE)
        ELSE ExecFailed
-----------------------------------------------------------------------------
(***************************************************************************)
(* A param_override setting: empty, a legacy map of top-level keys, or     *)
(* {"operations": [...]}, where an operation with no string "mode" is      *)
(* NoMode.                                                                 *)
(***************************************************************************)
NoMode == "(no mode)"

\* The "operations" list itself, as a value merged into a body.
OperationsList == [t |-> "operations_list"]

\* tryParseOperations (lines 48-123): every operation must carry a mode.
TryParseOperations(ov) ==
    ov.kind = "ops" /\ \A j \in 1..Len(ov.ops) : ov.ops[j].mode # NoMode

\* The map applyOperationsLegacy merges: the setting as it is.
LegacyMap(ov) ==
    IF ov.kind = "map" THEN ov.m ELSE [x \in {"operations"} |-> OperationsList]

\* applyOperationsLegacy (lines 287-299): reqMap[key] = value for every key
\* of the setting; the body's other keys stay.
MergeLegacy(m, d) ==
    [x \in DOMAIN m \cup DOMAIN d |-> IF x \in DOMAIN m THEN m[x] ELSE d[x]]

\* A document: top-level keys of Keys, each holding a value of that shape.
DocOK(d) == DOMAIN d \subseteq Keys /\ \A x \in DOMAIN d : ValueOK(d[x])

\* An operation's paths are paths of Keys, and its value has that shape.
Path == [key : Keys] \cup [key : Keys, idx : Int]
OpOK(op) == {op.path, op.from, op.to} \subseteq Path /\ ValueOK(op.value)

(***************************************************************************)
(* The bodies and settings the rewriter is given are JSON of those shapes: *)
(* a legacy setting is a document, a program a sequence of operations.    *)
(***************************************************************************)
ASSUME InputsAssumption ==
    /\ \A d \in InputDocs : DocOK(d)
    /\ \A ov \in InputOverrides :
          /\ ov.kind \in {"empty", "map", "ops"}
          /\ ov.kind = "map" => DocOK(ov.m)
          /\ ov.kind = "ops" => IsSeq(ov.ops) /\ \A j \in 1..Len(ov.ops) : OpOK(ov.ops[j])

VARIABLES
    override,  \* the setting being applied
    doc,       \* the document: result in applyOperations
    ops,       \* the parsed operations
    k,         \* the index of the operation applyOperations is at
    phase      \* "start", "running", "ok", or which return ended in error

vars == <<override, doc, ops, k, phase>>

Phases == {"start", "running", "ok", "condition_error", "operation_error"}

\* The document's top-level keys stay among Keys (a legacy merge, which
\* ends the run, may add the operations list), the program keeps its
\* shape, and the loop index stays within the program.
TypeOK ==
    /\ override \in InputOverrides
    /\ DOMAIN doc \subseteq Keys \cup {"operations"}
    /\ phase # "ok" => DOMAIN doc \subseteq Keys
    /\ IsSeq(ops) /\ \A j \in 1..Len(ops) : OpOK(ops[j])
    /\ phase \in Phases
    /\ k \in 1..(Len(ops) + 1)
    /\ phase = "start" => k = 1

Init ==
    /\ override \in InputOverrides
    /\ doc \in InputDocs
    /\ ops = <<>>
    /\ k = 1
    /\ phase = "start"

(***************************************************************************)
(* ApplyParamOverride (lines 32-46) and applyOperationsLegacy (286-299):   *)
(* an empty setting returns the body; a parsed program starts the loop;    *)
(* anything else merges the setting into the body's top level.             *)
(***************************************************************************)
Dispatch ==
    /\ phase = "start"
    /\ \/ /\ override.kind = "empty"
          /\ phase' = "ok"
          /\ UNCHANGED <<doc, ops, k>>
       \/ /\ TryParseOperations(override)
          /\ ops' = override.ops
          /\ phase' = "running"
          /\ UNCHANGED <<doc, k>>
       \/ /\ override.kind # "empty"
          /\ ~TryParseOperations(override)
          /\ doc' = MergeLegacy(LegacyMap(override), doc)
          /\ phase' = "ok"
          /\ UNCHANGED <<ops, k>>
    /\ UNCHANGED override

\* The gate of the operation at k (lines 305-311).
Gate == CheckConditions(doc, ops[k].conditions, ops[k].logic)

\* An error from checkConditions returns from applyOperations (line 307).
ConditionFailed ==
    /\ phase = "running"
    /\ k <= Len(ops)
    /\ Gate.err
    /\ phase' = "condition_error"
    /\ UNCHANGED <<override, doc, ops, k>>

\* A false gate skips the operation (line 310).
OperationSkipped ==
    /\ phase = "running"
    /\ k <= Len(ops)
    /\ ~Gate.err
    /\ ~Gate.val
    /\ k' = k + 1
    /\ UNCHANGED <<override, doc, ops, phase>>

\* Mutant: the loop index advanced twice.
OperationAppliedSkipsNext ==
    /\ phase = "running"
    /\ k <= Len(ops)
    /\ ~Gate.err
    /\ Gate.val
    /\ ~ExecOperation(doc, ops[k]).err
    /\ doc' = ExecOperation(doc, ops[k]).doc
    /\ k' = k + 2
    /\ UNCHANGED <<override, ops, phase>>

\* The operation runs on the current document (lines 312-336).
OperationApplied ==
    /\ phase = "running"
    /\ k <= Len(ops)
    /\ ~Gate.err
    /\ Gate.val
    /\ ~ExecOperation(doc, ops[k]).err
    /\ doc' = ExecOperation(doc, ops[k]).doc
    /\ k' = k + 1
    /\ UNCHANGED <<override, ops, phase>>

\* An unknown mode or a failing operation aborts the program (332-336).
OperationFailed ==
    /\ phase = "running"
    /\ k <= Len(ops)
    /\ ~Gate.err
    /\ Gate.val
    /\ ExecOperation(doc, ops[k]).err
    /\ phase' = "operation_error"
    /\ UNCHANGED <<override, doc, ops, k>>

\* The loop ends and the result is returned (line 338).
Finish ==
    /\ phase = "running"
    /\ k > Len(ops)
    /\ phase' = "ok"
    /\ UNCHANGED <<override, doc, ops, k>>

Next ==
    \/ Dispatch
    \/ ConditionFailed
    \/ OperationSkipped
    \/ OperationApplied
    \/ OperationFailed
    \/ Finish

Spec == Init /\ [][Next]_vars

-----------------------------------------------------------------------------
(***************************************************************************)
(* Properties. A step of the loop is one with k' = k + 1.                  *)
(***************************************************************************)

\* Spec 4.1: append adds after the items the target array holds and
\* prepend before them (modifyArray, lines 384-391): the array at the
\* operation's path, resolved against the document as earlier operations
\* left it, keeps its original items in order, whatever the value spliced
\* in. A skipped operation leaves it as it was.
ArrayEditsKeepItems ==
    [][phase = "running" /\ k' = k + 1 =>
         LET p == ProcessNegativeIndex(doc, ops[k].path)
             old == GetPath(doc, p)
             new == GetPath(doc', p)
         IN  old.t = "arr" /\ IsSeq(old.v) =>
               /\ ops[k].mode = "append" => IsPrefix(old.v, new.v)
               /\ ops[k].mode = "prepend" => IsSuffix(old.v, new.v)]_vars

\* Spec 4.1 and 9: index -1 names the last item of the array a key holds
\* at that point of the program (processNegativeIndex, lines 184-213).
NegativeIndexIsLast ==
    \A x \in DOMAIN doc :
        doc[x].t = "arr" /\ IsSeq(doc[x].v) /\ doc[x].v # <<>> =>
            GetPath(doc, ProcessNegativeIndex(doc, At(x, -1))) = Last(doc[x].v)

\* Spec 4.1 and 9: a comparison between values of different types, or a
\* numeric comparison with a non-number, fails the condition; it does not
\* abort the program (checkConditions, lines 131-134).
ConditionErrorsNeverAbort == phase # "condition_error"

\* Spec 4.1: with keep_origin, an object merge preserves every key the
\* object had (mergeObjects, line 430).
MergeKeepsOriginKeys ==
    [][phase = "running" /\ k' = k + 1 /\ ops[k].keepOrigin
       /\ ops[k].mode \in {"append", "prepend"} =>
         \A x \in DOMAIN doc \cap DOMAIN doc' :
            doc[x].t = "obj" /\ doc'[x].t = "obj" =>
              \A y \in DOMAIN doc[x].v : doc'[x].v[y] = doc[x].v[y]]_vars

\* Spec 4.1 and 9: after a move the target holds the value the source held
\* (moveValue, lines 341-351).
MoveRelocatesValue ==
    [][phase = "running" /\ k' = k + 1 /\ ops[k].mode = "move" /\ Gate.val =>
         GetPath(doc', ProcessNegativeIndex(doc, ops[k].to))
           = GetPath(doc, ProcessNegativeIndex(doc, ops[k].from))]_vars

\* Spec 4.1: a setting with an "operations" list is a program; it is never
\* merged into the body as a top-level "operations" field (lines 38-45).
OperationsNeverMerged ==
    phase = "ok" /\ override.kind = "ops" => "operations" \notin DOMAIN doc
=============================================================================
