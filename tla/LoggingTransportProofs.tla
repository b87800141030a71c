------------------------ MODULE LoggingTransportProofs ------------------------
(***************************************************************************)
(* Proofs about LoggingTransport for every set of requests, body length    *)
(* and number of Close calls.                                              *)
(*                                                                         *)
(* AtMostOneLogPerRequest is not inductive: a step that posts a log must   *)
(* know that the request has none yet. LInv says exactly how many logs     *)
(* each request has: one once its body was closed or it left RoundTrip     *)
(* with an error, none before. Counting needs that posts is finite.        *)
(***************************************************************************)
EXTENDS LoggingTransport, FiniteSetTheorems, TLAPS

\* r has been logged: rc.Close ran once (closed), or RoundTrip returned an
\* error for a chat request (pc "done", target, not closed).
Logged(r) == closed[r] \/ (pc[r] = "done" /\ target[r])

\* What LInv says of one request: only a chat request reaches the upstream
\* call and the body, rc.closed is set by the first Close, and r has one
\* log once it is Logged and none before.
ReqInv(r) ==
    /\ pc[r] \in {"upstream", "reading"} => target[r]
    /\ closed[r] => target[r] /\ pc[r] \in {"reading", "done"}
    /\ closeCalls[r] > 0 => closed[r]
    /\ NumLogs(r) = IF Logged(r) THEN 1 ELSE 0

LInv ==
    /\ TypeOK
    /\ IsFiniteSet(posts)
    /\ \A r \in Reqs : ReqInv(r)
-----------------------------------------------------------------------------
(***************************************************************************)
(* Counting the logs of a request.                                         *)
(***************************************************************************)

\* The positions of a sequence that hold r's logs form a finite set.
LEMMA RowsForFinite ==
    ASSUME NEW s \in Seq(APILog), NEW r
    PROVE  /\ IsFiniteSet(RowsFor(s, r))
           /\ Cardinality(RowsFor(s, r)) \in Nat
<1>1. IsFiniteSet(1..Len(s))
  BY FS_Interval
<1>2. IsFiniteSet(RowsFor(s, r))
  BY <1>1, FS_Subset DEF RowsFor
<1>. QED
  BY <1>2, FS_CardinalityType

\* Appending a log to a sequence adds one position iff the log is r's.
LEMMA RowsForAppend ==
    ASSUME NEW s \in Seq(APILog), NEW l \in APILog, NEW r
    PROVE  Cardinality(RowsFor(Append(s, l), r))
             = Cardinality(RowsFor(s, r)) + (IF l.req = r THEN 1 ELSE 0)
<1> DEFINE n == Len(s) + 1
<1>1. n \notin RowsFor(s, r)
  BY DEF RowsFor
<1>2. RowsFor(Append(s, l), r)
        = IF l.req = r THEN RowsFor(s, r) \cup {n} ELSE RowsFor(s, r)
  BY DEF RowsFor
<1>3. IsFiniteSet(RowsFor(s, r)) /\ Cardinality(RowsFor(s, r)) \in Nat
  BY RowsForFinite
<1>4. CASE l.req = r
  <2>1. Cardinality(RowsFor(s, r) \cup {n}) = Cardinality(RowsFor(s, r)) + 1
    BY <1>1, <1>3, FS_AddElement
  <2>. QED
    BY <1>2, <1>4, <2>1
<1>5. CASE l.req # r
  BY <1>2, <1>3, <1>5
<1>. QED
  BY <1>4, <1>5

\* The pending goroutines that hold r's logs form a finite set.
LEMMA PostsForFinite ==
    ASSUME NEW P, IsFiniteSet(P), NEW r
    PROVE  /\ IsFiniteSet(PostsFor(P, r))
           /\ Cardinality(PostsFor(P, r)) \in Nat
<1>1. IsFiniteSet(PostsFor(P, r))
  BY FS_Subset DEF PostsFor
<1>. QED
  BY <1>1, FS_CardinalityType

\* A goroutine started for a log of r adds one to r's pending logs and
\* none to another request's.
LEMMA PostsForAdd ==
    ASSUME NEW P, IsFiniteSet(P), NEW x, x \notin P, NEW r
    PROVE  Cardinality(PostsFor(P \cup {x}, r))
             = Cardinality(PostsFor(P, r)) + (IF x[1].req = r THEN 1 ELSE 0)
<1>1. PostsFor(P \cup {x}, r)
        = IF x[1].req = r THEN PostsFor(P, r) \cup {x} ELSE PostsFor(P, r)
  BY DEF PostsFor
<1>2. x \notin PostsFor(P, r)
  BY DEF PostsFor
<1>3. IsFiniteSet(PostsFor(P, r)) /\ Cardinality(PostsFor(P, r)) \in Nat
  BY PostsForFinite
<1>4. CASE x[1].req = r
  <2>1. Cardinality(PostsFor(P, r) \cup {x}) = Cardinality(PostsFor(P, r)) + 1
    BY <1>2, <1>3, FS_AddElement
  <2>. QED
    BY <1>1, <1>4, <2>1
<1>5. CASE x[1].req # r
  BY <1>1, <1>3, <1>5
<1>. QED
  BY <1>4, <1>5

\* A goroutine that ends takes one from the pending logs of its request.
LEMMA PostsForRemove ==
    ASSUME NEW P, IsFiniteSet(P), NEW x \in P, NEW r
    PROVE  Cardinality(PostsFor(P \ {x}, r))
             = Cardinality(PostsFor(P, r)) - (IF x[1].req = r THEN 1 ELSE 0)
<1>1. PostsFor(P \ {x}, r)
        = IF x[1].req = r THEN PostsFor(P, r) \ {x} ELSE PostsFor(P, r)
  BY DEF PostsFor
<1>2. IsFiniteSet(PostsFor(P, r)) /\ Cardinality(PostsFor(P, r)) \in Nat
  BY PostsForFinite
<1>3. CASE x[1].req = r
  <2>1. x \in PostsFor(P, r)
    BY <1>3 DEF PostsFor
  <2>2. Cardinality(PostsFor(P, r) \ {x}) = Cardinality(PostsFor(P, r)) - 1
    BY <1>2, <2>1, FS_RemoveElement
  <2>. QED
    BY <1>1, <1>3, <2>2
<1>4. CASE x[1].req # r
  BY <1>1, <1>2, <1>4
<1>. QED
  BY <1>3, <1>4
-----------------------------------------------------------------------------
(***************************************************************************)
(* How each kind of step changes the count of logs.                       *)
(***************************************************************************)

\* Under LInv each of the three counts of a request is a natural.
LEMMA CountsNat ==
    ASSUME LInv, NEW r
    PROVE  /\ Cardinality(PostsFor(posts, r)) \in Nat
           /\ Cardinality(RowsFor(rows, r)) \in Nat
           /\ Cardinality(RowsFor(dropped, r)) \in Nat
BY PostsForFinite, RowsForFinite DEF LInv, TypeOK

\* A step that leaves the goroutines and the table alone leaves every count.
LEMMA LogsFrame ==
    ASSUME UNCHANGED <<posts, rows, dropped>>, NEW r
    PROVE  NumLogs(r)' = NumLogs(r)
BY DEF NumLogs, PostsFor, RowsFor

\* PostProcess(l) for a request with no log yet starts a goroutine that is
\* not among the pending ones, and gives that request its first log.
LEMMA PostProcessLogs ==
    ASSUME LInv, NEW l \in APILog, PostProcess(l), UNCHANGED <<rows, dropped>>,
           NumLogs(l.req) = 0
    PROVE  /\ IsFiniteSet(posts')
           /\ posts' \subseteq APILog \X Nat
           /\ \A r \in Reqs : NumLogs(r)' = NumLogs(r) + (IF l.req = r THEN 1 ELSE 0)
<1> DEFINE x == <<l, Cardinality(posts) + Len(rows) + Len(dropped)>>
<1>1. posts' = posts \cup {x}
  BY DEF PostProcess
<1>2. IsFiniteSet(posts) /\ Cardinality(posts) \in Nat
  BY FS_CardinalityType DEF LInv
<1>3. x \in APILog \X Nat
  BY <1>2 DEF LInv, TypeOK
<1>4. x \notin posts
  <2>0. /\ Cardinality(PostsFor(posts, l.req)) \in Nat
        /\ Cardinality(RowsFor(rows, l.req)) \in Nat
        /\ Cardinality(RowsFor(dropped, l.req)) \in Nat
    BY CountsNat
  <2>1. Cardinality(PostsFor(posts, l.req)) = 0
    BY <2>0 DEF NumLogs
  <2>2. PostsFor(posts, l.req) = {}
    BY <1>2, <2>1, PostsForFinite, FS_EmptySet
  <2>. QED
    BY <2>2 DEF PostsFor
<1>5. IsFiniteSet(posts')
  BY <1>1, <1>2, FS_AddElement
<1>6. ASSUME NEW r \in Reqs
      PROVE  NumLogs(r)' = NumLogs(r) + (IF l.req = r THEN 1 ELSE 0)
  <2>1. Cardinality(PostsFor(posts', r))
          = Cardinality(PostsFor(posts, r)) + (IF l.req = r THEN 1 ELSE 0)
    BY <1>1, <1>2, <1>4, PostsForAdd
  <2>2. /\ RowsFor(rows, r)' = RowsFor(rows, r)
        /\ RowsFor(dropped, r)' = RowsFor(dropped, r)
    BY DEF RowsFor
  <2>. QED
    BY <2>1, <2>2, CountsNat DEF NumLogs, PostsFor
<1>. QED
  BY <1>1, <1>3, <1>5, <1>6 DEF LInv, TypeOK

\* The goroutine of PostProcess moves its log from the pending ones into
\* api_log or the error log: no count changes.
LEMMA InsertLogs ==
    ASSUME LInv, NEW p \in posts, Insert(p)
    PROVE  /\ IsFiniteSet(posts')
           /\ posts' \subseteq APILog \X Nat
           /\ rows' \in Seq(APILog) /\ dropped' \in Seq(APILog)
           /\ \A r \in Reqs : NumLogs(r)' = NumLogs(r)
<1>1. /\ IsFiniteSet(posts)
      /\ p[1] \in APILog
      /\ rows \in Seq(APILog) /\ dropped \in Seq(APILog)
      /\ posts' = posts \ {p}
  BY DEF LInv, TypeOK, Insert
<1>2. IsFiniteSet(posts') /\ posts' \subseteq APILog \X Nat
  BY <1>1, FS_RemoveElement DEF LInv, TypeOK
<1>3. ASSUME NEW r \in Reqs
      PROVE  Cardinality(PostsFor(posts', r))
               = Cardinality(PostsFor(posts, r)) - (IF p[1].req = r THEN 1 ELSE 0)
  BY <1>1, PostsForRemove
<1>4. CASE rows' = Append(rows, p[1]) /\ UNCHANGED dropped
  <2>1. ASSUME NEW r \in Reqs
        PROVE  Cardinality(RowsFor(rows', r))
                 = Cardinality(RowsFor(rows, r)) + (IF p[1].req = r THEN 1 ELSE 0)
    BY <1>1, <1>4, RowsForAppend
  <2>2. \A r \in Reqs : NumLogs(r)' = NumLogs(r)
    BY <1>3, <1>4, <2>1, CountsNat DEF NumLogs
  <2>. QED
    BY <1>1, <1>2, <1>4, <2>2
<1>5. CASE dropped' = Append(dropped, p[1]) /\ UNCHANGED rows
  <2>1. ASSUME NEW r \in Reqs
        PROVE  Cardinality(RowsFor(dropped', r))
                 = Cardinality(RowsFor(dropped, r)) + (IF p[1].req = r THEN 1 ELSE 0)
    BY <1>1, <1>5, RowsForAppend
  <2>2. \A r \in Reqs : NumLogs(r)' = NumLogs(r)
    BY <1>3, <1>5, <2>1, CountsNat DEF NumLogs
  <2>. QED
    BY <1>1, <1>2, <1>5, <2>2
<1>. QED
  BY <1>4, <1>5 DEF Insert
-----------------------------------------------------------------------------
(***************************************************************************)
(* LInv is inductive.                                                      *)
(***************************************************************************)

LEMMA InitLInv == Init => LInv
<1> SUFFICES ASSUME Init PROVE LInv
  OBVIOUS
<1>1. \A r \in Reqs : PostsFor(posts, r) = {} /\ RowsFor(rows, r) = {}
                      /\ RowsFor(dropped, r) = {}
  BY DEF Init, PostsFor, RowsFor
<1>2. \A r \in Reqs : NumLogs(r) = 0
  BY <1>1, FS_EmptySet DEF NumLogs
<1>3. TypeOK
  BY ChunksAssumption, ClosesAssumption DEF Init, TypeOK
<1>4. \A r \in Reqs : ReqInv(r)
  BY <1>2 DEF Init, ReqInv, Logged
<1>. QED
  BY <1>3, <1>4, FS_EmptySet DEF Init, LInv

\* A request the step does not touch keeps ReqInv if its count is kept.
LEMMA OtherReqFrame ==
    ASSUME NEW r2, ReqInv(r2), NumLogs(r2)' = NumLogs(r2),
           target'[r2] = target[r2], pc'[r2] = pc[r2],
           closeCalls'[r2] = closeCalls[r2], closed'[r2] = closed[r2]
    PROVE  ReqInv(r2)'
BY DEF ReqInv, Logged

LEMMA PassthroughLInv ==
    ASSUME LInv, NEW r \in Reqs, Passthrough(r)
    PROVE  LInv'
<1>1. \A r2 \in Reqs : NumLogs(r2)' = NumLogs(r2)
  BY LogsFrame DEF Passthrough
<1>2. ReqInv(r)'
  BY <1>1 DEF Passthrough, LInv, TypeOK, ReqInv, Logged
<1>3. \A r2 \in Reqs \ {r} : ReqInv(r2)'
  BY <1>1, OtherReqFrame DEF Passthrough, LInv
<1>. QED
  BY <1>2, <1>3 DEF Passthrough, LInv, TypeOK

LEMMA ReadRequestBodyLInv ==
    ASSUME LInv, NEW r \in Reqs, ReadRequestBody(r)
    PROVE  LInv'
<1>0. pc[r] = "send" /\ target[r] /\ ~closed[r] /\ NumLogs(r) = 0
  BY DEF ReadRequestBody, LInv, ReqInv, Logged
<1>1. CASE pc' = [pc EXCEPT ![r] = "upstream"] /\ UNCHANGED posts
  <2>1. \A r2 \in Reqs : NumLogs(r2)' = NumLogs(r2)
    BY <1>1, LogsFrame DEF ReadRequestBody
  <2>2. ReqInv(r)'
    BY <1>0, <1>1, <2>1 DEF ReadRequestBody, LInv, TypeOK, ReqInv, Logged
  <2>3. \A r2 \in Reqs \ {r} : ReqInv(r2)'
    BY <1>1, <2>1, OtherReqFrame DEF ReadRequestBody, LInv
  <2>. QED
    BY <1>1, <2>2, <2>3 DEF ReadRequestBody, LInv, TypeOK
<1>2. CASE pc' = [pc EXCEPT ![r] = "done"]
           /\ PostProcess([req |-> r, res |-> 0, err |-> TRUE])
  <2> DEFINE l == [req |-> r, res |-> 0, err |-> TRUE]
  <2>0. l \in APILog /\ l.req = r
    BY ChunksAssumption DEF APILog
  <2>1. /\ IsFiniteSet(posts')
        /\ posts' \subseteq APILog \X Nat
        /\ \A r2 \in Reqs : NumLogs(r2)' = NumLogs(r2) + (IF l.req = r2 THEN 1 ELSE 0)
    BY <1>0, <1>2, <2>0, PostProcessLogs DEF ReadRequestBody
  <2>2. ReqInv(r)'
    BY <1>0, <1>2, <2>0, <2>1 DEF ReadRequestBody, LInv, TypeOK, ReqInv, Logged
  <2>3. ASSUME NEW r2 \in Reqs \ {r} PROVE ReqInv(r2)'
    <3>1. NumLogs(r2)' = NumLogs(r2)
      BY <2>0, <2>1 DEF LInv, ReqInv
    <3>2. /\ target'[r2] = target[r2] /\ pc'[r2] = pc[r2]
          /\ closeCalls'[r2] = closeCalls[r2] /\ closed'[r2] = closed[r2]
      BY <1>2 DEF ReadRequestBody
    <3>. QED
      BY <3>1, <3>2, OtherReqFrame DEF LInv
  <2>. QED
    BY <1>2, <2>1, <2>2, <2>3 DEF ReadRequestBody, LInv, TypeOK
<1>. QED
  BY <1>1, <1>2 DEF ReadRequestBody

LEMMA UpstreamLInv ==
    ASSUME LInv, NEW r \in Reqs, Upstream(r)
    PROVE  LInv'
<1>0. pc[r] = "upstream" /\ target[r] /\ ~closed[r] /\ NumLogs(r) = 0
  BY DEF Upstream, LInv, ReqInv, Logged
<1>1. CASE pc' = [pc EXCEPT ![r] = "reading"] /\ conn' = [conn EXCEPT ![r] = "held"]
           /\ UNCHANGED posts
  <2>1. \A r2 \in Reqs : NumLogs(r2)' = NumLogs(r2)
    BY <1>1, LogsFrame DEF Upstream
  <2>2. ReqInv(r)'
    BY <1>0, <1>1, <2>1 DEF Upstream, LInv, TypeOK, ReqInv, Logged
  <2>3. \A r2 \in Reqs \ {r} : ReqInv(r2)'
    BY <1>1, <2>1, OtherReqFrame DEF Upstream, LInv
  <2>. QED
    BY <1>1, <2>2, <2>3 DEF Upstream, LInv, TypeOK
<1>2. CASE pc' = [pc EXCEPT ![r] = "done"] /\ UNCHANGED conn
           /\ PostProcess([req |-> r, res |-> 0, err |-> TRUE])
  <2> DEFINE l == [req |-> r, res |-> 0, err |-> TRUE]
  <2>0. l \in APILog /\ l.req = r
    BY ChunksAssumption DEF APILog
  <2>1. /\ IsFiniteSet(posts')
        /\ posts' \subseteq APILog \X Nat
        /\ \A r2 \in Reqs : NumLogs(r2)' = NumLogs(r2) + (IF l.req = r2 THEN 1 ELSE 0)
    BY <1>0, <1>2, <2>0, PostProcessLogs DEF Upstream
  <2>2. ReqInv(r)'
    BY <1>0, <1>2, <2>0, <2>1 DEF Upstream, LInv, TypeOK, ReqInv, Logged
  <2>3. ASSUME NEW r2 \in Reqs \ {r} PROVE ReqInv(r2)'
    <3>1. NumLogs(r2)' = NumLogs(r2)
      BY <2>0, <2>1 DEF LInv, ReqInv
    <3>2. /\ target'[r2] = target[r2] /\ pc'[r2] = pc[r2]
          /\ closeCalls'[r2] = closeCalls[r2] /\ closed'[r2] = closed[r2]
      BY <1>2 DEF Upstream
    <3>. QED
      BY <3>1, <3>2, OtherReqFrame DEF LInv
  <2>. QED
    BY <1>2, <2>1, <2>2, <2>3 DEF Upstream, LInv, TypeOK
<1>. QED
  BY <1>1, <1>2 DEF Upstream

LEMMA ReadLInv ==
    ASSUME LInv, NEW r \in Reqs, Read(r)
    PROVE  LInv'
<1>1. \A r2 \in Reqs : NumLogs(r2)' = NumLogs(r2)
  BY LogsFrame DEF Read
<1>2. \A r2 \in Reqs : ReqInv(r2)'
  BY <1>1, OtherReqFrame DEF Read, LInv
<1>3. read' \in [Reqs -> 0..Chunks]
  BY ChunksAssumption DEF Read, LInv, TypeOK
<1>4. conn' \in [Reqs -> {"none", "held", "released"}]
  BY DEF Read, LInv, TypeOK
<1>. QED
  BY <1>2, <1>3, <1>4 DEF Read, LInv, TypeOK

LEMMA CloseLInv ==
    ASSUME LInv, NEW r \in Reqs, Close(r)
    PROVE  LInv'
<1>0. /\ pc[r] = "reading" /\ target[r]
      /\ closeCalls' = [closeCalls EXCEPT ![r] = @ + 1]
      /\ closeCalls' \in [Reqs -> 0..Closes]
  BY ClosesAssumption DEF Close, LInv, ReqInv, TypeOK
<1>1. CASE closed[r]
  <2>1. UNCHANGED <<closed, posts>>
    BY <1>1 DEF Close
  <2>2. \A r2 \in Reqs : NumLogs(r2)' = NumLogs(r2)
    BY <2>1, LogsFrame DEF Close
  <2>3. ReqInv(r)'
    BY <1>0, <1>1, <2>1, <2>2 DEF Close, LInv, ReqInv, Logged
  <2>4. \A r2 \in Reqs \ {r} : ReqInv(r2)'
    BY <1>0, <2>1, <2>2, OtherReqFrame DEF Close, LInv
  <2>. QED
    BY <1>0, <2>1, <2>3, <2>4 DEF Close, LInv, TypeOK
<1>2. CASE ~closed[r]
  <2> DEFINE l == [req |-> r, res |-> read[r], err |-> FALSE]
  <2>0. /\ l \in APILog /\ l.req = r
        /\ closed' = [closed EXCEPT ![r] = TRUE]
        /\ PostProcess(l)
        /\ NumLogs(r) = 0
    BY <1>0, <1>2 DEF Close, APILog, LInv, TypeOK, ReqInv, Logged
  <2>1. /\ IsFiniteSet(posts')
        /\ posts' \subseteq APILog \X Nat
        /\ \A r2 \in Reqs : NumLogs(r2)' = NumLogs(r2) + (IF l.req = r2 THEN 1 ELSE 0)
    BY <2>0, PostProcessLogs DEF Close
  <2>2. ReqInv(r)'
    BY <1>0, <2>0, <2>1 DEF Close, LInv, TypeOK, ReqInv, Logged
  <2>3. ASSUME NEW r2 \in Reqs \ {r} PROVE ReqInv(r2)'
    <3>1. NumLogs(r2)' = NumLogs(r2)
      BY <2>0, <2>1 DEF LInv, ReqInv
    <3>2. /\ target'[r2] = target[r2] /\ pc'[r2] = pc[r2]
          /\ closeCalls'[r2] = closeCalls[r2] /\ closed'[r2] = closed[r2]
      BY <1>0, <2>0 DEF Close
    <3>. QED
      BY <3>1, <3>2, OtherReqFrame DEF LInv
  <2>. QED
    BY <1>0, <2>0, <2>1, <2>2, <2>3 DEF Close, LInv, TypeOK
<1>. QED
  BY <1>1, <1>2

LEMMA FinishLInv ==
    ASSUME LInv, NEW r \in Reqs, Finish(r)
    PROVE  LInv'
<1>1. \A r2 \in Reqs : NumLogs(r2)' = NumLogs(r2)
  BY LogsFrame DEF Finish
<1>2. ReqInv(r)'
  BY <1>1 DEF Finish, LInv, TypeOK, ReqInv, Logged
<1>3. \A r2 \in Reqs \ {r} : ReqInv(r2)'
  BY <1>1, OtherReqFrame DEF Finish, LInv
<1>. QED
  BY <1>2, <1>3 DEF Finish, LInv, TypeOK

LEMMA InsertLInv ==
    ASSUME LInv, NEW p \in posts, Insert(p)
    PROVE  LInv'
<1>1. /\ IsFiniteSet(posts')
      /\ posts' \subseteq APILog \X Nat
      /\ rows' \in Seq(APILog) /\ dropped' \in Seq(APILog)
      /\ \A r \in Reqs : NumLogs(r)' = NumLogs(r)
  BY InsertLogs
<1>2. \A r \in Reqs : ReqInv(r)'
  BY <1>1, OtherReqFrame DEF Insert, LInv
<1>. QED
  BY <1>1, <1>2 DEF Insert, LInv, TypeOK

LEMMA NextLInv == LInv /\ [Next]_vars => LInv'
<1> SUFFICES ASSUME LInv, [Next]_vars PROVE LInv'
  OBVIOUS
<1>1. CASE \E r \in Reqs : Passthrough(r) \/ ReadRequestBody(r) \/ Upstream(r)
  BY <1>1, PassthroughLInv, ReadRequestBodyLInv, UpstreamLInv
<1>2. CASE \E r \in Reqs : Read(r) \/ Close(r) \/ Finish(r)
  BY <1>2, ReadLInv, CloseLInv, FinishLInv
<1>3. CASE \E p \in posts : Insert(p)
  BY <1>3, InsertLInv
<1>4. CASE UNCHANGED vars
  <2>1. \A r \in Reqs : NumLogs(r)' = NumLogs(r)
    BY <1>4, LogsFrame DEF vars
  <2>. QED
    BY <1>4, <2>1 DEF vars, LInv, TypeOK, ReqInv, Logged
<1>. QED
  BY <1>1, <1>2, <1>3, <1>4 DEF Next

\* LInv holds in every reachable state.
THEOREM LInvInvariant == Spec => []LInv
BY InitLInv, NextLInv, PTL DEF Spec

\* Every variable of the transport always has its type, whatever the
\* number of requests, chunks and Close calls.
THEOREM TypeCorrect == Spec => []TypeOK
BY LInvInvariant, PTL DEF LInv

(***************************************************************************)
(* rc.Close posts a request's APILog only while rc.closed is unset, and    *)
(* RoundTrip posts one only on the error return that ends it: for any      *)
(* number of requests and of Close calls on a body, no request is ever     *)
(* logged twice.                                                           *)
(***************************************************************************)
THEOREM AtMostOneLogPerRequestInvariant == Spec => []AtMostOneLogPerRequest
<1>1. LInv => AtMostOneLogPerRequest
  BY DEF LInv, ReqInv, AtMostOneLogPerRequest
<1>. QED
  BY <1>1, LInvInvariant, PTL
=============================================================================
