------------------------- MODULE AdaptorStreamProofs -------------------------
(***************************************************************************)
(* Proofs about AdaptorStream for every set of models and every retry      *)
(* bound: the type invariant, which includes that the retry loop makes at  *)
(* most RetryTimes + 1 attempts.                                           *)
(***************************************************************************)
EXTENDS AdaptorStream, SequenceTheorems, TLAPS

(***************************************************************************)
(* TypeOK is inductive together with the loop bound: another attempt is   *)
(* only made while fewer than RetryTimes + 1 have been made. Each attempt  *)
(* appends one record of Attempt.                                          *)
(***************************************************************************)
LoopBound == pc = "loop" => Len(attempts) <= RetryTimes

IInv == TypeOK /\ LoopBound

LEMMA InitIInv == Init => IInv
BY RetryTimesAssumption DEF Init, IInv, TypeOK, LoopBound

\* ConvertOpenAIRequest gives Booleans.
LEMMA ConvertFacts ==
    ASSUME NEW m, NEW st \in BOOLEAN, clientStream \in BOOLEAN,
           clientThinking \in BOOLEAN
    PROVE  LET r == ConvertOpenAIRequest(m, st) IN
           r.stream \in BOOLEAN /\ r.thinking \in BOOLEAN /\ r.isStream \in BOOLEAN
BY DEF ConvertOpenAIRequest

(***************************************************************************)
(* An attempt from a state of IInv that appends a record a of Attempt      *)
(* keeps IInv.                                                             *)
(***************************************************************************)
LEMMA AppendAttempt ==
    ASSUME IInv, NEW a \in Attempt,
           attempts' = Append(attempts, a), pc = "loop", AfterAttempt,
           clientStream' \in BOOLEAN, clientThinking' \in BOOLEAN, isStream' \in BOOLEAN
    PROVE  IInv'
<1>1. /\ attempts \in Seq(Attempt)
      /\ Len(attempts) <= RetryTimes
      /\ RetryTimes \in Nat
  BY RetryTimesAssumption DEF IInv, TypeOK, LoopBound
<1>2. /\ attempts' \in Seq(Attempt)
      /\ Len(attempts') = Len(attempts) + 1
      /\ \A k \in 1..Len(attempts) : attempts'[k] = attempts[k]
      /\ attempts'[Len(attempts) + 1] = a
  BY <1>1, AppendProperties
<1>3. pc' \in {"loop", "done"} /\ LoopBound' /\ Len(attempts') <= RetryTimes + 1
  BY <1>1, <1>2 DEF AfterAttempt, LoopBound
<1>. QED
  BY <1>2, <1>3 DEF IInv, TypeOK

LEMMA NextIInv == IInv /\ [Next]_vars => IInv'
<1> SUFFICES ASSUME IInv, [Next]_vars PROVE IInv'
  OBVIOUS
<1>1. ASSUME NEW m \in Models, AliAttempt(m) PROVE IInv'
  <2> DEFINE r == ConvertOpenAIRequest(m, isStream)
             a == [model |-> m, ali |-> TRUE, stream |-> r.stream,
                   thinking |-> r.thinking, sse |-> SSEHeader(r.isStream),
                   handler |-> StreamHandler(r.isStream)]
  <2>1. r.stream \in BOOLEAN /\ r.thinking \in BOOLEAN /\ r.isStream \in BOOLEAN
    BY ConvertFacts DEF IInv, TypeOK
  <2>2. a \in Attempt
    BY <2>1 DEF Attempt, SSEHeader, StreamHandler
  <2>. QED
    BY <1>1, <2>1, <2>2, AppendAttempt DEF AliAttempt, IInv, TypeOK
<1>2. ASSUME NEW m \in Models, OtherAttempt(m) PROVE IInv'
  <2> DEFINE a == [model |-> m, ali |-> FALSE, stream |-> clientStream,
                   thinking |-> clientThinking, sse |-> "none",
                   handler |-> StreamHandler(isStream)]
  <2>1. a \in Attempt
    BY DEF IInv, TypeOK, Attempt, StreamHandler
  <2>. QED
    BY <1>2, <2>1, AppendAttempt DEF OtherAttempt, IInv, TypeOK
<1>3. CASE UNCHANGED vars
  BY <1>3 DEF vars, IInv, TypeOK, LoopBound
<1>. QED
  BY <1>1, <1>2, <1>3 DEF Next

\* The type invariant of the attempts holds in every reachable state.
THEOREM TypeCorrect == Spec => []TypeOK
<1>1. IInv => TypeOK
  BY DEF IInv
<1>. QED
  BY InitIInv, NextIInv, <1>1, PTL DEF Spec

=============================================================================
