--------------------------- MODULE TaskRelayProofs ---------------------------
(***************************************************************************)
(* Proofs about TaskRelay for every value of the constants: the type       *)
(* invariant, that RelayTask never submits a task again once a submission  *)
(* has succeeded, and that use_channel lists the channels the task was     *)
(* submitted to, in order.                                                 *)
(***************************************************************************)
EXTENDS TaskRelay, SequenceTheorems, TLAPS

(***************************************************************************)
(* The inductive invariant. NoSubmissionAfterSuccess is not inductive: a   *)
(* retry is only excluded after a success because the success leaves       *)
(* taskErr nil, which shouldRetryTaskRelay refuses, and because the first  *)
(* submission is made from the "start" state with nothing submitted yet.   *)
(***************************************************************************)
SuccessIsLast ==
    \A j \in 1..Len(submissions) :
        submissions[j].ok => j = Len(submissions) /\ taskErr = NoError

NothingSubmittedAtStart == pc = "start" => submissions = <<>>

IInv ==
    /\ TypeOK
    /\ SuccessIsLast
    /\ NothingSubmittedAtStart

\* A nil taskErr is not one of the errors a submission can return.
LEMMA NoErrorNotTaskError == NoError \notin TaskError
BY DEF NoError, TaskError

\* The break on a failed getChannel stores a TaskError.
LEMMA GetChannelFailedType == GetChannelFailed \in TaskError
BY DEF GetChannelFailed, TaskError

\* shouldRetryTaskRelay never retries a nil taskErr.
LEMMA RetryNeedsError ==
    ASSUME NEW e, NEW t, NEW s, ShouldRetryTaskRelay(e, t, s)
    PROVE  e # NoError
BY DEF ShouldRetryTaskRelay

LEMMA InitIInv == Init => IInv
BY PinnedAssumption, RetryTimesAssumption
DEF Init, IInv, TypeOK, SuccessIsLast, NothingSubmittedAtStart

(***************************************************************************)
(* Submit appends one submission for the channel the context holds after   *)
(* the step; it is a success iff taskErr' is nil.                          *)
(***************************************************************************)
LEMMA SubmitFacts ==
    ASSUME TypeOK, ctxChannel' \in Channels, Submit
    PROVE  /\ \E x \in Submission :
                 /\ submissions' = Append(submissions, x)
                 /\ x.ok => taskErr' = NoError
           /\ taskErr' \in TaskError \cup {NoError}
           /\ response' \in {"none", "ok", "error"}
<1>1. CASE /\ submissions' = Append(submissions, [channel |-> ctxChannel', ok |-> TRUE])
           /\ taskErr' = NoError
           /\ response' = "ok"
  <2>1. [channel |-> ctxChannel', ok |-> TRUE] \in Submission
    BY DEF Submission
  <2>. QED
    BY <1>1, <2>1
<1>2. ASSUME NEW e \in TaskErrors,
             /\ submissions' = Append(submissions,
                                      [channel |-> ctxChannel', ok |-> FALSE])
             /\ taskErr' = e
             /\ UNCHANGED response
      PROVE  /\ \E x \in Submission :
                   /\ submissions' = Append(submissions, x)
                   /\ x.ok => taskErr' = NoError
             /\ taskErr' \in TaskError \cup {NoError}
             /\ response' \in {"none", "ok", "error"}
  <2>1. e \in TaskError
    BY TaskErrorsAssumption
  <2>2. [channel |-> ctxChannel', ok |-> FALSE] \in Submission
    BY DEF Submission
  <2>. QED
    BY <1>2, <2>1, <2>2 DEF TypeOK
<1>. QED
  BY <1>1, <1>2 DEF Submit

(***************************************************************************)
(* A submission appended to a list whose entries are all failures, where   *)
(* the new entry is a success only if taskErr' is nil, keeps SuccessIsLast. *)
(***************************************************************************)
LEMMA AppendKeepsSuccessLast ==
    ASSUME NEW S, NEW s \in Seq(S), NEW x \in S, NEW te,
           \A j \in 1..Len(s) : ~s[j].ok,
           x.ok => te = NoError
    PROVE  LET t == Append(s, x) IN
           \A j \in 1..Len(t) : t[j].ok => j = Len(t) /\ te = NoError
BY AppendProperties

LEMMA NextIInv == IInv /\ [Next]_vars => IInv'
<1> SUFFICES ASSUME IInv, [Next]_vars PROVE IInv'
  OBVIOUS
<1>1. CASE TaskStart
  <2>1. /\ pc = "start" /\ submissions = <<>>
        /\ UNCHANGED <<specific, i, ctxChannel>>
        /\ useChannel' = <<Pinned>>
    BY <1>1 DEF TaskStart, IInv, NothingSubmittedAtStart
  <2>2. CASE /\ pc' = "done"
             /\ UNCHANGED <<retryTimes, taskErr, submissions, response>>
    BY <2>1, <2>2, PinnedAssumption
    DEF IInv, TypeOK, SuccessIsLast, NothingSubmittedAtStart
  <2>3. CASE /\ pc' = "loop"
             /\ Submit
             /\ retryTimes' = IF taskErr' = NoError THEN 0 ELSE retryTimes
    <3>1. /\ \E x \in Submission :
                 /\ submissions' = Append(submissions, x)
                 /\ x.ok => taskErr' = NoError
          /\ taskErr' \in TaskError \cup {NoError}
          /\ response' \in {"none", "ok", "error"}
      BY <2>1, <2>3, SubmitFacts DEF IInv, TypeOK
    <3>2. PICK x \in Submission :
                 /\ submissions' = <<x>>
                 /\ x.ok => taskErr' = NoError
      BY <2>1, <3>1
    <3>3. submissions' \in Seq(Submission) /\ SuccessIsLast'
      BY <3>2 DEF SuccessIsLast
    <3>4. useChannel' \in Seq(Channels)
      BY <2>1, PinnedAssumption
    <3>5. retryTimes' \in 0..RetryTimes
      BY <2>3, RetryTimesAssumption DEF IInv, TypeOK
    <3>. QED
      BY <2>1, <2>3, <3>1, <3>3, <3>4, <3>5
      DEF IInv, TypeOK, NothingSubmittedAtStart
  <2>. QED
    BY <1>1, <2>2, <2>3 DEF TaskStart
<1>2. CASE TaskRetry
  <2>1. /\ pc = "loop"
        /\ taskErr # NoError
        /\ i < retryTimes
        /\ i' = i + 1
        /\ UNCHANGED <<specific, retryTimes>>
    BY <1>2, RetryNeedsError DEF TaskRetry
  <2>2. \A j \in 1..Len(submissions) : ~submissions[j].ok
    BY <2>1, Zenon DEF IInv, SuccessIsLast
  <2>3. i' \in 0..RetryTimes
    BY <2>1, RetryTimesAssumption DEF IInv, TypeOK
  <2>4. ASSUME ctxChannel' \in Channels, useChannel' \in Seq(Channels),
               Submit, UNCHANGED pc
        PROVE  IInv'
    <3>1. /\ \E x \in Submission :
                 /\ submissions' = Append(submissions, x)
                 /\ x.ok => taskErr' = NoError
          /\ taskErr' \in TaskError \cup {NoError}
          /\ response' \in {"none", "ok", "error"}
      BY <2>4, SubmitFacts DEF IInv
    <3>2. submissions' \in Seq(Submission) /\ SuccessIsLast'
      <4>1. PICK x \in Submission :
                 /\ submissions' = Append(submissions, x)
                 /\ x.ok => taskErr' = NoError
        BY <3>1
      <4>2. submissions' \in Seq(Submission)
        BY <4>1, AppendProperties DEF IInv, TypeOK
      <4>. QED
        BY <2>2, <4>1, <4>2, AppendKeepsSuccessLast
        DEF IInv, TypeOK, SuccessIsLast
    <3>. QED
      BY <2>1, <2>3, <2>4, <3>1, <3>2
      DEF IInv, TypeOK, NothingSubmittedAtStart
  <2>5. CASE /\ i = 0
             /\ UNCHANGED <<pc, ctxChannel>>
             /\ useChannel' = Append(useChannel, ctxChannel)
             /\ Submit
    BY <2>5, <2>4 DEF IInv, TypeOK
  <2>6. CASE /\ i > 0
             /\ \E c \in Channels \ Tried :
                   /\ ctxChannel' = c
                   /\ useChannel' = Append(useChannel, c)
                   /\ Submit
             /\ UNCHANGED pc
    BY <2>6, <2>4 DEF IInv, TypeOK
  <2>7. CASE /\ i > 0
             /\ taskErr' = GetChannelFailed
             /\ pc' = "exit"
             /\ UNCHANGED <<ctxChannel, useChannel, submissions, response>>
    BY <2>1, <2>2, <2>3, <2>7, GetChannelFailedType, NoErrorNotTaskError
    DEF IInv, TypeOK, SuccessIsLast, NothingSubmittedAtStart
  <2>. QED
    BY <1>2, <2>5, <2>6, <2>7 DEF TaskRetry
<1>3. CASE TaskFinish
  BY <1>3 DEF TaskFinish, IInv, TypeOK, SuccessIsLast, NothingSubmittedAtStart
<1>4. CASE UNCHANGED vars
  BY <1>4 DEF vars, IInv, TypeOK, SuccessIsLast, NothingSubmittedAtStart
<1>. QED
  BY <1>1, <1>2, <1>3, <1>4 DEF Next

\* The type invariant of the task relay holds in every reachable state.
THEOREM TypeCorrect == Spec => []TypeOK
<1>1. IInv => TypeOK
  BY DEF IInv
<1>. QED
  BY InitIInv, NextIInv, <1>1, PTL DEF Spec

(***************************************************************************)
(* RelayTask never submits a task upstream again after a submission has    *)
(* succeeded (relay.go 421-443): a second submission would create, and     *)
(* bill, a second upstream task.                                           *)
(***************************************************************************)
THEOREM NoSubmissionAfterSuccessInvariant == Spec => []NoSubmissionAfterSuccess
<1>1. IInv => NoSubmissionAfterSuccess
  BY DEF IInv, SuccessIsLast, NoSubmissionAfterSuccess
<1>. QED
  BY InitIInv, NextIInv, <1>1, PTL DEF Spec
-----------------------------------------------------------------------------
(***************************************************************************)
(* use_channel and the submissions. UseChannelListsSubmissions is not      *)
(* inductive: a retry appends to both lists, so while the loop runs they   *)
(* must have the same length, and before the first submission the context *)
(* must hold the pinned channel that use_channel starts with.              *)
(***************************************************************************)
StartsPinned == pc = "start" => ctxChannel = Pinned /\ useChannel = <<>>

LogMatches ==
    /\ UseChannelListsSubmissions
    /\ pc = "loop" => Len(submissions) = Len(useChannel)

LInv == IInv /\ StartsPinned /\ LogMatches

LEMMA InitLInv == Init => LInv
BY InitIInv DEF Init, LInv, StartsPinned, LogMatches, UseChannelListsSubmissions

\* A submission goes to the channel the context holds after the step.
LEMMA SubmitChannel ==
    ASSUME ctxChannel' \in Channels, Submit
    PROVE  \E x \in Submission :
              submissions' = Append(submissions, x) /\ x.channel = ctxChannel'
<1>1. CASE submissions' = Append(submissions, [channel |-> ctxChannel', ok |-> TRUE])
  <2>1. [channel |-> ctxChannel', ok |-> TRUE] \in Submission
    BY DEF Submission
  <2>. QED  BY <1>1, <2>1
<1>2. CASE submissions' = Append(submissions, [channel |-> ctxChannel', ok |-> FALSE])
  <2>1. [channel |-> ctxChannel', ok |-> FALSE] \in Submission
    BY DEF Submission
  <2>. QED  BY <1>2, <2>1
<1>. QED  BY <1>1, <1>2 DEF Submit

\* Appending a submission and its channel to lists that agree keeps them
\* agreeing.
LEMMA AppendBoth ==
    ASSUME NEW s \in Seq(Submission), NEW u \in Seq(Channels), Len(s) = Len(u),
           \A j \in 1..Len(s) : s[j].channel = u[j],
           NEW x \in Submission, NEW c \in Channels, x.channel = c
    PROVE  /\ Len(Append(s, x)) = Len(Append(u, c))
           /\ \A j \in 1..Len(Append(s, x)) : Append(s, x)[j].channel = Append(u, c)[j]
BY AppendProperties

LEMMA NextLInv == LInv /\ [Next]_vars => LInv'
<1> SUFFICES ASSUME LInv, [Next]_vars PROVE LInv'
  OBVIOUS
<1>0. IInv' /\ TypeOK /\ TypeOK'
  BY NextIInv DEF LInv, IInv
<1>1. CASE TaskStart
  <2>1. /\ pc = "start" /\ submissions = <<>> /\ ctxChannel = Pinned
        /\ ctxChannel' = Pinned /\ useChannel' = <<Pinned>>
    BY <1>1 DEF TaskStart, LInv, IInv, NothingSubmittedAtStart, StartsPinned
  <2>2. CASE pc' = "done" /\ UNCHANGED submissions
    BY <2>1, <2>2, <1>0 DEF LInv, StartsPinned, LogMatches, UseChannelListsSubmissions
  <2>3. CASE pc' = "loop" /\ Submit
    <3>0. ctxChannel' \in Channels
      BY <2>1, PinnedAssumption
    <3>1. PICK x \in Submission : submissions' = Append(submissions, x) /\ x.channel = ctxChannel'
      BY <2>3, <3>0, SubmitChannel
    <3>2. submissions' = <<x>> /\ x.channel = Pinned
      BY <2>1, <3>1
    <3>. QED
      BY <1>0, <2>1, <2>3, <3>2 DEF LInv, StartsPinned, LogMatches, UseChannelListsSubmissions
  <2>. QED
    BY <1>1, <2>2, <2>3 DEF TaskStart
<1>2. CASE TaskRetry
  <2>1. /\ pc = "loop"
        /\ Len(submissions) = Len(useChannel)
        /\ \A j \in 1..Len(submissions) : submissions[j].channel = useChannel[j]
        /\ submissions \in Seq(Submission) /\ useChannel \in Seq(Channels)
        /\ ctxChannel \in Channels
    BY <1>2 DEF TaskRetry, LInv, IInv, LogMatches, UseChannelListsSubmissions, TypeOK
  <2>2. ASSUME NEW c \in Channels, ctxChannel' = c, useChannel' = Append(useChannel, c),
               Submit, pc' = "loop"
        PROVE  LInv'
    <3>1. PICK x \in Submission : submissions' = Append(submissions, x) /\ x.channel = c
      BY <2>2, SubmitChannel
    <3>2. /\ Len(submissions') = Len(useChannel')
          /\ \A j \in 1..Len(submissions') : submissions'[j].channel = useChannel'[j]
      BY <2>1, <2>2, <3>1, AppendBoth
    <3>. QED
      BY <1>0, <2>2, <3>2 DEF LInv, StartsPinned, LogMatches, UseChannelListsSubmissions
  <2>3. CASE /\ i = 0
             /\ UNCHANGED <<pc, ctxChannel>>
             /\ useChannel' = Append(useChannel, ctxChannel)
             /\ Submit
    BY <2>1, <2>2, <2>3
  <2>4. CASE /\ i > 0
             /\ \E c \in Channels \ Tried :
                   /\ ctxChannel' = c
                   /\ useChannel' = Append(useChannel, c)
                   /\ Submit
             /\ UNCHANGED pc
    BY <2>1, <2>2, <2>4
  <2>5. CASE /\ i > 0
             /\ pc' = "exit"
             /\ UNCHANGED <<ctxChannel, useChannel, submissions, response>>
    BY <1>0, <2>1, <2>5 DEF LInv, StartsPinned, LogMatches, UseChannelListsSubmissions
  <2>. QED
    BY <1>2, <2>3, <2>4, <2>5 DEF TaskRetry
<1>3. CASE TaskFinish
  BY <1>0, <1>3 DEF TaskFinish, LInv, StartsPinned, LogMatches, UseChannelListsSubmissions
<1>4. CASE UNCHANGED vars
  BY <1>0, <1>4 DEF vars, LInv, StartsPinned, LogMatches, UseChannelListsSubmissions
<1>. QED
  BY <1>1, <1>2, <1>3, <1>4 DEF Next

(***************************************************************************)
(* The retry log of RelayTask (lines 444-448) prints use_channel, and      *)
(* use_channel names, in order, the channels the task was submitted to:    *)
(* every retry records the channel getChannel returned, and getChannel     *)
(* has set the context up for it (line 258) before the submission.         *)
(***************************************************************************)
THEOREM UseChannelListsSubmissionsInvariant == Spec => []UseChannelListsSubmissions
<1>1. LInv => UseChannelListsSubmissions
  BY DEF LInv, LogMatches
<1>. QED
  BY InitLInv, NextLInv, <1>1, PTL DEF Spec
=============================================================================
