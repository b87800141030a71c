----------------------------- MODULE TaskRelay -----------------------------
(***************************************************************************)
(* controller.RelayTask (src/controller/relay.go, lines 412-505): the      *)
(* submission of a Suno / video task with its own retry loop.              *)
(*                                                                         *)
(* The first submission goes to the channel the distributor pinned in the *)
(* context. Each retry asks getChannel (lines 237-263) for a channel: for  *)
(* a retry count of 0 it hands back the context's channel unchanged, for  *)
(* a larger one it selects a channel from the cache and moves the context *)
(* to it (SetupContextForSelectedChannel, line 258). A submission goes to  *)
(* the channel the context holds. One request is modelled: the loop       *)
(* shares nothing with other requests.                                     *)
(***************************************************************************)
EXTENDS Integers, Sequences

CONSTANTS
    Channels,    \* channel ids
    Pinned,      \* the channel the distributor put in the context
    RetryTimes,  \* common.RetryTimes
    TaskErrors   \* the dto.TaskErrors a submission can return

ASSUME PinnedAssumption == Pinned \in Channels
ASSUME RetryTimesAssumption == RetryTimes \in Nat

\* A dto.TaskError, abstracted to what shouldRetryTaskRelay reads.
TaskError == [status : Nat, local : BOOLEAN]

ASSUME TaskErrorsAssumption == TaskErrors \subseteq TaskError

NoError == [none |-> TRUE]

\* TaskErrorWrapperLocal(..., "get_channel_failed", 500) (line 430).
GetChannelFailed == [status |-> 500, local |-> TRUE]

VARIABLES
    pc,          \* "start", "loop", "exit" (after a break) or "done"
    specific,    \* the context holds specific_channel_id
    retryTimes,  \* the local retryTimes, zeroed after a first success
    i,           \* the loop index
    ctxChannel,  \* the channel the context is set up for
    useChannel,  \* the context's "use_channel" list, logged at the end
    taskErr,     \* the last taskErr
    submissions, \* upstream submissions: the channel used, and success
    response     \* what was written to the client: "none", "ok", "error"

vars == <<pc, specific, retryTimes, i, ctxChannel, useChannel, taskErr, submissions,
          response>>

Submission == [channel : Channels, ok : BOOLEAN]

TypeOK ==
    /\ pc \in {"start", "loop", "exit", "done"}
    /\ specific \in BOOLEAN
    /\ retryTimes \in 0..RetryTimes
    /\ i \in 0..RetryTimes
    /\ ctxChannel \in Channels
    /\ useChannel \in Seq(Channels)
    /\ taskErr \in TaskError \cup {NoError}
    /\ submissions \in Seq(Submission)
    /\ response \in {"none", "ok", "error"}

Init ==
    /\ pc = "start"
    /\ specific \in BOOLEAN
    /\ retryTimes = RetryTimes
    /\ i = 0
    /\ ctxChannel = Pinned
    /\ useChannel = <<>>
    /\ taskErr = NoError
    /\ submissions = <<>>
    /\ response = "none"

\* The channels getChannel has handed out so far, by the context's list.
Tried == {useChannel[k] : k \in 1..Len(useChannel)}

\* Mutant: a nil taskErr counted as retryable.
ShouldRetryTaskRelayNilRetries(e, times, spec) ==
    /\ times > 0
    /\ ~spec
    /\ \/ e = NoError
       \/ e.status \in {429, 307}
       \/ e.status \div 100 = 5 /\ e.status \notin {504, 524}
       \/ /\ e.status \notin {400, 408}
          /\ e.status \div 100 \notin {2, 5}
          /\ ~e.local

(***************************************************************************)
(* shouldRetryTaskRelay (lines 468-505).                                   *)
(***************************************************************************)
ShouldRetryTaskRelay(e, times, spec) ==
    /\ e # NoError
    /\ times > 0
    /\ ~spec
    /\ \/ e.status \in {429, 307}
       \/ e.status \div 100 = 5 /\ e.status \notin {504, 524}
       \/ /\ e.status \notin {400, 408}
          /\ e.status \div 100 \notin {2, 5}
          /\ ~e.local

(***************************************************************************)
(* taskRelayHandler (lines 457-466) submits the task to the channel the   *)
(* context holds after the step (ctxChannel'). A success writes the task   *)
(* response to the client.                                                 *)
(***************************************************************************)
Submit ==
    \/ /\ submissions' = Append(submissions, [channel |-> ctxChannel', ok |-> TRUE])
       /\ taskErr' = NoError
       /\ response' = "ok"
    \/ \E e \in TaskErrors :
         /\ submissions' = Append(submissions,
                                  [channel |-> ctxChannel', ok |-> FALSE])
         /\ taskErr' = e
         /\ UNCHANGED response

(***************************************************************************)
(* Lines 413-425: use_channel starts with the pinned channel; a failing    *)
(* GenRelayInfo returns at once; otherwise the first submission, and its   *)
(* success zeroes retryTimes.                                              *)
(***************************************************************************)
TaskStart ==
    /\ pc = "start"
    /\ UNCHANGED <<specific, i, ctxChannel>>
    /\ useChannel' = <<Pinned>>
    /\ \/ /\ pc' = "done"
          /\ UNCHANGED <<retryTimes, taskErr, submissions, response>>
       \/ /\ pc' = "loop"
          /\ Submit
          /\ retryTimes' = IF taskErr' = NoError THEN 0 ELSE retryTimes

\* Mutant: the loop without its bound i < retryTimes.
TaskRetryUnbounded ==
    /\ pc = "loop"
    /\ ShouldRetryTaskRelay(taskErr, retryTimes, specific)
    /\ \/ /\ i = 0
          /\ UNCHANGED <<pc, ctxChannel>>
          /\ useChannel' = Append(useChannel, ctxChannel)
          /\ Submit
       \/ /\ i > 0
          /\ \E c \in Channels \ Tried :
                /\ ctxChannel' = c
                /\ useChannel' = Append(useChannel, c)
                /\ Submit
          /\ UNCHANGED pc
    /\ i' = i + 1
    /\ UNCHANGED <<specific, retryTimes>>

\* Mutant: getChannel no longer sets the context up for the selected channel.
TaskRetryNoContextSetup ==
    /\ pc = "loop"
    /\ ShouldRetryTaskRelay(taskErr, retryTimes, specific)
    /\ i < retryTimes
    /\ \/ /\ i = 0
          /\ UNCHANGED <<pc, ctxChannel>>
          /\ useChannel' = Append(useChannel, ctxChannel)
          /\ Submit
       \/ /\ i > 0
          /\ \E c \in Channels \ Tried :
                /\ UNCHANGED ctxChannel
                /\ useChannel' = Append(useChannel, c)
                /\ Submit
          /\ UNCHANGED pc
       \/ /\ i > 0
          /\ taskErr' = GetChannelFailed
          /\ pc' = "exit"
          /\ UNCHANGED <<ctxChannel, useChannel, submissions, response>>
    /\ i' = i + 1
    /\ UNCHANGED <<specific, retryTimes>>

(***************************************************************************)
(* One iteration of the loop (lines 426-443): getChannel(c, ..., i) hands  *)
(* out the context's channel for i = 0; otherwise it selects a cached     *)
(* untried channel (spec 4.3) and sets the context up for it, and the     *)
(* selection or the set-up may fail, which breaks the loop. The channel   *)
(* is appended to use_channel and the task submitted again.                *)
(***************************************************************************)
TaskRetry ==
    /\ pc = "loop"
    /\ ShouldRetryTaskRelay(taskErr, retryTimes, specific)
    /\ i < retryTimes
    /\ \/ /\ i = 0
          /\ UNCHANGED <<pc, ctxChannel>>
          /\ useChannel' = Append(useChannel, ctxChannel)
          /\ Submit
       \/ /\ i > 0
          /\ \E c \in Channels \ Tried :
                /\ ctxChannel' = c
                /\ useChannel' = Append(useChannel, c)
                /\ Submit
          /\ UNCHANGED pc
       \/ /\ i > 0
          /\ taskErr' = GetChannelFailed
          /\ pc' = "exit"
          /\ UNCHANGED <<ctxChannel, useChannel, submissions, response>>
    /\ i' = i + 1
    /\ UNCHANGED <<specific, retryTimes>>

\* Lines 444-454: the retry log, and the error written when taskErr is set.
TaskFinish ==
    /\ \/ pc = "exit"
       \/ /\ pc = "loop"
          /\ ~(ShouldRetryTaskRelay(taskErr, retryTimes, specific)
               /\ i < retryTimes)
    /\ pc' = "done"
    /\ response' = IF taskErr # NoError THEN "error" ELSE response
    /\ UNCHANGED <<specific, retryTimes, i, ctxChannel, useChannel, taskErr,
                    submissions>>

Next == TaskStart \/ TaskRetry \/ TaskFinish

Spec == Init /\ [][Next]_vars

-----------------------------------------------------------------------------
(***************************************************************************)
(* Properties.                                                             *)
(***************************************************************************)

\* A task is never submitted again once a submission has succeeded: a
\* second submission would create, and bill, a second upstream task. The
\* first success zeroes retryTimes, a later one leaves taskErr nil.
NoSubmissionAfterSuccess ==
    \A j, k \in 1..Len(submissions) : submissions[j].ok => k <= j

\* Spec 4.5: the retry log prints use_channel, the channels the task went to
\* in order. use_channel records the channel getChannel returned (line 433)
\* while the submission goes to the channel the context is set up for;
\* they agree only because getChannel sets the context up (line 258), the
\* call in the loop itself being commented out (line 438).
UseChannelListsSubmissions ==
    /\ Len(submissions) <= Len(useChannel)
    /\ \A j \in 1..Len(submissions) : submissions[j].channel = useChannel[j]

\* Spec 4.3: a retry goes to a channel the request has not been submitted
\* to yet. getChannel is called with the loop index starting at 0, which
\* hands back the channel that has just failed.
RetriesUseNewChannels ==
    \A j, k \in 1..Len(submissions) :
        j < k => submissions[j].channel # submissions[k].channel

\* Spec 7: a task request that fails is answered with an error envelope. A
\* failing GenRelayInfo (line 419) returns without writing one.
FailureIsAnswered == pc = "done" => response # "none"
=============================================================================
