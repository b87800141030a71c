---------------------------- MODULE AdaptorStream ----------------------------
(***************************************************************************)
(* The streaming flag across the attempts of one relayed chat request.     *)
(* controller.Relay builds one RelayInfo before its retry loop             *)
(* (relay.go 122) and hands the same one to every attempt (lines 189-200). *)
(* The Ali adaptor (src/unnamed/part_000) forces streaming for a           *)
(* "thinking" model by setting info.IsStream (line 87), and reads          *)
(* info.IsStream for enable_thinking (line 90), the X-DashScope-SSE header *)
(* (line 63) and the choice of response handler (lines 150-171).           *)
(*                                                                         *)
(* Each attempt converts the request afresh from the retained body         *)
(* (relay.go 182-184, spec 4.5), so only RelayInfo carries state from one  *)
(* attempt to the next. Other channels take an OpenAI-compatible adaptor,  *)
(* which sends the client's stream flag and handles the response by        *)
(* info.IsStream (spec 4.2).                                               *)
(***************************************************************************)
EXTENDS Integers, Sequences

CONSTANTS
    Models,      \* upstream model names an attempt may be mapped to
    Thinking,    \* those that contain "thinking"
    RetryTimes   \* common.RetryTimes

ASSUME ThinkingAssumption == Thinking \subseteq Models
ASSUME RetryTimesAssumption == RetryTimes \in Nat

VARIABLES
    clientStream,    \* "stream" of the client's body
    clientThinking,  \* "enable_thinking" of the client's body
    isStream,        \* relayInfo.IsStream, shared by the attempts
    attempts,        \* what each attempt sent and how it read the answer
    pc               \* "loop" or "done"

vars == <<clientStream, clientThinking, isStream, attempts, pc>>

Attempt == [model : Models, ali : BOOLEAN, stream : BOOLEAN, thinking : BOOLEAN,
            sse : {"enable", "none"}, handler : {"stream", "buffered"}]

TypeOK ==
    /\ clientStream \in BOOLEAN
    /\ clientThinking \in BOOLEAN
    /\ isStream \in BOOLEAN
    /\ attempts \in Seq(Attempt)
    /\ Len(attempts) <= RetryTimes + 1
    /\ pc \in {"loop", "done"}

\* GenRelayInfo takes IsStream from the client's body.
Init ==
    /\ clientStream \in BOOLEAN
    /\ clientThinking \in BOOLEAN
    /\ isStream = clientStream
    /\ attempts = <<>>
    /\ pc = "loop"

(***************************************************************************)
(* Ali ConvertOpenAIRequest (lines 78-99) for upstream model m when        *)
(* info.IsStream is st: the body's stream and enable_thinking, and         *)
(* info.IsStream afterwards.                                               *)
(***************************************************************************)
ConvertOpenAIRequest(m, st) ==
    LET think == m \in Thinking
        infoStream == think \/ st
    IN  [stream |-> think \/ clientStream,
         thinking |-> IF think THEN TRUE ELSE IF ~infoStream THEN FALSE ELSE clientThinking,
         isStream |-> infoStream]

\* SetupRequestHeader (lines 60-76): X-DashScope-SSE is set iff info.IsStream.
SSEHeader(st) == IF st THEN "enable" ELSE "none"

(***************************************************************************)
(* DoResponse (lines 150-172): the Claude branch and the OpenAI adaptor it *)
(* delegates to read the answer as a stream iff info.IsStream.             *)
(***************************************************************************)
StreamHandler(st) == IF st THEN "stream" ELSE "buffered"

\* Mutant: the loop test i <= RetryTimes checked one attempt late.
AfterAttemptOffByOne ==
    \/ pc' = "done"
    \/ /\ Len(attempts') <= RetryTimes + 1
       /\ pc' = "loop"

(***************************************************************************)
(* The end of an attempt (relay.go 203-212): a success returns; an error   *)
(* leads to another attempt while shouldRetry allows it and the loop       *)
(* bound is not reached.                                                   *)
(***************************************************************************)
AfterAttempt ==
    \/ pc' = "done"
    \/ /\ Len(attempts') <= RetryTimes
       /\ pc' = "loop"

(***************************************************************************)
(* An attempt on an Ali channel: the conversion, the request header        *)
(* (SetupRequestHeader, lines 60-76) and DoResponse (lines 150-172), all   *)
(* reading info.IsStream as the conversion left it.                        *)
(***************************************************************************)
AliAttempt(m) ==
    /\ pc = "loop"
    /\ LET r == ConvertOpenAIRequest(m, isStream) IN
          /\ isStream' = r.isStream
          /\ attempts' = Append(attempts,
                                [model |-> m, ali |-> TRUE, stream |-> r.stream,
                                 thinking |-> r.thinking, sse |-> SSEHeader(r.isStream),
                                 handler |-> StreamHandler(r.isStream)])
    /\ AfterAttempt
    /\ UNCHANGED <<clientStream, clientThinking>>

\* An attempt on an OpenAI-compatible channel (spec 4.2).
OtherAttempt(m) ==
    /\ pc = "loop"
    /\ attempts' = Append(attempts,
                          [model |-> m, ali |-> FALSE, stream |-> clientStream,
                           thinking |-> clientThinking, sse |-> "none",
                           handler |-> StreamHandler(isStream)])
    /\ AfterAttempt
    /\ UNCHANGED <<clientStream, clientThinking, isStream>>

Next == \E m \in Models : AliAttempt(m) \/ OtherAttempt(m)

Spec == Init /\ [][Next]_vars
-----------------------------------------------------------------------------
(***************************************************************************)
(* Properties.                                                             *)
(***************************************************************************)

\* The comment of line 89: Ali's enable_thinking must be false for a
\* non-streaming call. Line 90 tests info.IsStream, which an earlier
\* attempt on a thinking model has left set.
NonStreamingNeverThinks ==
    \A k \in 1..Len(attempts) :
        attempts[k].ali /\ ~attempts[k].stream => ~attempts[k].thinking
=============================================================================
