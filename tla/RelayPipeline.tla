--------------------------- MODULE RelayPipeline ---------------------------
(***************************************************************************)
(* The relay pipeline of controller.Relay (src/controller/relay.go): the   *)
(* admission of a request up to the quota pre-consumption, the retry loop  *)
(* over channels (getChannel, the dialect helper, processChannelError,     *)
(* shouldRetry) and the deferred refund of the pre-consumed quota.         *)
(*                                                                         *)
(* Several requests run concurrently (one goroutine each). They share the  *)
(* users' balances, the live channel store, the channel cache and the      *)
(* pool of asynchronous auto-disable tasks started by gopool.Go.           *)
(*                                                                         *)
(* The quota service (PreConsumeQuota, ReturnPreConsumedQuota, the post-   *)
(* consumption inside the helpers), the channel cache                      *)
(* (CacheGetRandomSatisfiedChannel) and DisableChannel are not under src/: *)
(* they are modelled from the spec, sections 4.3, 4.4 and 4.6.             *)
(***************************************************************************)
EXTENDS Integers, Sequences, FiniteSets

CONSTANTS
    Users,          \* callers owning a balance
    Reqs,           \* concurrent inbound requests
    Owner,          \* Owner[r]: the user whose token authenticated r
    Channels,       \* channel ids
    Pinned,         \* Pinned[r]: channel the distributor put in the context
    SpecificChannel,\* requests whose token pins a channel (specific_channel_id)
    AutoBan,        \* AutoBan[c]: the channel's auto_ban flag
    RetryTimes,     \* common.RetryTimes
    InitQuota,      \* every user's balance before the requests arrive
    PreQuotas,      \* values priceData.ShouldPreConsumedQuota can take
    Costs,          \* actual quota a successful relay is charged
    HelperErrors,   \* the errors a dialect helper can return
    ErrorLogEnabled \* constant.ErrorLogEnabled

ASSUME OwnerAssumption == Owner \in [Reqs -> Users]
ASSUME PinnedAssumption == Pinned \in [Reqs -> Channels]
ASSUME SpecificAssumption == SpecificChannel \subseteq Reqs
ASSUME AutoBanAssumption == AutoBan \in [Channels -> BOOLEAN]
ASSUME RetryTimesAssumption == RetryTimes \in Nat
ASSUME QuotaAssumption ==
    /\ InitQuota \in Nat
    /\ PreQuotas \subseteq Nat
    /\ Costs \subseteq Nat
ASSUME ErrorLogAssumption == ErrorLogEnabled \in BOOLEAN

(***************************************************************************)
(* A types.NewAPIError, abstracted to what the retry and channel-error     *)
(* logic reads: its status code, IsChannelError, IsSkipRetryError,         *)
(* ShouldDisableChannel's verdict and IsRecordErrorLog.                    *)
(***************************************************************************)
NewAPIError == [status : Nat, channelErr : BOOLEAN, skipRetry : BOOLEAN,
                disable : BOOLEAN, record : BOOLEAN]

\* The errors a dialect helper (TextHelper, ClaudeHelper, ...) can return.
ASSUME HelperErrorsAssumption == HelperErrors \subseteq NewAPIError

\* An error the pipeline raises itself: types.NewError(..., code, opts).
LocalError(status, skip) ==
    [status |-> status, channelErr |-> FALSE, skipRetry |-> skip,
     disable |-> FALSE, record |-> FALSE]

\* The errors of the admission steps (invalid request, GenRelayInfo,
\* sensitive words, token count, model price): returned before pre-consume.
AdmitError == LocalError(400, FALSE)
\* ErrorCodeInsufficientQuota, skip-retry (spec 4.4).
InsufficientQuota == LocalError(403, TRUE)
\* ErrorCodeGetChannelFailed with ErrOptionWithSkipRetry (lines 253, 256).
GetChannelFailed == LocalError(500, TRUE)

NoError == [none |-> TRUE]

VARIABLES
    pc,          \* pc[r]: where r's goroutine is in Relay
    balance,     \* balance[u]: the user's quota (users table)
    pre,         \* pre[r]: relayInfo.FinalPreConsumedQuota
    consumed,    \* consumed[r]: quota recorded by post-consumption (logs)
    attempt,     \* attempt[r]: the loop index i
    useChannel,  \* useChannel[r]: the context's "use_channel" list
    err,         \* err[r]: newAPIError
    status,      \* status[c]: channel status in the live store
    cache,       \* channels the channel cache holds as enabled
    pending,     \* auto-disable tasks handed to gopool, not yet run
    errorLog,    \* rows written by model.RecordErrorLog
    culprits     \* channels that failed with a disabling error (history)

vars == <<pc, balance, pre, consumed, attempt, useChannel, err, status,
          cache, pending, errorLog, culprits>>

PC == {"admit", "select", "relay", "done"}

ChannelStatus == {"enabled", "auto_disabled"}

\* A channelError copied for the asynchronous disable task.
DisableTask == [channel : Channels, req : Reqs]

ErrorLogRow == [req : Reqs, channel : Channels, useChannel : Seq(Channels)]

\* The channels r has been relayed to so far.
Tried(r) == {useChannel[r][i] : i \in 1..Len(useChannel[r])}

\* The channel of r's current attempt: the last one addUsedChannel recorded.
Current(r) == useChannel[r][Len(useChannel[r])]

TypeOK ==
    /\ pc \in [Reqs -> PC]
    /\ balance \in [Users -> Int]
    /\ pre \in [Reqs -> Nat]
    /\ consumed \in [Reqs -> Nat]
    /\ attempt \in [Reqs -> 0..RetryTimes]
    /\ useChannel \in [Reqs -> Seq(Channels)]
    /\ err \in [Reqs -> NewAPIError \cup {NoError}]
    /\ status \in [Channels -> ChannelStatus]
    /\ cache \subseteq Channels
    /\ pending \subseteq DisableTask
    /\ errorLog \subseteq ErrorLogRow
    /\ culprits \subseteq Channels

Init ==
    /\ pc = [r \in Reqs |-> "admit"]
    /\ balance = [u \in Users |-> InitQuota]
    /\ pre = [r \in Reqs |-> 0]
    /\ consumed = [r \in Reqs |-> 0]
    /\ attempt = [r \in Reqs |-> 0]
    /\ useChannel = [r \in Reqs |-> <<>>]
    /\ err = [r \in Reqs |-> NoError]
    /\ status = [c \in Channels |-> "enabled"]
    /\ cache = Channels
    /\ pending = {}
    /\ errorLog = {}
    /\ culprits = {}
-----------------------------------------------------------------------------
(***************************************************************************)
(* shouldRetry (lines 265-305). The channel-error test comes first, before *)
(* the skip-retry flag, the remaining budget and the pinned channel.       *)
(***************************************************************************)
ShouldRetry(e, retryTimes, specific) ==
    \/ e.channelErr
    \/ /\ ~e.skipRetry
       /\ retryTimes > 0
       /\ ~specific
       /\ \/ e.status \in {429, 307}
          \/ e.status \div 100 = 5 /\ e.status \notin {504, 524}
          \/ /\ e.status \notin {400, 408}
             /\ e.status \div 100 \notin {2, 5}

\* service.ReturnPreConsumedQuota (spec 4.4): credit back, zero the field.
ReturnPreConsumedQuota(r) ==
    /\ balance' = [balance EXCEPT ![Owner[r]] = @ + pre[r]]
    /\ pre' = [pre EXCEPT ![r] = 0]

\* Mutant: the deferred refund dropped.
FailAfterPreConsumeNoRefund(r, e) ==
    /\ err' = [err EXCEPT ![r] = e]
    /\ pc' = [pc EXCEPT ![r] = "done"]
    /\ UNCHANGED <<balance, pre>>

(***************************************************************************)
(* Leaving Relay with newAPIError = e after the pre-consumption: the       *)
(* deferred refund (lines 168-172) returns the quota when it is non-zero.  *)
(***************************************************************************)
FailAfterPreConsume(r, e) ==
    /\ err' = [err EXCEPT ![r] = e]
    /\ pc' = [pc EXCEPT ![r] = "done"]
    /\ IF pre[r] # 0 THEN ReturnPreConsumedQuota(r)
                     ELSE UNCHANGED <<balance, pre>>

\* Mutant: the pre-consumed amount not recorded on the relay info.
RelayAdmitNoHold(r) ==
    /\ pc[r] = "admit"
    /\ LET u == Owner[r] IN
       \/ /\ err' = [err EXCEPT ![r] = AdmitError]
          /\ pc' = [pc EXCEPT ![r] = "done"]
          /\ UNCHANGED <<balance, pre>>
       \/ \E q \in PreQuotas :
            \/ /\ q > 0
               /\ balance[u] < q
               /\ err' = [err EXCEPT ![r] = InsufficientQuota]
               /\ pc' = [pc EXCEPT ![r] = "done"]
               /\ UNCHANGED <<balance, pre>>
            \/ /\ q > 0
               /\ balance[u] >= q
               /\ balance' = [balance EXCEPT ![u] = @ - q]
               /\ UNCHANGED pre
               /\ pc' = [pc EXCEPT ![r] = "select"]
               /\ UNCHANGED err
            \/ /\ q = 0
               /\ pc' = [pc EXCEPT ![r] = "select"]
               /\ UNCHANGED <<balance, pre, err>>
    /\ UNCHANGED <<consumed, attempt, useChannel, status, cache, pending,
                   errorLog, culprits>>

(***************************************************************************)
(* Lines 116-164: GetAndValidateRequest, GenRelayInfo, the sensitive-word  *)
(* check, CountRequestToken and ModelPriceHelper may each fail; otherwise  *)
(* PreConsumeQuota (spec 4.4) debits ShouldPreConsumedQuota q atomically   *)
(* when q > 0 and the balance covers it. No refund is registered yet.      *)
\* Mutant: the debit taken without checking that the balance covers it.
RelayAdmitOverdraw(r) ==
    /\ pc[r] = "admit"
    /\ LET u == Owner[r] IN
       \/ /\ err' = [err EXCEPT ![r] = AdmitError]
          /\ pc' = [pc EXCEPT ![r] = "done"]
          /\ UNCHANGED <<balance, pre>>
       \/ \E q \in PreQuotas :
            \/ /\ q > 0
               /\ balance[u] < q
               /\ err' = [err EXCEPT ![r] = InsufficientQuota]
               /\ pc' = [pc EXCEPT ![r] = "done"]
               /\ UNCHANGED <<balance, pre>>
            \/ /\ q > 0
               /\ balance' = [balance EXCEPT ![u] = @ - q]
               /\ pre' = [pre EXCEPT ![r] = q]
               /\ pc' = [pc EXCEPT ![r] = "select"]
               /\ UNCHANGED err
            \/ /\ q = 0
               /\ pc' = [pc EXCEPT ![r] = "select"]
               /\ UNCHANGED <<balance, pre, err>>
    /\ UNCHANGED <<consumed, attempt, useChannel, status, cache, pending,
                   errorLog, culprits>>

(***************************************************************************)
RelayAdmit(r) ==
    /\ pc[r] = "admit"
    /\ LET u == Owner[r] IN
       \/ /\ err' = [err EXCEPT ![r] = AdmitError]
          /\ pc' = [pc EXCEPT ![r] = "done"]
          /\ UNCHANGED <<balance, pre>>
       \/ \E q \in PreQuotas :
            \/ /\ q > 0
               /\ balance[u] < q
               /\ err' = [err EXCEPT ![r] = InsufficientQuota]
               /\ pc' = [pc EXCEPT ![r] = "done"]
               /\ UNCHANGED <<balance, pre>>
            \/ /\ q > 0
               /\ balance[u] >= q
               /\ balance' = [balance EXCEPT ![u] = @ - q]
               /\ pre' = [pre EXCEPT ![r] = q]
               /\ pc' = [pc EXCEPT ![r] = "select"]
               /\ UNCHANGED err
            \/ /\ q = 0
               /\ pc' = [pc EXCEPT ![r] = "select"]
               /\ UNCHANGED <<balance, pre, err>>
    /\ UNCHANGED <<consumed, attempt, useChannel, status, cache, pending,
                   errorLog, culprits>>

\* addUsedChannel and the body reset (lines 185-188) before the helper runs.
StartAttempt(r, c) ==
    /\ useChannel' = [useChannel EXCEPT ![r] = Append(@, c)]
    /\ pc' = [pc EXCEPT ![r] = "relay"]
    /\ UNCHANGED <<balance, pre, err>>

\* Mutant: getChannel that never fails; a request with no candidate waits.
GetChannelNoFailure(r) ==
    /\ pc[r] = "select"
    /\ \/ attempt[r] = 0 /\ StartAttempt(r, Pinned[r])
       \/ /\ attempt[r] > 0
          /\ \E c \in cache \ Tried(r) :
                status[c] = "enabled" /\ StartAttempt(r, c)
    /\ UNCHANGED <<consumed, attempt, status, cache, pending, errorLog,
                   culprits>>

(***************************************************************************)
(* getChannel (lines 177-182, 237-263). Attempt 0 takes the channel the    *)
(* distributor pinned in the context, without looking at the store.        *)
(* Later attempts ask the cache (spec 4.3) for an untried channel; none,   *)
(* or one the live store has disabled since, is a skip-retry error that    *)
(* breaks the loop, and the deferred refund runs.                          *)
(***************************************************************************)
GetChannel(r) ==
    /\ pc[r] = "select"
    /\ LET candidates == cache \ Tried(r) IN
       \/ /\ attempt[r] = 0
          /\ StartAttempt(r, Pinned[r])
       \/ /\ attempt[r] > 0
          /\ \E c \in candidates : status[c] = "enabled" /\ StartAttempt(r, c)
       \/ /\ attempt[r] > 0
          /\ \/ candidates = {}
             \/ \E c \in candidates : status[c] # "enabled"
          /\ FailAfterPreConsume(r, GetChannelFailed)
          /\ UNCHANGED useChannel
    /\ UNCHANGED <<consumed, attempt, status, cache, pending, errorLog,
                   culprits>>

\* Mutant: the auto_ban flag of the channel not consulted.
ProcessChannelErrorNoAutoBan(r, c, e) ==
    /\ pending' = IF e.disable
                    THEN pending \cup {[channel |-> c, req |-> r]}
                    ELSE pending
    /\ culprits' = IF e.disable /\ AutoBan[c] THEN culprits \cup {c} ELSE culprits
    /\ IF ErrorLogEnabled /\ e.record
         THEN errorLog' = errorLog \cup
                  {[req |-> r, channel |-> c, useChannel |-> useChannel[r]]}
         ELSE UNCHANGED errorLog

(***************************************************************************)
(* processChannelError (lines 307-343): a disabling error on an auto-ban   *)
(* channel hands a copy of the channel to gopool; a recordable error is    *)
(* written to the error log with the context's use_channel list.           *)
(***************************************************************************)
ProcessChannelError(r, c, e) ==
    /\ pending' = IF e.disable /\ AutoBan[c]
                    THEN pending \cup {[channel |-> c, req |-> r]}
                    ELSE pending
    /\ culprits' = IF e.disable /\ AutoBan[c] THEN culprits \cup {c} ELSE culprits
    /\ IF ErrorLogEnabled /\ e.record
         THEN errorLog' = errorLog \cup
                  {[req |-> r, channel |-> c, useChannel |-> useChannel[r]]}
         ELSE UNCHANGED errorLog

(***************************************************************************)
(* The post-consumption of a successful helper (spec 4.4): the balance     *)
(* moves by actual - FinalPreConsumedQuota, the usage log records the      *)
(* actual quota and the hold is settled.                                   *)
(***************************************************************************)
PostConsumeQuota(r, cost) ==
    /\ balance' = [balance EXCEPT ![Owner[r]] = @ - (cost - pre[r])]
    /\ consumed' = [consumed EXCEPT ![r] = cost]
    /\ pre' = [pre EXCEPT ![r] = 0]

\* Mutant: the loop bound i <= RetryTimes dropped.
ContinueLoopUnbounded(r, e, i) ==
    ShouldRetry(e, RetryTimes - i, r \in SpecificChannel)

\* The loop goes round again after error e at index i: shouldRetry with the
\* remaining budget RetryTimes - i (line 210) and the bound i + 1 <= RetryTimes
\* of the for statement (line 175).
ContinueLoop(r, e, i) ==
    /\ ShouldRetry(e, RetryTimes - i, r \in SpecificChannel)
    /\ i + 1 <= RetryTimes

(***************************************************************************)
(* One run of the dialect helper on the current channel (lines 191-213):   *)
(* on success the post-consumption; on an error processChannelError, then *)
(* either the next iteration or the exit with the deferred refund.         *)
(***************************************************************************)
RelayAttempt(r) ==
    /\ pc[r] = "relay"
    /\ LET c == Current(r)
           i == attempt[r] IN
       \/ \E cost \in Costs :
            /\ PostConsumeQuota(r, cost)
            /\ err' = [err EXCEPT ![r] = NoError]
            /\ pc' = [pc EXCEPT ![r] = "done"]
            /\ UNCHANGED <<attempt, pending, errorLog, culprits>>
       \/ \E e \in HelperErrors :
            /\ ProcessChannelError(r, c, e)
            /\ UNCHANGED consumed
            /\ IF ContinueLoop(r, e, i)
                 THEN /\ attempt' = [attempt EXCEPT ![r] = i + 1]
                      /\ err' = [err EXCEPT ![r] = e]
                      /\ pc' = [pc EXCEPT ![r] = "select"]
                      /\ UNCHANGED <<balance, pre>>
                 ELSE /\ FailAfterPreConsume(r, e)
                      /\ UNCHANGED attempt
    /\ UNCHANGED <<useChannel, status, cache>>

(***************************************************************************)
(* service.DisableChannel run by the gopool worker (spec 4.6) on the copy  *)
(* of the channelError: the live store marks the channel auto-disabled.    *)
(***************************************************************************)
DisableChannel(t) ==
    /\ t \in pending
    /\ status' = [status EXCEPT ![t.channel] = "auto_disabled"]
    /\ pending' = pending \ {t}
    /\ UNCHANGED <<pc, balance, pre, consumed, attempt, useChannel, err,
                   cache, errorLog, culprits>>

\* The channel cache's refresh (spec 5): it takes the store's enabled set.
RefreshCache ==
    /\ cache # {c \in Channels : status[c] = "enabled"}
    /\ cache' = {c \in Channels : status[c] = "enabled"}
    /\ UNCHANGED <<pc, balance, pre, consumed, attempt, useChannel, err,
                   status, pending, errorLog, culprits>>

Next ==
    \/ \E r \in Reqs : RelayAdmit(r) \/ GetChannel(r) \/ RelayAttempt(r)
    \/ \E t \in pending : DisableChannel(t)
    \/ RefreshCache

(***************************************************************************)
(* Every request runs on its own goroutine, the gopool eventually runs     *)
(* every task it was handed and the cache refresh runs on a timer.         *)
(***************************************************************************)
Fairness ==
    /\ \A r \in Reqs :
          WF_vars(RelayAdmit(r) \/ GetChannel(r) \/ RelayAttempt(r))
    /\ \A t \in DisableTask : WF_vars(DisableChannel(t))
    /\ WF_vars(RefreshCache)

Spec == Init /\ [][Next]_vars /\ Fairness

-----------------------------------------------------------------------------
(***************************************************************************)
(* Properties.                                                             *)
(***************************************************************************)

\* Relay's deferred refund and the post-consumption leave no quota held by
\* a request that has returned, whichever path (admission failure, no
\* channel, retries exhausted, non-retryable error, success) it left by.
NoHeldQuotaAfterExit == \A r \in Reqs : pc[r] = "done" => pre[r] = 0

\* processChannelError copies the channel into the gopool task (the comment
\* at lines 309-310): only a channel that itself failed with a disabling
\* error while auto-ban was on ever ends up auto-disabled, even though the
\* request has moved on to another channel when the task runs.
AutoDisableOnlyCulprits ==
    \A c \in Channels : status[c] = "auto_disabled" => c \in culprits

\* The retry loop always ends: every request returns from Relay and holds
\* no pre-consumed quota from then on.
RequestsSettle == \A r \in Reqs : <>[](pc[r] = "done" /\ pre[r] = 0)

\* Spec 8.3: after an error flagged skip-retry the pipeline makes no
\* further attempt (shouldRetry, lines 269-274).
NoAttemptAfterSkipRetry ==
    [][\A r \in Reqs :
         (pc[r] = "relay" /\ pc'[r] = "select") => ~err'[r].skipRetry]_vars

\* Spec 4.5: a caller who pinned a specific channel is never retried on
\* another one (shouldRetry, lines 269-280).
PinnedRequestStaysOnChannel ==
    \A r \in SpecificChannel : Tried(r) \subseteq {Pinned[r]}
-----------------------------------------------------------------------------
(***************************************************************************)
(* The refinement of QuotaLedger. A request is "new" before admission,     *)
(* "open" while it selects and relays, and "closed" once Relay returns;    *)
(* FinalPreConsumedQuota is the hold and the usage log's amount the        *)
(* charge.                                                                 *)
(***************************************************************************)
PhaseOf(p) == IF p = "admit" THEN "new"
              ELSE IF p = "done" THEN "closed"
              ELSE "open"

LedgerPhase == [r \in Reqs |-> PhaseOf(pc[r])]

Ledger == INSTANCE QuotaLedger WITH held <- pre, spent <- consumed,
                                    phase <- LedgerPhase

\* Relay uses the quota service as QuotaLedger allows: PreConsumeQuota
\* takes at most one hold per request, never beyond the balance, and the
\* deferred refund and the post-consumption close it exactly once; every
\* other step (channel choice, retries, auto-disable, cache refresh)
\* leaves the ledger as it is.
QuotaLedgerSpec == Ledger!Spec
=============================================================================
