------------------------ MODULE RelayPipelineProofs ------------------------
(***************************************************************************)
(* Proofs about RelayPipeline for every value of the constants: the type   *)
(* invariant and the invariant that no request that has returned from      *)
(* Relay still holds pre-consumed quota.                                   *)
(***************************************************************************)
EXTENDS RelayPipeline, SequenceTheorems, TLAPS

(***************************************************************************)
(* The inductive invariant. TypeOK alone is not inductive: RelayAttempt    *)
(* reads Current(r), the last entry of use_channel, so a request relaying  *)
(* must have recorded a channel; and a request that fails admission must   *)
(* not hold quota, so nothing is pre-consumed before admission.            *)
(***************************************************************************)
RelayingHasChannel == \A r \in Reqs : pc[r] = "relay" => useChannel[r] # <<>>

NothingHeldBeforeAdmission == \A r \in Reqs : pc[r] = "admit" => pre[r] = 0

IInv ==
    /\ TypeOK
    /\ RelayingHasChannel
    /\ NothingHeldBeforeAdmission
    /\ NoHeldQuotaAfterExit

\* The errors the pipeline raises itself are NewAPIErrors.
LEMMA LocalErrorsType ==
    {AdmitError, InsufficientQuota, GetChannelFailed} \subseteq NewAPIError
BY DEF AdmitError, InsufficientQuota, GetChannelFailed, LocalError,
       NewAPIError

LEMMA InitIInv == Init => IInv
<1> SUFFICES ASSUME Init PROVE IInv
  OBVIOUS
<1>1. <<>> \in Seq(Channels)
  OBVIOUS
<1>2. TypeOK
  BY <1>1, RetryTimesAssumption, QuotaAssumption
  DEF Init, TypeOK, PC, ChannelStatus
<1>. QED
  BY <1>2 DEF Init, IInv, RelayingHasChannel, NothingHeldBeforeAdmission,
              NoHeldQuotaAfterExit

LEMMA AdmitIInv ==
    ASSUME IInv, NEW r \in Reqs, RelayAdmit(r)
    PROVE  IInv'
<1> DEFINE u == Owner[r]
<1> USE DEF IInv, TypeOK, RelayingHasChannel, NothingHeldBeforeAdmission,
            NoHeldQuotaAfterExit, PC
<1>0. /\ pc[r] = "admit"
      /\ UNCHANGED <<consumed, attempt, useChannel, status, cache, pending,
                     errorLog, culprits>>
      /\ u \in Users
  BY OwnerAssumption DEF RelayAdmit
<1>1. CASE /\ err' = [err EXCEPT ![r] = AdmitError]
           /\ pc' = [pc EXCEPT ![r] = "done"]
           /\ UNCHANGED <<balance, pre>>
  BY <1>0, <1>1, LocalErrorsType
<1>2. ASSUME NEW q \in PreQuotas,
             /\ q > 0
             /\ balance[u] < q
             /\ err' = [err EXCEPT ![r] = InsufficientQuota]
             /\ pc' = [pc EXCEPT ![r] = "done"]
             /\ UNCHANGED <<balance, pre>>
      PROVE  IInv'
  BY <1>0, <1>2, LocalErrorsType
<1>3. ASSUME NEW q \in PreQuotas,
             /\ q > 0
             /\ balance[u] >= q
             /\ balance' = [balance EXCEPT ![u] = @ - q]
             /\ pre' = [pre EXCEPT ![r] = q]
             /\ pc' = [pc EXCEPT ![r] = "select"]
             /\ UNCHANGED err
      PROVE  IInv'
  BY <1>0, <1>3, QuotaAssumption
<1>4. ASSUME NEW q \in PreQuotas,
             /\ q = 0
             /\ pc' = [pc EXCEPT ![r] = "select"]
             /\ UNCHANGED <<balance, pre, err>>
      PROVE  IInv'
  BY <1>0, <1>4
<1>. QED
  BY <1>1, <1>2, <1>3, <1>4, Zenon DEF RelayAdmit

\* Leaving the loop with an error refunds what is held and ends the request.
LEMMA FailIInv ==
    ASSUME IInv, NEW r \in Reqs, NEW e \in NewAPIError,
           pc[r] \in {"select", "relay"},
           FailAfterPreConsume(r, e),
           UNCHANGED <<consumed, useChannel, status, cache>>,
           pending' \subseteq DisableTask,
           errorLog' \subseteq ErrorLogRow,
           culprits' \subseteq Channels,
           attempt' = attempt
    PROVE  IInv'
<1> USE DEF IInv, TypeOK, RelayingHasChannel, NothingHeldBeforeAdmission,
            NoHeldQuotaAfterExit, PC
<1>0. /\ err' = [err EXCEPT ![r] = e]
      /\ pc' = [pc EXCEPT ![r] = "done"]
  BY DEF FailAfterPreConsume
<1>1. CASE pre[r] # 0
  <2>1. /\ balance' = [balance EXCEPT ![Owner[r]] = @ + pre[r]]
        /\ pre' = [pre EXCEPT ![r] = 0]
    BY <1>1 DEF FailAfterPreConsume, ReturnPreConsumedQuota
  <2>2. TypeOK'
    <3>0. /\ balance \in [Users -> Int]
          /\ pre[r] \in Nat
          /\ Owner[r] \in Users
      BY OwnerAssumption
    <3>1. balance' \in [Users -> Int]
      BY <3>0, <2>1, SMTT(30)
    <3>2. pre' \in [Reqs -> Nat] /\ pc' \in [Reqs -> PC]
      BY <1>0, <2>1
    <3>3. err' \in [Reqs -> NewAPIError \cup {NoError}]
      BY <1>0
    <3>. QED
      BY <3>1, <3>2, <3>3
  <2>3. NoHeldQuotaAfterExit' /\ NothingHeldBeforeAdmission'
    BY <1>0, <2>1
  <2>4. RelayingHasChannel'
    BY <1>0
  <2>. QED
    BY <2>2, <2>3, <2>4
<1>2. CASE pre[r] = 0
  <2>1. UNCHANGED <<balance, pre>>
    BY <1>2 DEF FailAfterPreConsume
  <2>. QED
    BY <1>0, <1>2, <2>1
<1>. QED
  BY <1>1, <1>2

\* Starting an attempt on a channel records it at the end of use_channel.
LEMMA StartAttemptIInv ==
    ASSUME IInv, NEW r \in Reqs, NEW c \in Channels,
           pc[r] = "select",
           StartAttempt(r, c),
           UNCHANGED <<consumed, attempt, status, cache, pending, errorLog,
                       culprits>>
    PROVE  IInv'
<1>0. useChannel[r] \in Seq(Channels)
  BY DEF IInv, TypeOK
<1>1. Append(useChannel[r], c) \in Seq(Channels)
      /\ Append(useChannel[r], c) # <<>>
  BY <1>0, AppendProperties
<1>. QED
  BY <1>1 DEF StartAttempt, IInv, TypeOK, RelayingHasChannel,
              NothingHeldBeforeAdmission, NoHeldQuotaAfterExit, PC

LEMMA GetChannelIInv ==
    ASSUME IInv, NEW r \in Reqs, GetChannel(r)
    PROVE  IInv'
<1>0. /\ pc[r] = "select"
      /\ UNCHANGED <<consumed, attempt, status, cache, pending, errorLog,
                     culprits>>
  BY DEF GetChannel
<1>1. CASE StartAttempt(r, Pinned[r])
  BY <1>0, <1>1, StartAttemptIInv, PinnedAssumption
<1>2. CASE \E c \in cache \ Tried(r) : StartAttempt(r, c)
  BY <1>0, <1>2, StartAttemptIInv DEF IInv, TypeOK
<1>3. CASE FailAfterPreConsume(r, GetChannelFailed) /\ UNCHANGED useChannel
  BY <1>0, <1>3, LocalErrorsType, FailIInv DEF IInv, TypeOK
<1>. QED
  BY <1>1, <1>2, <1>3 DEF GetChannel

LEMMA RelayAttemptIInv ==
    ASSUME IInv, NEW r \in Reqs, RelayAttempt(r)
    PROVE  IInv'
<1> DEFINE c == Current(r)
           i == attempt[r]
<1>0. /\ pc[r] = "relay"
      /\ UNCHANGED <<useChannel, status, cache>>
  BY DEF RelayAttempt
<1>1. c \in Channels
  BY <1>0 DEF IInv, TypeOK, RelayingHasChannel, Current
<1>2. ASSUME NEW cost \in Costs,
             PostConsumeQuota(r, cost),
             /\ err' = [err EXCEPT ![r] = NoError]
             /\ pc' = [pc EXCEPT ![r] = "done"]
             /\ UNCHANGED <<attempt, pending, errorLog, culprits>>
      PROVE  IInv'
  <2>1. /\ balance \in [Users -> Int]
        /\ pre[r] \in Nat
        /\ Owner[r] \in Users
        /\ cost \in Nat
    BY OwnerAssumption, QuotaAssumption DEF IInv, TypeOK
  <2>2. balance' \in [Users -> Int] /\ consumed' \in [Reqs -> Nat]
    BY <1>2, <2>1, SMTT(30) DEF IInv, TypeOK, PostConsumeQuota
  <2>. QED
    BY <1>0, <1>2, <2>2 DEF IInv, TypeOK, RelayingHasChannel, PostConsumeQuota,
                            NothingHeldBeforeAdmission, NoHeldQuotaAfterExit, PC
<1>3. ASSUME NEW e \in HelperErrors,
             ProcessChannelError(r, c, e),
             UNCHANGED consumed,
             IF ContinueLoop(r, e, i)
               THEN /\ attempt' = [attempt EXCEPT ![r] = i + 1]
                    /\ err' = [err EXCEPT ![r] = e]
                    /\ pc' = [pc EXCEPT ![r] = "select"]
                    /\ UNCHANGED <<balance, pre>>
               ELSE /\ FailAfterPreConsume(r, e)
                    /\ UNCHANGED attempt
      PROVE  IInv'
  <2>1. e \in NewAPIError
    BY HelperErrorsAssumption
  <2>2. /\ pending' \subseteq DisableTask
        /\ errorLog' \subseteq ErrorLogRow
        /\ culprits' \subseteq Channels
    BY <1>1, <1>3 DEF ProcessChannelError, IInv, TypeOK, DisableTask,
                      ErrorLogRow
  <2>3. CASE ContinueLoop(r, e, i)
    <3>1. /\ attempt' = [attempt EXCEPT ![r] = i + 1]
          /\ err' = [err EXCEPT ![r] = e]
          /\ pc' = [pc EXCEPT ![r] = "select"]
          /\ UNCHANGED <<balance, pre>>
      BY <1>3, <2>3
    <3>2. attempt' \in [Reqs -> 0..RetryTimes]
      BY <2>3, <3>1, RetryTimesAssumption DEF IInv, TypeOK, ContinueLoop
    <3>. QED
      BY <1>0, <1>3, <2>1, <2>2, <3>1, <3>2
      DEF IInv, TypeOK, RelayingHasChannel, NothingHeldBeforeAdmission,
          NoHeldQuotaAfterExit, PC
  <2>4. CASE ~ContinueLoop(r, e, i)
    <3>1. FailAfterPreConsume(r, e) /\ UNCHANGED attempt
      BY <1>3, <2>4
    <3>. QED
      BY <1>0, <1>3, <2>1, <2>2, <3>1, FailIInv
  <2>. QED
    BY <2>3, <2>4
<1>. QED
  BY <1>2, <1>3 DEF RelayAttempt

LEMMA DisableIInv ==
    ASSUME IInv, NEW t \in pending, DisableChannel(t)
    PROVE  IInv'
BY DEF DisableChannel, IInv, TypeOK, RelayingHasChannel, DisableTask,
       NothingHeldBeforeAdmission, NoHeldQuotaAfterExit, ChannelStatus

LEMMA RefreshIInv ==
    ASSUME IInv, RefreshCache
    PROVE  IInv'
BY DEF RefreshCache, IInv, TypeOK, RelayingHasChannel,
       NothingHeldBeforeAdmission, NoHeldQuotaAfterExit

LEMMA NextIInv == IInv /\ [Next]_vars => IInv'
<1> SUFFICES ASSUME IInv, [Next]_vars PROVE IInv'
  OBVIOUS
<1>1. CASE \E r \in Reqs : RelayAdmit(r) \/ GetChannel(r) \/ RelayAttempt(r)
  BY <1>1, AdmitIInv, GetChannelIInv, RelayAttemptIInv
<1>2. CASE \E t \in pending : DisableChannel(t)
  BY <1>2, DisableIInv
<1>3. CASE RefreshCache
  BY <1>3, RefreshIInv
<1>4. CASE UNCHANGED vars
  BY <1>4 DEF vars, IInv, TypeOK, RelayingHasChannel,
              NothingHeldBeforeAdmission, NoHeldQuotaAfterExit
<1>. QED
  BY <1>1, <1>2, <1>3, <1>4 DEF Next

\* The inductive invariant holds in every reachable state.
THEOREM IInvInvariant == Spec => []IInv
BY InitIInv, NextIInv, PTL DEF Spec

\* Every variable of Relay always has its type, for every instance.
THEOREM TypeCorrect == Spec => []TypeOK
BY IInvInvariant, PTL DEF IInv

\* A request that has returned from Relay never holds pre-consumed quota:
\* the deferred refund and the post-consumption zero it on every exit path.
THEOREM NoHeldQuotaAfterExitInvariant == Spec => []NoHeldQuotaAfterExit
BY IInvInvariant, PTL DEF IInv
-----------------------------------------------------------------------------
(***************************************************************************)
(* Auto-disable. AutoDisableOnlyCulprits is not inductive by itself: a     *)
(* DisableChannel step disables the channel of a pending task, so every    *)
(* pending task must already carry a culprit. processChannelError adds the *)
(* task and the culprit under the same condition (lines 312-316).          *)
(***************************************************************************)
PendingAreCulprits == \A t \in pending : t.channel \in culprits

CInv == PendingAreCulprits /\ AutoDisableOnlyCulprits

LEMMA InitCInv == Init => CInv
BY DEF Init, CInv, PendingAreCulprits, AutoDisableOnlyCulprits

\* A step that touches neither status, pending nor culprits keeps CInv.
LEMMA CInvFrame ==
    ASSUME CInv, UNCHANGED <<status, pending, culprits>>
    PROVE  CInv'
BY DEF CInv, PendingAreCulprits, AutoDisableOnlyCulprits

\* processChannelError adds a task for c exactly when it adds c to culprits.
LEMMA ProcessChannelErrorCInv ==
    ASSUME CInv, NEW r, NEW c, NEW e,
           ProcessChannelError(r, c, e), UNCHANGED status
    PROVE  CInv'
BY DEF ProcessChannelError, CInv, PendingAreCulprits, AutoDisableOnlyCulprits

LEMMA NextCInv == TypeOK /\ CInv /\ [Next]_vars => CInv'
<1> SUFFICES ASSUME TypeOK, CInv, [Next]_vars PROVE CInv'
  OBVIOUS
<1>1. ASSUME NEW r \in Reqs, RelayAdmit(r) PROVE CInv'
  BY <1>1, CInvFrame DEF RelayAdmit
<1>2. ASSUME NEW r \in Reqs, GetChannel(r) PROVE CInv'
  BY <1>2, CInvFrame DEF GetChannel
<1>3. ASSUME NEW r \in Reqs, RelayAttempt(r) PROVE CInv'
  <2>1. UNCHANGED status
    BY <1>3 DEF RelayAttempt
  <2>2. CASE \E cost \in Costs : UNCHANGED <<pending, culprits>>
    BY <2>1, <2>2, CInvFrame
  <2>3. CASE \E e \in HelperErrors : ProcessChannelError(r, Current(r), e)
    BY <2>1, <2>3, ProcessChannelErrorCInv
  <2>. QED
    BY <1>3, <2>2, <2>3 DEF RelayAttempt
<1>4. ASSUME NEW t \in pending, DisableChannel(t) PROVE CInv'
  <2>1. t.channel \in culprits /\ t.channel \in Channels
    BY DEF CInv, PendingAreCulprits, TypeOK, DisableTask
  <2>. QED
    BY <1>4, <2>1 DEF DisableChannel, CInv, PendingAreCulprits,
                      AutoDisableOnlyCulprits, TypeOK
<1>5. CASE RefreshCache
  BY <1>5, CInvFrame DEF RefreshCache
<1>6. CASE UNCHANGED vars
  BY <1>6, CInvFrame DEF vars
<1>. QED
  BY <1>1, <1>2, <1>3, <1>4, <1>5, <1>6 DEF Next

(***************************************************************************)
(* Only a channel that itself failed with a disabling error while its      *)
(* auto_ban flag was on is ever auto-disabled: processChannelError hands   *)
(* gopool a copy of the failing channel, so the late-running task cannot   *)
(* disable the channel the request has moved on to (relay.go 309-316).     *)
(***************************************************************************)
THEOREM AutoDisableOnlyCulpritsInvariant == Spec => []AutoDisableOnlyCulprits
<1>1. Spec => []TypeOK
  BY TypeCorrect
<1>2. Spec => []CInv
  BY <1>1, InitCInv, NextCInv, PTL DEF Spec
<1>. QED
  BY <1>2, PTL DEF CInv
-----------------------------------------------------------------------------
(***************************************************************************)
(* Refinement of QuotaLedger. Each step of Relay is a ledger step or       *)
(* leaves the ledger unchanged: admission is Reject or Hold, every exit    *)
(* with an error is Refund, a success is Settle, and the other steps stay  *)
(* inside the "open" phase or touch no quota. IInv supplies the types and  *)
(* that an admitted request holds nothing yet (Hold(r, 0) when q = 0).     *)
(***************************************************************************)

\* Moving r to p changes only r's ledger phase, to PhaseOf(p).
LEMMA PhaseStep ==
    ASSUME NEW r \in Reqs, NEW p, pc \in [Reqs -> PC],
           pc' = [pc EXCEPT ![r] = p]
    PROVE  LedgerPhase' = [LedgerPhase EXCEPT ![r] = PhaseOf(p)]
BY DEF LedgerPhase

LEMMA InitLedger == Init => Ledger!Init
BY DEF Init, Ledger!Init, LedgerPhase, PhaseOf

\* Leaving with an error from "select" or "relay" is a Refund: the deferred
\* refund returns a non-zero hold, and a zero hold leaves the balance.
LEMMA FailRefund ==
    ASSUME TypeOK, NEW r \in Reqs, NEW e, pc[r] \in {"select", "relay"},
           FailAfterPreConsume(r, e), UNCHANGED consumed
    PROVE  Ledger!Refund(r)
<1>0. /\ pc' = [pc EXCEPT ![r] = "done"]
      /\ Owner[r] \in Users
  BY OwnerAssumption DEF FailAfterPreConsume
<1>1. LedgerPhase[r] = "open" /\ LedgerPhase' = [LedgerPhase EXCEPT ![r] = "closed"]
  BY <1>0, PhaseStep DEF TypeOK, LedgerPhase, PhaseOf
<1>2. /\ balance' = [balance EXCEPT ![Owner[r]] = @ + pre[r]]
      /\ pre' = [pre EXCEPT ![r] = 0]
  <2>1. CASE pre[r] # 0
    BY <2>1 DEF FailAfterPreConsume, ReturnPreConsumedQuota
  <2>2. CASE pre[r] = 0
    <3>1. UNCHANGED <<balance, pre>>
      BY <2>2 DEF FailAfterPreConsume
    <3>. QED
      BY <1>0, <2>2, <3>1 DEF TypeOK
  <2>. QED
    BY <2>1, <2>2
<1>. QED
  BY <1>1, <1>2 DEF Ledger!Refund

LEMMA AdmitLedger ==
    ASSUME IInv, NEW r \in Reqs, RelayAdmit(r)
    PROVE  Ledger!Next
<1> DEFINE u == Owner[r]
<1>0. /\ pc[r] = "admit" /\ pre[r] = 0 /\ u \in Users
      /\ pc \in [Reqs -> PC] /\ balance \in [Users -> Int] /\ pre \in [Reqs -> Nat]
      /\ LedgerPhase[r] = "new"
      /\ UNCHANGED consumed
  BY OwnerAssumption DEF RelayAdmit, IInv, TypeOK, NothingHeldBeforeAdmission,
                         LedgerPhase, PhaseOf
<1>1. ASSUME pc' = [pc EXCEPT ![r] = "done"], UNCHANGED <<balance, pre>>
      PROVE  Ledger!Reject(r)
  BY <1>0, <1>1, PhaseStep DEF Ledger!Reject, PhaseOf
<1>2. ASSUME NEW q \in PreQuotas, q = 0 \/ balance[u] >= q,
             balance' = [balance EXCEPT ![u] = @ - q],
             pre' = [pre EXCEPT ![r] = q],
             pc' = [pc EXCEPT ![r] = "select"]
      PROVE  Ledger!Hold(r, q)
  <2>1. LedgerPhase' = [LedgerPhase EXCEPT ![r] = PhaseOf("select")]
    BY <1>0, <1>2, PhaseStep
  <2>2. PhaseOf("select") = "open"
    BY DEF PhaseOf
  <2>. QED
    BY <1>0, <1>2, <2>1, <2>2 DEF Ledger!Hold
<1>3. ASSUME NEW q \in PreQuotas, q = 0,
             pc' = [pc EXCEPT ![r] = "select"], UNCHANGED <<balance, pre>>
      PROVE  Ledger!Hold(r, q)
  <2>1. /\ balance' = [balance EXCEPT ![u] = @ - q]
        /\ pre' = [pre EXCEPT ![r] = q]
    BY <1>0, <1>3
  <2>. QED
    BY <1>0, <1>3, <2>1, <1>2
<1>. QED
  BY <1>0, <1>1, <1>2, <1>3, Zenon DEF RelayAdmit, Ledger!Next

LEMMA GetChannelLedger ==
    ASSUME IInv, NEW r \in Reqs, GetChannel(r)
    PROVE  [Ledger!Next]_Ledger!lvars
<1>0. /\ pc[r] = "select" /\ pc \in [Reqs -> PC] /\ TypeOK
      /\ UNCHANGED consumed
  BY DEF GetChannel, IInv, TypeOK
<1>1. ASSUME NEW c, StartAttempt(r, c) PROVE UNCHANGED Ledger!lvars
  <2>1. LedgerPhase' = LedgerPhase
    BY <1>0, <1>1, PhaseStep DEF StartAttempt, LedgerPhase, PhaseOf
  <2>. QED
    BY <1>0, <1>1, <2>1 DEF StartAttempt, Ledger!lvars
<1>2. CASE FailAfterPreConsume(r, GetChannelFailed)
  BY <1>0, <1>2, FailRefund DEF Ledger!Next
<1>. QED
  BY <1>1, <1>2 DEF GetChannel

LEMMA RelayAttemptLedger ==
    ASSUME IInv, NEW r \in Reqs, RelayAttempt(r)
    PROVE  [Ledger!Next]_Ledger!lvars
<1> DEFINE c == Current(r)
           i == attempt[r]
<1>0. /\ pc[r] = "relay" /\ pc \in [Reqs -> PC] /\ TypeOK
      /\ LedgerPhase[r] = "open"
  BY DEF RelayAttempt, IInv, TypeOK, LedgerPhase, PhaseOf
<1>1. ASSUME NEW cost \in Costs, PostConsumeQuota(r, cost),
             pc' = [pc EXCEPT ![r] = "done"]
      PROVE  Ledger!Next
  <2>1. LedgerPhase' = [LedgerPhase EXCEPT ![r] = PhaseOf("done")]
    BY <1>0, <1>1, PhaseStep
  <2>2. PhaseOf("done") = "closed"
    BY DEF PhaseOf
  <2>3. Ledger!Settle(r, cost)
    BY <1>0, <1>1, <2>1, <2>2 DEF PostConsumeQuota, Ledger!Settle
  <2>. QED
    BY <2>3 DEF Ledger!Next
<1>2. ASSUME NEW e \in HelperErrors,
             ProcessChannelError(r, c, e),
             UNCHANGED consumed,
             IF ContinueLoop(r, e, i)
               THEN /\ attempt' = [attempt EXCEPT ![r] = i + 1]
                    /\ err' = [err EXCEPT ![r] = e]
                    /\ pc' = [pc EXCEPT ![r] = "select"]
                    /\ UNCHANGED <<balance, pre>>
               ELSE /\ FailAfterPreConsume(r, e)
                    /\ UNCHANGED attempt
      PROVE  [Ledger!Next]_Ledger!lvars
  <2>1. CASE ContinueLoop(r, e, i)
    <3>1. pc' = [pc EXCEPT ![r] = "select"] /\ UNCHANGED <<balance, pre>>
      BY <1>2, <2>1
    <3>2. LedgerPhase' = LedgerPhase
      BY <1>0, <3>1, PhaseStep DEF LedgerPhase, PhaseOf
    <3>. QED
      BY <1>2, <3>1, <3>2 DEF Ledger!lvars
  <2>2. CASE ~ContinueLoop(r, e, i)
    <3>1. FailAfterPreConsume(r, e)
      BY <1>2, <2>2
    <3>. QED
      BY <1>0, <1>2, <3>1, FailRefund DEF Ledger!Next
  <2>. QED
    BY <2>1, <2>2
<1>. QED
  BY <1>1, <1>2 DEF RelayAttempt

\* Auto-disable and the cache refresh touch no quota and no pc.
LEMMA OtherStepsLedger ==
    ASSUME \/ \E t \in pending : DisableChannel(t)
           \/ RefreshCache
           \/ UNCHANGED vars
    PROVE  UNCHANGED Ledger!lvars
BY DEF DisableChannel, RefreshCache, vars, Ledger!lvars, LedgerPhase

LEMMA NextLedger == IInv /\ [Next]_vars => [Ledger!Next]_Ledger!lvars
<1> SUFFICES ASSUME IInv, [Next]_vars PROVE [Ledger!Next]_Ledger!lvars
  OBVIOUS
<1>1. CASE \E r \in Reqs : RelayAdmit(r) \/ GetChannel(r) \/ RelayAttempt(r)
  BY <1>1, AdmitLedger, GetChannelLedger, RelayAttemptLedger
<1>2. CASE ~\E r \in Reqs : RelayAdmit(r) \/ GetChannel(r) \/ RelayAttempt(r)
  BY <1>2, OtherStepsLedger DEF Next
<1>. QED
  BY <1>1, <1>2

(***************************************************************************)
(* Relay implements QuotaLedger: per request, PreConsumeQuota takes at     *)
(* most one hold, never beyond the owner's balance, and the deferred       *)
(* refund or the post-consumption closes it exactly once, on every path    *)
(* out of the retry loop and for any number of concurrent requests.        *)
(***************************************************************************)
THEOREM RefinesQuotaLedger == Spec => QuotaLedgerSpec
<1>1. Spec => []IInv
  BY IInvInvariant
<1>. QED
  BY <1>1, InitLedger, NextLedger, PTL DEF Spec, QuotaLedgerSpec, Ledger!Spec
=============================================================================
