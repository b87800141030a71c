---------------------------- MODULE QuotaLedger ----------------------------
(***************************************************************************)
(* What the relay pipeline promises the quota service (spec 4.4): each     *)
(* request opens at most one hold on its owner's balance, never larger     *)
(* than the balance when it is taken, and closes it exactly once, either   *)
(* by a refund of the whole hold or by settling it against the actual      *)
(* cost. A request may also be closed without ever holding anything.       *)
(*                                                                         *)
(* RelayPipeline implements this specification under the mapping given    *)
(* there (QuotaLedgerSpec); RelayPipelineProofs proves it.                *)
(***************************************************************************)
EXTENDS Integers

CONSTANTS
    Users,      \* owners of a balance
    Reqs,       \* requests
    Owner,      \* Owner[r]: whose balance r draws on
    InitQuota,  \* every balance at the start
    PreQuotas,  \* amounts a hold can take
    Costs       \* amounts a settlement can charge

VARIABLES
    balance,    \* balance[u]
    held,       \* held[r]: the amount r holds
    spent,      \* spent[r]: what r was charged when it settled
    phase       \* phase[r]: "new", "open" (may hold) or "closed"

lvars == <<balance, held, spent, phase>>

Init ==
    /\ balance = [u \in Users |-> InitQuota]
    /\ held = [r \in Reqs |-> 0]
    /\ spent = [r \in Reqs |-> 0]
    /\ phase = [r \in Reqs |-> "new"]

\* A request refused before it holds anything.
Reject(r) ==
    /\ phase[r] = "new"
    /\ phase' = [phase EXCEPT ![r] = "closed"]
    /\ UNCHANGED <<balance, held, spent>>

\* A hold of q, covered by the balance unless it is zero.
Hold(r, q) ==
    /\ phase[r] = "new"
    /\ q = 0 \/ balance[Owner[r]] >= q
    /\ balance' = [balance EXCEPT ![Owner[r]] = @ - q]
    /\ held' = [held EXCEPT ![r] = q]
    /\ phase' = [phase EXCEPT ![r] = "open"]
    /\ UNCHANGED spent

\* The whole hold given back.
Refund(r) ==
    /\ phase[r] = "open"
    /\ balance' = [balance EXCEPT ![Owner[r]] = @ + held[r]]
    /\ held' = [held EXCEPT ![r] = 0]
    /\ phase' = [phase EXCEPT ![r] = "closed"]
    /\ UNCHANGED spent

\* The hold settled against the actual cost.
Settle(r, cost) ==
    /\ phase[r] = "open"
    /\ balance' = [balance EXCEPT ![Owner[r]] = @ - (cost - held[r])]
    /\ spent' = [spent EXCEPT ![r] = cost]
    /\ held' = [held EXCEPT ![r] = 0]
    /\ phase' = [phase EXCEPT ![r] = "closed"]

Next ==
    \E r \in Reqs :
        \/ Reject(r)
        \/ \E q \in PreQuotas : Hold(r, q)
        \/ Refund(r)
        \/ \E cost \in Costs : Settle(r, cost)

Spec == Init /\ [][Next]_lvars
=============================================================================
