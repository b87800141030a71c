------------------------- MODULE MC_RelayPipeline --------------------------
(***************************************************************************)
(* Instance of RelayPipeline for TLC: one user with two concurrent         *)
(* requests sharing one balance, three channels (two auto-ban), two        *)
(* retries, and one helper error of each class shouldRetry tells apart.   *)
(***************************************************************************)
EXTENDS RelayPipeline, FiniteSetsExt

CONSTANTS u1, r1, r2, c1, c2, c3

MCUsers == {u1}
MCReqs == {r1, r2}
MCOwner == [r \in MCReqs |-> u1]
MCChannels == {c1, c2, c3}
MCPinned == [r \in MCReqs |-> c1]
MCAutoBan == [c \in MCChannels |-> c # c3]

HelperError(s, chErr, skip, dis) ==
    [status |-> s, channelErr |-> chErr, skipRetry |-> skip,
     disable |-> dis, record |-> TRUE]

\* An upstream 5xx (retried), an upstream timeout 504 (not retried), an
\* invalid key (channel error that disables the channel), and a channel
\* error the helper flags skip-retry (ErrorCodeChannelParamOverrideInvalid).
MCHelperErrors ==
    { HelperError(500, FALSE, FALSE, FALSE),
      HelperError(504, FALSE, FALSE, FALSE),
      HelperError(401, TRUE, FALSE, TRUE),
      HelperError(400, TRUE, TRUE, FALSE) }

\* The same without the skip-retry channel error.
MCHelperErrorsNoSkip ==
    MCHelperErrors \ {HelperError(400, TRUE, TRUE, FALSE)}

\* Spec 8.1: a user's quota is conserved across concurrent requests: what
\* left the balance is exactly what is still held by pre-consumptions plus
\* what the usage log charged for delivered service.
QuotaConservation ==
    \A u \in Users :
        balance[u]
          + MapThenSumSet(LAMBDA r : pre[r] + consumed[r],
                          {r \in Reqs : Owner[r] = u})
          = InitQuota
=============================================================================
