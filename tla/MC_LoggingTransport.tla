------------------------- MODULE MC_LoggingTransport -------------------------
(***************************************************************************)
(* Two requests through the transport, bodies of two chunks, and callers   *)
(* that close a body twice (a deferred Close after an explicit one).       *)
(***************************************************************************)
EXTENDS LoggingTransport

CONSTANTS r1, r2

MCReqs == {r1, r2}
=============================================================================
