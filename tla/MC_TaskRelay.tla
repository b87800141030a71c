---------------------------- MODULE MC_TaskRelay ----------------------------
(* Model-checking instance of TaskRelay: four channels, the request pinned *)
(* to c1, and one task error of each class shouldRetryTaskRelay tells       *)
(* apart.                                                                   *)
EXTENDS TaskRelay

CONSTANTS c1, c2, c3, c4

MCChannels == {c1, c2, c3, c4}

\* 429 and a plain 5xx are retried, 504 is not, an upstream 404 is retried
\* and a local 404 is not.
MCTaskErrors ==
    {[status |-> 429, local |-> FALSE], [status |-> 500, local |-> FALSE],
     [status |-> 504, local |-> FALSE], [status |-> 404, local |-> FALSE],
     [status |-> 404, local |-> TRUE]}
=============================================================================
