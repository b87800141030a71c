--------------------------- MODULE LoggingTransport ---------------------------
(***************************************************************************)
(* model.LoggingTransport (src/model/model_log.go): an http.RoundTripper   *)
(* that records every upstream /v1/chat/completions exchange in the       *)
(* api_log table. RoundTrip reads and restores the request body, forwards  *)
(* the request, and wraps the response body in an rc whose Close hands the *)
(* APILog to PostProcess; PostProcess inserts the row on a goroutine of    *)
(* its own. Failures of the body read or of the upstream call are logged  *)
(* at once.                                                                *)
(*                                                                         *)
(* The response body is a number of chunks the caller reads one at a time  *)
(* through the TeeReader; the upstream connection is held from the        *)
(* response until the body is read to EOF or closed (net/http).           *)
(***************************************************************************)
EXTENDS Integers, Sequences, FiniteSets

CONSTANTS
    Reqs,    \* upstream requests sent through the transport
    Chunks,  \* length of a response body, in chunks
    Closes   \* Close calls a caller makes on one body (defer and explicit)

ASSUME ChunksAssumption == Chunks \in Nat \ {0}
ASSUME ClosesAssumption == Closes \in Nat \ {0}

VARIABLES
    target,      \* req.URL.Path is "/v1/chat/completions"
    pc,          \* "send", "upstream", "reading", "done"
    read,        \* chunks the caller has read from the body (and buf holds)
    closeCalls,  \* Close calls made on the wrapped body
    closed,      \* rc.closed
    conn,        \* the upstream connection: "none", "held", "released"
    posts,       \* PostProcess goroutines not yet run: the APILogs they hold
    rows,        \* api_log rows inserted
    dropped      \* APILogs whose insert failed (logger.LogError)

vars == <<target, pc, read, closeCalls, closed, conn, posts, rows, dropped>>

\* An APILog, abstracted to its request, the chunks in Res and whether Err is set.
APILog == [req : Reqs, res : 0..Chunks, err : BOOLEAN]

TypeOK ==
    /\ target \in [Reqs -> BOOLEAN]
    /\ pc \in [Reqs -> {"send", "upstream", "reading", "done"}]
    /\ read \in [Reqs -> 0..Chunks]
    /\ closeCalls \in [Reqs -> 0..Closes]
    /\ closed \in [Reqs -> BOOLEAN]
    /\ conn \in [Reqs -> {"none", "held", "released"}]
    /\ posts \subseteq APILog \X Nat
    /\ rows \in Seq(APILog)
    /\ dropped \in Seq(APILog)

Init ==
    /\ target \in [Reqs -> BOOLEAN]
    /\ pc = [r \in Reqs |-> "send"]
    /\ read = [r \in Reqs |-> 0]
    /\ closeCalls = [r \in Reqs |-> 0]
    /\ closed = [r \in Reqs |-> FALSE]
    /\ conn = [r \in Reqs |-> "none"]
    /\ posts = {}
    /\ rows = <<>>
    /\ dropped = <<>>

\* PostProcess(l) (lines 83-90) starts a goroutine; goroutines are told
\* apart by a serial number, as two of them may hold equal APILogs.
PostProcess(l) == posts' = posts \cup {<<l, Cardinality(posts) + Len(rows) + Len(dropped)>>}

\* Lines 34-35: any other path is forwarded and never logged.
Passthrough(r) ==
    /\ pc[r] = "send"
    /\ ~target[r]
    /\ pc' = [pc EXCEPT ![r] = "done"]
    /\ UNCHANGED <<target, read, closeCalls, closed, conn, posts, rows, dropped>>

(***************************************************************************)
(* Lines 38-48: io.ReadAll of the request body; an error is logged and     *)
(* returned.                                                               *)
(***************************************************************************)
ReadRequestBody(r) ==
    /\ pc[r] = "send"
    /\ target[r]
    /\ \/ /\ pc' = [pc EXCEPT ![r] = "upstream"]
          /\ UNCHANGED posts
       \/ /\ pc' = [pc EXCEPT ![r] = "done"]
          /\ PostProcess([req |-> r, res |-> 0, err |-> TRUE])
    /\ UNCHANGED <<target, read, closeCalls, closed, conn, rows, dropped>>

\* Mutant: the upstream error returned without logging.
UpstreamUnlogged(r) ==
    /\ pc[r] = "upstream"
    /\ \/ /\ pc' = [pc EXCEPT ![r] = "done"]
          /\ UNCHANGED <<posts, conn>>
       \/ /\ pc' = [pc EXCEPT ![r] = "reading"]
          /\ conn' = [conn EXCEPT ![r] = "held"]
          /\ UNCHANGED posts
    /\ UNCHANGED <<target, read, closeCalls, closed, rows, dropped>>

(***************************************************************************)
(* Lines 50-66: the underlying RoundTrip. An error is logged and returned; *)
(* a response holds the connection and its body is wrapped in an rc.      *)
(***************************************************************************)
Upstream(r) ==
    /\ pc[r] = "upstream"
    /\ \/ /\ pc' = [pc EXCEPT ![r] = "done"]
          /\ PostProcess([req |-> r, res |-> 0, err |-> TRUE])
          /\ UNCHANGED conn
       \/ /\ pc' = [pc EXCEPT ![r] = "reading"]
          /\ conn' = [conn EXCEPT ![r] = "held"]
          /\ UNCHANGED posts
    /\ UNCHANGED <<target, read, closeCalls, closed, rows, dropped>>

(***************************************************************************)
(* The caller reads a chunk through the TeeReader, which copies it into    *)
(* buf. Reading to EOF hands the connection back to net/http.              *)
(***************************************************************************)
Read(r) ==
    /\ pc[r] = "reading"
    /\ closeCalls[r] = 0
    /\ read[r] < Chunks
    /\ read' = [read EXCEPT ![r] = @ + 1]
    /\ conn' = [conn EXCEPT ![r] = IF read'[r] = Chunks THEN "released" ELSE @]
    /\ UNCHANGED <<target, pc, closeCalls, closed, posts, rows, dropped>>

\* Mutant: Close without the rc.closed test.
CloseUnguarded(r) ==
    /\ pc[r] = "reading"
    /\ closeCalls[r] < Closes
    /\ closeCalls' = [closeCalls EXCEPT ![r] = @ + 1]
    /\ closed' = [closed EXCEPT ![r] = TRUE]
    /\ PostProcess([req |-> r, res |-> read[r], err |-> FALSE])
    /\ UNCHANGED <<target, pc, read, conn, rows, dropped>>

(***************************************************************************)
(* rc.Close (lines 75-81) and the closeFunc (lines 61-65): the first Close *)
(* sets l.Res to what buf holds and calls PostProcess; a later one does    *)
(* nothing. Neither closes the underlying response body.                  *)
(***************************************************************************)
Close(r) ==
    /\ pc[r] = "reading"
    /\ closeCalls[r] < Closes
    /\ closeCalls' = [closeCalls EXCEPT ![r] = @ + 1]
    /\ IF ~closed[r]
       THEN /\ closed' = [closed EXCEPT ![r] = TRUE]
            /\ PostProcess([req |-> r, res |-> read[r], err |-> FALSE])
       ELSE UNCHANGED <<closed, posts>>
    /\ UNCHANGED <<target, pc, read, conn, rows, dropped>>

\* The caller is done with the response once it has closed the body.
Finish(r) ==
    /\ pc[r] = "reading"
    /\ closeCalls[r] > 0
    /\ pc' = [pc EXCEPT ![r] = "done"]
    /\ UNCHANGED <<target, read, closeCalls, closed, conn, posts, rows, dropped>>

\* The PostProcess goroutine (lines 84-89): DB.Create, or the error logged.
Insert(p) ==
    /\ p \in posts
    /\ posts' = posts \ {p}
    /\ \/ /\ rows' = Append(rows, p[1])
          /\ UNCHANGED dropped
       \/ /\ dropped' = Append(dropped, p[1])
          /\ UNCHANGED rows
    /\ UNCHANGED <<target, pc, read, closeCalls, closed, conn>>

Next ==
    \/ \E r \in Reqs :
          \/ Passthrough(r) \/ ReadRequestBody(r) \/ Upstream(r)
          \/ Read(r) \/ Close(r) \/ Finish(r)
    \/ \E p \in posts : Insert(p)

(***************************************************************************)
(* A caller closes the body it was given (the adaptors defer the Close),   *)
(* and the Go scheduler runs every goroutine: every step of a request and *)
(* every started insert is weakly fair. Reading is not: a caller may stop  *)
(* reading early, as on a client disconnect.                               *)
(***************************************************************************)
Spec ==
    /\ Init /\ [][Next]_vars
    /\ \A r \in Reqs : WF_vars(Passthrough(r) \/ ReadRequestBody(r) \/ Upstream(r)
                               \/ Close(r) \/ Finish(r))
    /\ WF_vars(\E p \in posts : Insert(p))
-----------------------------------------------------------------------------
(***************************************************************************)
(* Properties.                                                             *)
(***************************************************************************)
\* The pending goroutines of P, and the positions of the sequence s of
\* APILogs, that hold a log of request r.
PostsFor(P, r) == {p \in P : p[1].req = r}
RowsFor(s, r) == {j \in 1..Len(s) : s[j].req = r}

\* The APILogs of request r: in a pending goroutine, inserted or dropped.
NumLogs(r) ==
    Cardinality(PostsFor(posts, r))
      + Cardinality(RowsFor(rows, r))
      + Cardinality(RowsFor(dropped, r))

\* Each chat request yields at most one APILog, however many times its
\* body is closed: rc.closed makes a second Close a no-op.
AtMostOneLogPerRequest == \A r \in Reqs : NumLogs(r) <= 1

\* Every chat request that went through the transport is eventually
\* inserted into api_log, or its insert failed and was reported, on each
\* path out of RoundTrip: a failed body read, a failed upstream call, and
\* a response whose body the caller closed.
EveryChatRequestLogged ==
    \A r \in Reqs :
        (pc[r] # "send" /\ target[r]) ~>
            (\E j \in 1..Len(rows) : rows[j].req = r)
              \/ (\E j \in 1..Len(dropped) : dropped[j].req = r)

(***************************************************************************)
(* net/http: the caller must close the response body, and closing it       *)
(* releases the connection. The body the transport returns is an rc whose  *)
(* Close never closes the body it wraps, so a body closed before EOF keeps *)
(* its upstream connection.                                                *)
(***************************************************************************)
ClosingReleasesConnection ==
    \A r \in Reqs : pc[r] = "done" /\ conn[r] # "none" => conn[r] = "released"
=============================================================================
