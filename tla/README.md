# Formal models of the relay core of new-api-backend

This directory holds TLA+ models of the parts of the gateway where
requests interleave, retry, move quota or rewrite data. It also holds the
TLC configurations that check them on small instances, and TLAPS proofs of
the main invariants for every instance. These cover the relay pipeline,
the task relay, the Ali adaptor's streaming flag, the logging transport
(at most one log per request) and the request rewriter (document shape,
index -1, append and prepend). A further proof shows that the relay
pipeline implements an abstract quota ledger (`QuotaLedger`). `spec.md` (the natural-language
specification) and the Go sources under `src/` are the references.
`PROJECT.json` lists every component, run, mutant, source mapping, finding
and hazard in machine-readable form.

## 1. Inventory of the system

| Part | Source | State it changes | Interacts with |
|---|---|---|---|
| Relay pipeline `controller.Relay` | `src/controller/relay.go` 68-235 | user balance (pre-consume, refund, post-consume), context `use_channel`, the client response | channel cache, channel store, gopool |
| Channel choice `getChannel` | relay.go 237-263 | the context's channel (SetupContextForSelectedChannel) | channel cache |
| Retry policy `shouldRetry` | relay.go 265-305 | none (decision) | error flags |
| Channel error handling `processChannelError` | relay.go 307-343 | async auto-disable task, error-log row | gopool, channel store, error log |
| Task relay `RelayTask`, `shouldRetryTaskRelay` | relay.go 412-505 | upstream task submissions, `use_channel`, the response | getChannel |
| Midjourney relay | relay.go 345-386 | the response | relay.* handlers (not in src/) |
| Request rewriter `ApplyParamOverride` | `src/unnamed/part_001` | the request body | none: a pure function called per attempt |
| Masking `MaskSensitiveInfo` | `src/common/str.go` 119-237 | none (string function) | error log, client messages |
| Ali adaptor | `src/unnamed/part_000` | `info.IsStream` | RelayInfo shared by attempts |
| Zhipu 4v adaptor | `src/relay/channel/zhipu_4v/adaptor.go` | none (URL, headers) | upstream |
| Upstream logging `LoggingTransport` | `src/model/model_log.go` | api_log rows, asynchronously; the upstream connection | HTTP client, DB |
| `JWT2Session`, router, Dockerfile | `src/middleware`, `src/router`, `src/Dockerfile` | session values / routes | outside the relay core |

The code this project depends on but which is not under `src/` is modelled
from `spec.md` and marked `spec_modelled` in the map. That covers
`service.PreConsumeQuota`, `ReturnPreConsumedQuota`, the post-consumption,
`CacheGetRandomSatisfiedChannel`, `DisableChannel`, the cache refresh, and
the gjson/sjson path library.

What makes these parts hard is the following:

* **Concurrent requests share state.** They draw on the same balance and
  the same channel cache and store.
* **Auto-disable runs late.** It runs on a worker after the request has
  moved on.
* **Every exit must refund.** Each way out of the retry loop must refund
  the pre-consumed quota, and only once.
* **The retry checks run in a fixed order.** The retry decision reads
  several flags in a set order.
* **Rewriter operations see earlier ones.** Each operation sees the
  document as the earlier operations left it.
* **Attempts share one RelayInfo.** What an adaptor writes into it in one
  attempt is read by the next.
* **Logging happens on close, on another goroutine.** A response's log
  row depends on how the caller reads and closes the body.

## 2. Modules

### RelayPipeline (relay.go 68-343, quota and cache from spec 4.3-4.6)

The state has one entry per request:

* `pc`: where the goroutine is in `Relay`;
* `pre`: `relayInfo.FinalPreConsumedQuota`;
* `consumed`: the usage log amount;
* `attempt`: the loop index `i`;
* `useChannel`: the context list;
* `err`: `newAPIError`.

It has one entry per user, `balance`, and one per channel, `status` (the
live store). It also holds `cache` (the channels the cache lists as
enabled), `pending` (gopool disable tasks holding a copied channel),
`errorLog` and `culprits` (a history of channels that failed with a
disabling error).

The actions are as follows:

| Action | Code |
|---|---|
| `RelayAdmit` | Lines 115-164. Each of the admission steps may fail. Then PreConsumeQuota either fails with a skip-retry InsufficientQuota, debits q, or skips the debit when q = 0. |
| `GetChannel` | Lines 174-188 and 237-263. Attempt 0 takes the pinned channel. A later attempt takes an enabled, untried channel from the cache. If there is none, or the candidate is disabled in the live store, it fails with a skip-retry error and the deferred refund runs (`FailAfterPreConsume`, lines 166-172). |
| `RelayAttempt` | Lines 189-213. Either success with `PostConsumeQuota`, or a helper error followed by `ProcessChannelError`, then `ContinueLoop` (`shouldRetry` with `RetryTimes - i`, and the loop bound). |
| `DisableChannel` | The gopool task. |
| `RefreshCache` | The cache timer. |

### QuotaLedger (spec 4.4; what Relay promises the quota service)

`QuotaLedger` is the abstract specification of the quota contract. It has
a `balance` per user and, per request, `held`, `spent` and a `phase`
("new", "open", "closed"). Its actions are `Reject` (closed before any
hold), `Hold(r, q)` (taken only when q = 0 or the balance covers it),
`Refund` (the whole hold given back) and `Settle(r, cost)`.

`RelayPipeline` maps onto it with `held <- pre`, `spent <- consumed` and
`phase <- LedgerPhase`. `PhaseOf` sends "admit" to "new", "done" to
"closed", and "select" and "relay" to "open". These are the lines before
`PreConsumeQuota` (relay.go 160), the time the deferred refund is armed
(lines 166-172), and the return from `Relay`. The property
`QuotaLedgerSpec == Ledger!Spec` states the refinement.

### TaskRelay (relay.go 412-505)

One request. The variables are:

* `ctxChannel`: the channel the context is set up for;
* `retryTimes`: zeroed after a first success;
* `i`, `useChannel` and `taskErr`;
* `submissions`: the upstream submissions, with their channel and
  success;
* `response`: what the client got.

The actions are as follows:

| Action | Code |
|---|---|
| `TaskStart` | Lines 413-425: GenRelayInfo failure, or the first submission. |
| `TaskRetry` | Lines 426-443. `getChannel(i)` returns the context's channel for i = 0. For i > 0 it selects a channel and moves the context there. |
| `TaskFinish` | Lines 444-455. |

The retry log lists `useChannel`, the channels the context named at each
submission. The call that sets the context up inside the loop is commented
out (line 438). The log is right only because `getChannel(i > 0)` sets the
context up itself (line 258). `UseChannelListsSubmissions` says that the
j-th logged channel is the channel of the j-th submission.

### ParamOverride (part_001)

A JSON document is a function from keys to values. An array is a sequence
of values, and an object is a function from member names to values, so
arrays and objects nest. Strings are character sequences, so that prefix,
suffix and contains compare what the code compares. Paths are a key, or a
key and one index.

gjson and sjson are libraries outside the repository. They are modelled
from their documented behaviour (`GetPath`, `SetPath`, `DeletePath`). For
an indexed path `key.i`:

* gjson.Get reads item i of an array, or member i of an object.
* sjson.Set on an array replaces item i if it exists. It pads with nulls
  for an index past the end, and appends for -1. An index below -1 is an
  error (`SetFails`), which `SetResult` turns into a failed operation.
* sjson.Set on an object sets member i.
* sjson.Set on a missing key or a scalar creates a new array for i >= 0
  (padded with nulls), `[v]` for -1 on a missing key, and otherwise an
  object with member i.
* sjson.Delete removes the item or member. A missing path leaves the
  document as it was.

`ValueOK` checks a value's tag, and that an array is a sequence. `DocOK`
states the shape of a document, and `OpOK` that of an operation (its paths
are paths of `Keys`, its value a JSON value). The assumption
`InputsAssumption` says that the bodies and settings the rewriter is given
have these shapes. They are JSON the code has decoded.

`TypeOK` does not describe nested values. It says four things:

* the document's keys are configured keys, plus `operations` only after a
  legacy merge;
* the operation list is well formed;
* the loop index stays within the program;
* the loop starts at the first operation.

A claim that an array nested at any depth is a sequence would need
induction over values, which the prover cannot do (section 4). So the
properties about arrays take `IsSeq` of the array they speak of as a
hypothesis. A legacy merge ends the run and may add the operations list.

The pure operators are translations of the Go functions:

* `CheckConditions`, `CheckSingleCondition`, `CompareGjsonValues`,
  `CompareEqual` and `CompareNumeric`;
* `ProcessNegativeIndex`;
* `MoveValue`, `ModifyValue`, `ModifyArray`, `ModifyString` and
  `MergeObjects`;
* `ExecOperation`.

The state machine is the loop of `applyOperations`. Its state holds the
setting, the current document, the parsed operations, the index `k` and a
phase. Its actions are:

* `Dispatch` (ApplyParamOverride, tryParseOperations, and the legacy
  merge `MergeLegacy`, which sets each key of the setting on the body as
  the loop at lines 294-296 does);
* `ConditionFailed`, `OperationSkipped`, `OperationApplied` and
  `OperationFailed`, one for each outcome of an iteration;
* `Finish`.

### Masking (str.go 119-237)

`MaskSensitiveInfo` is a pure function, modelled as an operator over texts
of tokens. A token is a punctuation mark (`.`, `/`, `?`, `=`, `&`, space,
`@`, a bad `%` escape), `***`, a scheme, or a label with its length, its
character class and the role it plays in the input (subdomain, host, TLD,
path segment, query key or value, user information, e-mail local part).
The roles are not read by the operators; only the properties look at them.

* `MaskHostTail`, `MaskHostForURL`, `MaskHostForPlainDomain`: the helpers,
  with the length test of line 127.
* `UrlMatchEnd`, `ReplaceURLs`, `MaskURL`, `MaskPath`, `MaskQuery`: the URL
  regex, `ReplaceAllStringFunc`, and the closure with its `url.Parse`
  failure, the path masking and the query masking. `url.ParseQuery` fails
  on a bad escape; the keys are written in Go map order, so `MaskQuery`
  returns the set of every order.
* `DomainMatchEnd`/`ReplaceDomains` and `IPMatch`/`ReplaceIPs`: the second
  and third passes, each over the output of the one before.
* The state machine has one action, `MaskSensitiveInfo`, from an input to
  its output. The recursive operators keep this module out of the proofs.

The domain pass re-masks the tail the URL pass kept: `https://sub.domain.co.uk/x`
becomes `https://***.***.co.uk/***`, not `https://***.co.uk/***` as the
comment at line 166 says. No property depends on that wording.

### LoggingTransport (model_log.go)

Each request `r` has these variables:

* `target`: whether the path is `/v1/chat/completions`;
* `pc`: where RoundTrip and the caller are;
* `read`: the chunks the caller has read (and `buf` holds);
* `closeCalls` and `closed`: the caller's Close calls and `rc.closed`;
* `conn`: the upstream connection (none, held, released).

`posts` holds the PostProcess goroutines not yet run. `rows` and
`dropped` are the inserted rows and the failed inserts.

| Action | Code |
|---|---|
| `Passthrough` | Lines 33-36. |
| `ReadRequestBody` | Lines 37-48: a read error is logged. |
| `Upstream` | Lines 50-67: an error is logged; a response holds the connection and is wrapped in an `rc`. |
| `Read` | The caller reads through the TeeReader. EOF releases the connection. |
| `Close` | `rc.Close` (lines 69-81) with the closeFunc (61-65). It does not close the wrapped body. |
| `Finish` | The caller is done after closing. |
| `Insert` | The PostProcess goroutine (lines 84-89): the row is inserted or the error logged. |

### AdaptorStream (part_000 60-99, 150-172; relay.go 122-213)

One request and its attempts. `isStream` is the `info.IsStream` of the one
RelayInfo that `Relay` builds at line 122 and passes to every attempt.
The client's `stream` and `enable_thinking` stay as they are, because each
attempt converts the request again from the retained body. `attempts`
records, per attempt, what was sent and how the answer was read: the
model, Ali or not, `stream`, `enable_thinking`, the `X-DashScope-SSE`
header and the response handler.

* `ConvertOpenAIRequest` (lines 78-99): a thinking model forces stream,
  enable_thinking and `info.IsStream`, and a non-streaming `info.IsStream`
  clears enable_thinking.
* `SSEHeader` (lines 60-76) and `StreamHandler` (lines 150-172) read
  `info.IsStream` after the conversion.
* `AliAttempt` and `OtherAttempt` are one attempt on an Ali channel or on
  an OpenAI-compatible one (spec 4.2). `AfterAttempt` is the end of the
  loop body (relay.go 201-213): return, or another attempt while the
  bound allows.

## 3. Runs

The model-checking modules (`MC_*.tla`) give the constants small values,
and the `.cfg` files choose the properties.

| Run | Properties | What it shows |
|---|---|---|
| `MC_RelayPipeline.cfg` (pass) | TypeOK, NoHeldQuotaAfterExit, QuotaConservation, AutoDisableOnlyCulprits, RequestsSettle, QuotaLedgerSpec | See below. |
| `MC_RelayPipeline_SkipRetry.cfg` (violation) | NoAttemptAfterSkipRetry | A channel error flagged skip-retry is retried. |
| `MC_TaskRelay.cfg` (pass) | TypeOK, NoSubmissionAfterSuccess, UseChannelListsSubmissions | There is no second submission after a success, and the retry log names the channel of every submission. |
| `MC_TaskRelay_NewChannel.cfg` (violation) | RetriesUseNewChannels | The first task retry resubmits to the channel that just failed. |
| `MC_ParamOverride.cfg` (pass) | TypeOK, NegativeIndexIsLast, ArrayEditsKeepItems | -1 is always the current last item, and append/prepend keep the original items of the target array in order, at the top level or nested in an array (1802 distinct states). |
| `MC_ParamOverride_MoveRelocatesValue.cfg` (violation) | MoveRelocatesValue | A move onto its own path deletes the value. |
| `MC_Masking.cfg` (pass) | URLPartsRedacted, SubdomainsRedacted | No path segment, query value or user information survives a URL that parses, and no subdomain label survives any text. |
| `MC_Masking_URLPartsRedacted.cfg` (violation) | URLPartsRedacted | A URL that `url.Parse` rejects keeps its path and query values. |
| `MC_LoggingTransport.cfg` (pass) | AtMostOneLogPerRequest, EveryChatRequestLogged | A chat request is logged at most once however often its body is closed, and is eventually logged or reported on every path. |
| `MC_LoggingTransport_ConnectionLeak.cfg` (violation) | ClosingReleasesConnection | A body closed before EOF keeps its upstream connection. |
| `MC_AdaptorStream.cfg` (pass) | TypeOK | At most RetryTimes + 1 attempts are made (the loop bound of relay.go 175). |
| `MC_AdaptorStream_NonStreamingNeverThinks.cfg` (violation) | NonStreamingNeverThinks | After an attempt on a thinking model, a retry on another Ali model is sent non-streaming with enable_thinking true. |

Seven more configurations check one property each. TLC finds each of them
violated by the code. They are kept beside the runs above so that a reader
can reproduce each disagreement, but they are not among the runs
`PROJECT.json` lists:

| Configuration | Property | What TLC finds |
|---|---|---|
| `MC_RelayPipeline_Pinned.cfg` | PinnedRequestStaysOnChannel | A pinned request is retried on another channel. |
| `MC_TaskRelay_Answered.cfg` | FailureIsAnswered | A GenRelayInfo failure leaves the client with no error response. |
| `MC_ParamOverride_ConditionErrorsNeverAbort.cfg` | ConditionErrorsNeverAbort | A type mismatch in a condition aborts the whole program. |
| `MC_ParamOverride_MergeKeepsOriginKeys.cfg` | MergeKeepsOriginKeys | keep_origin overwrites a key whose value is null. |
| `MC_ParamOverride_OperationsNeverMerged.cfg` | OperationsNeverMerged | A malformed program is merged into the body as an `operations` field. |
| `MC_Masking_HostRedacted.cfg` | HostRedacted | `bit.ly` is kept whole. |
| `MC_Masking_EmailLocalPartRedacted.cfg` | EmailLocalPartRedacted | E-mail local parts are not masked. |

The relay pipeline pass run covers two concurrent requests of one user with
retries, refunds, asynchronous auto-disable and the cache refresh. In it:

* quota is conserved;
* no quota is held after exit;
* only culprits are disabled;
* every request settles;
* every step of Relay is a step of the quota ledger or leaves it
  unchanged (the refinement of `QuotaLedger`). A pre-consumption that skips
  the balance check (mutant `RelayAdmitOverdraw`) violates only this
  property among those of the run.

The violation runs among the runs are the findings of `PROJECT.json`. Each states what
`spec.md` says and shows that the code does otherwise.

**Bounds.**

* **RelayPipeline.** 2 requests of one user, 3 channels (one with auto-ban
  off), `RetryTimes = 2`, a balance of 3 with pre-quotas {0, 2} and costs
  {1, 3}. So one request can be refused for insufficient quota while the
  other holds quota. Costs above and below the hold move the balance both
  ways.

  There are four helper errors: a retryable 500, a non-retryable 504, a
  disabling 401 channel error, and a skip-retry 400 channel error. They are
  the four cases `shouldRetry` and `processChannelError` tell apart.

  Three channels and two retries are enough for a request to reach a
  channel the other request's error has just disabled, and for the cache to
  run out of candidates.
* **TaskRelay.** 4 channels, `RetryTimes = 3`, and task errors of each class
  `shouldRetryTaskRelay` separates (429, 5xx, 504, upstream and local 4xx).
* **ParamOverride.** Two bodies (an array and an object with a null, or a
  string and a number) and every program of one or two operations from a
  pool of fourteen. The pool has one operation per branch of
  `applyOperations` and `modifyValue`, plus the empty, legacy and malformed
  settings. Four operations reach the indexed branches of sjson.Set: an
  item replaced by an array, an append to that nested array, an index
  below -1, and a move to an index past the end. `Keys`
  holds `""`, the path of an operation that has no `from` or `to`.
* **Masking.** 24 labels, and every URL over 2 schemes, 5 hosts (with
  subdomains, a country-code tail, a bare name, an address and user
  information), 5 paths (empty, `/`, trailing and doubled slashes) and 8
  queries (empty, bare `?`, repeated and valueless keys, a bad escape).
  Plain domains, addresses and words come on top: 868 texts. Each branch
  of the helpers and of the closure is reached.
* **LoggingTransport.** 2 concurrent requests, bodies of 2 chunks (so a
  body can be closed before, or at, EOF), and up to 2 Close calls (the
  deferred Close after an explicit one).
* **AdaptorStream.** Models {thinking, plain, other}, `RetryTimes = 2`,
  and every client choice of stream and enable_thinking. Two retries
  are enough for a thinking attempt to be followed by one on each kind of
  channel.

Each property of a pass run has a mutant in `PROJECT.json`: a plausible bug
in the mapped code (a dropped refund, a hold that is not recorded, an
auto-ban check dropped, a missing bound, swapped append/prepend, an
off-by-one negative index, a raw query written back on a parse error, a
third host label kept, a Close without its `closed` test, an upstream error
returned unlogged, a task retry that does not move the context, an off-by-one
loop bound) that TLC must catch. The masking and logging runs do not check
their type invariants, which no plausible bug of the mapped code breaks.

**Fairness.**

* Each request runs on its own goroutine until `Relay` returns, so it gets
  weak fairness (WF).
* The gopool runs every task it was given, so each disable task gets WF.
* The cache refresh runs on a timer, so it gets WF.

The task relay and the rewriter have no liveness property.

In LoggingTransport:

* every step of RoundTrip and the caller's Close get WF. The adaptors
  defer the Close of every response body, so a caller always closes.
* each started PostProcess goroutine gets WF, because the Go scheduler
  runs it.
* `Read` gets no fairness. A caller may stop reading at any point, for
  example when the client disconnects.

The masking and adaptor models have no liveness property. Deadlock checking is off because all these models end
when the request returns.

## 4. Proofs

### RelayPipelineProofs.tla

TLAPS proves `Spec => []IInv` for every value of the constants, under the
named assumptions in RelayPipeline: `RetryTimes`, the quotas and costs are
naturals, the helper errors are well-typed, `Owner` and `Pinned` are total.

`IInv` is the conjunction of four parts:

* `TypeOK`;
* `RelayingHasChannel`: a request in "relay" has a non-empty `useChannel`,
  so `Current` is defined;
* `NothingHeldBeforeAdmission`: a request in "admit" holds nothing;
* `NoHeldQuotaAfterExit`.

`NoHeldQuotaAfterExit` alone is not inductive. A step that sends a request
to "done" must know the request's type and channel, and the refund must not
meet an earlier hold.

There is one lemma per action (`AdmitIInv`, `GetChannelIInv`,
`RelayAttemptIInv`, `DisableIInv`, `RefreshIInv`), plus `FailIInv` for the
shared refund exit and `StartAttemptIInv`. `NextIInv` combines them.
`TypeCorrect` and `NoHeldQuotaAfterExitInvariant` follow by PTL.

`AutoDisableOnlyCulpritsInvariant` proves `Spec => []AutoDisableOnlyCulprits`.
The property is not inductive on its own. A `DisableChannel` step disables
the channel copied into a pending gopool task, so the proof needs to know
that such a channel is a culprit already. `CInv` adds this as
`PendingAreCulprits`: every pending task's channel is in `culprits`.
`ProcessChannelError` adds a channel to `culprits` in the same step in
which it queues the task for it (lines 309-316). The proof uses
`[]TypeOK` from `TypeCorrect`. The lemmas are `InitCInv`,
`ProcessChannelErrorCInv`, `CInvFrame` (steps that leave `pending`,
`culprits` and `status` alone) and `NextCInv`.

`RefinesQuotaLedger` proves `Spec => QuotaLedgerSpec`, that Relay
implements `QuotaLedger` for every number of requests, users, channels
and retries. `InitLedger` maps the initial state. `NextLedger` shows that
every step of `Next`, under `IInv`, is a ledger step or a ledger stutter:

* `AdmitLedger`: admission is `Reject`, or `Hold(r, q)`. When q = 0 the
  debit is skipped, and `Hold(r, 0)` holds because `IInv` gives pre[r] = 0
  in "admit".
* `GetChannelLedger`: starting an attempt stays in "open". A get-channel
  failure is `Refund`.
* `RelayAttemptLedger`: success is `Settle(r, cost)`. A retry stays in
  "open". A final error is `Refund` (`FailRefund`). The refund skips the
  credit when pre[r] = 0, which is still a refund of the whole (zero)
  hold.
* `OtherStepsLedger`: auto-disable and the cache refresh touch no ledger
  variable.

`PhaseStep` says once that moving `pc[r]` changes only r's ledger phase.

### TaskRelayProofs.tla

`TypeCorrect`, `NoSubmissionAfterSuccessInvariant` and
`UseChannelListsSubmissionsInvariant` hold for every set of channels and
task errors and every retry bound. The inductive invariant
adds two parts to `TypeOK`:

* `SuccessIsLast`: a successful submission is the last one, and `taskErr`
  is nil after it.
* `NothingSubmittedAtStart`.

`NoSubmissionAfterSuccess` alone is not inductive. A retry is excluded
after a success only because the success left `taskErr` nil, which
`shouldRetryTaskRelay` refuses (lemma `RetryNeedsError`).

`SubmitFacts` states once what a submission appends.
`AppendKeepsSuccessLast` says that appending to a list of failures keeps
`SuccessIsLast`. `NextIInv` has one step per action, and `TaskRetry` is
split into i = 0, i > 0 and the getChannel failure.

`UseChannelListsSubmissions` is proved from `LInv`, which adds two parts
to that invariant:

* `StartsPinned`: before the first submission, the context names the
  pinned channel and the log is empty.
* `LogMatches`: in the loop, the log and the submissions have the same
  length.

The first submission reads the pinned channel, which `TaskStart` logs. A
retry with i > 0 moves the context to the selected channel before the
submission reads it. A retry with i = 0 logs and submits on the unchanged
context. Either way both lists grow by the same channel (`SubmitChannel`,
`AppendBoth`). A getChannel failure leaves the loop, so it appends to
neither list. The length equality is needed because without it a log entry
could be matched with the wrong submission.

### AdaptorStreamProofs.tla

`TypeCorrect` holds for every set of models and every retry bound. It
includes the bound of RetryTimes + 1 attempts. The inductive invariant is
`TypeOK`, plus `LoopBound`: another attempt is made only while at most
RetryTimes have been made. `AppendAttempt` shows that appending a
well-formed attempt keeps the invariant.

### LoggingTransportProofs.tla

`AtMostOneLogPerRequestInvariant` holds for every set of requests and all
chunk and Close bounds. `NumLogs(r)` counts three things:
* the pending PostProcess goroutines of `r`;
* its inserted rows;
* its failed inserts.

The property says `NumLogs(r) <= 1`. It is not inductive as it stands. A
step that posts a log must know that the request has none yet, and a
count over `posts` needs `posts` to be finite.

The inductive invariant `LInv` is `TypeOK`, plus `IsFiniteSet(posts)`, plus
a per-request `ReqInv(r)`. `ReqInv(r)` ties the count to the control
state: `NumLogs(r)` is 1 exactly when `Logged(r)` holds, that is, when the
body was closed or RoundTrip returned on an error path of a chat
request. It also says that only a chat request gets as far as the
upstream call or a close. And a Close call always sets `closed`, so a
second Close takes the guarded branch.

The counting lemmas (`PostsForAdd`, `PostsForRemove`, `RowsForAppend`)
say how each action changes the three counts. They rest on
`FiniteSetTheorems`. `OtherReqFrame` says that a step of one request
leaves the counts of the others alone. There is one lemma per action.

### ParamOverrideProofs.tla

Three results hold for every set of keys, bodies and settings that
satisfy `InputsAssumption`:
* `TypeCorrect` (`Spec => []TypeOK`);
* `NegativeIndexIsLastInvariant` (`Spec => []NegativeIndexIsLast`);
* `ArrayEditsKeepItemsHolds` (`Spec => ArrayEditsKeepItems`).

`TypeOK` is inductive as it stands. The proof rests on lemmas about the
keys each helper leaves:

* `SetPathDomain` and `DeletePathDomain`: sjson.Set adds at most the
  path's key, and sjson.Delete adds none;
* `SetResultDoc`: a set that does not fail gives the document of
  `SetPath`;
* `NegativeIndexKey`: processNegativeIndex keeps a path's key;
* `ModifyValueSets` and `ExecOperationKeys`: every operation that succeeds
  keeps the document's keys within `Keys`;
* `LegacyMergeKeys`: the legacy merge adds only the setting's keys, plus
  `operations`.

A sequence is written `IsSeq(s)` (`s \in Seq(Range(s))`). TLC can test
that, and `SeqIsSeq` turns any `s \in Seq(S)` into it, so the lemmas of
`SequenceTheorems` apply.

The shape of nested values is out of the prover's reach. A set or
append at `key.i` rebuilds the array a key holds from items that may be
arrays. Saying that every array at every depth is a sequence is a
recursive predicate over values, and proving that the operations keep it
is an induction the installed provers cannot do. So the two properties
about arrays hold for any document and take `IsSeq` of the array they
are about as a hypothesis. TLC checks them on documents whose arrays nest.

`NegativeIndexIsLast` holds for every document. For an array that is a
non-empty sequence, index -1 resolves to `Len - 1`, and gjson.Get reads
`Last` (`NegativeOneIsLast`). The theorem therefore needs no invariant.

`ArrayEditsKeepItems` follows from `ArrayEditStep`, which uses two facts:

* `GetSetSame`: gjson.Get reads back what sjson.Set wrote, at any path
  that exists. That is a top-level key, an item of an array, or a member
  of an object.
* An append or prepend on the array at the resolved path `p` sets `p` to
  `old \o Items(value)` or `Items(value) \o old`, so `PrefixOfConcat` and
  `SuffixOfConcat` apply.

A step that skips the operation at `k` (a failed condition, a
keep_origin set on an existing key) leaves the document as it was, and a
sequence is its own prefix and suffix (`PrefixSuffixRefl`). The steps
that do not advance `k` do not meet the property's antecedent.

### Only model-checked

Some properties are only model-checked:

* The liveness properties (`RequestsSettle`,
  `EveryChatRequestLogged`). TLAPS does not handle liveness or ENABLED.
* `QuotaConservation`. It equates a balance with a sum over requests. No
  installed theorem module states how a sum over a set changes when one
  element's term changes. Proving such a lemma needs induction over finite
  sets, and the library's induction theorems take an operator parameter,
  which the installed provers cannot instantiate.
* The masking invariants (`URLPartsRedacted`, `SubdomainsRedacted`). The
  masking passes are RECURSIVE operators, which keep Masking out of the
  prover's reach.

The refinement of `QuotaLedger` is proved as a safety property (`[][Next]`
with no fairness), which is all that `QuotaLedger` states.

## 5. Not modelled, and the plan

Not modelled, and why:

* **Midjourney relay.** It is a single dispatch to handlers outside `src/`.
* **Error rendering.** `Relay` formats the final error per dialect; that is
  formatting only.
* **JWT2Session, the router and the Dockerfile.** They are outside the relay
  core, with no concurrency.
* **Other string helpers in `common/str.go`.** They are stateless
  conversions. `MaskEmail` is never called.
* **Concurrent `rc.Close`.** No caller under `src/` closes one body from
  two goroutines, and doing so would be a data race on `closed`. Repeated
  sequential Close calls are modelled.
* **The Zhipu 4v adaptor, and the URL and image conversions of the Ali
  adaptor.** They build requests and change no shared state.

Planned for the next sittings:

1. **More of the rewriter.** Paths with several negative indices, which
   exposes the `strings.Split` resolution at part_001:197.
2. **A proof of `QuotaConservation`.** It needs a sum lemma over a finite
   set (the term of one request changes), proved once by induction over
   the set. That waits for a prover that can instantiate the induction
   theorems.
3. **`info.IsStream` in RelayPipeline.** This would let the stale flag be
   checked together with quota and auto-disable.
