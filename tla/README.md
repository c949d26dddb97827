# TLA+ models of arcjet-go

This directory models the parts of the Arcjet Go SDK that are hard to get right
and hard to test: the background capture delivery, the shared remote policy
cache, the Guard call with its refresh and retry, Protect with the rule cache
that several clients share, GuardAction and the agent middleware on top of it,
the life of WebAssembly components, and the calculations whose edge cases are
many: memory layouts, the client's address, results and retry advice, windowed
scanning, redaction and the metadata budget. The models are checked by TLC on
small instances and proved about with TLAPS: their main safety properties hold for
any number of goroutines, clients, calls, rules, tools and nested actions, for any
queue and batch size, and those of the calculations for every input. Every safety
property that the passing runs check as an invariant is also proved.

Every definition names in `PROJECT.json` (`map`) the source lines it stands
for. Line numbers below refer to the same commit.

## The system

The SDK is one Go package (`arcjet`) with two entry points and helpers around
them. `Client.Protect` decides on an HTTP request; `GuardClient.Guard` decides
on an action of an agent. Both evaluate what they can in process (a
WebAssembly analyzer, or a Go backend for sensitive information) and ask the
Decide service for the rest. Everything is called from many goroutines.

| Component | State it keeps | Operations | Module | What makes it correct |
|---|---|---|---|---|
| Capture delivery (`capture_delivery.go`, `capture.go`) | queue, `outstanding`, `nextSeq`, `flushNow`, `worker`, one condition variable | `capture`, `flush`, the worker's `collect`/`send`/`finish`, timers | `CaptureDelivery`, `CaptureQueue` | bounded, each event sent or dropped once and in order, no lost wakeup, flush settles what it promised |
| Remote policy runtime (`remote_policy.go`) | cache and in-flight fetch per label | `get`, `fetch`, expiry | `RemotePolicy` | one fetch at a time, the cache never goes back, nobody waits forever |
| Guard call (`guard.go`, `wire_guard.go`) | the state of one call, over the policy cache | prepare, ask, refresh and retry, report | `GuardCall` | sensitive inputs stay local after a detection, attempts are not mixed, a local denial stands |
| Protect and rule cache (`client.go`, `cache.go`, `rules.go`, `signed_bot.go`) | `ruleCache.entries`, shared by the clients `WithRule` makes; per-call state | `ProtectDetails`, `get`, `set`, `WithRule`, `Close` | `Protect` | the cache holds only what a rule said of a fingerprint, a local denial is due to the request it answers |
| Local evaluator (`local_decision.go`, `wasm.go`) | compiled factory, `closed` | lazy compile, instantiate, call, `close` | `WasmLifecycle`, `Protect` | nothing reopens after close, what fails in a call is its error where it has one |
| GuardAction (`guard_action.go`, `correlation.go`) | none; nested activations | `GuardAction`, its hook and its function | `GuardAction` | runs the function at most once and by consent, one outcome event, one correlation ID |
| Agent framework (`agentframework/`) | the run's tools | `Run`, `GuardTools`, a guarded tool's `Call` | `AgentRun` | every tool guarded once, a refusal is the tool's own |
| Redactor (`redact/`) | compiled module, `closed`, its lock | `Redact`, `Close`, `Unredact` | `WasmLifecycle`, `Redaction` | close waits and returns, unredact inverts redact |
| Guard results (`wire_guard.go`, `guard.go`, `guard_denial.go`) | none | conversion, `Result`, `DeniedResult`, `ErrorResult`, retry advice | `GuardResults` | no result goes unseen, the advised wait suffices |
| Evaluation of a policy (`remote_policy.go`) | none | `localResults`, `localPolicyDenial` | `LocalPolicy` | the denial is explained, dry runs still sanitize |
| Client IP (`client.go`, `platform.go`) | trusted proxies, platform | `clientIPDetails` | `ClientIP` | never an address that an untrusted hop wrote |
| Metadata (`metadata*.go`) | none | encode, budget | `MetadataBudget` | what is kept fits, what is dropped is reported |
| Rampart (`sensitiveinfo/rampart/`) | weights | windows, inference, span merging | `RampartScan` | windows do not show in the result |
| Bindings (`internal/local/*/bindings.go`) | none | lowering and lifting of values | `WasmAbi` | the memory layout of the canonical ABI |
| Decide wire conversion, protobuf code, examples | none | | not modelled | data, no control |

How they meet: Guard prepares its label's policy through the policy runtime
and reads the runtime's waiters and forced refreshes at two places (`GuardCall`
instantiates `RemotePolicy`); `GuardClient.Capture` and `Flush` are the only
way into the delivery; `WithRule` copies a client and shares its rule cache and
evaluator; GuardAction calls Guard, then Capture; the agent framework calls
GuardAction. Protect, Guard and Redact call WebAssembly components through the
bindings, and those call back into the application.

## Hazards

`PROJECT.json` lists each at its line. In short:

* One `sync.Cond` serves the capture worker and every Flush caller, with
  `Signal` in one place and `Broadcast` in others.
* `outstanding` is changed by three kinds of goroutine, and clamped at zero.
* An expired flush removes events from the queue while a batch is under way and
  others append; late timer callbacks arrive after their flush returned.
* `flushNow` is one flag for several Flush callers.
* A policy fetch is shared: by its starter's context, by forced refreshes, by a
  failure that writes back what was cached before it began.
* Guard's second attempt is built from its first request.
* Rule results reach the rule cache by position, from clients that sort
  different rules, and signed traffic shares fingerprints with unsigned.
* `get` of the rule cache reads the clock before it takes the lock.
* Protect writes into a map its caller owns.
* GuardAction is called from hooks and functions of GuardAction; errors of one
  action pass through another's.
* `close` of the evaluator waits for no call in flight; the redactor's waits for
  all, and their callbacks are the application's.
* The bindings are generated code with every offset written out; most exports
  without an error result panic when they fail.
* Clamps, shared budgets, overlapping windows, neighbour searches and walks of
  client-written headers, each right or wrong at its boundary.

## Modules

### CaptureQueue: what the delivery promises

An abstract bounded queue. An event is accepted when there is room or refused;
the oldest accepted events move to a request; a request settles, sent or lost;
an expired flush drops a prefix by sequence number. No goroutines, no
conditions, no timers.

### CaptureDelivery: how it does it

Variables are the fields of `captureDelivery` (`queue`, `outstanding`,
`flushNow`, `worker`), the program counters of the Flush callers and the
worker, the wait set of the condition variable, and the history that the
properties need: each event's fate and each flush's barrier. A step is a
stretch of code between two releases of `mu`:

| Code | Actions |
|---|---|
| `capture` | `Capture`, `Refuse` |
| `flush` | `FlushBegin`, `FlushExpiredCall`, `FlushResumes`, which is `FlushDrained`, `FlushExpires` or `FlushWaitsOn` |
| a flush's context and `AfterFunc` | `ContextEnds`, `FlushTimer`, `LateCallback` |
| `collect` | `CollectIdle`, `CollectBatch`, `WorkerTimer` |
| `run` | `SendReturns`, `WorkerExits` |

`Signal` wakes any one waiter, which is the contract of `sync.Cond`; today's
runtime wakes the longest waiter, which is one of these choices. The return of
`send` and the critical section of `finish` after it are one step, since nothing
else reads what happens between them. Nil events and empty actions never reach
the queue; the diagnostics callback, which runs under `mu` in
`abandonLocked`, is taken to return; `noBatchDelay` is for tests.

Two behaviours worth knowing, which contradict nothing the repository says:
Flush waits until nothing is outstanding, events captured after it began
included, and an expiring flush drops queued events that another, longer flush
is still waiting to see delivered.

### RemotePolicy: the cache of one label

The label's entry, its freshness, the fetch in flight, the fetch objects and
what each caller of `get` is doing. `server` is the revision the service would
answer with; the operator moves it on. `Get` is the critical section of `get`
(`Hit`, `Join` or `Launch`); `Receive` and `Cancel` are the two branches of its
`select`; `ServerAnswers` is the moment the service reads the policy,
`FetchReturns` the critical section that ends `fetch`. The two lifetimes (five
minutes, five seconds with jitter) become the question whether the entry is
fresh, which may stop being so at any moment: every length of them is included.

A forced refresh may join a fetch that was answered before the caller learnt
that its policy is stale. The model has that case; what is stated, checked and
proved is what does hold: no caller goes back to an older policy.

### GuardCall: Guard over that cache

One call's position, its prepared entry, the sticky `sanitizeInputs`, the
request under way, the reply and the returned decision. Each early return of
`Guard`, `refreshAndRetry` and `reportLocalPolicyDenial` is a disjunct. A policy
has one local rule: it finds something under a live rule, under a dry run, or
not at all, and its evaluation may fail, which finds nothing. A reply carries
what the code will read of it. A second reply may ask for another refresh,
which the code ignores.

### Protect: rules, evaluation and the shared cache

Clients are what `WithRule` made from one client, so they share `cache` and the
evaluator (`closed`) and have rules of their own, sorted by priority
(`RulesOf`) with the positional slices built from them (`RuleIds`). A call runs
`NextRule` (defer a bot rule, or read the clock), then `Hit` or `Miss` (the
critical section of `ruleCache.get`), `Evaluate`, `StoreLocal` (that of `set`),
and at the end `Ask`, `DecideFails` or `Decided`, and one `StoreResult` for each
result. `Extra` is the caller's map when the caller passed one (`Details`).
A denial carries the rule and fingerprint it speaks of and when it was stored;
the code keeps only the slot it is found in, and that the two agree is what
`CacheIsBacked` says. `Report` runs in the background, changes nothing a caller
sees and is left out. The two fingerprints of a call are taken in one step.
Concurrent writes to a reused `Extra` map, which Go ends the program for, are
taken to be one after the other. Result lists that are shorter than the rules
are included, and what follows the last rule is ignored as in the code.

### GuardAction and AgentRun: what is done with a decision

`GuardAction` is a stack of activations, since a Resolve hook and the function
are the application's code and may call GuardAction again. `Nest` and
`RefusedNil` are those calls, `HookReturns` and `GuardAnswers` the two ways an
activation settles (`Settles` is the order in which the code looks at
conclusion, error and posture), `FnReturns` the function's end. What Guard
returns is any of the combinations that `Guard` produces: the zero decision
with an error, an allowed decision that failed open, a denial with or without an
error, a conclusion this SDK does not know. An error is the chain `errors.As`
walks. A call without a function or context returns at once with no event
(guard_action.go:174-186).

`AgentRun` adds the middleware: a run passes each installed middleware
(`Screen`, `Screened`, `GuardTools`), reaches the provider, and the provider
calls a tool (`CallTool`, `CallInner` for a guard inside, `ToolReturns`). A tool
is its layers, so that guards hidden by an approval layer, and tools that came
guarded, are included. Each middleware may or may not have an `Inbound` and a
`Tools` policy. Two variables are history and guard nothing: `unscreened` is what an
`Inbound` policy let pass without a screening that consented, and `wanted` says that
a `Tools` policy would have the tool guarded. They tie the later phases of a run to
what was decided before: `EffectHasConsent` says that only approvals get past a
policy unscreened, `GuardedOnce` that a tool a policy wants guarded is.

### WasmLifecycle: owners and calls of a component

One module for both owners; `owner` says which, from the initial state on.
`RedactEnters` is the lock and the flag; `FactoryLazy` the evaluator's critical
section. A call goes through `Instantiate`, `Lower`, `GuestAsks` (the
application's callback, which may call the same owner: `CallbackCalls`),
`GuestAnswers`, `Lift`, `Post` and `Return`. Whatever asks the guest for
something may fail, under an open runtime as under a closed one. A failure ends in
an error, or in a panic where the export returns none (`"panic"`); that of the
clean-up (`Post`) ends in a panic whatever the export returns (`"unclean"`, "failed
to cleanup" in both `bindings.go`). `Redact` recovers from both, the evaluator from neither. What
WebAssembly calls do on a closed runtime is decided outside the repository: they
fail, or succeed when they are past its checks, and both are included. A
callback that closes its own Redactor waits for itself, as the documentation of
Close implies; `CloseReturns` promises nothing then.

### WasmAbi: memory layouts

The offsets and widths that the bindings read and write, written from the code
(`SlotsAt`, `DetectBotReads`, `RedactReads`, ...), and separately the layout the
canonical ABI gives to the declared types (`RecordOf`, `CaseOf`). `Host` and
`Guest` are the two sides of one crossing. Strings are pointer and length;
`bindings.go`'s checks of each read are in `WasmLifecycle` (`Lift` may fail).

### ClientIP: the client's address

`ClientIPDetails` with its helpers, over a request that came by a route of hops
(`RequestOver`): each hop but the client appends its peer's bare address to one
`X-Forwarded-For` line. The code reads the first line of the header only, and
skips entries with a port (`net.ParseIP` refuses them); a proxy that adds a
second line or ports is outside the property's promise. `IPOfCall` is the choice
between what Protect resolved, `ProtectDetails.IP` and `WithIPSrc`.

### GuardResults and LocalPolicy: what a caller is told

`GuardDecisionFromProto` makes the decision, `Result`, `DeniedResult` and
`ErrorResult` are the accessors all kinds of rules repeat, `ErrorResults` and
`HasFailedOpen` what failed, `NewGuardDenialResult` what the model of an agent
reads. Times are seconds; the cap is the code's, one day. A decision with a
conclusion the SDK does not know is neither allowed nor denied; GuardAction
treats it as not evaluated.

`LocalResults` runs the rules of a policy in order: after a live denial the rest
is not run, and evidence is of types the service knows. `GuardCall` has one rule
in their place, of which only the verdict counts. Identifiers of rules are taken
to be unique within a policy: `localPolicyDenial` looks modes up by identifier.

### RampartScan, Redaction, MetadataBudget

`RampartScan` is the scan without its network: the label of a token is given,
and the same in every window. Windows of characters (`CharWindows`), of tokens
(`PlanWindows`, which backs up to the start of a word), aggregation, both merges
and the partition are as in the code; `WholeText` and `Strongest` are the
reference. Both kinds of windows come of one loop (`Windows`), in which the next
window begins where a function of this one's start says. A sort is the sequence in
which a position has as many before it as come before it in order (`StableBy`).

What is assumed besides equal labels: windows overlap and are longer than their
overlap (`WindowAssumption`, of the code's constants), tokens have width, what
recognizers find is not empty (`ScanAssumption`), and of a text (`Scannable`) that
the tokens of one character that have one type belong to one entity, and that
between two tokens of an entity there is less white space than windows of characters
overlap. Without the latter windows do show, which is in the nature of windows: an
entity whose words lie further apart than the overlap is never seen whole.

`Redaction` is the rebuilding pass, the pairs, and `strings.Replacer` (the first
pair that matches at a place, an empty one everywhere). Both loops are functions
from the number of rounds to the state after as many (`Rebuilt`, `Replacing`),
`Write` and `Advance` being a round. The pass fails exactly when spans overlap,
come out of order, or leave the text. The round trip is promised when no marker is
found where it was not put (`NoStrays`): markers that are unique and not empty are
not enough, as one may be a prefix of another or occur in the text.

`MetadataBudget` goes through the keys of all maps of a Guard call in order.
Protect and capture spend a budget on each map by itself (client.go:598,
capture.go:202), so that a capture request of many events has no bound of this
kind, and none is stated. A key that fails to encode and a key that does not fit are reported by different
warnings; the property is that each key is sent or counted once.

### Calculations: the composition of these

Each calculation takes one input at a time: a behaviour is an input and back to
`Nothing`. Inputs are constants, given by `MCCalculations`. The actions name the
entry points (`Resolve`, `Read`, `Evaluate`, `ScanText`, `Redact`, `Encode`,
`Transfer`).

## Runs

| Run | Bounds | Question |
|---|---|---|
| `capture_safety` | 2 flushers, queue 3, batch 2, 4 events | count, fates, order, wakeups, flush's word, refinement of `CaptureQueue` |
| `capture_liveness` | 2 flushers, queue 2, batch 2, 3 events, with fairness | every event settles, flush returns, the worker ends |
| `capture_size` (violation) | 2 flushers, queue 3, batch 2 | is a full batch sent on size? |
| `policy` | 3 callers, 2 fetch objects, 2 revisions | sharing, recency, monotonicity, termination |
| `guard_safety` | 2 callers, 2 fetches, 2 revisions, all verdicts | sanitization, coherence of the retry, denials |
| `guard_liveness` | 2 callers, 2 fetches, 1 revision, with fairness | every call returns |
| `protect_safety` | 2 calls, 2 clients, 4 rules, a failing fingerprint, 2 clock values | the shared cache and local denials |
| `protect_options` (violation) | 1 call at a time, one reused `ProtectDetails` | do options stay in their call? |
| `agent_run` | 2 middlewares, 2 nested activations, 5 tools, 1 ID | consent, outcome events, correlation, guarding once |
| `lifecycle` | 2 calls, 2 closers, both owners, with fairness | calls in flight at Close, nothing left behind, Close returns |
| `calculations` | see below | each calculation against its reference |
| `protect_close` (violation) | 1 call, 2 clients | is the evaluator each client's own? |

Why these bounds suffice for the cases of interest. Two Flush callers are
needed for one to return and reset `flushNow` under the other, and for a
signal to reach the wrong one; a third adds no new kind of waiter. A queue
longer than a batch, with the worker holding one, has a full queue, a partial
batch and a barrier in the middle. Three callers of a policy give a starter, a
joiner and one who arrives after the fetch ended; two fetch objects let an old
result be read while the next fetch runs. Two revisions, besides none, let a
policy change between fetch, evaluation and retry; a third would need a second
refresh to be seen, and there is one. In `protect_safety` the two clients put
the bot rule they share at different positions; a local denial expires within
the run and the service's outlives it. Caps: `MaxEvents`, `MaxRefused` and
`MaxLate` (accepted and refused events, stale callbacks), `MaxVersion`
(revisions), `MaxClock`; each is a guard of an environment action or of the
caller's next operation and of nothing the SDK does on its own.

In `agent_run` two activations are one within another; the second middleware
finds what the first guarded. In `lifecycle` the second call may be inside the
first one's callback or beside it, and two closers make Close idempotent or
wait for one another.

The inputs of `calculations`: lists of up to two elements with every case of
their variants; routes of up to three hops over two public and a private address
and one that is none, with every set of trusted proxies, and each platform with
its headers present, absent or unusable; two results of a response with resets
past, near and beyond the cap of a day; policies of up to three rules; texts of
five characters in windows of three with an overlap of two, and of four tokens
with an overlap of one, so that a text has several windows and a character's
tokens fall on both sides of a boundary; three redactions with empty, equal and
prefixed markers, in and out of order, within the text and beyond it; two maps
of three keys against a budget of eight bytes, with keys that just fit.

Deadlock is not checked for the delivery and the lifecycle: a process that has
captured its last event, and whose worker has ended, rightly does nothing, and
so does one whose calls are over, or whose callback closes its own Redactor. It
is checked in all other runs.

Symmetry over callers and fetch objects is used in safety runs only.

### Fairness

Goroutines that can run, run (weak fairness of the steps of a flusher, of the
worker, of a waiter of a fetch, of a Guard call). The worker's own timers fire.
A fetch ends, since `guardPolicyFetchTimeout` bounds it, and so does each
attempt of Guard, since `guardRPC` applies a default deadline. No fairness is
given to the callers' contexts, to a flush's deadline, to capture, to expiry,
or to the service: a call must return without them. In `lifecycle` the steps of
a call in flight and of a Close that can take the lock are fair, since the guest
and the application's callbacks return; nobody is made to call. `send` is assumed to
return, as `sendCapture` gives it a timeout.

### Disagreements found

* `capture_size`: README.md:1578 says that a full batch is sent on size. After
  a later flush has returned and reset `flushNow`, the one `Signal` of `capture`
  can wake the remaining Flush caller instead of the worker; the worker then
  sleeps out the delay over a full batch. The events are late, not lost
  (`EveryEventSettles` holds).
* `protect_options`: an option is documented for one call (client.go:414), but
  is written into the caller's `Extra` map (client.go:557-564) and sent with
  every later call that reuses it.
* `protect_close`: the comment on `Client` (client.go:104) says that clients
  share the cache alone. They share the evaluator too, and `Close` on one ends
  local evaluation for all.
* Without a run of its own: the comment on `NewGuardDenialResult`
  (guard_denial.go:27-29) says that denials for other reasons than a rate limit carry
  no hint and are not retryable. They do and are when a denying limit among the
  results has a reset, whatever the decision's reason: the comment in the body
  (guard_denial.go:43-46) and guard_denial_unknown_test.go:22-42 say so, and
  `CallerIsTold` states that.

## Proofs

`CaptureDeliveryProofs` proves type correctness, that `outstanding` is exact and
that no wakeup is lost, from one inductive invariant (`DeliveryInv`). The three
are not inductive by themselves. `WorkerInv` ties the goroutine to
`d.worker` and says that only the window and the request hold events, with room
left in a window; without it the worker could be started twice, or end with a
batch. `QueueInv` says that the queue is in the order of capture, so that a
barrier covers a prefix and an expired flush subtracts what it removes.
`FlushInv` says that who sleeps on the condition is inside `flush`.

Its second part adds `FateInv`: queue and batch increase, what is in the
batch lies before what is queued, what was delivered before both, and the
captured events are exactly the disjoint union of queued, in flight, delivered
and expired. From it follow `FatesAreUnique`, `FlushKeepsItsWord` and
`DeliveryKeepsPromise`, the refinement: each step of the delivery is a step of
`CaptureQueue` or changes nothing of it.

`RemotePolicyProofs` proves type correctness, that fetches are shared, that
`get` never returns an older policy than was cached at the call, and that the
cache only advances. The last is not evident, since a failed fetch reinstalls an
entry read before it began. `FetchFollowsCache` carries it: the fetch that runs
started from the entry that is still cached, because only its end writes the
cache, and what the service told it is at least as new. `Attached` and
`WaitersAreBehind` carry this to the callers: who waits is attached to a fetch,
and what was cached when it asked has only become older.

`GuardCallProofs` instantiates the proofs of `RemotePolicyProofs` (`PP`) and adds
what is true of each call (`CallOK`). That a retry is coherent rests on two facts
of the cache: what `get` hands out is never newer than the cache nor older than
what was cached at the call (`HandedOut`), and a step only advances it
(`StepAdvances`). So the policy of the second attempt lies between that of the
first and the cache, though another call may have refreshed it between them. The
flag that inputs are sanitized outlives the policy that set it, which
`Sanitized` says of every request. A live denial leads to the report alone, and
the report to no other conclusion, but for the service's own decision under which
it was recorded (`LocalDenialStands`).

`ProtectProofs` has one invariant in three parts. `Backs` (in `CacheInv`) says of
a cached denial what `CacheIsBacked` says, and that its expiry lies after its
storing. `Speaks` says that a result that a call still has to store, by its
position, is the service's answer about the rule at that position: positions mean
the same on both sides only because `RulesOf` and `RuleIds` come of one sort,
which is proved by counting the rules before each (the sort is a permutation).
`Due` says whose rule and whose fingerprint a local denial is of. It needs a
local lifetime that is not zero, as `MCProtect` gives it and as the analyzers'
denials have it.

`AgentRunProofs` proves of every activation on the stack (`FrameOK`) how far it
came, what Guard answered it, and that its events and its error agree with that;
of the stack (`Source`), that an activation's correlation ID is that of the
innermost policy around it that names one; and (`Waits`) that whoever is below
the top is inside a hook or a function, so that a step of the top changes
nothing of it. That a refusal is the tool's own is a fact of `errors.As`: the
error of a denied activation is the head of its chain, whatever it wraps. Two
facts count along a tool's layers. `PlacedIn` (in `StackInv`): an activation's
place on the stack and the guards still inside it add up to the guards of the
tool, so that no code of a tool runs with a guard passed by. `ToolInv`: what the
run offers is what the application gave it, with one guard more in front where
there was none, so that a second installation finds nothing left to do; and where a
policy wanted a guard there is one in front, since nothing takes it off again. That
a turn past a screening had consent (`AdmitsByConsent`) is the other side of an
activation's error: one that did not run holds an error of its own, so whoever
returns without one ran, and by consent.

`CalculationProofs` proves the six calculations for every input, where the run has
small ones; the scan has a module of its own under it, `ScanProofs`. There is little state: the subject is one of the inputs
(`SubjectIsInput`), and what is proved is about the operators. `SidesAgree`
computes, field by field, the layout of each declared type and of each element
of a list, for lists of any length. `HopsDecideAddress` rests on what the walks of
a header find (`HopsDecide`): the last untrusted entry lies within what the hops
appended, whatever was in front. `Seen` and `Sufficient` say of every response
that no result is lost on its way to its rule, and that the clamped wait covers
the last limit and only just. `Explained` follows the loop over a policy's rules:
after each, its flags say whether an enforced rule denied and whether any
detected (`LoopSays`). `EveryKeyIsAccounted` follows the loop over the keys in
their order, which is first shown to be one (`PlacesInOrder`): every key before
the first that does not fit is kept and none from there (`BudgetCloses`), and
the counts of the warnings add up to what is missing.

`TextComesBack` is about two loops that know nothing of each other. The first is
turned into a picture of what it wrote (`CutAtMarkers`): gaps that are parts of the
text, and behind each a marker. The picture of the restored text is the same with
the values in place of markers, since the spans are (`OkWhileInOrder`). The
invariant of the second, `InGap`, says that the replacer is in some gap and has
written what the restored text has up to there. A place may lie in several gaps,
where markers between them are empty; the step (`AdvanceInGaps`) takes the last, so
that a marker that can be seen comes behind it. Whatever matches at a place was put
there, by `NoStrays`, and only one marker that is not empty is put at a place, for
the next gap begins behind it: so the pair that is taken is that marker's, which
holds the value of its first use (`FirstUses`). Every round passes a place, or is the
last, and that bounds their number (`Replaced`).

`ScanProofs` has two results that meet in `OnePieceIsDetected`.

The first, `RunIsWhole`, is that windows do not show. The tokens of a text are one
sequence (`TextLayout`: how many tokens the first characters have, and of which
character and label each is), and those of a window of characters are a stretch of
it, up to the offset that `scan` adds again. Aggregation, of whatever stretch,
returns spans that each reach from the first to the last of some tokens in a row
that `Joins` puts into one entity, and leaves no token with a type out (`Parted`
and `Covering`). The loop of windows makes windows that reach from 0 to the end, each overlapping the
one before it (`IsCut`, `WindowsAreCut`), so that any two tokens of an entity in a row
are together in one of them: in windows of tokens because these overlap by one at
least, in windows of characters even when white space lies between the two, if it is
shorter than the overlap, which `Scannable` says of entities. Then
`PartsAreUnited`: from such parts of entities `mergeWindowedSpans` makes the
entities. Its invariant (`UnitedSoFar`) is that the merged spans are the first entities, each as far as the
parts seen so far reach. Parts come in order of their start, so the first part of an
entity comes when every earlier entity has been begun, and it overlaps none of them
that has its type, since those are apart. A gap within an entity is bridged by the part that has both of its
ends, which is what the overlap is for. A text that needs one window has nothing to
merge, and nothing to add to its offsets.

The second, `MergedAreStrongest`, is about `mergeSpans`, for any spans that are not
empty. Kept spans are disjoint and in order of start (`Apart`), so a span that
overlaps none of its two neighbours among them overlaps none at all, and inserting
it there keeps them so (`Insertion`, `SpanIsAccepted`). The order of the sort, and
the reference's order of strength, are the same (`RankIsStrength`), since the place
in the concatenated list, which stands for the stable sort, also tells the two groups
apart.

All these loops, and `Totals` and `RecordOf`, are recursive functions, about which
nothing can be said without induction. `ScanProofs` begins with what that takes, and
`CalculationProofs` uses the same lemmas: a set of naturals that holds 0 and is closed
under successor is `Nat` (`ByInduction`), from the least element that every other set
has, and a recursive definition has the function it defines (`LoopExists`). Both are
stated for sets, since the library's induction theorems take operators, which the
provers cannot instantiate.

`WasmLifecycleProofs` shows for both owners what the lock does and does not do.
The calls in flight of a Redactor are exactly the readers of its lock, so Close,
which holds it alone, finds no instance open; for the evaluator there is no such
fact, and what remains is that its factory is open only while the flag is not set,
since both change in one critical section. An instance is open exactly from
`Instantiate` to the end of its call, on every path. A panic reaches the caller on
the evaluator alone: from an export without an error result, whatever failed, and
from any export whose clean-up failed, under an open runtime too.

Assumptions are those of the modules: `QueueSize` and `BatchSize` positive, the
worker no flusher, `NoFetch` no fetch, a positive bound on revisions (and
`CallAssumption` of the same constants), `"clean"` a verdict, lifetimes and rules
of `Protect` as its `ProtectAssumption` lists them, calls that are no closers,
`NoId` no correlation ID, and tools that are sequences of guards and approvals with
fewer guards than `MaxDepth` lets nest. Of the inputs of calculations: routes,
headers and proxies made of addresses and junk, a route with a hop and a known
platform or none (`RequestAssumption`); responses with numbers for times
(`ResponseAssumption`); rules of a policy with identifiers of their own
(`PolicyAssumption`, as `localPolicyDenial` looks modes up by identifier); spans
that do not end before they start, in any order (`RedactionAssumption`); finite
maps of sizes (`MetadataAssumption`); windows that overlap and texts that are
scannable (`WindowAssumption`, `ScanAssumption`, see RampartScan); no address that is the absence of one, and no
type that is named as a failure. The bounds `MaxEvents`, `MaxVersion`, `MaxClock`,
`MaxDepth` and the like are constants of the theorems, so they hold for every
value.

Model-checked only: liveness and what Close promises to return, since fairness and
`ENABLED` are outside TLAPS. TLC has also checked each inductive invariant, on the bounds of its run, before it was proved (that of
`AgentRun` over error chains of bounded length).

## Plan

Done: capture delivery with its abstract queue, remote policy, Guard call, Protect,
the life of components, GuardAction and the agent middleware, and the calculations:
checked, and proved but for liveness. What has been left out, and why, is listed below.

## Not modelled

* The analyzers inside the WebAssembly components, the neural network, the
  tokenizer and the recognizers: numeric and textual code. What they answer is an
  input here.
* Generated protobuf and connect code (nearly half of the repository's lines):
  it has no decisions of this SDK in it.
* Validation of options, identifiers of rules, the conversion of Decide's
  messages, and the cleaning of headers, cookies and text encodings: data
  without control, which the repository's tests cover. While reading it one thing
  came up: rules.go:20-21 says that a rule's hash changes whenever its
  configuration does, but `joinSortedRuleParts` joins with commas, so that lists
  like `["a,b"]` and `["a", "b"]` share one, and the backend of `SensitiveInfo`
  is not part of it. A model would only restate the joining, so there is no run.
* JSON encoding of metadata values and `sanitizeKey`: a value encodes to some
  size or fails.
* The background report of Protect (`reportLocal`), which changes nothing a
  caller sees; its one hazard is listed without a property.
* Logging, examples, tools and release scripts.
