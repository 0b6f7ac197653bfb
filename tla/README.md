# FishMesh: a TLA+ model of the gateway and its benchmark client

FishMesh is a Go gateway that routes OpenAI-style HTTP/SSE requests to vLLM
Pods in Kubernetes. It prefers the Pod whose KV cache already holds the
prompt's prefix, weighs that against load, and falls back step by step
(kv-aware, load-aware, load-balanced, Kubernetes Service) when a signal is not
trustworthy. This directory holds TLA+ modules translated from its source, TLC
configurations that check them on small instances, and TLAPS proofs.

Everything is run from this directory, for example

    tlc -workers 2 -config KVEventStream_safety.cfg KVEventStream
    tlapm KVEventStreamProofs.tla

`PROJECT.json` lists every run with its module, configuration and properties,
the source lines of every definition, the hazards the properties are aimed at,
and a mutant for every checked property: a small plausible bug, defined as
`Bug_X` just before the definition `X` it replaces, that makes the property
fail.

## 1. The system

One request goes through these parts (all under `src/internal/serving`):

    proxy (gateway)                    read body, take a permit (admission)
      -> Select (requestpath)
           discovery snapshot          EndpointSlice list + watch
           reconcileBackends           active set, counters, circuits, session keys
           tokenization || Reconcile   Render service; KV subscriptions per Pod
           Lookup (kvcache)            matched prefix per backend
           strategy (routing)          decision from one immutable snapshot
           lease                       local in-flight counter
      -> upstream exchange             transport pool, SSE stream copied to the client
      -> lease.Complete                circuit breaker, counter, shadow predictor
      -> release the permit

Beside it run: a live and a replay goroutine per Pod (`kvcache`), the list and
watch loops (`discovery`), the reconcile loop (`requestpath`), the metrics
collector (`observation`), the target tuner (`admission`), and the Prometheus
scrape, which also reconciles. `cmd/fishmesh-gateway` builds all of it and
closes it in reverse order. `internal/workload/client` measures the gateway
from outside.

| Component | Source | Module | Status |
|---|---|---|---|
| KV event stream | kvcache/lifecycle, replay, zmq | KVEventStream, KVEventStreamProofs | modelled, proved |
| KV cache service | kvcache/kvcache, reconcile | KVCacheService, KVCacheServiceProofs | modelled, proved |
| vLLM block index | kvcache/vllm_index | KVIndex | modelled; the llm-d tables are external |
| Membership and leases | requestpath/requestpath_state | RequestPath, RequestPathProofs | modelled, proved |
| Selection | requestpath/requestpath | Selection, SelectionProofs | modelled, proved |
| Strategies | routing | Routing, SelectionProofs | modelled, proved |
| Static TTFT estimator | prediction/static_estimator | Routing, SelectionProofs | modelled; its order proved |
| Admission | admission | Admission, PermitPool, AdmissionProofs | modelled, refinement proved |
| Discovery | discovery | Discovery, DiscoveryProofs | modelled, proved |
| Circuit breaker | circuit | Gateway, RequestPath, GatewayProofs | modelled, proved |
| Gateway handler | gateway/proxy | Gateway, GatewayProofs | partly: no header rewriting, health; proved |
| Gateway metrics | gateway/metrics | Admission | partly: the tuner's signal |
| Composition | cmd/fishmesh-gateway | Runtime, Render, KVCacheService, RuntimeProofs | modelled, proved |
| Learned shadow predictor | prediction | Predictor | modelled, without the regression |
| Observation | observation | Observation | modelled |
| Identity | identity | Observation | partly: Pod name or none |
| Tokenization | tokenization | Render | modelled, without JSON |
| Transport pool | transport | Runtime | partly: closed last |
| Workload client | workload/client | Bench | modelled, without texts and percentiles |
| Workload reports | workload/client/compare, history | | not modelled: statistics on finished reports |
| llm-d scorer, EPP | llmd, cmd/fishmesh-epp | | not modelled: stateless translation |
| Configuration | config | | its constraints are ASSUMEs |

## 2. Modules and how they correspond to the code

**KVEventStream** is one `eventStream`. Variables are the struct's fields
(`hasSeq`, `lastSeq`, `gapUntil`, `reason`, and `heartbeat` for
`lastReplayAt`), the two goroutines' control points, the Pod's part of the
index, and the engine with its PUB socket and replay buffer. `accept` is split
where it releases `s.mu` or calls the store: classification, `ClearAfterReset`,
`Apply`, `Commit`; `processMu` is held while a control point is in `Critical`.
Publishing may drop any message, a reconnect loses the queue, replays may fail
at any point, batches may be too large, foreign or unsupported, `Clear` may
fail, and the engine may restart inside its Pod. A batch is a generation, a
sequence number and what is wrong with it; a stored block's parents are the
earlier batches of its generation. ZMQ and the engine are external.
`base`, `resets`, `faulted`, `servedHead` and `confirmed` are history variables.

**KVCacheService** has the service's critical sections (`reconcileMu`, `mu`)
and replaces a stream by an incarnation that writes to the index between
`BeginApply` and `EndApply`. Two callers reconcile with a membership, or the
eligible part of one; `Close` and one `Lookup` run concurrently, and the same IP
is reused by a new Pod.

**KVIndex** is what a batch does to the index: blocks stored under their parent,
removed, all cleared. An event of another block size, adapter or tier, an unknown
parent, or a hash that stands for another key is a fault, and the Pod's entries
go. A canonical request key is the chain of blocks it hashes, an engine hash is opaque and may
collide. The engines' own caches are modelled beside it (`held`), so that what
`Lookup` reports can be compared with what a Pod really holds. The two tables of
the llm-d index drop entries when they are full.

**RequestPath** has every process that calls `reconcileBackends` (requests,
loop, scrape). Its steps are the critical sections of `s.mu` and of the circuit
mutex and each atomic `Add`. A counter object is named by the request that
allocated it, so that a counter can be orphaned by reclamation and the model sees
it. A decision takes a least loaded backend after `loadBalancedBackends` has
dropped the hard-overloaded ones: those an observation reports, any set of them,
and those whose local counter reached `HardLocalInflight`. `hard` remembers, as
history, which ones were reported to each request.

**Routing** holds the strategies as operators on one snapshot, with the
projections of load and KV matches. int64 keeps its width: `Top` stands for
2^63-1 and `Wrap` for overflow. A strategy's loop over the backends that keeps the
best so far is `Scan`, a loop that keeps some of them is `Filtered`. The estimator
interpolates in float64. `PrecisionConstants` restricts profiles to durations and
breakpoint distances whose product stays below 2^50 (a duration of 16 minutes over
1000 tokens), where float64 rounds as exact arithmetic does, except half-way between
two durations; which ties go up depends on the operands and is the constant `TiesUp`.
A load sample of exactly 2^63 is left out. sha256 and rendezvous scores are arbitrary
inputs. **Selection** is `Select` around it, with circuits, loads and
membership changing between the lookup and the final snapshot, and with the
session-key table and the round-robin counter as state.

**Discovery** is the EndpointSlice resolver against an API server with its
event history. A list is served at one version and received later; the watch
delivers events from its cursor. Time is counted in refresh intervals. One request
is followed through `Select`: it reads the membership, and decides later, by the
freshness the resolver has then.

**Admission** is the permit channel, the gateway's accounting around it one
atomic operation at a time, and the tuner, which reads the counters one after
another. **PermitPool** is the abstract specification: a pool of `MaxInflight`
permits. `PoolSpec` says Admission implements it with
`held <- {r : pc[r] in Holding}`.

**Gateway** is the `proxy` handler of several requests: permit, body,
selection, upstream exchange, stream copy, SSE detector, classification,
settlement and the circuit breaker. The breaker reads the clock before it
takes its lock, so a result may be recorded with any time since the handler got
there. Its EWMA is an exact fraction in the model (`num`, `den`); the code uses
float64, whose rounding is not modelled. SSE bodies are sequences of a few tokens (`data:`,
payload, `[DONE]`, newline), cut into reads at every position; one has two events.

**Observation** is the refresh loop: which backends it lists, when each
collector reads, when the states are replaced, and the freshness rule of
`Snapshot`. A scrape is stamped when its answer has come, a runtime sample before
its queries are sent. A sample carries its stamp and, as history, the earliest time
the engine can have read it. **Predictor** has the sample windows and cached models
of the shadow predictor; a model is the number of samples it was fitted on, and
which candidates were refitted before `shadowLocked` gives up is left open, as it
depends on their order.
**Render** is `renderAddressResolver` (cached address, one lookup for all dials,
invalidation of the address that failed) and the `Tokenize` call that goes
through it, with the three verdicts the request path tells apart. A Render URL that
names an address, or is reached through a proxy, is dialled without the cache and left
out; so is a dial that `http.Transport` keeps going after its request has left (the
request stays as long here). **Runtime**
composes them into the process: `buildRuntime` stage by stage, any of which may
fail, requests that render, decide, stream and complete, the reconcile loop,
signals, `Shutdown` with its timeout and `Close` owner by owner. A decision is
one step here; RequestPath and Selection take it apart.

**Bench** is `RunPlan` of the workload client: validation and order of the
scenarios, warmups, batches and conversation ladders served by a worker pool,
the metrics sampler that is started and stopped around each batch, cache salts,
pacing, buffered writes and their errors, cancellation, client timeouts, and the
report. The first and the last sample of a batch are requests without a timeout and
may wait for ever. The gateway is external: it counts what it admits, possibly after
its client has given up, and it may restart. Nobody else sends it requests.

`MC*` modules only give structured constants their values.

## 3. Runs

| Run | Question | Instance |
|---|---|---|
| kveventstream_safety | Is what `Lookup` may use complete, contiguous and gone after retirement? | sequences 0..4, one restart, one malformed batch, failing Clear, replay limit 2, buffer 3 |
| kveventstream_live | Does a gap end, and does the index catch up? | sequences 0..3 of which one may be malformed, queue 2, buffer 3, replay limit 2, no restart |
| kveventstream_restart (violation) | Is an engine restart always noticed? | live queue 0: every live batch of the new engine is lost |
| kvindex_blocks | Does `Lookup` report the prefix the engine holds? | two Pods, three prompts, five events, tables of two keys |
| kvcacheservice_lifecycle | Concurrent Reconciles, Close, Lookup with IP reuse and failing Clear; does every call return? | three instances on two backends, two callers, two calls |
| requestpath_leases | Are leases counted exactly and spread evenly, and does departed state go away? | two backends of which one leaves and rejoins, two requests, local limit 1, one background goroutine that is loop or scrape |
| selection_decide | Is every decision eligible, cheapest, unharmed by stale signals? | two backends, six strategies, six observations, costs that reach `Top` |
| discovery_converge | How stale can a Pod be, and does the resolver converge? | two slices, two Pods, three versions, requests for one of the Pods |
| admission_tuning | Permits, torn signals, the tuner's moves | three requests, target 1..2 |
| gateway_handlers | Does every request settle exactly once, and who is blamed? | three requests, one backend, capacity 2 |
| runtime_process | Start-up, sampling, rendering, shutdown | one backend, three requests, clock 0..2, three loads (below) |
| bench_runs | Is the report the run that took place? | seven plans, two workers, one fault |

What the runs show, by property:

- `NoHoles`, `FreshIsComplete`, `CommittedIsObservable`: without a fatal reason
  the index holds exactly the sequences since its last rebuild; a fresh stream
  holds everything published when its replay was answered; a valid stream's
  `last_sequence` is in the index.
- `NoWriteAfterRetire`, `OneWriterPerPod`, `NoOldInstanceHit`,
  `NothingOrphaned`, `CallsReturn`: a stream is stopped, drained and cleared
  before its successor writes; a Lookup returns no blocks of a replaced Pod; no
  goroutine and no block is left without a published owner; and no Reconcile or
  Close waits for ever behind the mutex or behind a stream it retires.
- `LookupIsExact`, `NoPhantomBlock`: with its events applied, a Pod is credited
  with exactly the prefix it holds, although tables and hashes are shared. They
  are stated up to the point where a table drops an entry: after the table of
  engine keys has dropped one, a removal resolves to nothing and the block stays.
- `GapIsResolved`, `IndexCatchesUp`: as long as the replay goroutine runs, a gap
  ends, closed by a replay or with the fatal reason why it cannot be; a stream that
  meets no fatal reason becomes complete. Both speak of these cases only: once
  replay has given up with a fatal reason its goroutine is gone, and a later live
  gap overwrites that reason with `sequence_gap`, which nothing resolves (see below).
  `NoHoles` is stated for a free `processMu`: between the step of a reset that forgets
  the sequence and the one that clears the index, a replay END may publish the stream
  as valid with the old index. `FreshIsComplete` is about engines without a reset.
- `CountsLeases`, `Converges`, `Balanced`: local in-flight counting is exact per
  counter object and never charged to another backend, memberships applied in
  the wrong order do not last, and the selection mutex keeps requests that
  decided on the same membership from piling up: no backend is more than one lease
  ahead of one that was never reported overloaded, the local limit notwithstanding.
- `DecisionIsEligible`, `LocalityNeedsEveryMatch`, `CheapestIsChosen`,
  `EstimatesAreMonotone`, `TableBounded`, `PreferenceIsSticky`: what a decision
  may rest on; a hard-overloaded backend is taken only when all are.
  `PreferenceIsSticky` says that an entry keeps its backend while it lives; it does not
  say that the backend is still a member: between its two accesses to the table a
  request may write back one that a reconcile has just dropped, and the entry stays
  until the next reconcile. `DecisionIsEligible` is what keeps it from being used.
- `BoundedStaleness`, `EventuallyAgrees`: a list may overwrite newer watch
  events, yet no Pod is routed to longer than `DiscoveryMaxAge + ListTimeout`
  after it left, except when the watch was behind its removal as the membership was
  read. If a refresh succeeds while the request waits for the tokenizer or the KV
  lookup, the freshness that is checked is no longer that of the membership it
  chooses from, and the age of that membership's own list takes the place of
  `DiscoveryMaxAge` in the bound.
- `PoolSpec`, `TunerNeverFaults`, `OnlyHardLowers`: moving the
  soft target grants and revokes nothing, torn signals never look like a
  counter reset, and only hard rejections lower the target. `Validate` accepts an
  `InitialTarget` outside `MinTarget..MaxTarget`; the first adjustment then brings
  it back into the range, which is the exception `OnlyHardLowers` names.
- `NothingLeaks`, `BlameIsFair`, `OpenHasEvidence`, `TTFTIsExact`,
  `EveryRequestReturns`: permits, leases and responses settle once on every
  path, and only the backend's own failures count against it.
- `TrainingIsSound`, `DepartedIsForgotten`: a prediction ticket never rests on a
  load older than `MaxAge`, however long the scrape took; windows stay bounded
  and sorted, and no model outlives its samples; a sample recorded after its Pod left is dropped by the next
  reconcile.
- `OneLookup`: a lookup of the Render host is shared by all dials, and no dial
  waits for one that nobody performs.
- `ClosesInOrder`, `ProcessEnds`: no loop runs on a closed dependency, a request
  meets one only after a shutdown that timed out, a failed start-up closes what it
  had built, and the process ends although a stream
  never does.
- `ReportIsComplete`, `WindowIsExact`, `SaltsIsolate`, `RunEnds`: the lines that
  reached the output are a prefix of the report's attempts, and all of them with the
  report itself unless a write error is returned; a run without an error has every
  batch whole, except a paced one cut short by a cancellation. A metrics window that is
  called valid counts exactly its own batch, where the gateway neither restarted nor
  admitted a request its client had given up. Salts share blocks exactly where the
  inputs and the cache mode say so. The run ends without a worker or sampler left,
  unless a `/metrics` request is never answered: the first and last sample of a batch
  have no timeout.

`TypeOK` is a conjunct of one invariant of its module (`CountsLeases`,
`NothingLeaks` and so on, see the definitions); KVEventStream's is proved, and so
are the others of the modules with proofs.

One run is expected to fail: it checks what a stage note says and the code does
not guarantee. `RestartIsNoticed`: if the live batches of a restarted engine are
lost, every replay asks beyond the new log, gets nothing and renews freshness;
the old generation's index stays valid (`replay_impl.go:59`).

Four more comments and notes promise more than the code does; the models contain
the behaviour, and the properties above hold with it.

- `composition.go:258` says each reconcile is given the complete membership. A
  KV-aware request reconciles with its eligible candidates
  (`requestpath_impl.go:80`), so an open circuit retires the stream of a Pod that
  never left. `Call` of KVCacheService therefore takes any part of a membership.
- `requestpath_state_impl.go:63` says only idle counters are reclaimed. One that
  was handed to a request, but not yet incremented, is reclaimed too (line 73)
  and the lease then counts on an orphan. For this reason `DecidedOn`, the premise
  of `Balanced`, includes `ReclaimOnlyIdle`.
- `docs/stages/20-R6B2真实KV状态域.md:22` and `:100` say that a Pod whose gap cannot
  be replayed is cleared and keeps `unrecoverable-sequence-gap`. The reason is
  overwritten by the next live gap (`lifecycle_impl.go:295`): an operator then sees a
  gap that awaits a replay, while the replay goroutine is gone.
- `bench_impl.go:34` says that a failure of the metrics reader is recorded and does
  not abort the workload. A reader that neither answers nor fails holds the run
  (`bench_metrics.go:224` and `:261` pass a context without a deadline).

### Bounds, and why they are enough

- *KVEventStream.* A reset needs a last sequence of at least 4, hence
  `MaxSeq = 4`. The buffer of 3 is smaller than the log, so replays start too
  late; a replay limit of 2 is smaller than the buffer, so it is exceeded. One
  message in the queue suffices for a delayed batch in the safety run.
- *KVCacheService.* Two calls give a replacement and a concurrent second one;
  more calls only repeat it. `MaxStreams` follows from the calls.
- *KVIndex.* Two prompts share a first block, a third has it under a salt, and
  the hashes of two chains collide; tables of two keys overflow with the third.
- *KVEventStream, live run.* Batch 1 may be malformed, so that replay gives up while
  a gap is open; a queue of 2 delays one batch behind another; with sequences up to 3
  a replay exceeds its limit of 2 and the buffer of 3 has lost its first batch.
- *RequestPath.* One backend that leaves and rejoins (`Churn`) needs two changes,
  a second one that stays gives the strategies a choice; two requests are enough
  to hold and to allocate a counter at once, and the first lease reaches the local
  limit of one.
- *Selection.* Two backends decide every comparison; `Top = 15` makes
  products and sums of the listed inputs reach the limit. The inputs contain a
  missing, a fractional, a negative and an overloaded observation.
- *Discovery.* Three versions let a Pod leave and return, or leave while another
  change is listed, with a list and a watch connection in flight. Both timeouts are one
  interval. `Followed` names the Pods whose requests are followed; the two Pods play the
  same parts. Ages are told apart up to `DiscoveryMaxAge + ListTimeout + MaxAwait`; a
  request that waits longer is seen with ages at that cap. The theorem holds for every
  value of them.
- *Admission.* Three requests against a target of 1..2 reach both rejections.
  A tick of three intervals makes signals stale as well as usable.
- *Gateway.* Three requests exceed the capacity of two; two failures open the
  circuit. One clock unit is enough to open and to expire an interval.
- *Runtime.* `scene` names three loads; together they would exceed TLC's reach,
  and none moves what the properties of another speak of. "dial": Render
  restarts, its address expires, three requests dial. "train": the clock runs,
  the membership changes and everything answers, so tickets and samples exist.
  "stop": signals in all four configurations with two requests in flight.
  Start-up and its failures happen in all of them.
- *Bench.* A paced shuffled cold scenario before a ladder of two turns; steady-warm
  runs with a ladder and a mixed scenario, and with two scenarios of one pattern; a
  controlled-warm mixed one; one without metrics; an order that repeats a scenario and
  a tolerance that is not below its target, both rejected. One fault (failed sample or
  write, restart, or a request that times out) and one cancellation.

Deadlock is not checked where the bounded system may stop: every environment
here is bounded, and a program whose clients and engine are done rests.

### Fairness

- *KVEventStream.* Goroutines run and the ticker fires (weak). Receiving,
  answering and finishing a replay are strongly fair: a replay may fail
  any number of times but not always. Nothing is assumed of publishing, loss,
  restart or retirement.
- *KVCacheService.* Some call that can go on does, and a canceled stream's
  goroutine comes out of the in-memory index. That `Follow` and `Replay` return
  after cancellation is the promise of the source's interface. Which waiter gets
  the mutex is left open: the calls are finitely many, so that `CallsReturn` says of
  all of them that they have returned for good.
- *RequestPath.* The loop's ticker fires for ever, and some request that can run
  does; an upstream request ends because it has a timeout.
- *Discovery.* Time passes, contexts expire, and infinitely many lists of each
  loop are answered.
- *Gateway.* Some handler that can run does, and some expired timeout fires.
  A handler that waits for its upstream has the timeout of `newUpstreamRequest`.
  The server sets only `ReadHeaderTimeout`; that a client goes on sending its
  body and reading its stream, or leaves, is an assumption about clients.
- *Runtime.* The main goroutine, the reconcile ticker and the observation loop
  run (weak); the loop's `select` takes `ctx.Done` in the end although its ticker
  is ready as well (strong). Nothing is assumed of requests.
- *Bench.* The runner and its goroutines run, and each `Send` returns because its
  HTTP client has a timeout. The samples of `/metrics` have none: nothing is assumed of
  them, and the premise of `RunEnds` is that no sample waits for ever.

## 4. Proofs

TLAPS proves the theorems below for every value of the constants: any number of
requests, Pods, callers, versions or batches, any configuration. Each proof module
extends the component's own module, so it is about the same definitions TLC runs.
The assumptions on the constants are the named `ASSUME`s of those modules: finite
sets where a cardinality is taken, names that differ, and the numbers as
`Validate` of the configuration admits them. TLC evaluates them in each run.

| Module | Theorem | Statement |
|---|---|---|
| KVEventStreamProofs | TypeCorrect | `Spec => []TypeOK` |
| | ContiguousIndex | `Spec => []NoHoles` |
| | LastSequenceObservable | `Spec => []CommittedIsObservable` |
| | RetiredStaysClear | `Spec => []NoWriteAfterRetire` |
| | FreshStreamsAreComplete | `Spec => []FreshIsComplete` |
| KVCacheServiceProofs | StreamsAreOwned | `Spec => []NothingOrphaned` |
| | IncarnationsNeverMix | `Spec => []OneWriterPerPod` |
| | LookupIsCurrent | `Spec => []NoOldInstanceHit` |
| RequestPathProofs | LeasesAreCounted | `Spec => []CountsLeases` |
| | LeasesAreSpread | `Spec => []Balanced` |
| AdmissionProofs | TunerSafe | `Spec => []TunerNeverFaults` |
| | ControllerIsPool | `Spec => PoolSpec` (refinement) |
| | LoweredByHardRejection | `Spec => OnlyHardLowers` (action property) |
| GatewayProofs | HandlersReturnAll | `Spec => []NothingLeaks` |
| | BackendsAreBlamedFairly | `Spec => []BlameIsFair` |
| | OpenCircuitsHaveEvidence | `Spec => []OpenHasEvidence` |
| | FirstTokenIsExact | `Spec => []TTFTIsExact` |
| DiscoveryProofs | BackendsAreRecent | `Spec => []BoundedStaleness` |
| RuntimeProofs | LookupIsShared | `Spec => []OneLookup` |
| | OwnersCloseInOrder | `Spec => []ClosesInOrder` |
| | SamplesAreSound | `Spec => []TrainingIsSound` |
| SelectionProofs | TableStaysBounded | `Spec => []TableBounded` |
| | KeysStay | `Spec => PreferenceIsSticky` (action property) |
| | DecisionsAreEligible | `Spec => []DecisionIsEligible` |
| | LocalityIsComplete | `Spec => []LocalityNeedsEveryMatch` |
| | CheapestWins | `Spec => []CheapestIsChosen` |
| | EstimatesKeepTheOrder | `Spec => []EstimatesAreMonotone` |

What they assume of the code's inputs: `CostConstants` and `ProfileConstants` are
the `Validate` methods of the penalties and of the static profile (increasing
breakpoints, a grid that does not increase with the cached ratio, coefficients within
int64); `PrecisionConstants` is the range in which float64 rounds exactly but for ties,
and `TiesUp` may be any set; `InputConstants` says that backends are finitely many and named, that samples
are numbers and that a prompt's length is an int64. `Top` is any natural number.

Every module has one inductive invariant `IInv` (a second is `FInv` in
KVEventStreamProofs, `SInv` in GatewayProofs and `DInv` in SelectionProofs), proved with one lemma or step per action, and a last temporal step. Why
the properties are not inductive as they stand, and what was added:

- **KVEventStream.** Between a classification and its commit the bookkeeping and
  the index disagree by one batch. `Contiguous` says what the index is at each
  control point; `Mutex` that one goroutine holds `processMu`, and that a reset has
  forgotten the sequence before it clears; `Retired` that after `Clear` both
  goroutines have stopped. `Observable`: a live gap may hide a fatal reason that
  cleared the index while `lastSeq` stayed; then `gapUntil` lies beyond `lastSeq`,
  so only a newly committed batch can make the stream valid again. For
  `FreshIsComplete`, `FInv` follows the head of the log from the moment the replay
  is served: the replies to come end there (`Answered`), and once they have run out
  it is at most one batch, the one in accept, beyond the committed sequence
  (`Complete`). `Generations` keeps batches of a later engine out.
- **KVCacheService.** `Exclusion` ties the control points to `reconcileMu`; `Plan`
  says that what the call under the lock keeps, still retires and has retired are
  disjoint parts of the published streams, and that what it adds has not started;
  `Ownership` that writers run, or are being drained by the call that clears
  them; `Budget` counts streams against calls. `Found` is the Lookup's second check:
  as long as the selected stream runs, nothing else can have been found.
- **RequestPath.** `Counting` is exact per counter object; `Naming` says that an
  object is allocated once and serves one backend for good, in the map and in every
  lease. For `Balanced`, `Even` adds that the request between its decision and its
  lease is on a backend not loaded more than any that no request was told to avoid, which `Mutual` (one holder of
  `service.selection`) keeps true, and `Quiet` that no circuit narrows the
  candidates before some request has ended.
- **Admission.** `NotAhead` and `NotBehind` place what the tuner has read of a
  signal so far between the previous sample and the present totals; `GaugeExact`
  is the in-flight gauge. The refinement maps `held` to the requests at a control
  point in `Holding`; every step is a step of the pool or a stutter.
- **Gateway.** `Handled(r)` says what a handler at each control point has leased,
  answered and learned; `Books` counts permits and leases; `Evidence` relates the
  breaker's entry to the results recorded. That one failure does not open a circuit
  whose threshold lies above the weight of a sample is arithmetic on the fraction
  `num / den`. For `TTFTIsExact`, `SInv` says what the detector of a watched stream
  knows (`Reads`): it has emitted exactly when the part of the body read so far holds a
  finished event line (`Found`), and before that it keeps the whole unfinished line,
  wherever the reads were cut. The property alone is not inductive, as it is silent
  about the kept line. `FeedOneReads` is one token; `FedExists` and `FeedIsFed` show
  that the recursive function in `Feed` exists and is the token-by-token run, by the
  least length at which it would not; `FoundIsHasEvent` ends at the property's words.
- **Discovery.** `Provenance`: a Pod that is kept came with the last list or is in
  its slice at the position of the watch. `History` says what a version is, `Lists`
  that the Pods of a list in flight were Ready when it was served. `Membership` carries
  that over to the request: the Pod it read left at most `ListTimeout` before the age of
  the list it came with, and that age is the published one unless a later list arrived.
- **Runtime.** `Dialing`, `Closed` and `Waited` say who may be inside the Render
  client, which owners are closed and when requests exist. `Observing` and `Tickets`
  carry a load from its scrape, whose stamp is the time it was read at, to the
  ticket. `Windows` needs that no sample lies in the future, so that appending keeps
  the order; that the binary search finds the first young sample of a sorted window
  rests on `LeastNat`, the least element of a set of naturals, proved by counting.
- **Selection.** `Request` says what a request between its two accesses finds in the
  table: its key as it left it, or dropped. `DInv` is about the decision: it is `Sound`
  for the snapshot it was made from, and while the session-key strategy is between
  its two accesses the preferred backend is a member of the order it will decide from.
  One lemma per strategy shows `Sound`; they rest on `ScanIsLeast` (a scan by a total
  order ends at the least element) and on the saturating cost being the exact cost
  capped at `Top`. That a cost at the cap no longer tells two backends apart is in the
  property, as it is in the code.
- **The static estimator.** `EstimatesKeepTheOrder` holds of every snapshot
  `buildSnapshot` can make, so it needs only the types of the inputs from `DInv`.
  Interpolation between two columns falls with the ratio because rounding keeps the
  order, whichever way each tie goes (`RoundedGrows`); across brackets, `BracketsAdvance` says that a larger ratio never falls in an
  earlier bracket, and `GridFalls` joins the two over the prompt axis. `EstimateIsExact`
  shows that a sum which passed the overflow checks is the sum of the integers, so
  that `TTFTFalls` can compare them term by term.

TLC finds every inductive invariant true on the instance of the component's
safety run as well (with `Int` in `Samples` of RuntimeProofs and `Nat` in `Reads` of
GatewayProofs cut to a finite range).

What stays with TLC, and why:

- every liveness property (`GapIsResolved`, `IndexCatchesUp`, `CallsReturn`,
  `Converges`, `EventuallyAgrees`, `EveryRequestReturns`, `ProcessEnds`,
  `DepartedIsForgotten`, `RunEnds`): fairness and ENABLED are outside the prover;
- `LookupIsExact` and `NoPhantomBlock` of KVIndex. A batch is a fold over its events
  with a parent lookup at each, and the tables are bounded. `NoPhantomBlock` is moreover
  a result about the instance's engine hash, in which the colliding chains have no
  children: for a hash that collides on parents, after the request table has dropped
  one of them, a parent can resolve to the other chain. It is not claimed for every
  `Hash`;
- `ReportIsComplete`, `WindowIsExact` and `SaltsIsolate` of Bench, whose plans are
  nested sequences flattened by folds.

Induction over data is not available to the prover as a rule with an operator
parameter; where a proof needs it (`Scan`, `Feed`, the binary search of Predictor) it
takes the least counterexample with `LeastNat`.

## 5. Limits of the model, and the plan

Not modelled, and why:

- HTTP, JSON and Prometheus text formats, header rewriting, health endpoints,
  logging, configuration parsing: no state, and no property here is about them.
- Floating point: the rounding of the EWMA, the least squares of the shadow
  predictor, percentiles, the statistics of `compare.go` and `history_impl.go`.
- The llm-d scorer and the EPP process: each call translates its arguments into
  the snapshot that Routing models and keeps nothing between calls.
- The transport pool's map of clients: it follows the removal callback that
  RequestPath models, and no other part reads it. A request whose counter was
  reclaimed can put a removed client back; it stays until the backend leaves
  again.
- The series of the metrics registry: write-only. A completion observed after its
  backend was reclaimed adds the backend's label again, where
  `docs/stages/58` line 8 says labels go with the backend.
- Kubernetes, ZMQ, vLLM, DNS and the llm-d index appear by what the code can see
  of them. Memory figures in metrics windows are left out.

Behaviours met while modelling that no run states as a property are listed in
`PROJECT.json` as hazards with a note: a circuit removed for a backend that has
just rejoined; a shadow model that is no longer refitted once its window stays
full; a replay END between the two halves of a reset; a departed backend written back
to the session-key table.

Next, in this order:

1. Proofs: what a batch does to the index (`LookupIsExact`), with the condition on
   parent hashes as an assumption, by the least event at which a claim fails.
2. Compositions: KVCacheService with KVEventStream as its stream, KVIndex as
   what a batch does.
