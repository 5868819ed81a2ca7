# memra serving core: TLA+ models, model checking and proofs

memra (this repository) is an LLM inference engine in Rust and CUDA with an
OpenAI-compatible HTTP server in the same process. The numeric work is in
kernels and forward passes; what can go wrong in ways a test hardly reaches is
in the serving core around them: one worker thread that owns the device and
multiplexes sessions, its caches and pools, the paths a session moves between
while it generates, the handlers and the supervisor around the worker, and the
expert cache that feeds the device below it. These modules model that core,
check it with TLC on small instances, and prove its safety properties with TLAPS.

## Inventory

| Part | State | Operations | Talks to |
|---|---|---|---|
| Prefix cache (`worker.rs`, `PrefixCache`) | pools of KV snapshots per (model, namespace), recency index, byte counter, lifetime counters | lookup, touch, insert with eviction, flush | probed by `admit`, filled by `prefill_tick` |
| Scheduler loop (`worker.rs`, `run`) | command channel, admission queue, active sessions, finished set, parked requests | drain, admission pass, disconnect sweep, graph path, demotion, bursts, prefill, batched decode, dark prefill, retire | handlers by channel, sessions, all the pools |
| Session (`worker.rs`, `Session`; `spec.rs`, `SpecSession`) | prompt queue, fed, generated, cache, logits, device_next, graph, SpecSession (cache, committed, next_pred, pending, checkpoint) | prefill, decode, graph step, burst, demote, rewind, retire | reuse pools |
| Reuse pools (`worker.rs`) | retired plain and spec sessions, at most `MEMRA_REUSE_POOL` each | resume by exact extension, rewind, park | `admit`, retire |
| Lane policy (`memra-lanes`) | caps, step-time window | admit, shed | admission pass |
| HTTP handlers (`main.rs`) | in-flight slots, drain flag, `PENDING_ADMITS` | submit, stream, cancel, drain | command channel |
| Supervisor and health (`worker.rs`, `health.rs`) | phase, heartbeat, respawn budget | catch, mark dead, respawn | handlers, `/health` |
| API keys and limits (`auth.rs`, `main.rs`) | keys, concurrent requests per tenant | check, acquire, release | handlers |
| Dark-lane runner (`darklane.rs`) | state of one background job, its process | poll for idleness, launch, stop or preempt, resume, terminate | worker health, `PENDING_ADMITS`, `main` |
| Stop scrubber, tool calls, constrained decoding | text automata | feed, flush | handlers, `admit` |
| Spec rounds (`spec.rs`, `gemma_spec.rs`) | draft cache, verify checkpoint | draft, verify, accept, roll back | session cache |
| MoE expert cache and spill reader (`moe_cache.rs`, `spill_pread.rs`) | GPU slots, SLRU segments, block table, pending copies, pinned buffers, reads in flight | look ahead, promote, dispatch, evict, prewarm, drop | forward passes, disk workers, two CUDA streams |
| KV caches, pipeline stages | per-layer buffers, events | allocate, record, wait | forward passes |
| Forward passes, kernels, sampling, GGUF, tokenizer | numeric and textual data | — | — |

Hard behaviours. Concurrency is between the handlers (submit, disconnect) and
the worker, between both and the dark-lane runner, which reads their state
without a lock, between the worker's host thread, its disk workers and the two
streams of the device, and, on the worker's single thread, between sessions whose
multi-step operations overlap: two sessions plan the same cache insert, one
arrives while another is in the middle of a burst. Failure is an engine error
or an out-of-memory in one step of several, after part of it has happened, a
panic of the worker with requests in hand, a read or a copy that fails after its
slot was taken, and SIGTERM at any moment.
Retry is the park of a session that ran out of memory. Ordering is the FIFO
promise of the interactive lane through deferrals and parks. `PROJECT.json`
lists each hazard at its line with the property that would catch it.

What makes each part correct: the prefix cache's index, counter and budget are
exact and its victims are those of plain LRU; the scheduler answers every
request once, in order and within its caps; a session's cache rows, its token
record and its prediction agree whatever path it takes; what is parked can be
resumed; a drain ends, a crash answers every client, limits are never exceeded;
a background job gives way and is never left frozen; a kernel finds its own
expert in the slot it was given.

## Modules

| Module | Models | State and actions |
|---|---|---|
| `PrefixCache` | `struct PrefixCache`, its probe in `admit`, its inserts in `prefill_tick` | variables are the struct's fields plus the sessions between probe and insert; `touch`, `remove_at`, `insert_with_budget`, `evict_all` keep their names; the eviction loop takes one step (`EvictLru`) per iteration |
| `LruPolicy` | the policy the index replaced: the test's `OldModel`, a scan over a set | abstract specification; `PrefixCache` maps its pools to the set `Resident` |
| `PrefixCacheProofs`, `PrefixPolicyProofs` | — | theorems about `PrefixCache`; its refinement of `LruPolicy` |
| `Scheduler` | `fn run` with batching on, one model | `phase` is where the loop is; one action per branch of each phase; handlers `Submit` and `Disconnect` between any two of them |
| `SchedulerProofs` | — | theorems about `Scheduler` |
| `SessionHandoff` | the token bookkeeping of one session slot and the two reuse pools | a cache is the sequence of tokens whose rows it holds; a prediction is the context it was computed from |
| `SessionHandoffProofs` | — | theorems about `SessionHandoff` |
| `Lifecycle` | the handlers of `main.rs` from drain gate to dropped guard, the command and event channels, `run`'s receive loop, the supervisor of `spawn`, `health.rs`, the drain | `pc` per request, `at` for the worker thread, `drain` and `proc` for the process; gate, tenant slot, lane slot, gauge, send, peek, stream and guard drop are steps of their own, as are panic, catch, back-off and respawn |
| `DarkLane` | `runner_loop` of `darklane.rs` | the job's published state, its process, and the runner between the two loads of a signal read, inside the `nvidia-smi` probe, and between the end of a grace and the kill |
| `Server` | `main`: `Lifecycle` and `DarkLane` together | extends the one and instantiates the other; `phase` and `pending_admits` are shared, `BgStop` and `BgJoin` come between serve's return and the exit |
| `LifecycleProofs`, `ServerProofs` | — | theorems about `Lifecycle`; that `Server` implements it, and the runner's invariants |
| `ExpertCache` | `MoeSlotCache`, `PreadPool`, the expert loop of a forward | the host thread's position, the cache and pool fields, disk workers, and two queues of device operations whose order across streams is only what fences say |
| `ExpertCacheProofs`, `ExpertDeviceProofs` | — | theorems about `ExpertCache`: types, slots and buffers; what the kernels read |
| `MC*` | instances for TLC | prompts, model values, flag combinations |

Abstractions. In `PrefixCache` a snapshot is its token key and its size. In
`Scheduler` the n-th token of a request is the number n, so a lost, repeated or
reordered token is visible; what the gates measure (VRAM, step times, clocks)
is nondeterministic within the code's conditions, anew for every request that
is popped. `vram_defers`, the requests the VRAM gate has put aside in this pass,
is the set behind the code's counter of the same name. In `SessionHandoff` there is
one generated token value, and "the right next token" means a prediction whose
context is what the client has seen; the engine, the allocator and the other
sessions appear as choices. `env` holds the start-up flags and never changes.

In `Lifecycle` a tick advances one request the worker holds by a token or ends
it (`Scheduler` has the rest), and a health probe is a formula over the state it
reads. In `DarkLane` time is one bit: the last beat is older than
`MEMRA_VALLEY_S` or not.

In `ExpertCache` an expert is one block and all blocks have one size class; a
ticket is the index of its buffer; a slot's or a buffer's memory is the block it
holds. Device operations run in order within a stream and otherwise when their
fence allows, so every overlap the CUDA events leave open is explored. A CUDA
error is sticky, as `worker.rs:4409` treats it: after one no later device call
succeeds. The sources a copy from host memory keeps alive are left out, except
whether `compute_sources` is empty, which decides what the drop waits for. The
scores of the LFU policy are a choice of victim.

## Runs

| Run | Result | Shows |
|---|---|---|
| `prefix_cache` | holds, 358k states | the recency index, the byte counter and the counters stay exact, keys stay unique and boundaries ahead while two sessions in two namespaces overlap; an insert never evicts its own entry, also when clock reads tie; the indexed cache implements `LruPolicy`, eviction progress included |
| `scheduler` | holds, 1.7M states | no request is lost, held twice or answered twice; spec and lane bounds; parked requests first; interactive requests go live in the order they came, except past one that the VRAM gate put aside in the same pass |
| `scheduler_graph` | holds, 1.6M states | every client sees each token once and in order through graph promotion and degrade, demotion and bursts; a graph session runs alone |
| `scheduler_live` | holds, 250k states | every request is answered or its client leaves |
| `session_handoff` | holds, 1.2M states | emitted tokens come from the right context; rows and records agree at every handoff; a spec session can always burst; parked sessions can be resumed |
| `lifecycle` | holds, 240k states | gauges count exactly through panics, disconnects and refusals; only a panic drops a request; `live` means somebody serves; an exit with 0 has answered everybody; every request of a client that reads is answered, a drain ends once clients read or hang up, a fault is cleared or the process exits |
| `dark_lane` | holds, 290k states | the runner's view of its job is true and no process outlives it; a job gives way to traffic although it may start on a stale reading; a stopped job is never left frozen; shutdown ends with a job that ignores its signals, provided that clients read and `nvidia-smi` returns |
| `expert_cache` | holds, 2.4M states | every slot has one owner and table, counts and device rows agree with it; a kernel reads its own block and no two streams touch one slot; pinned buffers are neither reused nor freed under a read or a copy, failures and the drop included; the host never waits for itself (deadlock) |
| `oom_resend` | violated | a first burst that fails after streaming parks and its tokens are sent again (worker.rs:2303) |
| `resume_demoted` | violated | a session resumed from the spec pool demotes before its first burst; its suffix is never fed (worker.rs:2205) |
| `carry_twice` | violated | a burst stopped before round one commits its carried token and keeps it pending (spec.rs:5580) |
| `poisoned_park` | violated | a session that failed parks a cache its failed pass has advanced (worker.rs:2785) |

The four violations state what a comment, an assertion or a document of the
repository says; the findings in `PROJECT.json` quote it.

`session_handoff` explores two start-up configurations (`Sound`): every path,
yield and failure with the pools off, and the pools with plain and spec
sessions but without gate, graph, yield and failures. The combinations that are
missing are the ones the violations are about; each violation run adds one flag
to the second configuration. A fourth, `WithGraph`, has no run of its own:
there `ParkedExact` fails because a degraded graph session whose pending token
ends it parks the logits of before its promotion (worker.rs:1964).

The clients are finite, the worker blocks in `recv` when they are served and
the process exits, so the scheduler, handoff, lifecycle and dark-lane runs do
not treat a stop as a deadlock; `prefix_cache` and `expert_cache` do.

### Known deviations

Met while modelling, and left as the code has them:

- a session's last spec round streams up to `MEMRA_SPEC_K` tokens beyond
  `max_tokens` (spec.rs:5211; docs/SERVING.md:418 says otherwise); `Scheduler`
  models it as `Overshoot`;
- the VRAM gate queues dark work in the engine (worker.rs:1875), which the
  comment at worker.rs:1717 excludes; `Defer` does the same;
- the VRAM gate measures each popped request anew and is skipped when the
  measurement fails (worker.rs:1819-1879): an interactive request it has put
  aside can be overtaken by a later one in the same pass, although the comment at
  worker.rs:1875 says "waits (FIFO)". `InteractiveFifo` excepts exactly these
  requests (`vram_defers`); without the exception TLC finds the overtaking;
- the drain deadline only ends the wait for the gauges: axum then still waits
  for the connections it tracks, so a client that stays connected and stops
  reading its stream holds the exit beyond `MEMRA_DRAIN_S`, against main.rs:46
  and docs/SERVING.md:533. `DrainEnds` has reading as its premise; without it TLC
  finds the behaviour, with the deadline too. A stalled worker does the same,
  until the liveness probe kills the process (`Over`);
- with `MEMRA_BG_VRAM_MB` every launch of the background job runs `nvidia-smi`
  without a timeout on the thread that shutdown joins (darklane.rs:241), while
  health.rs:47 knows that a wedged card hangs that tool: the stop flag is then
  never seen. `ServerDrains` has as a premise that the probe returns, and fails
  without it;
- a job that exits with 0 between the last look at it and the kill at the end of
  its checkpoint grace is taken for preempted and launched again
  (darklane.rs:522-530; darklane.rs:39 says "never relaunched"); `PreemptKill` in
  `DarkLane` does the same;
- a stream whose worker panics ends with neither an error object nor `[DONE]`
  (answer `cut` in `Lifecycle`);
- with `MEMRA_SPILL_COPY_H2D` the pool's drain synchronises the copy stream
  only, although demand copies are on the compute stream; it is safe because
  the cache's own drop has synchronised that one, or has found an error that is
  sticky;
- a disk dispatch that fails after its read was waited for leaves the buffer
  `Ready` and unused until the drop, and a pending block left by an error keeps
  its slot until it is dispatched;
- `ToolStreamParser::finish` (toolcall.rs:286) emits nothing for a generation
  that ends exactly at `<tool_call>`, although its header promises that no byte
  is dropped. Read in the code, not modelled.

### Bounds

- `PrefixCache`: two namespaces, two sessions, three prompts that share
  prefixes, a budget of six bytes with entries of two to four, four inserts
  and a clock of two values. One insert can evict two entries (four bytes on top
  of two and three), a swap_remove can move an entry, two learners can race for
  a key, and stamps can tie; longer histories repeat these.
- `Scheduler`: three requests, caps of one or two, one park per request, two
  tokens, one overshoot, one prefill chunk, in the liveness run a dark request
  for zero tokens. That is enough for a
  request to be deferred behind another, parked in front of it, shed, demoted
  and disconnected in any order. Interactive requests are interchangeable, hence
  the symmetry in `scheduler`; the liveness run uses none.
- `SessionHandoff`: four prompts (two first turns, two follow-ups that extend
  what a first turn generates), a budget of three tokens in bursts of two with
  one draft, two pool entries, four turns. A burst can prime, continue, carry,
  overshoot and end early; a prompt can extend, rewind to or miss a parked
  session. Requests there ask for at least one token; a request for none ends
  in its first step and is in `Scheduler`. `MaxCtx` is the cache's `max_ctx`; it ends sessions as in the code.

- `Lifecycle`: two requests of one tenant with a cap of one or two, one streaming
  and interactive, one blocking and dark, one token, one respawn. Either can be
  refused, limited, lost to a panic at each point of its handoff, or cross the
  drain gate as the flag is set; the second panic exhausts the budget. The drain
  deadline is off there, which makes the end of a drain the harder thing to
  reach: the gauges have to come to zero. It is on in `dark_lane`, which has one
  request, both yield modes, and a job with and without a VRAM budget.
- `ExpertCache`: two slots, a layer of three blocks and one of one block, three
  buffers, one failure, four operations queued on the compute stream. Two slots
  and three blocks make every miss after the second evict, a pending slot leaves
  one victim, and the second layer is the one that can become fully resident and
  be used through its device row. Four start-up configurations cover the
  backends: host memory with lookahead, blocking reads under LFU on a model the
  device may not route, disk workers with a rolling window of two reads, disk
  workers with copy-stream promotion. The blocks of the
  first layer are interchangeable: it never fits, so it has neither row nor
  prewarm order.

### Fairness

`Scheduler` assumes weak fairness of `Worker` and of nothing else: the worker
is a dedicated thread that only blocks in `recv` with nothing to do, so a step
that stays possible is taken; its sends never block, so clients owe nothing.
`PrefixCache` assumes weak fairness of `EvictLru`, an iteration of a `while` loop
that runs to its end. `SessionHandoff` and `ExpertCache` check safety and deadlock only.

`Lifecycle` assumes weak fairness of each handler up to its response (a task of
the runtime that is polled when its channel has something), of the worker
thread, of the shutdown task and of the exit after it. A response that streams is
polled only as its client takes what was written, so the specification assumes
nothing of it: that a client reads is a premise (`ClientReads`) of the properties
that need it. `Served` needs it of the client it is about and of no other,
`DrainEnds` of all; the drain deadline is no substitute.
Signals, panics and hangs owe nothing, and a worker that hangs in a tick is an
excuse in the liveness properties, because only a probe from outside ends it.

`Server` adds the runner thread, the stop and join in `main`, the passing of time
(`Quieten`) and the kernel's parent-death signal; the job owes nothing. The
runner owes its steps except the end of a probe: `nvidia-smi` runs without a
timeout, and that it returns (`ProbesReturn`) is a premise of `ServerDrains`,
next to `ClientReads`. `YieldsToTraffic` and `NeverFrozen` need neither: no job
runs while the runner waits for its probe.

## Proofs

Each theorem holds for every value of the constants that satisfies the
assumption its module names; TLC evaluates the assumptions on every run. All of
them are safety: the invariant is proved by induction over `Next`, one lemma per
action or group of actions, and the properties follow from it.

### Prefix cache

`ConstantsAssumption`: finitely many pool keys, non-empty prompts of naturals, a
positive budget and minimum; any sessions and sizes.

- `TypeCorrect`, `BoundaryCorrect` (`BoundaryAhead`: the unsigned subtraction in
  `prefill_tick` never wraps), `IndexCorrect` (`IndexExact`: the recency index
  and the pools describe each other exactly), `KeysCorrect` (`KeysUnique`).
- `BytesCorrect`, `CountersCorrect`: the byte counter and the lifetime counters.
- `NewcomerCorrect`: an insert never evicts its own entry.
- `ImplementsPolicySafety`: the initial state and every step of the indexed cache
  are those of `LruPolicy`, the scan it replaced, under the mapping `Resident`.

`TypeOK` is not inductive: that a chunk of prefill stays inside the prompt
needs the relation between `fed`, `snapshot_at` and the prompt's length
(`Boundaries`), so `Typed` carries both. `IndexExact` is not either: two
entries with the same `(last_use, id)` would share an index key, so `Index`
adds that ids are unique and below `next_id`. The first invariant is
`IInv == Typed /\ Index /\ KeysUnique`; the hard step is eviction, where
`swap_remove` moves the last entry and the index follows. `PolicyInv` adds
`Books`: no entry was used in the future, the loop runs exactly while the
counter is above the budget, and the entry being inserted is there, the most
recent and not larger than the budget. The last is what makes the newcomer
survive: were it the least recent entry it would be alone, and then the counter
is its size. Sums are not inducted over: the bytes of an entry are a set of that
many cells and the counter is the cardinality of a disjoint union. One lemma
(`Evicts`) says what an eviction does to the resident set, the positions and the
counters; the counters, the newcomer and the refinement all use it.

### Worker loop

`SchedulerAssumption`: a finite set of requests, any partition into lanes and
capabilities, any caps and bounds, with the low watermark of the spec gate below
the high one.

- `SchedulerTypeCorrect`; `HeldOnceCorrect`: a waiting client's request is in the
  worker's hands exactly once; `LaneCapsCorrect`; `GraphAloneCorrect`;
  `ParkedAheadCorrect`.
- `NothingAfterEndCorrect` and `InteractiveFifoCorrect`, action properties; the
  second says that an interactive request which goes live for the first time
  leaves no earlier one waiting, but those in `vram_defers`.
- `UnparkedExactCorrect`: the client of a request that was never parked sees the
  tokens 1, 2, 3, ...; `ExactStreamCorrect`: so does every client when
  `OomRetries = 0`, the hypothesis that `oom_resend` shows to be needed.

`SchedInv` joins what the properties need of each other: where a request can be
(`Places`, `Phased`), that an unanswered one is somewhere and an answered one
nowhere (`Answers`), the order of the three waiting lines against the order of
arrival (`Lines`, by the relation `MayPrecede`: parked before never run, else
first come first), why an interactive request was deferred (`Barred`: its lane
is at its cap, and stays there for the rest of the pass, or the VRAM gate has put
it aside), and that a live stream is
as long as the session says (`Streams`). Most actions of a tick do the same to
all this, so each is shown to be a `TickStep` (some live sessions get their next
tokens, some get their end, nothing moves) and `TickStep` to keep the invariant.
`Keep`, the retire filter, is defined by ranks rather than `SelectSeq` so that
its order can be reasoned about; that it exists for every sequence is an
induction with the smallest counterexample (`LeastNat`).

### Sessions and reuse pools

`HandoffAssumption`: non-empty prompts, a positive budget, burst, `K` and minimum
prefix; any start-up configurations. All flags at once:

- `HandoffTypeCorrect`: types, and both pools within `MEMRA_REUSE_POOL`.
- `CanBurstCorrect`: a running spec session always has room and something to
  start from, after resumes, rewinds, yields and failures too.

The rest cannot hold for all flags, which the violation runs show. The
hypotheses are about `env` only, and each is needed:

- `EmitCorrect`, `ParkedCorrect` under `SoundEnv`: the pools are off, or there is
  neither demotion nor graph nor yield nor failing pass. With pools, any one of
  the four flags breaks both properties; TLC finds the traces with
  `WithGate`, `WithGraph`, `WithYield` and `WithErrors` (for `EmitExact` and a
  yield the prompts must contain one that repeats the doubled token, such as
  `<<1, 2, 2, 2, 2>>`).
- `HandoffCorrect` when the pools are off, or there is neither demotion nor a
  failing pass (graphs and yields may come); `resume_demoted` is the case left out.
- `CommittedCorrect` under `Steady`: no yield, and failing passes only with the
  pools off (demotion and graphs may come); `carry_twice` is the case left out.

`HandoffInv` says what a session has told its client (`Told`): on the plain path
rows, fed and prediction are what the client has seen; on the spec path rows,
unprimed suffix and carried token together are. It needs `Able` (a running spec
session has a start) and, with pools off, `Fresh`: a session that resumed nothing
has fed what its client has seen, which is what demotion relies on and a resumed
session does not satisfy. `Parkable` is what retire may find. A burst is taken
apart into what it starts from, emits, holds back and records (`BurstRead`), so
that its lemmas are about sequences only. `RecordInv` and `OwnInv` are the two
smaller invariants of the last two theorems.

The proof found a gap in the model: a failed burst may leave a rewind boundary
beyond the record, and the slice `committed[..pos]` (worker.rs:3323) then
panics; `Rewindable` now requires the boundary to be inside.

### Handlers, supervisor, dark lane

`RequestsAssumption` and `CapsAssumption`: finitely many requests, any tenants,
caps, respawn budget, with and without drain deadline.

- `LifecycleTypeCorrect`; `SlotsCorrect` and `PendingCorrect`: the gauges are the
  cardinalities of the sets of handlers they count; `DroppedCorrect`: only a
  panic drops a request; `LiveCorrect`; `CleanExitCorrect`.
- `ServerImplementsLifecycle`: with the dark-lane runner the server is still a
  `Lifecycle` (same variables, every step one of its steps or a stutter), so
  these hold of it (`ServerKeepsLifecycle`); `ServerTypeCorrect`;
  `JobKnownCorrect`.

`LifecycleInv` adds that the worker has popped at most one command (`GotOne`),
the phase at each point of the supervisor (`PhaseAt`), that a response is there
exactly when its handler is leaving (`AnsweredLeaving`, `DeafLeaving`), that
nobody is connected once serve has returned, and, for `DroppedByPanic`,
`Tracked`: before the first panic a handler that waits has a live sender or its
last event already in the channel. `ServerInv` adds what the runner may have
published at each of its points.

### Expert cache

`CacheAssumption`: any blocks, each in exactly one layer; any slots and buffers;
a protected segment of at least one slot; any switches, lengths of the compute
queue and numbers of faults.

- `ExpertTypes` (`TypeOK`); `SlotsAreAccounted` (`SlotsAccounted`): every slot is
  in one place, and table, counts and device rows agree with the occupants.
- `BuffersAreSafe` (`BuffersSafe`): a pinned buffer is neither reused nor freed
  under a disk read or a copy, with failures and the drop.
- `KernelsReadTheirBlocks` (`ReadsExact`): a kernel that may start finds in its
  slot the block it was queued for, the two streams never work on one slot at
  once, and slots are not freed under a copy nothing waits for.

`ExpertInv` is the invariant of the first three. `HostOK` is what the owner
thread may rely on at each place: promotion runs only after the compute stream
was drained, a forward only while no slot was given up. `CacheOK` is the
bookkeeping of lists, occupants and layers, and that no slot is missing until a
failed synchronize gives one up. `StreamsOK` bounds every fence by what is
queued. `PoolInv` is the protocol of a buffer: a worker or a completion exists
just when the pool waits for one (`Workers`), a ticket leads to a buffer that
waits for its block, holds it or has failed (`Tickets`), and a queued copy finds
its buffer in `H2d` with the block it had when queued (`Copying`).

`ReadsExact` speaks of the heads of the two queues only and is not inductive.
`DeviceInvariant` adds `DeviceInv`, which says what the queued operations will
do. `Sees` says that once the operations before a place and the copies ordered
before it have ended, the last write to a slot is of a given block, in whatever
order the streams interleave; it holds for every queued kernel (`KernelsSee`) and,
at the end of both queues, for every entry of the table and every pending copy
(`HoldersSee`). Two operations of different streams on one slot are ordered by a
fence (`Ordered`). What makes it safe to write an evicted or reserved slot again
is `CopiesWaited`: as long as no slot was given up, the compute stream waits for
every copy that is no longer pending. `DropOK` is why a failed synchronize,
which ends `CopiesWaited`, does no harm: the marks it leaves make the drop leak
the slots rather than free them.

The queues are reasoned about once per kind of step, not once per action: every
action of the host and the workers does one of six things to cache and streams
(`Quiet`, `Uses`, `Takes`, `Admits`, `Pends`, `Loses`), and a device step removes
the head of a queue.

### Only model-checked

Liveness and fairness are out of the prover's reach: `Answered`, `Served`,
`DrainEnds`, `Recovers`, `YieldsToTraffic`, `NeverFrozen`, `ServerDrains`, and
the fairness of `LruPolicy` in `ImplementsPolicy`.
That the host thread and the streams of `ExpertCache` never wait for each other
(deadlock) is a statement about `ENABLED` and stays with TLC too.

## Not modelled

- Kernels, forward passes, sampling, GGUF and tokenizer, which are most of the
  repository's lines: data, not control. Their correctness is numeric and is
  what the repository's own gate binaries measure.
- KV caches and pipeline stages: sizes, offsets and the order of device calls
  inside one forward; nothing outlives the call but CUDA events, and the one
  place where two streams share memory across calls is `ExpertCache`.
- The text automata (stop scrubber, tool-call parser, grammars): sequential
  functions of one client's text; the repository tests them delta by delta.
- The legacy `MEMRA_SERVE_BATCH=0` round robin, the test door
  `MEMRA_SPEC_DEMOTE_AT`, several loaded models.
- In `SessionHandoff`: text-prefix resume (a conversion between token and text
  seams), sampled and constrained requests, the size conditions of a resume. A
  spec round is one step: the tokens it commits, carries or loses.
- In `Lifecycle`: the first load, key files and their reload, the admin and
  metrics endpoints, which change nothing that is modelled.
- In `DarkLane`: a `try_wait` that fails.
- In `ExpertCache`: where one token's selection ends in a forward of several (the
  selections are one list, so a window of reads may run from one token into the
  next; the promotion is for one token only), several size classes, frozen
  residency and CPU experts,
  export and restage of residency, a full wait queue, `O_DIRECT` alignment.
- The hit, miss and histogram counters of the prefix cache, the percentile
  window of the lane policy (its outcomes are choices).

## Plan

What is modelled is what the control of the serving core offers, and every
safety property the passing runs check is proved. What could be added: size
classes and frozen residency in `ExpertCache`, where a slot is then bound to a
class and some slots are never victims; and the inside of a spec round in
`SessionHandoff` (draft, verify, accept, roll back), which is now one step.
