---------------------------- MODULE ExpertCache ----------------------------
(***************************************************************************)
(* The GPU residency cache for MoE expert blocks (moe_cache.rs) with the   *)
(* pool of pinned buffers and disk workers that feeds it (spill_pread.rs). *)
(* One host thread owns both and drives them layer by layer                *)
(* (hybrid_forward.rs); disk workers fill buffers, and the device runs the *)
(* kernels and copies queued on two streams, in order within a stream and  *)
(* ordered between them only by the events the host has recorded.          *)
(*                                                                         *)
(* An expert is one block (its three projections are handled alike), all   *)
(* blocks have one size class, and the scores of the LFU policy are left   *)
(* out: under it any block outside the keep set may be the victim.         *)
(***************************************************************************)
EXTENDS Naturals, Sequences, FiniteSets, SequencesExt

CONSTANTS
    Blocks,        \* BlockIds
    NoBlock,
    LayerBlocks,   \* the blocks of each layer, in expert order
    NumSlots,      \* GPU slots
    ProtectedCap,  \* protected_cap of the class
    NumBuffers,    \* pinned buffers, at most
    Configs,       \* start-up switches: mode, lfu, copy, dev (the device may route),
                   \* prewarm, window (of the lookahead), depth (buffers in use),
                   \* width (most dispatches of a forward)
    MaxCompute,    \* bound: operations queued on the compute stream
    MaxFaults      \* bound: failures of reads and of device calls

Layers == DOMAIN LayerBlocks
Slots == 1 .. NumSlots
Buffers == 1 .. NumBuffers

ASSUME CacheAssumption ==
    /\ NoBlock \notin Blocks
    /\ \A l \in Layers : LayerBlocks[l] \in Seq(Blocks)
    /\ \A id \in Blocks : \E l \in Layers : id \in Range(LayerBlocks[l])
    \* a BlockId names its layer
    /\ \A l, m \in Layers : Range(LayerBlocks[l]) \cap Range(LayerBlocks[m]) # {} => l = m
    /\ NumSlots \in Nat /\ NumBuffers \in Nat /\ ProtectedCap \in Nat \ {0}
    /\ Configs \subseteq [mode : {"memory", "blocking", "worker"}, lfu : BOOLEAN,
                           copy : BOOLEAN, dev : BOOLEAN, prewarm : BOOLEAN,
                           window : Nat, depth : 1 .. NumBuffers, width : Nat]
    /\ MaxCompute \in Nat /\ MaxFaults \in Nat

VARIABLES
    cfg,      \* the switches
    c,        \* MoeSlotCache: free, prob, prot, occ, table, pend, count, rows
    kept,     \* compute_sources is not empty
    phase,    \* BufferPhase of each pinned buffer
    want,     \* the block of the request a buffer was handed over with
    reads,    \* worker_reads: the buffer (ticket) of each block, or 0
    reading,  \* buffers in the hands of a disk worker
    done,     \* completions sent and not received
    data,     \* what a buffer's memory holds; it goes with a read request
    compute, copy,  \* operations queued on the two streams
    mem,      \* what a slot's memory holds
    at, layer, sel, pos,  \* the owner thread: where, which layer, which blocks
    lost,     \* once a synchronize has failed: "device", and the stream marked unknown
    freed,    \* what the drop has released ("slots", "buffers"), or that it leaks
    faults,
    tried     \* prewarm_tried

poolVars == <<phase, want, reads, reading, done, data>>
deviceVars == <<compute, copy, mem>>
hostVars == <<at, layer, sel, pos>>
vars == <<cfg, c, kept, poolVars, deviceVars, hostVars, lost, freed, faults, tried>>

LayerOf(id) == CHOOSE l \in Layers : id \in Range(LayerBlocks[l])

Init ==
    /\ cfg \in Configs
    /\ c = [free |-> Reverse([s \in Slots |-> s]), prob |-> <<>>, prot |-> <<>>,
            occ |-> [s \in Slots |-> NoBlock],
            table |-> [id \in Blocks |-> 0], pend |-> [id \in Blocks |-> 0],
            count |-> [l \in Layers |-> 0], rows |-> [l \in Layers |-> <<>>]]
    /\ kept = FALSE
    /\ phase = [b \in Buffers |-> "Free"]
    /\ want = [b \in Buffers |-> NoBlock]
    /\ reads = [id \in Blocks |-> 0]
    /\ reading = {}
    /\ done = [b \in Buffers |-> "none"]
    /\ data = [b \in Buffers |-> NoBlock]
    /\ compute = <<>> /\ copy = <<>>
    /\ mem = [s \in Slots |-> NoBlock]
    /\ at = "idle" /\ layer = 0 /\ sel = <<>> /\ pos = 1
    /\ lost = {} /\ freed = {} /\ faults = 0 /\ tried = {}

-----------------------------------------------------------------------------
(* SlotClass and MoeSlotCache: bookkeeping *)

\* SlruList::unlink: takes one node out of a list.
Without(q, s) ==
    IF s \in Range(q) THEN RemoveAt(q, CHOOSE i \in DOMAIN q : q[i] = s) ELSE q

\* push_protected: protected LRU goes back to probation MRU when over the cap.
push_protected(k, s) ==
    LET q == Append(k.prot, s) IN
    IF Len(q) > ProtectedCap
    THEN [k EXCEPT !.prot = Tail(q), !.prob = Append(@, Head(q))]
    ELSE [k EXCEPT !.prot = q]

\* A hit moves nothing while the class has free slots.
on_hit(k, s) ==
    IF k.free # <<>> THEN k
    ELSE IF s \in Range(k.prot) THEN [k EXCEPT !.prot = Append(Without(@, s), s)]
    ELSE push_protected([k EXCEPT !.prob = Without(@, s)], s)

\* Mutant: the layer's pointer row outlives the eviction.
evict_keeping_row(k, s) ==
    LET id == k.occ[s] IN
    [k EXCEPT !.prob = Without(@, s), !.prot = Without(@, s),
              !.occ[s] = NoBlock, !.table[id] = 0, !.count[LayerOf(id)] = @ - 1]

\* Unlinking a victim, remove_occupant and on_block_evicted.
evict(k, s) ==
    LET id == k.occ[s] IN
    [k EXCEPT !.prob = Without(@, s), !.prot = Without(@, s),
              !.occ[s] = NoBlock, !.table[id] = 0,
              !.count[LayerOf(id)] = @ - 1, !.rows[LayerOf(id)] = <<>>]

\* evict_one_excluding, and evict_one with nothing to keep: the first in
\* probation-then-protected order, or whichever has the lowest score.
Victims(k, keep) ==
    LET q == k.prob \o k.prot
        spare == {i \in DOMAIN q : k.occ[q[i]] \notin keep} IN
    {q[i] : i \in IF cfg.lfu THEN spare ELSE {i \in spare : \A j \in spare : i <= j}}

\* reserve_slot and reserve_prefetch_slot: the outcomes, none when no slot.
reserve(k, keep) ==
    IF k.free # <<>>
    THEN {[cache |-> [k EXCEPT !.free = Front(@)], slot |-> Last(k.free)]}
    ELSE {[cache |-> evict(k, s), slot |-> s] : s \in Victims(k, keep)}

release_reserved_slot(k, s) == [k EXCEPT !.free = Append(@, s)]

\* Mutant: a published block is not counted.
publish_uncounted(k, id, s) ==
    [k EXCEPT !.occ[s] = id, !.table[id] = s, !.prob = Append(@, s)]

publish(k, id, s) ==
    [k EXCEPT !.occ[s] = id, !.table[id] = s, !.prob = Append(@, s),
              !.count[LayerOf(id)] = @ + 1]

Pend(k, id, s) == [k EXCEPT !.occ[s] = id, !.pend[id] = s]

-----------------------------------------------------------------------------
(* Streams.  A fence counts the operations of the other stream that must end *)
(* before this one may start.                                                *)

Op(kind, s, id, b, fence) == [kind |-> kind, slot |-> s, id |-> id, buf |-> b, fence |-> fence]
Kernel(s, id) == Op("read", s, id, 0, 0)

Landed(q) == [i \in DOMAIN q |-> [q[i] EXCEPT !.fence = IF @ = 0 THEN 0 ELSE @ - 1]]
Effect(o) == IF o.kind = "write" THEN [mem EXCEPT ![o.slot] = o.id] ELSE mem

RunCompute ==
    /\ compute # <<>> /\ Head(compute).fence = 0
    /\ mem' = Effect(Head(compute))
    /\ compute' = Tail(compute)
    /\ copy' = Landed(copy)
    /\ UNCHANGED <<cfg, c, kept, poolVars, hostVars, lost, freed, faults, tried>>

RunCopy ==
    /\ copy # <<>> /\ Head(copy).fence = 0
    /\ mem' = Effect(Head(copy))
    /\ copy' = Tail(copy)
    /\ compute' = Landed(compute)
    /\ UNCHANGED <<cfg, c, kept, poolVars, hostVars, lost, freed, faults, tried>>

\* The event of a buffer's copy has completed.
Complete(b) == \A q \in {compute, copy} : \A i \in DOMAIN q : q[i].buf # b

\* Where in the copy stream the block's copy is, 0 when it has ended.
CopyOf(id) ==
    LET at_ == {i \in DOMAIN copy : copy[i].id = id} IN
    IF at_ = {} THEN 0 ELSE CHOOSE i \in at_ : \A j \in at_ : j <= i

\* Mutant: the copy does not wait for the kernels that use the old block.
CopyFenceMissing == 0

\* stage_on_copy_stream: an event behind everything queued on the compute stream.
CopyFence == Len(compute)

Room(n) == Len(compute) + n <= MaxCompute
Faulty == faults < MaxFaults /\ faults' = faults + 1

-----------------------------------------------------------------------------
(* PreadPool *)

finish_read(p, result) ==
    IF p = "Canceled" THEN "Free" ELSE IF result = "ok" THEN "Ready" ELSE "Failed"

\* poll_worker_completions.
Polled == [b \in Buffers |-> IF done[b] = "none" THEN phase[b] ELSE finish_read(phase[b], done[b])]
NoneDone == [b \in Buffers |-> "none"]

\* reap_completed.
Reaped ==
    [b \in Buffers |-> IF Polled[b] = "H2d" /\ Complete(b) THEN "Free" ELSE Polled[b]]

FreeIn(p) == {b \in 1 .. cfg.depth : p[b] = "Free"}
First(S) == CHOOSE b \in S : \A d \in S : b <= d

\* Mutant: a cancelled buffer is free although a worker still writes to it.
cancel_read_now(p) == IF p \in {"Reading", "Ready", "Failed"} THEN "Free" ELSE p

cancel_read(p) ==
    CASE p = "Reading" -> "Canceled"
      [] p \in {"Ready", "Failed"} -> "Free"
      [] OTHER -> p

\* A disk worker ends a read and sends its completion.
WorkerReads(b) ==
    /\ b \in reading
    /\ reading' = reading \ {b} /\ want' = [want EXCEPT ![b] = NoBlock]
    /\ \/ /\ done' = [done EXCEPT ![b] = "ok"]
          /\ data' = [data EXCEPT ![b] = want[b]]
          /\ UNCHANGED faults
       \/ /\ done' = [done EXCEPT ![b] = "err"]
          /\ data' = [data EXCEPT ![b] = NoBlock]
          /\ Faulty
    /\ UNCHANGED <<cfg, c, kept, phase, reads, deviceVars, hostVars, lost, freed, tried>>

\* submit_worker_with_admission, when more buffers than the floor are free.
Submitted(id, p) ==
    LET b == First(FreeIn(p)) IN
    /\ phase' = [p EXCEPT ![b] = "Reading"]
    /\ want' = [want EXCEPT ![b] = id]
    /\ reads' = [reads EXCEPT ![id] = b]
    /\ reading' = reading \cup {b}
    /\ data' = [data EXCEPT ![b] = NoBlock]

\* cancel_worker on the tickets of the given blocks.
Cancel(ids) ==
    /\ phase' = [b \in Buffers |->
                    IF \E id \in ids : reads[id] = b THEN cancel_read(Polled[b]) ELSE Polled[b]]
    /\ done' = NoneDone
    /\ reads' = [id \in Blocks |-> IF id \in ids THEN 0 ELSE reads[id]]
    /\ UNCHANGED <<want, reading, data>>

\* submit_worker_speculative leaves one buffer free; no ticket when it would not.
Speculate(id) ==
    /\ done' = NoneDone
    /\ IF Cardinality(FreeIn(Reaped)) > 1
       THEN Submitted(id, Reaped)
       ELSE phase' = Reaped /\ UNCHANGED <<want, reads, reading, data>>

Known(id) == c.table[id] # 0 \/ c.pend[id] # 0 \/ reads[id] # 0

\* prefetch_source on the worker backend.
PrefetchRead(id) == IF Known(id) THEN UNCHANGED poolVars ELSE Speculate(id)

-----------------------------------------------------------------------------
(* One forward of one layer *)

Goto(where, p) ==
    /\ at' = where /\ pos' = p
    /\ IF where = "idle" THEN layer' = 0 /\ sel' = <<>> ELSE UNCHANGED <<layer, sel>>
FailForward == Goto("idle", 1)

\* begin_worker_scope: tickets of an earlier forward are cancelled.
Begin(l) ==
    /\ at = "idle" /\ lost = {}
    /\ at' = "row" /\ layer' = l /\ UNCHANGED <<sel, pos>>
    /\ LET ids == {id \in Blocks : reads[id] # 0} IN
       IF ids = {} THEN UNCHANGED poolVars ELSE Cancel(ids)
    /\ UNCHANGED <<cfg, c, kept, deviceVars, lost, freed, faults, tried>>

\* admit: reserve a slot (of k, when an earlier attempt has left that), queue
\* the copy on the compute stream, publish; n failures so far.
Admit(k, id, n, kernels, where, p) ==
    \/ /\ reserve(k, {}) = {}
       /\ FailForward /\ c' = k /\ faults' = n /\ UNCHANGED <<compute, lost>>
    \/ \E r \in reserve(k, {}) :
          LET write == Op("write", r.slot, id, 0, 0) IN
          \/ /\ c' = publish(r.cache, id, r.slot)
             /\ compute' = Append(compute, write) \o (IF kernels THEN <<Kernel(r.slot, id)>> ELSE <<>>)
             /\ faults' = n /\ Goto(where, p) /\ UNCHANGED lost
          \/ /\ n < MaxFaults /\ faults' = n + 1
             /\ compute = <<>>
             /\ c' = release_reserved_slot(r.cache, r.slot)
             /\ FailForward /\ UNCHANGED <<compute, lost>>
          \/ /\ n < MaxFaults /\ faults' = n + 1
             /\ lost' = {"device", "compute"}
             /\ c' = r.cache
             /\ compute' \in {compute, Append(compute, write)}
             /\ FailForward

Missing == {i \in DOMAIN LayerBlocks[layer] : c.table[LayerBlocks[layer][i]] = 0}

\* prewarm_layer: once per layer, and only into free slots.
Prewarm ==
    /\ at = "row" /\ cfg.dev /\ cfg.prewarm /\ layer \notin tried
    /\ tried' = tried \cup {layer}
    /\ IF cfg.mode = "memory" /\ Len(c.free) >= Len(LayerBlocks[layer]) - c.count[layer]
       THEN Goto("warm", 1) ELSE UNCHANGED hostVars
    /\ UNCHANGED <<cfg, c, kept, poolVars, deviceVars, lost, freed, faults>>

Warm ==
    /\ at = "warm" /\ Room(1)
    /\ IF Missing = {}
       THEN Goto("row", 1) /\ UNCHANGED <<c, compute, lost, faults>>
       ELSE Admit(c, LayerBlocks[layer][First(Missing)], faults, FALSE, "warm", 1)
    /\ UNCHANGED <<cfg, kept, poolVars, copy, mem, freed, tried>>

Resident == c.count[layer] = Len(LayerBlocks[layer])
Warmed == cfg.dev /\ cfg.prewarm => layer \in tried

\* layer_dev_row and moe_ffn_dev: the device routes, and its kernels find the
\* blocks through the row, built once the layer is fully resident.
DeviceForward ==
    /\ at = "row" /\ cfg.dev /\ Warmed /\ Resident /\ Room(1)
    /\ LET row == IF c.rows[layer] # <<>> THEN c.rows[layer]
                  ELSE [i \in DOMAIN LayerBlocks[layer] |-> c.table[LayerBlocks[layer][i]]] IN
       /\ c' = [c EXCEPT !.rows[layer] = row]
       /\ \E i \in DOMAIN row : compute' = Append(compute, Kernel(row[i], LayerBlocks[layer][i]))
    /\ Goto("idle", 1)
    /\ UNCHANGED <<cfg, kept, poolVars, copy, mem, lost, freed, faults, tried>>

Promoting == cfg.mode = "worker" /\ cfg.copy

\* Where the expert loop starts: worker_prefetch_positions seeds its window.
LoopStart == IF cfg.mode = "worker" /\ cfg.window > 0 THEN "seed" ELSE "ahead"

\* The host routes a layer that has no device row, or any layer when the device
\* may not: reading the router's output back waits for the compute
\* stream.  One token selects distinct blocks, several may repeat them; the
\* copy-stream promotion is for one token.
Route ==
    /\ at = "row" /\ Warmed /\ (cfg.dev => ~Resident)
    /\ compute = <<>>
    /\ \E n \in 1 .. cfg.width : \E s \in [1 .. n -> Range(LayerBlocks[layer])] :
          /\ Promoting => IsInjective(s)
          /\ sel' = s
    /\ at' = (IF Promoting THEN "submit" ELSE LoopStart) /\ pos' = 1 /\ UNCHANGED layer
    /\ UNCHANGED <<cfg, c, kept, poolVars, deviceVars, lost, freed, faults, tried>>

\* moe_prefetch_disk_expert for every selected block, before the promotion.
Submit ==
    /\ at = "submit"
    /\ PrefetchRead(sel[pos])
    /\ IF pos = Len(sel) THEN Goto("promote", 1) ELSE Goto("submit", pos + 1)
    /\ UNCHANGED <<cfg, c, kept, deviceVars, lost, freed, faults, tried>>

PromoteNext == IF pos = Len(sel) THEN Goto(LoopStart, 1) ELSE Goto("promote", pos + 1)

\* promote_worker_reads_at_safe_boundary, one block: nothing to promote.
PromoteSkips ==
    /\ at = "promote"
    /\ LET id == sel[pos]
           here == c.table[id] # 0 \/ c.pend[id] # 0 IN
       \/ here /\ reads[id] # 0 /\ Cancel({id})
       \/ /\ IF here THEN reads[id] = 0 ELSE reads[id] = 0 \/ reserve(c, Range(sel)) = {}
          /\ UNCHANGED poolVars
    /\ PromoteNext
    /\ UNCHANGED <<cfg, c, kept, deviceVars, lost, freed, faults, tried>>

\* The same, with a slot reserved: waits for the read, and queues its copy on
\* the copy stream with no fence, for the compute stream was drained by Route.
Promote ==
    /\ at = "promote"
    /\ LET id == sel[pos]
           b == reads[id] IN
       /\ c.table[id] = 0 /\ c.pend[id] = 0 /\ b # 0
       /\ reads' = [reads EXCEPT ![id] = 0] /\ done' = NoneDone
       /\ \E r \in reserve(c, Range(sel)) :
             LET write == Op("write", r.slot, id, b, 0) IN
             \/ /\ Polled[b] = "Failed" /\ phase' = [Polled EXCEPT ![b] = "Free"]
                /\ c' = release_reserved_slot(r.cache, r.slot)
                /\ PromoteNext /\ UNCHANGED <<copy, lost, faults>>
             \/ /\ Polled[b] = "Ready" /\ phase' = [Polled EXCEPT ![b] = "H2d"]
                /\ c' = Pend(r.cache, id, r.slot)
                /\ copy' = Append(copy, write)
                /\ PromoteNext /\ UNCHANGED <<lost, faults>>
             \/ /\ Polled[b] = "Ready" /\ phase' = [Polled EXCEPT ![b] = "Free"]
                /\ Faulty
                /\ c' = release_reserved_slot(r.cache, r.slot)
                /\ PromoteNext /\ UNCHANGED <<copy, lost>>
             \/ /\ Polled[b] = "Ready" /\ phase' = [Polled EXCEPT ![b] = "H2d"]
                /\ Faulty
                /\ c' = r.cache /\ lost' = {"device", "copy"}
                /\ copy' \in {copy, Append(copy, write)}
                /\ FailForward
    /\ UNCHANGED <<cfg, kept, want, reading, data, compute, mem, freed, tried>>

\* prefetch_bytes: the copy waits for what the compute stream has queued.
PrefetchBytes(id) ==
    \/ /\ reserve(c, {sel[pos]}) = {}
       /\ Goto("dispatch", pos) /\ UNCHANGED <<c, copy, lost, faults>>
    \/ \E r \in reserve(c, {sel[pos]}) :
          LET write == Op("write", r.slot, id, 0, CopyFence) IN
          \/ /\ c' = Pend(r.cache, id, r.slot) /\ copy' = Append(copy, write)
             /\ Goto("dispatch", pos) /\ UNCHANGED <<lost, faults>>
          \/ /\ Faulty
             /\ c' = release_reserved_slot(r.cache, r.slot)
             /\ FailForward /\ UNCHANGED <<copy, lost>>
          \/ /\ Faulty
             /\ c' = r.cache /\ lost' = {"device", "copy"}
             /\ copy' \in {copy, Append(copy, write)}
             /\ FailForward

\* The first window of reads, the block about to be dispatched included.
Seed ==
    /\ at = "seed"
    /\ PrefetchRead(sel[pos])
    /\ IF pos < Len(sel) /\ pos < cfg.window THEN Goto("seed", pos + 1) ELSE Goto("dispatch", 1)
    /\ UNCHANGED <<cfg, c, kept, deviceVars, lost, freed, faults, tried>>

\* Lookahead: the block after the one about to be dispatched, or the one that
\* the rolling window of reads newly exposes.
Ahead ==
    /\ at = "ahead"
    /\ LET next == IF cfg.mode = "worker" THEN pos + cfg.window - 1 ELSE pos + 1 IN
       IF cfg.window = 0 \/ next > Len(sel) \/ cfg.mode = "blocking" \/ Known(sel[next])
       THEN Goto("dispatch", pos) /\ UNCHANGED <<c, copy, lost, faults, poolVars>>
       ELSE IF cfg.mode = "memory"
       THEN PrefetchBytes(sel[next]) /\ UNCHANGED poolVars
       ELSE Speculate(sel[next]) /\ Goto("dispatch", pos) /\ UNCHANGED <<c, copy, lost, faults>>
    /\ UNCHANGED <<cfg, kept, compute, mem, freed, tried>>

NextPos == IF pos = Len(sel) THEN 1 ELSE pos + 1
NextAt == IF pos = Len(sel) THEN "idle" ELSE "ahead"

\* dispatch_source, and the kernel of its caller: the block is resident.
Hit ==
    /\ at = "dispatch" /\ Room(1)
    /\ LET s == c.table[sel[pos]] IN
       /\ s # 0
       /\ c' = on_hit(c, s)
       /\ compute' = Append(compute, Kernel(s, sel[pos]))
    /\ Goto(NextAt, NextPos)
    /\ UNCHANGED <<cfg, kept, poolVars, copy, mem, lost, freed, faults, tried>>

\* A copy is on its way: the kernel is queued behind its event.
TakePending ==
    /\ at = "dispatch" /\ Room(1)
    /\ LET id == sel[pos]
           s == c.pend[id] IN
       /\ c.table[id] = 0 /\ s # 0
       /\ \/ /\ c' = publish([c EXCEPT !.pend[id] = 0], id, s)
             /\ compute' = Append(compute, [Kernel(s, id) EXCEPT !.fence = CopyOf(id)])
             /\ Goto(NextAt, NextPos) /\ UNCHANGED faults
          \/ Faulty /\ FailForward /\ UNCHANGED <<c, compute>>
    /\ UNCHANGED <<cfg, kept, poolVars, copy, mem, lost, freed, tried>>

Miss == at = "dispatch" /\ Room(2) /\ c.table[sel[pos]] = 0 /\ c.pend[sel[pos]] = 0

MissMemory ==
    /\ Miss /\ cfg.mode = "memory"
    /\ Admit(c, sel[pos], faults, TRUE, NextAt, NextPos)
    /\ UNCHANGED <<cfg, kept, poolVars, copy, mem, freed, tried>>

\* dispatch_disk from a ready buffer; p are the phases once it has been read.
StageRead(b, p) ==
    \/ /\ reserve(c, {}) = {}
       /\ phase' = p /\ FailForward /\ UNCHANGED <<c, compute, lost, faults>>
    \/ \E r \in reserve(c, {}) :
          LET write == Op("write", r.slot, sel[pos], b, 0) IN
          \/ /\ c' = publish(r.cache, sel[pos], r.slot)
             /\ compute' = compute \o <<write, Kernel(r.slot, sel[pos])>>
             /\ phase' = [p EXCEPT ![b] = "H2d"]
             /\ Goto(NextAt, NextPos) /\ UNCHANGED <<lost, faults>>
          \/ /\ faults < MaxFaults /\ compute = <<>>
             /\ phase' = [p EXCEPT ![b] = "Free"]
             /\ Admit(release_reserved_slot(r.cache, r.slot), sel[pos], faults + 1,
                      TRUE, NextAt, NextPos)
          \/ /\ Faulty /\ lost' = {"device"}
             /\ c' = r.cache /\ compute' \in {compute, Append(compute, write)}
             /\ phase' = [p EXCEPT ![b] = "H2d"]
             /\ FailForward

\* Falling back to the mapped file.
Fallback(n, p) == phase' = p /\ Admit(c, sel[pos], n, TRUE, NextAt, NextPos)

\* dispatch_disk on the blocking backend: read, waiting for a buffer's copy
\* when none is free.
MissBlocking ==
    /\ Miss /\ cfg.mode = "blocking"
    /\ kept' = TRUE
    /\ LET h2d == {b \in Buffers : Reaped[b] = "H2d"}
           waits == FreeIn(Reaped) = {} /\ h2d # {}
           p == IF waits THEN [Reaped EXCEPT ![First(h2d)] = "Free"] ELSE Reaped
           b == First(FreeIn(p)) IN
       /\ waits => Complete(First(h2d))
       /\ \/ FreeIn(p) = {} /\ Fallback(faults, p) /\ UNCHANGED data
          \/ /\ FreeIn(p) # {} /\ data' = [data EXCEPT ![b] = sel[pos]]
             /\ StageRead(b, [p EXCEPT ![b] = "Ready"])
          \/ /\ FreeIn(p) # {} /\ faults < MaxFaults
             /\ data' = [data EXCEPT ![b] = NoBlock] /\ Fallback(faults + 1, p)
    /\ UNCHANGED <<cfg, want, reads, reading, done, copy, mem, freed, tried>>

\* dispatch_disk on the worker backend, no read under way: a demand submission.
MissSubmit ==
    /\ Miss /\ cfg.mode = "worker" /\ reads[sel[pos]] = 0
    /\ kept' = TRUE /\ done' = NoneDone
    /\ \/ /\ FreeIn(Reaped) # {} /\ Submitted(sel[pos], Reaped)
          /\ UNCHANGED <<c, compute, hostVars, lost, faults>>
       \/ /\ FreeIn(Reaped) = {} /\ Fallback(faults, Reaped)
          /\ UNCHANGED <<want, reads, reading, data>>
    /\ UNCHANGED <<cfg, copy, mem, freed, tried>>

\* And wait_worker on the ticket.
MissRead ==
    /\ Miss /\ cfg.mode = "worker"
    /\ kept' = TRUE /\ done' = NoneDone
    /\ LET b == reads[sel[pos]] IN
       /\ b # 0
       /\ \/ Polled[b] = "Ready" /\ StageRead(b, Polled)
          \/ Polled[b] = "Failed" /\ Fallback(faults, [Polled EXCEPT ![b] = "Free"])
       /\ reads' = [reads EXCEPT ![sel[pos]] = 0]
    /\ UNCHANGED <<cfg, want, reading, data, copy, mem, freed, tried>>

\* Another call of the forward fails (an allocation, a kernel launch): it
\* returns early and leaves its lookahead behind.
ForwardFails ==
    /\ at \in {"ahead", "dispatch"} /\ Faulty /\ FailForward
    /\ UNCHANGED <<cfg, c, kept, poolVars, deviceVars, lost, freed, tried>>

-----------------------------------------------------------------------------
(* Drop for MoeSlotCache *)

\* CUDA errors are sticky: after one failed synchronize the others fail too.  The
\* first that fails may be one of the drop's own.
Synced(q) == lost = {} /\ q = <<>> /\ UNCHANGED <<lost, freed, faults>>
Unsynced ==
    /\ freed' = freed \cup {"leak"}
    /\ \/ lost # {} /\ UNCHANGED <<lost, faults>>
       \/ lost = {} /\ lost' = {"device"} /\ Faulty

DropCompute ==
    /\ at = "idle" /\ Goto("drop_copy", 1)
    /\ IF kept \/ "compute" \in lost
       THEN Synced(compute) \/ Unsynced ELSE UNCHANGED <<lost, freed, faults>>
    /\ kept' = FALSE
    /\ UNCHANGED <<cfg, c, poolVars, deviceVars, tried>>

DropCopy ==
    /\ at = "drop_copy" /\ Goto("drop_pool", 1)
    /\ IF "copy" \in lost \/ \E id \in Blocks : c.pend[id] # 0
       THEN Synced(copy) \/ Unsynced ELSE UNCHANGED <<lost, freed, faults>>
    /\ UNCHANGED <<cfg, c, kept, poolVars, deviceVars, tried>>

\* PreadPool::drain joins the workers and drains the stream its copies use.
PoolStream == IF cfg.copy THEN copy ELSE compute

DropPool ==
    /\ at = "drop_pool" /\ cfg.mode # "memory" /\ Goto("drop_slots", 1)
    /\ reading = {}
    /\ done' = NoneDone
    /\ \/ /\ lost = {} /\ PoolStream = <<>> /\ freed' = freed \cup {"buffers"}
          /\ phase' = [b \in Buffers |-> "Free"] /\ reads' = [id \in Blocks |-> 0]
          /\ UNCHANGED <<lost, faults>>
       \/ Unsynced /\ phase' = Polled /\ UNCHANGED reads
    /\ UNCHANGED <<cfg, c, kept, want, reading, data, deviceVars, tried>>

\* The slots are freed in the order of the compute stream, or leaked.
DropSlots ==
    /\ at = "drop_slots" \/ (at = "drop_pool" /\ cfg.mode = "memory")
    /\ Goto("gone", 1)
    /\ freed' = IF "leak" \in freed THEN freed ELSE freed \cup {"slots"}
    /\ UNCHANGED <<cfg, c, kept, poolVars, deviceVars, lost, faults, tried>>

Gone == at = "gone" /\ compute = <<>> /\ copy = <<>> /\ UNCHANGED vars

Next ==
    \/ RunCompute \/ RunCopy
    \/ \E b \in Buffers : WorkerReads(b)
    \/ \E l \in Layers : Begin(l)
    \/ Prewarm \/ Warm \/ DeviceForward \/ Route
    \/ Submit \/ PromoteSkips \/ Promote \/ Seed \/ Ahead
    \/ Hit \/ TakePending \/ MissMemory \/ MissBlocking \/ MissSubmit \/ MissRead \/ ForwardFails
    \/ DropCompute \/ DropCopy \/ DropPool \/ DropSlots \/ Gone

Spec == Init /\ [][Next]_vars

-----------------------------------------------------------------------------
(* Properties *)

Phases == {"Free", "Reading", "Canceled", "Ready", "Failed", "H2d"}
Places == {"idle", "row", "warm", "submit", "promote", "seed", "ahead", "dispatch",
           "drop_copy", "drop_pool", "drop_slots", "gone"}
Ops == [kind : {"read", "write"}, slot : Slots, id : Blocks,
        buf : 0 .. NumBuffers, fence : Nat]

\* Type invariant: slots, blocks, buffers and counters stay in range, in
\* particular per_layer never runs below zero (it is unsigned), and an event
\* only waits for operations that are queued on the other stream.
TypeOK ==
    /\ cfg \in Configs
    /\ Range(c.free) \cup Range(c.prob) \cup Range(c.prot) \subseteq Slots
    /\ c.occ \in [Slots -> Blocks \cup {NoBlock}]
    /\ c.table \in [Blocks -> 0 .. NumSlots] /\ c.pend \in [Blocks -> 0 .. NumSlots]
    /\ \A l \in Layers : c.count[l] \in 0 .. Len(LayerBlocks[l])
    /\ phase \in [Buffers -> Phases] /\ reads \in [Blocks -> 0 .. NumBuffers]
    /\ reading \subseteq Buffers /\ done \in [Buffers -> {"none", "ok", "err"}]
    /\ data \in [Buffers -> Blocks \cup {NoBlock}]
    /\ Range(compute) \cup Range(copy) \subseteq Ops
    /\ \A i \in DOMAIN compute : compute[i].fence <= Len(copy)
    /\ \A i \in DOMAIN copy : copy[i].fence <= Len(compute)
    /\ mem \in [Slots -> Blocks \cup {NoBlock}]
    /\ at \in Places /\ faults \in 0 .. MaxFaults

\* Every slot is free, resident in exactly one SLRU segment, or pending, and
\* never two of these at once; only a failed drain takes a slot out of use.
\* The table, the occupants, the per-layer counts and the device pointer rows
\* agree with it (reserve, publish, on_block_evicted, layer_dev_row).
SlotsAccounted ==
    LET resident == c.prob \o c.prot
        pending == {c.pend[id] : id \in Blocks} \ {0} IN
    /\ IsInjective(c.free \o resident)
    /\ pending \cap Range(c.free \o resident) = {}
    /\ lost = {} => Range(c.free \o resident) \cup pending = Slots
    /\ {c.table[id] : id \in Blocks} \ {0} = Range(resident)
    /\ \A id \in Blocks : /\ c.table[id] # 0 => c.occ[c.table[id]] = id
                          /\ c.pend[id] # 0 => c.occ[c.pend[id]] = id
    /\ Len(c.prot) <= ProtectedCap
    /\ \A l \in Layers :
          /\ c.count[l] = Cardinality({id \in Range(LayerBlocks[l]) : c.table[id] # 0})
          /\ c.rows[l] # <<>> =>
                c.rows[l] = [i \in DOMAIN LayerBlocks[l] |-> c.table[LayerBlocks[l][i]]]

Runnable(q) == q # <<>> /\ Head(q).fence = 0

\* What the kernels see: a kernel that may start finds its own block in the
\* slot it was given, however copies, evictions and kernels overlap; the two
\* streams never work on one slot at the same time; and once the slots are
\* freed (in compute order) no copy that the compute stream does not wait for
\* can still land in one.
ReadsExact ==
    /\ Runnable(compute) /\ Head(compute).kind = "read" => mem[Head(compute).slot] = Head(compute).id
    /\ Runnable(compute) /\ Runnable(copy) => Head(compute).slot # Head(copy).slot
    /\ "slots" \in freed =>
          \A i \in DOMAIN copy : \E j \in DOMAIN compute : compute[j].fence >= i

\* Pinned buffers: a copy still queued owns its buffer and finds the block it
\* was queued for, a disk worker writes only to a buffer that waits for it, a
\* ticket leads to a buffer that is being read or has been, and none of this
\* touches a buffer after the pool has freed it.
BuffersSafe ==
    /\ \A o \in {o \in Range(compute) \cup Range(copy) : o.buf # 0} :
          /\ "buffers" \notin freed /\ phase[o.buf] = "H2d"
          /\ data[o.buf] = o.id
    /\ \A b \in Buffers :
          (b \in reading \/ done[b] # "none") <=> phase[b] \in {"Reading", "Canceled"}
    /\ \A b \in reading : done[b] = "none" /\ "buffers" \notin freed
    /\ \A id \in Blocks : LET b == reads[id] IN b # 0 =>
          \/ phase[b] = "Reading" /\ id = (IF b \in reading THEN want ELSE data)[b]
          \/ phase[b] = "Ready" /\ data[b] = id
          \/ phase[b] = "Failed" \/ done[b] = "err"
=============================================================================
