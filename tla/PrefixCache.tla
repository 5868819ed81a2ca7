----------------------------- MODULE PrefixCache -----------------------------
(***************************************************************************)
(* The cross-request prefix cache of the engine worker                     *)
(* (crates/memra-server/src/worker.rs, struct PrefixCache) together with   *)
(* the parts of admit and prefill_tick that probe it and fill it.          *)
(*                                                                         *)
(* Everything here runs on the one worker thread, so the operations do not *)
(* interleave with each other; what interleaves is the SESSIONS: several   *)
(* of them are between their probe (admit) and their inserts (prefill) at  *)
(* the same time.  The eviction loop of insert_with_budget is one step per *)
(* iteration; `evicting' keeps every other operation out until it is over. *)
(***************************************************************************)
EXTENDS Integers, Sequences, FiniteSets

CONSTANTS
    PoolKeys,    \* (model, cache namespace) pairs
    EagerKeys,   \* the keys whose model is eager-only (gemma4): no LCP split
    Sessions,    \* slots for sessions between admit and prefill-done
    Prompts,     \* tokenized prompts the requests may carry
    MinTokens,   \* PREFIX_CACHE_MIN_TOKENS
    Budget,      \* MEMRA_PREFIX_CACHE_MB, in bytes
    TokBytes,    \* KV bytes of one token, all layers
    StateBytes,  \* bytes of the recurrent conv/ssm state copies
    MaxTime,     \* bound: how far Instant::now() advances
    MaxInserts   \* bound: how many inserts happen

ASSUME ConstantsAssumption ==
    /\ EagerKeys \subseteq PoolKeys
    /\ IsFiniteSet(PoolKeys)
    /\ Prompts \subseteq Seq(Nat) \ {<<>>}
    /\ MinTokens \in Nat \ {0}
    /\ Budget \in Nat \ {0}
    /\ TokBytes \in Nat /\ StateBytes \in Nat
    /\ MaxTime \in Nat /\ MaxInserts \in Nat

VARIABLES
    entries,     \* entries[k]: the Vec of k's pool (<<>> when the map has no row)
    lru,         \* recency index: (last_use, id) -> (pool key, index in the pool)
    next_id,
    total_bytes,
    evictions,   \* lifetime counter, published as prefix_evictions
    evicting,    \* insert_with_budget is inside its `while total_bytes > budget'
    now,         \* Instant::now(): monotone, two reads may be equal
    sess         \* sess[s]: the session in slot s

vars == <<entries, lru, next_id, total_bytes, evictions, evicting, now, sess>>
cacheVars == <<entries, lru, next_id, total_bytes, evictions, evicting>>

PrefixEntry == [toks : Seq(Nat), bytes : Nat, last_use : Nat, id : Nat]

NoSession == [st |-> "free"]
Session == [st : {"prefill"}, key : PoolKeys, prompt : Prompts, fed : Nat,
            snapshot_at : Nat, seed : BOOLEAN, n_cached : Nat]

Init ==
    /\ entries = [k \in PoolKeys |-> <<>>]
    /\ lru = [x \in {} |-> <<>>]
    /\ next_id = 0
    /\ total_bytes = 0
    /\ evictions = 0
    /\ evicting = FALSE
    /\ now = 0
    /\ sess = [s \in Sessions |-> NoSession]

-----------------------------------------------------------------------------
(* The probes: pure reads of one pool. *)

Prefix(p, n) == SubSeq(p, 1, n)

\* An entry whose token key is a prefix of p, at least MinTokens long.
Covers(e, p) ==
    /\ Len(e.toks) >= MinTokens
    /\ Len(e.toks) <= Len(p)
    /\ Prefix(p, Len(e.toks)) = e.toks

has_covering(k, p) == \E i \in DOMAIN entries[k] : Covers(entries[k][i], p)

has_key(k, toks) == \E i \in DOMAIN entries[k] : entries[k][i].toks = toks

\* Index i is what lookup returns: the first of the longest covering entries.
IsLookup(k, p, i) ==
    /\ Covers(entries[k][i], p)
    /\ \A j \in DOMAIN entries[k] :
          Covers(entries[k][j], p) =>
             \/ Len(entries[k][j].toks) < Len(entries[k][i].toks)
             \/ Len(entries[k][j].toks) = Len(entries[k][i].toks) /\ i <= j

\* The lengths of the prefixes that p shares with some entry of the pool.
SharedLengths(k, p) ==
    {0} \cup {n \in 0 .. Len(p) :
                \E i \in DOMAIN entries[k] :
                   /\ n <= Len(entries[k][i].toks)
                   /\ Prefix(entries[k][i].toks, n) = Prefix(p, n)}

IsBestLcp(k, p, l) ==
    l \in SharedLengths(k, p) /\ \A n \in SharedLengths(k, p) : n <= l

-----------------------------------------------------------------------------
(* The mutations: one operator for each field of the struct they write. *)

lru_key(e) == <<e.last_use, e.id>>

\* Mutants: the tie goes to the newest; insertion order instead of recency.
KeyBeforeNewest(x, y) == x[1] < y[1] \/ (x[1] = y[1] /\ x[2] >= y[2])
KeyBeforeById(x, y) == x[2] <= y[2]

\* The order of the BTreeMap keys.
KeyBefore(x, y) == x[1] < y[1] \/ (x[1] = y[1] /\ x[2] <= y[2])

Put(f, x, v) == [y \in DOMAIN f \cup {x} |-> IF y = x THEN v ELSE f[y]]
Drop(f, x) == [y \in DOMAIN f \ {x} |-> f[y]]

swap_remove(s, i) ==
    [j \in 1 .. Len(s) - 1 |-> IF j = i THEN s[Len(s)] ELSE s[j]]

\* Mutant: the stamp is an older read of the clock.
touch_stale(k, i) ==
    /\ entries' = [entries EXCEPT ![k] = [@ EXCEPT ![i].last_use = now - 1]]
    /\ UNCHANGED <<lru, next_id, total_bytes, evictions, evicting>>

touch(k, i) ==
    LET e == entries[k][i]
        f == [e EXCEPT !.last_use = now]
    IN  /\ entries' = [entries EXCEPT ![k] = [@ EXCEPT ![i] = f]]
        /\ lru' = Put(Drop(lru, lru_key(e)), lru_key(f), <<k, i>>)
        /\ UNCHANGED <<next_id, total_bytes, evictions, evicting>>

\* Mutant: the entry that swap_remove moved keeps its old index.
remove_at_no_fixup(k, i) ==
    /\ entries' = [entries EXCEPT ![k] = swap_remove(@, i)]
    /\ lru' = Drop(lru, lru_key(entries[k][i]))

remove_at(k, i) ==
    LET pool == entries[k]
        rest == swap_remove(pool, i)
        left == Drop(lru, lru_key(pool[i]))
    IN  /\ entries' = [entries EXCEPT ![k] = rest]
        /\ lru' = IF i <= Len(rest) THEN Put(left, lru_key(rest[i]), <<k, i>>)
                                    ELSE left

EntryBytes(toks) == Len(toks) * TokBytes + StateBytes

\* Mutant: the duplicate check is left to the planner.
RejectedOversize(k, toks) == EntryBytes(toks) > Budget
Rejected(k, toks) == EntryBytes(toks) > Budget \/ has_key(k, toks)

\* insert_with_budget up to the eviction loop; a snapshot too large for the
\* budget and a key that is already there leave the cache alone.
insert_with_budget(k, toks) ==
    IF Rejected(k, toks)
    THEN UNCHANGED cacheVars
    ELSE LET e == [toks |-> toks, bytes |-> EntryBytes(toks),
                   last_use |-> now, id |-> next_id]
         IN  /\ next_id < MaxInserts
             /\ entries' = [entries EXCEPT ![k] = Append(@, e)]
             /\ lru' = Put(lru, lru_key(e), <<k, Len(entries[k]) + 1>>)
             /\ next_id' = next_id + 1
             /\ total_bytes' = total_bytes + e.bytes
             /\ evicting' = (total_bytes' > Budget)
             /\ UNCHANGED evictions

\* Mutant: both the loop and remove_at release the victim's bytes.
ReleasedTwice(dead) ==
    IF total_bytes >= 2 * dead.bytes THEN total_bytes - 2 * dead.bytes ELSE 0
\* total_bytes.saturating_sub(dead.bytes)
Released(dead) == IF total_bytes >= dead.bytes THEN total_bytes - dead.bytes ELSE 0

\* One iteration of `while total_bytes > budget': the head of the recency
\* index goes.  The loop's two `else break' exits (an empty index, an index
\* that points outside its pool) have no step here; a cache over its budget
\* with no victim would be a deadlock, and IndexExact excludes the other.
EvictLru ==
    /\ evicting
    /\ \E x \in DOMAIN lru :
          LET k == lru[x][1]
              i == lru[x][2]
              dead == entries[k][i]
          IN  /\ \A y \in DOMAIN lru : KeyBefore(x, y)
              /\ i \in DOMAIN entries[k]
              /\ remove_at(k, i)
              /\ total_bytes' = Released(dead)
              /\ evictions' = evictions + 1
              /\ evicting' = (total_bytes' > Budget)
    /\ UNCHANGED <<next_id, now, sess>>

Pos == {q \in PoolKeys \X (1 .. MaxInserts) : q[2] \in DOMAIN entries[q[1]]}

\* Mutant: the flush is not counted.
evict_all_uncounted ==
    /\ entries' = [k \in PoolKeys |-> <<>>] /\ lru' = [x \in {} |-> <<>>]
    /\ total_bytes' = 0
    /\ UNCHANGED <<next_id, evictions, evicting>>

evict_all ==
    /\ entries' = [k \in PoolKeys |-> <<>>]
    /\ lru' = [x \in {} |-> <<>>]
    /\ total_bytes' = 0
    /\ evictions' = evictions + Cardinality(Pos)
    /\ UNCHANGED <<next_id, evicting>>

-----------------------------------------------------------------------------
(* admit: the prefix-cache probe and the session-cache allocation.         *)

\* Mutant: a boundary at the very end of the prompt is armed too.
SplitsAtEnd(k, p, l) == l >= MinTokens /\ ~has_key(k, Prefix(p, l))
Splits(k, p, l) == l >= MinTokens /\ l < Len(p) /\ ~has_key(k, Prefix(p, l))

\* The session that admit builds after a miss: it arms the LCP split when the
\* best shared prefix is long enough, proper and not yet a key itself, and it
\* arms the seed insert when the whole prompt is long enough.
ColdSession(k, p, l) ==
    [st |-> "prefill", key |-> k, prompt |-> p, fed |-> 0,
     snapshot_at |-> IF Splits(k, p, l) THEN l ELSE 0,
     seed |-> Len(p) >= MinTokens, n_cached |-> 0]

\* A hit: the entry is copied into a fresh session cache and only the suffix
\* is left to prime; with an empty suffix the session is prefill_done at once.
AdmitHit(s, k, p) ==
    /\ ~evicting /\ sess[s] = NoSession
    /\ \E i \in DOMAIN entries[k] :
          LET n == Len(entries[k][i].toks)
          IN  /\ IsLookup(k, p, i)
              /\ touch(k, i)
              /\ sess' = [sess EXCEPT ![s] =
                    IF n = Len(p) THEN NoSession
                    ELSE [st |-> "prefill", key |-> k, prompt |-> p, fed |-> n,
                          snapshot_at |-> 0, seed |-> FALSE, n_cached |-> n]]
    /\ UNCHANGED now

\* A miss, or a hit whose copy into the session cache failed (prefix_restore
\* error): the cold path serves and the cache keeps its entries.
AdmitCold(s, k, p) ==
    /\ ~evicting /\ sess[s] = NoSession
    /\ \E l \in 0 .. Len(p) :
          /\ IsBestLcp(k, p, l)
          /\ sess' = [sess EXCEPT ![s] = ColdSession(k, p, l)]
    /\ UNCHANGED <<cacheVars, now>>

\* The allocation of the session cache fails on the hit path: everything is
\* evicted BEFORE the miss is planned, so the plan sees an empty pool.
AdmitHitNoRoom(s, k, p) ==
    /\ ~evicting /\ sess[s] = NoSession
    /\ has_covering(k, p)
    /\ evict_all
    /\ sess' = [sess EXCEPT ![s] = [ColdSession(k, p, 0) EXCEPT !.snapshot_at = 0]]
    /\ UNCHANGED now

\* The allocation fails on the cold path: the plan was made against the pool
\* that evict_all then drops.  admit retries once when something was evicted
\* (session admitted) and errors when the retry fails or nothing was evicted.
AdmitColdNoRoom(s, k, p) ==
    /\ ~evicting /\ sess[s] = NoSession
    /\ \E l \in 0 .. Len(p) :
          /\ IsBestLcp(k, p, l)
          /\ \/ Pos # {} /\ sess' = [sess EXCEPT ![s] = ColdSession(k, p, l)]
             \/ UNCHANGED sess
    /\ evict_all
    /\ UNCHANGED now

-----------------------------------------------------------------------------
(* prefill_tick, and the batched prime: a chunk of the prompt is fed.      *)

\* Where a chunk has to stop: at the snapshot boundary (eager-only models drop
\* it), else at the end of the prompt.
ChunkEnd(r) ==
    IF r.snapshot_at # 0 /\ r.key \notin EagerKeys THEN r.snapshot_at
    ELSE Len(r.prompt)

\* A chunk that ends neither at the boundary nor at the end of the prompt.
PrefillChunk(s) ==
    /\ ~evicting /\ sess[s] # NoSession
    /\ \E n \in sess[s].fed + 1 .. ChunkEnd(sess[s]) - 1 :
          sess' = [sess EXCEPT ![s].fed = n]
    /\ UNCHANGED <<cacheVars, now>>

\* The chunk that reaches the boundary: snapshot, insert ("lcp-split") and
\* go on.  The snapshot's device copies may fail, then nothing is cached.
PrefillBoundary(s) ==
    /\ ~evicting /\ sess[s] # NoSession
    /\ LET r == sess[s]
       IN  /\ ChunkEnd(r) = r.snapshot_at
           /\ sess' = [sess EXCEPT ![s].fed = r.snapshot_at, ![s].snapshot_at = 0]
           /\ \/ insert_with_budget(r.key, Prefix(r.prompt, r.snapshot_at))
              \/ UNCHANGED cacheVars
    /\ UNCHANGED now

\* The chunk that ends the prompt: prefill_done, then maybe_prefix_seed.  The
\* session leaves the part of its life that concerns the prefix cache.
PrefillDone(s) ==
    /\ ~evicting /\ sess[s] # NoSession
    /\ LET r == sess[s]
       IN  /\ ChunkEnd(r) = Len(r.prompt)
           /\ \/ /\ r.seed /\ r.n_cached = 0 /\ ~has_covering(r.key, r.prompt)
                 /\ insert_with_budget(r.key, r.prompt)
              \/ UNCHANGED cacheVars
    /\ sess' = [sess EXCEPT ![s] = NoSession]
    /\ UNCHANGED now

\* The client disconnects or the prime fails: the session retires, its cache
\* (prefill not done) is dropped.
Abort(s) ==
    /\ ~evicting /\ sess[s] # NoSession
    /\ sess' = [sess EXCEPT ![s] = NoSession]
    /\ UNCHANGED <<cacheVars, now>>

\* Time passes between two operations; within one it may stand still.
ClockAdvances ==
    /\ ~evicting /\ now < MaxTime
    /\ now' = now + 1
    /\ UNCHANGED <<cacheVars, sess>>

Admit(s, k, p) ==
    \/ AdmitHit(s, k, p)
    \/ AdmitCold(s, k, p)
    \/ AdmitHitNoRoom(s, k, p)
    \/ AdmitColdNoRoom(s, k, p)

Prefill(s) == PrefillChunk(s) \/ PrefillBoundary(s) \/ PrefillDone(s) \/ Abort(s)

Next ==
    \/ EvictLru
    \/ ClockAdvances
    \/ \E s \in Sessions : Prefill(s)
    \/ \E s \in Sessions, k \in PoolKeys, p \in Prompts : Admit(s, k, p)

\* insert_with_budget is a loop of the worker thread: it never rests inside.
Spec == Init /\ [][Next]_vars /\ WF_vars(EvictLru)

-----------------------------------------------------------------------------
(* Properties *)

\* Every variable has the shape of the field it models.
TypeOK ==
    /\ entries \in [PoolKeys -> Seq(PrefixEntry)]
    /\ DOMAIN lru \subseteq Nat \X Nat
    /\ \A x \in DOMAIN lru : lru[x] \in PoolKeys \X Nat
    /\ next_id \in Nat
    /\ total_bytes \in Nat
    /\ evictions \in Nat
    /\ evicting \in BOOLEAN
    /\ now \in Nat
    /\ sess \in [Sessions -> Session \cup {NoSession}]

\* Every entry is in the recency index, at its pool and its slot: `Value =
\* (pool key, index into that pool's Vec), kept exact on removal by swap_remove
\* + moved-entry index fixup' (worker.rs, PrefixCache.lru).
EntriesIndexed ==
    \A k \in PoolKeys : \A i \in DOMAIN entries[k] :
        /\ lru_key(entries[k][i]) \in DOMAIN lru
        /\ lru[lru_key(entries[k][i])] = <<k, i>>

\* ... and the index names nothing else: no dangling victim after any sequence
\* of inserts, touches, swap_removes and flushes.
IndexDescribesEntries ==
    \A x \in DOMAIN lru :
        LET k == lru[x][1]
            i == lru[x][2]
        IN  k \in PoolKeys /\ i \in DOMAIN entries[k] /\ lru_key(entries[k][i]) = x

IndexExact == EntriesIndexed /\ IndexDescribesEntries

\* The abstract view of the pools: the set of the resident entries.
Resident ==
    {[key |-> q[1], toks |-> entries[q[1]][q[2]].toks,
      bytes |-> entries[q[1]][q[2]].bytes,
      last_use |-> entries[q[1]][q[2]].last_use,
      id |-> entries[q[1]][q[2]].id] : q \in Pos}

Policy == INSTANCE LruPolicy WITH resident <- Resident

\* The byte counter is the sum of the sizes of the resident entries: its
\* saturating_sub never saturates and no path forgets to charge or to release.
\* Outside an insert those bytes are within MEMRA_PREFIX_CACHE_MB.
BytesAccounted ==
    LET held == Cardinality(Policy!Cells(Resident))
    IN total_bytes = held /\ (~evicting => held <= Budget)

\* Two entries of one pool never have the same token key, although two sessions
\* may have planned the same insert before either of them did it ("identical
\* key raced in (concurrent learners) - first one wins").
KeysUnique ==
    \A k \in PoolKeys : \A i, j \in DOMAIN entries[k] :
        entries[k][i].toks = entries[k][j].toks => i = j

\* A session that carries a snapshot boundary has not passed it: the unsigned
\* `b - s.fed.len()' of prefill_tick does not wrap, and the boundary lies
\* inside the prompt, so the split and the seed are never the same insert.
BoundaryAhead ==
    \A s \in Sessions :
        (sess[s] # NoSession /\ sess[s].snapshot_at # 0
           /\ sess[s].key \notin EagerKeys) =>
            /\ sess[s].fed < sess[s].snapshot_at
            /\ sess[s].snapshot_at < Len(sess[s].prompt)

\* The lifetime counters published on /metrics agree with the pools.
CountersAgree == next_id = evictions + Cardinality(Pos)

\* An insert never evicts what it inserted: the newest entry outlives the
\* eviction loop it started, even when all clock reads are equal.
NewcomerSurvives ==
    [][EvictLru => \E q \in Pos' : entries'[q[1]][q[2]].id = next_id - 1]_vars

\* The recency index implements the scan it replaced: same victims (up to
\* equal last_use), same moments, same bytes.
ImplementsPolicy == Policy!Spec
=============================================================================
