-------------------------- MODULE PrefixCacheProofs --------------------------
(***************************************************************************)
(* Proofs about PrefixCache, for every number of namespaces, sessions,     *)
(* prompts and every budget.                                               *)
(***************************************************************************)
EXTENDS PrefixCache, FiniteSetTheorems, TLAPS

-----------------------------------------------------------------------------
(* The data structure's operators. *)

\* Vec::swap_remove shortens the pool by one: the last entry takes the hole.
LEMMA SwapRemoveShape ==
    ASSUME NEW S, NEW s \in Seq(S), NEW i \in DOMAIN s
    PROVE  /\ swap_remove(s, i) \in Seq(S)
           /\ Len(swap_remove(s, i)) = Len(s) - 1
           /\ DOMAIN swap_remove(s, i) = 1 .. Len(s) - 1
           /\ \A j \in 1 .. Len(s) - 1 :
                 swap_remove(s, i)[j] = IF j = i THEN s[Len(s)] ELSE s[j]
  <1> DEFINE n == Len(s) - 1
             t == [j \in 1 .. n |-> IF j = i THEN s[Len(s)] ELSE s[j]]
  <1>1. Len(s) \in Nat /\ DOMAIN s = 1 .. Len(s) /\ i \in 1 .. Len(s)
    OBVIOUS
  <1>2. n \in Nat /\ \A j \in 1 .. n : j \in 1 .. Len(s)
    BY <1>1
  <1>3. \A j \in 1 .. n : t[j] \in S
    BY <1>1, <1>2
  <1>4. t \in Seq(S) /\ Len(t) = n /\ DOMAIN t = 1 .. n
    BY <1>2, <1>3
  <1> QED
    BY <1>4 DEF swap_remove

\* Two small facts that keep arithmetic and Booleans in separate steps.
LEMMA BudgetIsNat == Budget \in Nat
  BY ConstantsAssumption DEF ConstantsAssumption

\* The test of the eviction loop is a Boolean.
LEMMA GreaterIsBoolean ==
    ASSUME NEW a \in Nat, NEW b \in Nat
    PROVE  (a > b) \in BOOLEAN
  OBVIOUS

\* The count of evict_all is a number.
LEMMA PosFinite == Cardinality(Pos) \in Nat
  <1>1. IsFiniteSet(PoolKeys)
    BY ConstantsAssumption DEF ConstantsAssumption
  <1>2. IsFiniteSet(1 .. MaxInserts)
    BY FS_Interval, ConstantsAssumption DEF ConstantsAssumption
  <1>3. IsFiniteSet(PoolKeys \X (1 .. MaxInserts))
    BY <1>1, <1>2, FS_Product
  <1>4. IsFiniteSet(Pos)
    BY <1>3, FS_Subset DEF Pos
  <1> QED
    BY <1>4, FS_CardinalityType

-----------------------------------------------------------------------------
(* Type correctness. *)

CacheType ==
    /\ entries \in [PoolKeys -> Seq(PrefixEntry)]
    /\ DOMAIN lru \subseteq Nat \X Nat
    /\ \A x \in DOMAIN lru : lru[x] \in PoolKeys \X Nat
    /\ next_id \in Nat
    /\ total_bytes \in Nat
    /\ evictions \in Nat
    /\ evicting \in BOOLEAN

SessType == sess \in [Sessions -> Session \cup {NoSession}]

\* Where a session's snapshot boundary can be: inside the prompt, and ahead of
\* what was fed.  Without it a boundary insert's key would not be a sequence.
Boundary(r) ==
    /\ r.snapshot_at < Len(r.prompt)
    /\ r.snapshot_at # 0 /\ r.key \notin EagerKeys => r.fed < r.snapshot_at
Boundaries == \A s \in Sessions : sess[s] # NoSession => Boundary(sess[s])

\* insert_with_budget keeps the struct well formed.
LEMMA InsertType ==
    ASSUME CacheType, now \in Nat, NEW k \in PoolKeys, NEW toks \in Seq(Nat),
           insert_with_budget(k, toks)
    PROVE  CacheType'
  <1>1. CASE Rejected(k, toks)
    BY <1>1 DEF insert_with_budget, cacheVars, CacheType
  <1>2. CASE ~Rejected(k, toks)
    <2> DEFINE e == [toks |-> toks, bytes |-> EntryBytes(toks),
                     last_use |-> now, id |-> next_id]
    <2>1. /\ entries' = [entries EXCEPT ![k] = Append(@, e)]
          /\ lru' = Put(lru, lru_key(e), <<k, Len(entries[k]) + 1>>)
          /\ next_id' = next_id + 1
          /\ total_bytes' = total_bytes + e.bytes
          /\ evicting' = (total_bytes' > Budget)
          /\ evictions' = evictions
      BY <1>2 DEF insert_with_budget
    <2>2. EntryBytes(toks) \in Nat
      BY ConstantsAssumption DEF ConstantsAssumption, EntryBytes
    <2>3. e \in PrefixEntry
      BY <2>2 DEF PrefixEntry, CacheType
    <2>4. lru_key(e) \in Nat \X Nat
      BY DEF lru_key, CacheType
    <2> HIDE DEF e
    <2>5. entries' \in [PoolKeys -> Seq(PrefixEntry)]
      BY <2>1, <2>3 DEF CacheType
    <2>6. Len(entries[k]) + 1 \in Nat
      BY DEF CacheType
    <2>7. DOMAIN lru' = DOMAIN lru \cup {lru_key(e)}
          /\ \A x \in DOMAIN lru' :
                lru'[x] = IF x = lru_key(e) THEN <<k, Len(entries[k]) + 1>> ELSE lru[x]
      BY <2>1 DEF Put
    <2>8. DOMAIN lru' \subseteq Nat \X Nat
      BY <2>7, <2>4 DEF CacheType
    <2>9. \A x \in DOMAIN lru' : lru'[x] \in PoolKeys \X Nat
      BY <2>7, <2>6 DEF CacheType
    <2>10. e.bytes \in Nat
      BY <2>3 DEF PrefixEntry
    <2>11. next_id' \in Nat /\ total_bytes' \in Nat /\ evictions' \in Nat
      BY <2>1, <2>10 DEF CacheType
    <2>12. evicting' \in BOOLEAN
      BY <2>1, <2>11, BudgetIsNat, GreaterIsBoolean, Zenon
    <2> QED
      BY <2>5, <2>8, <2>9, <2>11, <2>12, Zenon DEF CacheType
  <1> QED
    BY <1>1, <1>2

\* So does touch.
LEMMA TouchType ==
    ASSUME CacheType, now \in Nat, NEW k \in PoolKeys, NEW i \in DOMAIN entries[k],
           touch(k, i)
    PROVE  CacheType'
  <1> DEFINE e == entries[k][i]
             f == [e EXCEPT !.last_use = now]
  <1>1. /\ entries' = [entries EXCEPT ![k] = [@ EXCEPT ![i] = f]]
        /\ lru' = Put(Drop(lru, lru_key(e)), lru_key(f), <<k, i>>)
        /\ next_id' = next_id /\ total_bytes' = total_bytes
        /\ evictions' = evictions /\ evicting' = evicting
    BY DEF touch
  <1>2. e \in PrefixEntry /\ i \in Nat
    BY DEF CacheType
  <1>3. f \in PrefixEntry
    BY <1>2 DEF PrefixEntry
  <1>4. lru_key(f) \in Nat \X Nat
    BY <1>3 DEF lru_key, PrefixEntry
  <1> HIDE DEF e, f
  <1>5. entries' \in [PoolKeys -> Seq(PrefixEntry)]
    BY <1>1, <1>3 DEF CacheType
  <1>6. DOMAIN lru' = (DOMAIN lru \ {lru_key(e)}) \cup {lru_key(f)}
        /\ \A x \in DOMAIN lru' : lru'[x] = IF x = lru_key(f) THEN <<k, i>> ELSE lru[x]
    BY <1>1 DEF Put, Drop
  <1>7. DOMAIN lru' \subseteq Nat \X Nat
    BY <1>6, <1>4 DEF CacheType
  <1>8. \A x \in DOMAIN lru' : lru'[x] \in PoolKeys \X Nat
    BY <1>6, <1>2 DEF CacheType
  <1> QED
    BY <1>1, <1>5, <1>7, <1>8 DEF CacheType

\* So does the removal of a victim, and it leaves an entry's bytes to release.
LEMMA EvictType ==
    ASSUME CacheType, EvictLru
    PROVE  CacheType'
  <1>1. PICK x \in DOMAIN lru :
           /\ lru[x][2] \in DOMAIN entries[lru[x][1]]
           /\ remove_at(lru[x][1], lru[x][2])
           /\ total_bytes' = Released(entries[lru[x][1]][lru[x][2]])
           /\ evictions' = evictions + 1
           /\ evicting' = (total_bytes' > Budget)
           /\ next_id' = next_id
    BY DEF EvictLru
  <1> DEFINE k == lru[x][1]
             i == lru[x][2]
             rest == swap_remove(entries[k], i)
             left == Drop(lru, lru_key(entries[k][i]))
  <1>2. k \in PoolKeys /\ entries[k] \in Seq(PrefixEntry) /\ i \in DOMAIN entries[k]
    BY <1>1 DEF CacheType
  <1>3. rest \in Seq(PrefixEntry)
    BY <1>2, SwapRemoveShape
  <1>4. entries[k][i] \in PrefixEntry
    BY <1>2
  <1>5. total_bytes' \in Nat
    <2> DEFINE dead == entries[k][i]
    <2>1. dead.bytes \in Nat
      BY <1>4 DEF PrefixEntry
    <2>2. total_bytes' = Released(dead)
      BY <1>1
    <2> HIDE DEF dead
    <2> QED
      BY <2>1, <2>2 DEF Released, CacheType
  <1>6. /\ entries' = [entries EXCEPT ![k] = rest]
        /\ lru' = IF i <= Len(rest) THEN Put(left, lru_key(rest[i]), <<k, i>>) ELSE left
    BY <1>1 DEF remove_at
  <1>7. entries' \in [PoolKeys -> Seq(PrefixEntry)]
    BY <1>6, <1>3 DEF CacheType
  <1>8. i \in Nat /\ i >= 1
    BY <1>2
  <1>9. ASSUME i <= Len(rest) PROVE lru_key(rest[i]) \in Nat \X Nat
    <2>1. rest[i] \in PrefixEntry
      BY <1>3, <1>8, <1>9
    <2> QED
      BY <2>1 DEF lru_key, PrefixEntry
  <1>10. DOMAIN left \subseteq Nat \X Nat /\ \A y \in DOMAIN left : left[y] \in PoolKeys \X Nat
    BY DEF CacheType, Drop
  <1> HIDE DEF k, i, rest, left
  <1>11. DOMAIN lru' \subseteq Nat \X Nat /\ \A y \in DOMAIN lru' : lru'[y] \in PoolKeys \X Nat
    <2>1. CASE i <= Len(rest)
      <3>1. DOMAIN lru' = DOMAIN left \cup {lru_key(rest[i])}
            /\ \A y \in DOMAIN lru' :
                  lru'[y] = IF y = lru_key(rest[i]) THEN <<k, i>> ELSE left[y]
        BY <2>1, <1>6 DEF Put
      <3> QED
        BY <3>1, <2>1, <1>2, <1>8, <1>9, <1>10
    <2>2. CASE ~(i <= Len(rest))
      BY <2>2, <1>6, <1>10
    <2> QED
      BY <2>1, <2>2
  <1>12. evicting' \in BOOLEAN
    BY <1>1, <1>5, BudgetIsNat, GreaterIsBoolean, Zenon
  <1>13. next_id' \in Nat /\ evictions' \in Nat
    BY <1>1 DEF CacheType
  <1> QED
    BY <1>5, <1>7, <1>11, <1>12, <1>13, Zenon DEF CacheType

\* So does a flush.
LEMMA FlushType == CacheType /\ evict_all => CacheType'
  <1>1. Cardinality(Pos) \in Nat
    BY PosFinite
  <1> QED
    BY <1>1 DEF CacheType, evict_all

\* The token key of a snapshot: a prefix of a prompt.
LEMMA PromptPrefix ==
    ASSUME NEW p \in Prompts, NEW n \in 0 .. Len(p)
    PROVE  p \in Seq(Nat) /\ Len(p) \in Nat \ {0} /\ Prefix(p, n) \in Seq(Nat)
  <1>1. p \in Seq(Nat) /\ p # <<>>
    BY ConstantsAssumption DEF ConstantsAssumption
  <1> QED
    BY <1>1 DEF Prefix

\* The session that admit plans after a miss is a session.
LEMMA ColdSessionType ==
    ASSUME NEW k \in PoolKeys, NEW p \in Prompts, NEW l \in 0 .. Len(p)
    PROVE  /\ ColdSession(k, p, l) \in Session
           /\ [ColdSession(k, p, l) EXCEPT !.snapshot_at = 0] \in Session
           /\ Boundary(ColdSession(k, p, l))
           /\ Boundary([ColdSession(k, p, l) EXCEPT !.snapshot_at = 0])
  <1>1. Len(p) \in Nat \ {0} /\ l \in Nat
    BY PromptPrefix
  <1>2. (Len(p) >= MinTokens) \in BOOLEAN
    BY <1>1, ConstantsAssumption DEF ConstantsAssumption
  <1> DEFINE b == IF Splits(k, p, l) THEN l ELSE 0
  <1>3. b \in Nat /\ b < Len(p)
    BY <1>1 DEF Splits
  <1>4. ColdSession(k, p, l) = [st |-> "prefill", key |-> k, prompt |-> p, fed |-> 0,
           snapshot_at |-> b, seed |-> Len(p) >= MinTokens, n_cached |-> 0]
    BY DEF ColdSession
  <1> HIDE DEF b
  <1>5. ColdSession(k, p, l) \in Session
    BY <1>1, <1>2, <1>3, <1>4 DEF Session
  <1>6. [ColdSession(k, p, l) EXCEPT !.snapshot_at = 0] \in Session
    BY <1>5 DEF Session
  <1>7. Boundary(ColdSession(k, p, l))
    BY <1>1, <1>3, <1>4 DEF Boundary
  <1>8. Boundary([ColdSession(k, p, l) EXCEPT !.snapshot_at = 0])
    BY <1>1, <1>4 DEF Boundary
  <1> QED
    BY <1>5, <1>6, <1>7, <1>8

\* admit keeps the types.
LEMMA AdmitType ==
    ASSUME CacheType, SessType, Boundaries, now \in Nat, NEW s \in Sessions,
           NEW k \in PoolKeys, NEW p \in Prompts, Admit(s, k, p)
    PROVE  CacheType' /\ SessType' /\ Boundaries' /\ now' \in Nat
  <1>1. CASE AdmitHit(s, k, p)
    <2>1. PICK i \in DOMAIN entries[k] :
             /\ touch(k, i)
             /\ sess' = [sess EXCEPT ![s] =
                   IF Len(entries[k][i].toks) = Len(p) THEN NoSession
                   ELSE [st |-> "prefill", key |-> k, prompt |-> p,
                         fed |-> Len(entries[k][i].toks),
                         snapshot_at |-> 0, seed |-> FALSE,
                         n_cached |-> Len(entries[k][i].toks)]]
      BY <1>1 DEF AdmitHit
    <2>2. CacheType'
      BY <2>1, TouchType
    <2>3. Len(entries[k][i].toks) \in Nat
      BY DEF CacheType, PrefixEntry
    <2>4. SessType'
      BY <2>1, <2>3 DEF SessType, Session
    <2>5. Boundaries'
      BY <2>1, PromptPrefix DEF SessType, Boundaries, Boundary
    <2> QED
      BY <1>1, <2>2, <2>4, <2>5 DEF AdmitHit
  <1>2. CASE AdmitCold(s, k, p)
    <2>1. PICK l \in 0 .. Len(p) : sess' = [sess EXCEPT ![s] = ColdSession(k, p, l)]
      BY <1>2 DEF AdmitCold
    <2>2. SessType' /\ Boundaries'
      BY <2>1, ColdSessionType DEF SessType, Boundaries
    <2>3. CacheType' /\ now' \in Nat
      BY <1>2 DEF AdmitCold, cacheVars, CacheType
    <2> QED
      BY <2>2, <2>3
  <1>3. CASE AdmitHitNoRoom(s, k, p)
    <2>1. 0 \in 0 .. Len(p)
      BY PromptPrefix, ConstantsAssumption DEF ConstantsAssumption
    <2>2. SessType' /\ Boundaries'
      BY <1>3, <2>1, ColdSessionType DEF AdmitHitNoRoom, SessType, Boundaries
    <2>3. CacheType' /\ now' \in Nat
      BY <1>3, FlushType DEF AdmitHitNoRoom
    <2> QED
      BY <2>2, <2>3
  <1>4. CASE AdmitColdNoRoom(s, k, p)
    <2>1. PICK l \in 0 .. Len(p) :
             sess' = [sess EXCEPT ![s] = ColdSession(k, p, l)] \/ sess' = sess
      BY <1>4 DEF AdmitColdNoRoom
    <2>2. SessType' /\ Boundaries'
      BY <2>1, ColdSessionType DEF SessType, Boundaries
    <2>3. CacheType' /\ now' \in Nat
      BY <1>4, FlushType DEF AdmitColdNoRoom
    <2> QED
      BY <2>2, <2>3
  <1> QED
    BY <1>1, <1>2, <1>3, <1>4 DEF Admit

\* The prefill steps keep the types.
LEMMA PrefillType ==
    ASSUME CacheType, SessType, Boundaries, now \in Nat, NEW s \in Sessions, Prefill(s)
    PROVE  CacheType' /\ SessType' /\ Boundaries' /\ now' \in Nat
  <1> DEFINE r == sess[s]
  <1>1. r # NoSession /\ now' = now
    BY DEF Prefill, PrefillChunk, PrefillBoundary, PrefillDone, Abort
  <1>2. /\ r \in Session /\ r.key \in PoolKeys /\ r.prompt \in Prompts
        /\ r.fed \in Nat /\ r.snapshot_at \in Nat /\ Boundary(r)
    BY <1>1 DEF SessType, Session, Boundaries
  <1>3. r.prompt \in Seq(Nat)
    BY <1>2, ConstantsAssumption DEF ConstantsAssumption
  <1>4. CASE PrefillChunk(s)
    <2>1. PICK n \in r.fed + 1 .. ChunkEnd(r) - 1 : sess' = [sess EXCEPT ![s].fed = n]
      BY <1>4 DEF PrefillChunk
    <2>2. n \in Nat
      BY <1>2, <1>3 DEF ChunkEnd
    <2>3. [r EXCEPT !.fed = n] \in Session
      BY <1>2, <2>2 DEF Session
    <2>4. Boundary([r EXCEPT !.fed = n])
      BY <1>2, <2>1, <2>2 DEF Boundary, ChunkEnd, Session
    <2>5. SessType' /\ Boundaries'
      BY <2>1, <2>3, <2>4 DEF SessType, Boundaries
    <2>6. CacheType'
      BY <1>4 DEF PrefillChunk, cacheVars, CacheType
    <2> QED
      BY <1>1, <2>5, <2>6
  <1>5. CASE PrefillBoundary(s)
    <2>1. /\ sess' = [sess EXCEPT ![s].fed = r.snapshot_at, ![s].snapshot_at = 0]
          /\ \/ insert_with_budget(r.key, Prefix(r.prompt, r.snapshot_at))
             \/ UNCHANGED cacheVars
      BY <1>5 DEF PrefillBoundary
    <2>2. [r EXCEPT !.fed = r.snapshot_at, !.snapshot_at = 0] \in Session
      BY <1>2 DEF Session
    <2>3. SessType' /\ Boundaries'
      <3>1. Boundary([r EXCEPT !.fed = r.snapshot_at, !.snapshot_at = 0])
        BY <1>2, PromptPrefix DEF Boundary, Session
      <3> QED
        BY <2>1, <2>2, <3>1 DEF SessType, Boundaries
    <2>4. Prefix(r.prompt, r.snapshot_at) \in Seq(Nat)
      BY <1>2, <1>3, PromptPrefix DEF Boundary
    <2>5. CASE insert_with_budget(r.key, Prefix(r.prompt, r.snapshot_at))
      BY <2>3, <2>4, <2>5, <1>1, <1>2, InsertType
    <2>6. CASE UNCHANGED cacheVars
      BY <2>6, <2>3, <1>1 DEF cacheVars, CacheType
    <2> QED
      BY <2>1, <2>5, <2>6
  <1>6. CASE PrefillDone(s)
    <2>1. SessType' /\ Boundaries'
      BY <1>6 DEF PrefillDone, SessType, Boundaries
    <2>2. CASE insert_with_budget(r.key, r.prompt)
      BY <2>1, <2>2, <1>1, <1>2, <1>3, InsertType
    <2>3. CASE UNCHANGED cacheVars
      BY <2>3, <2>1, <1>1 DEF cacheVars, CacheType
    <2> QED
      BY <1>6, <2>2, <2>3 DEF PrefillDone
  <1>7. CASE Abort(s)
    BY <1>7 DEF Abort, SessType, Boundaries, cacheVars, CacheType
  <1> QED
    BY <1>4, <1>5, <1>6, <1>7 DEF Prefill

\* The typed states with their boundaries, and that every step keeps them.
Typed == CacheType /\ SessType /\ Boundaries /\ now \in Nat

\* The empty cache is well typed.
LEMMA TypedInit == Init => Typed
  <1> SUFFICES ASSUME Init PROVE Typed
    OBVIOUS
  <1>1. entries \in [PoolKeys -> Seq(PrefixEntry)]
    BY DEF Init
  <1>2. DOMAIN lru = {}
    BY DEF Init
  <1>3. next_id \in Nat /\ total_bytes \in Nat /\ evictions \in Nat /\ now \in Nat
    BY DEF Init
  <1>4. evicting \in BOOLEAN
    BY DEF Init
  <1>5. CacheType
    BY <1>1, <1>2, <1>3, <1>4, Zenon DEF CacheType
  <1>6. SessType /\ Boundaries
    BY DEF Init, SessType, Boundaries
  <1> QED
    BY <1>3, <1>5, <1>6 DEF Typed

\* Every step of admit, of prefill and of the eviction loop keeps it so.
LEMMA TypedNext == Typed /\ [Next]_vars => Typed'
  <1> SUFFICES ASSUME Typed, [Next]_vars PROVE Typed'
    OBVIOUS
  <1>1. CASE EvictLru
    BY <1>1, EvictType DEF EvictLru, Typed, SessType, Boundaries
  <1>2. CASE ClockAdvances
    BY <1>2 DEF ClockAdvances, cacheVars, Typed, CacheType, SessType, Boundaries
  <1>3. CASE \E s \in Sessions : Prefill(s)
    BY <1>3, PrefillType DEF Typed
  <1>4. CASE \E s \in Sessions, k \in PoolKeys, p \in Prompts : Admit(s, k, p)
    BY <1>4, AdmitType DEF Typed
  <1>5. CASE UNCHANGED vars
    BY <1>5 DEF vars, Typed, CacheType, SessType, Boundaries
  <1> QED
    BY <1>1, <1>2, <1>3, <1>4, <1>5 DEF Next

\* Every state the cache reaches is well typed.
THEOREM TypeCorrect == Spec => []TypeOK
  <1>1. Typed => TypeOK
    BY DEF Typed, TypeOK, CacheType, SessType
  <1> QED
    BY <1>1, TypedInit, TypedNext, PTL DEF Spec

\* The subtraction of prefill_tick never wraps: a snapshot boundary is inside
\* the prompt and ahead of what was fed.
THEOREM BoundaryCorrect == Spec => []BoundaryAhead
  <1>1. Typed => BoundaryAhead
    BY DEF Typed, SessType, Session, Boundaries, Boundary, BoundaryAhead
  <1> QED
    BY <1>1, TypedInit, TypedNext, PTL DEF Spec

-----------------------------------------------------------------------------
(* The recency index.  IndexExact is not inductive alone: touch re-keys an     *)
(* entry under (now, id), which must be nobody else's key, so ids have to be   *)
(* unique; an insert takes next_id, so every id has to be below it.            *)

IdsUnique ==
    \A k, l \in PoolKeys : \A i \in DOMAIN entries[k], j \in DOMAIN entries[l] :
        entries[k][i].id = entries[l][j].id => k = l /\ i = j

IdsBelow == \A k \in PoolKeys : \A i \in DOMAIN entries[k] : entries[k][i].id < next_id

Index == EntriesIndexed /\ IndexDescribesEntries /\ IdsUnique /\ IdsBelow

\* A key of the index names its entry's id.
LEMMA KeyOf ==
    ASSUME NEW e, NEW f, lru_key(e) = lru_key(f)
    PROVE  e.id = f.id /\ e.last_use = f.last_use
  BY DEF lru_key

\* What the type of the pools says of an entry.
LEMMA EntryFacts ==
    ASSUME CacheType, NEW k \in PoolKeys, NEW i \in DOMAIN entries[k]
    PROVE  /\ entries[k] \in Seq(PrefixEntry) /\ DOMAIN entries[k] = 1 .. Len(entries[k])
           /\ Len(entries[k]) \in Nat /\ i \in Nat /\ i >= 1
           /\ entries[k][i] \in PrefixEntry
           /\ entries[k][i].id \in Nat /\ entries[k][i].last_use \in Nat
           /\ entries[k][i].bytes \in Nat
  <1>1. entries[k] \in Seq(PrefixEntry)
    BY DEF CacheType
  <1>2. entries[k][i] \in PrefixEntry
    BY <1>1
  <1>3. /\ entries[k][i].id \in Nat /\ entries[k][i].last_use \in Nat
        /\ entries[k][i].bytes \in Nat
    BY <1>2 DEF PrefixEntry
  <1> QED
    BY <1>1, <1>2, <1>3

\* Nothing happens to the index when nothing happens to the cache.
LEMMA IndexUnchanged ==
    ASSUME Index, KeysUnique, UNCHANGED cacheVars
    PROVE  Index' /\ KeysUnique'
  <1>1. entries' = entries /\ lru' = lru /\ next_id' = next_id
    BY DEF cacheVars
  <1>2. EntriesIndexed'
    BY <1>1 DEF Index, EntriesIndexed, lru_key
  <1>3. IndexDescribesEntries'
    BY <1>1 DEF Index, IndexDescribesEntries, lru_key
  <1>4. IdsUnique' /\ IdsBelow' /\ KeysUnique'
    BY <1>1 DEF Index, IdsUnique, IdsBelow, KeysUnique
  <1> QED
    BY <1>2, <1>3, <1>4 DEF Index

\* insert_with_budget keeps the index exact and the keys of a pool unique.
LEMMA InsertIndex ==
    ASSUME Typed, Index, KeysUnique, NEW k \in PoolKeys, NEW toks \in Seq(Nat),
           insert_with_budget(k, toks)
    PROVE  Index' /\ KeysUnique'
  <1>1. CASE Rejected(k, toks)
    <2>1. UNCHANGED cacheVars
      BY <1>1 DEF insert_with_budget
    <2> QED
      BY <2>1, IndexUnchanged
  <1>2. CASE ~Rejected(k, toks)
    <2> DEFINE e == [toks |-> toks, bytes |-> EntryBytes(toks),
                     last_use |-> now, id |-> next_id]
               n == Len(entries[k])
    <2>1. /\ entries' = [entries EXCEPT ![k] = Append(@, e)]
          /\ lru' = Put(lru, lru_key(e), <<k, n + 1>>)
          /\ next_id' = next_id + 1
      BY <1>2 DEF insert_with_budget
    <2>2. /\ entries \in [PoolKeys -> Seq(PrefixEntry)] /\ next_id \in Nat
          /\ n \in Nat /\ DOMAIN entries[k] = 1 .. n
      BY DEF Typed, CacheType
    <2>3. e.id = next_id /\ e.toks = toks
      OBVIOUS
    <2>4. \A i \in DOMAIN entries[k] : entries[k][i].toks # toks
      BY <1>2 DEF Rejected, has_key
    <2> HIDE DEF e
    <2>5. /\ \A l \in PoolKeys \ {k} : entries'[l] = entries[l]
          /\ DOMAIN entries'[k] = 1 .. n + 1
          /\ \A i \in 1 .. n : entries'[k][i] = entries[k][i]
          /\ entries'[k][n + 1] = e
      <3>1. entries'[k] = Append(entries[k], e)
        BY <2>1, <2>2
      <3>2. entries[k] \in Seq(PrefixEntry)
        BY <2>2
      <3>3. \A l \in PoolKeys \ {k} : entries'[l] = entries[l]
        BY <2>1, <2>2
      <3> QED
        BY <3>1, <3>2, <3>3, <2>2
    <2>6. /\ DOMAIN lru' = DOMAIN lru \cup {lru_key(e)}
          /\ lru'[lru_key(e)] = <<k, n + 1>>
          /\ \A x \in DOMAIN lru \ {lru_key(e)} : lru'[x] = lru[x]
      BY <2>1 DEF Put
    <2>7. \A l \in PoolKeys : \A j \in DOMAIN entries[l] :
             entries[l][j].id # next_id /\ lru_key(entries[l][j]) # lru_key(e)
      <3> SUFFICES ASSUME NEW l \in PoolKeys, NEW j \in DOMAIN entries[l]
                   PROVE  entries[l][j].id # next_id
                          /\ lru_key(entries[l][j]) # lru_key(e)
        OBVIOUS
      <3>1. entries[l][j].id \in Nat /\ entries[l][j].id < next_id
        BY EntryFacts DEF Typed, Index, IdsBelow
      <3>2. entries[l][j].id # next_id
        BY <3>1, <2>2
      <3> QED
        BY <3>2, <2>3, KeyOf
    <2> HIDE DEF n
    \* a slot of the new pools is an old slot or the newcomer's
    <2>8. \A l \in PoolKeys : \A j \in DOMAIN entries'[l] :
             \/ l = k /\ j = n + 1 /\ entries'[l][j] = e
             \/ /\ j \in DOMAIN entries[l] /\ entries'[l][j] = entries[l][j]
                /\ <<l, j>> # <<k, n + 1>>
      BY <2>2, <2>5
    <2>9. \A l \in PoolKeys : \A j \in DOMAIN entries[l] :
             j \in DOMAIN entries'[l] /\ entries'[l][j] = entries[l][j]
      <3> SUFFICES ASSUME NEW l \in PoolKeys, NEW j \in DOMAIN entries[l]
                   PROVE  j \in DOMAIN entries'[l] /\ entries'[l][j] = entries[l][j]
        OBVIOUS
      <3>1. CASE l = k
        BY <3>1, <2>2, <2>5
      <3>2. CASE l # k
        BY <3>2, <2>5
      <3> QED
        BY <3>1, <3>2
    <2>10. EntriesIndexed'
      BY <2>6, <2>7, <2>8 DEF Index, EntriesIndexed, lru_key
    <2>11. IndexDescribesEntries'
      <3> SUFFICES ASSUME NEW x \in DOMAIN lru'
                   PROVE  /\ lru'[x][1] \in PoolKeys
                          /\ lru'[x][2] \in DOMAIN entries'[lru'[x][1]]
                          /\ lru_key(entries'[lru'[x][1]][lru'[x][2]]) = x
        BY DEF IndexDescribesEntries, lru_key
      <3>1. CASE x = lru_key(e)
        BY <3>1, <2>6, <2>5, <2>2
      <3>2. CASE x # lru_key(e)
        BY <3>2, <2>6, <2>9 DEF Index, IndexDescribesEntries
      <3> QED
        BY <3>1, <3>2
    <2>12. IdsUnique'
      BY <2>3, <2>7, <2>8 DEF Index, IdsUnique
    <2>13. IdsBelow'
      <3> SUFFICES ASSUME NEW l \in PoolKeys, NEW j \in DOMAIN entries'[l]
                   PROVE  entries'[l][j].id < next_id + 1
        BY <2>1 DEF IdsBelow
      <3>1. CASE entries'[l][j] = e
        BY <3>1, <2>2, <2>3
      <3>2. CASE j \in DOMAIN entries[l] /\ entries'[l][j] = entries[l][j]
        <4>1. entries[l][j].id \in Nat /\ entries[l][j].id < next_id
          BY <3>2, EntryFacts DEF Typed, Index, IdsBelow
        <4> QED
          BY <3>2, <4>1, <2>2
      <3> QED
        BY <2>8, <3>1, <3>2
    <2>14. KeysUnique'
      BY <2>3, <2>4, <2>8 DEF KeysUnique
    <2> QED
      BY <2>10, <2>11, <2>12, <2>13, <2>14 DEF Index
  <1> QED
    BY <1>1, <1>2

\* touch re-keys one entry and moves none.
LEMMA TouchIndex ==
    ASSUME Typed, Index, KeysUnique, NEW k \in PoolKeys, NEW i \in DOMAIN entries[k],
           touch(k, i)
    PROVE  Index' /\ KeysUnique'
  <1> DEFINE e == entries[k][i]
             f == [e EXCEPT !.last_use = now]
  <1>1. /\ entries' = [entries EXCEPT ![k] = [@ EXCEPT ![i] = f]]
        /\ lru' = Put(Drop(lru, lru_key(e)), lru_key(f), <<k, i>>)
        /\ next_id' = next_id
    BY DEF touch
  <1>2. e \in PrefixEntry /\ entries \in [PoolKeys -> Seq(PrefixEntry)]
    BY EntryFacts DEF Typed, CacheType
  <1>3. f.id = e.id /\ f.toks = e.toks
    BY <1>2 DEF PrefixEntry
  <1> HIDE DEF f
  <1>4. /\ \A l \in PoolKeys : DOMAIN entries'[l] = DOMAIN entries[l]
        /\ entries'[k][i] = f
        /\ \A l \in PoolKeys : \A j \in DOMAIN entries[l] :
              <<l, j>> # <<k, i>> => entries'[l][j] = entries[l][j]
    BY <1>1, <1>2
  <1>5. \A l \in PoolKeys : \A j \in DOMAIN entries[l] :
           /\ entries'[l][j].id = entries[l][j].id
           /\ entries'[l][j].toks = entries[l][j].toks
    BY <1>3, <1>4
  <1>6. /\ DOMAIN lru' = (DOMAIN lru \ {lru_key(e)}) \cup {lru_key(f)}
        /\ lru'[lru_key(f)] = <<k, i>>
        /\ \A x \in DOMAIN lru' \ {lru_key(f)} : x \in DOMAIN lru /\ lru'[x] = lru[x]
    BY <1>1 DEF Put, Drop
  <1>7. \A l \in PoolKeys : \A j \in DOMAIN entries[l] : <<l, j>> # <<k, i>> =>
           lru_key(entries[l][j]) # lru_key(e) /\ lru_key(entries[l][j]) # lru_key(f)
    BY <1>3, KeyOf DEF Index, IdsUnique
  <1>8. EntriesIndexed'
    <2> SUFFICES ASSUME NEW l \in PoolKeys, NEW j \in DOMAIN entries[l]
                 PROVE  /\ lru_key(entries'[l][j]) \in DOMAIN lru'
                        /\ lru'[lru_key(entries'[l][j])] = <<l, j>>
      BY <1>4 DEF EntriesIndexed, lru_key
    <2>1. CASE <<l, j>> = <<k, i>>
      BY <2>1, <1>4, <1>6
    <2>2. CASE <<l, j>> # <<k, i>>
      <3>1. entries'[l][j] = entries[l][j]
        BY <2>2, <1>4
      <3>2. /\ lru_key(entries[l][j]) \in DOMAIN lru
            /\ lru[lru_key(entries[l][j])] = <<l, j>>
        BY DEF Index, EntriesIndexed
      <3>3. lru_key(entries[l][j]) # lru_key(e) /\ lru_key(entries[l][j]) # lru_key(f)
        BY <2>2, <1>7
      <3> QED
        BY <3>1, <3>2, <3>3, <1>6
    <2> QED
      BY <2>1, <2>2
  <1>9. IndexDescribesEntries'
    <2> SUFFICES ASSUME NEW x \in DOMAIN lru'
                 PROVE  /\ lru'[x][1] \in PoolKeys
                        /\ lru'[x][2] \in DOMAIN entries'[lru'[x][1]]
                        /\ lru_key(entries'[lru'[x][1]][lru'[x][2]]) = x
      BY DEF IndexDescribesEntries, lru_key
    <2>1. CASE x = lru_key(f)
      BY <2>1, <1>4, <1>6
    <2>2. CASE x # lru_key(f)
      <3>1. x \in DOMAIN lru /\ x # lru_key(e) /\ lru'[x] = lru[x]
        BY <2>2, <1>6
      <3>2. /\ lru[x][1] \in PoolKeys /\ lru[x][2] \in DOMAIN entries[lru[x][1]]
            /\ lru_key(entries[lru[x][1]][lru[x][2]]) = x
        BY <3>1 DEF Index, IndexDescribesEntries
      <3>3. <<lru[x][1], lru[x][2]>> # <<k, i>>
        BY <3>1, <3>2
      <3> QED
        BY <3>1, <3>2, <3>3, <1>4
    <2> QED
      BY <2>1, <2>2
  <1>10. IdsUnique' /\ IdsBelow' /\ KeysUnique'
    BY <1>1, <1>4, <1>5 DEF Index, IdsUnique, IdsBelow, KeysUnique
  <1> QED
    BY <1>8, <1>9, <1>10 DEF Index

\* remove_at takes the victim out and follows the entry that swap_remove moved.
LEMMA EvictIndex ==
    ASSUME Typed, Index, KeysUnique, EvictLru
    PROVE  Index' /\ KeysUnique'
  <1>1. PICK x \in DOMAIN lru :
           /\ lru[x][2] \in DOMAIN entries[lru[x][1]]
           /\ remove_at(lru[x][1], lru[x][2])
           /\ next_id' = next_id
    BY DEF EvictLru
  <1> DEFINE k == lru[x][1]
             i == lru[x][2]
             pool == entries[k]
             n == Len(pool)
             rest == swap_remove(pool, i)
             left == Drop(lru, lru_key(pool[i]))
  <1>2. /\ k \in PoolKeys /\ pool \in Seq(PrefixEntry) /\ i \in DOMAIN pool
        /\ entries \in [PoolKeys -> Seq(PrefixEntry)]
    BY <1>1 DEF Typed, CacheType
  <1>3. n \in Nat \ {0} /\ DOMAIN pool = 1 .. n /\ i \in 1 .. n
    BY <1>2
  <1>4. /\ DOMAIN rest = 1 .. n - 1 /\ Len(rest) = n - 1
        /\ \A j \in 1 .. n - 1 : rest[j] = IF j = i THEN pool[n] ELSE pool[j]
    <2>1. pool \in Seq(PrefixEntry) /\ i \in DOMAIN pool
      BY <1>2
    <2> HIDE DEF pool, i
    <2> QED
      BY <2>1, SwapRemoveShape, Zenon
  <1>5. /\ entries' = [entries EXCEPT ![k] = rest]
        /\ lru' = IF i <= Len(rest) THEN Put(left, lru_key(rest[i]), <<k, i>>) ELSE left
    BY <1>1 DEF remove_at
  <1> HIDE DEF rest
  <1>6. entries'[k] = rest /\ \A l \in PoolKeys \ {k} : entries'[l] = entries[l]
    BY <1>2, <1>5
  \* from[l, j]: the old slot of the entry in the new slot (l, j)
  <1> DEFINE From(l, j) == IF l = k /\ j = i THEN n ELSE j
  <1>7. \A l \in PoolKeys : \A j \in DOMAIN entries'[l] :
           /\ From(l, j) \in DOMAIN entries[l]
           /\ entries'[l][j] = entries[l][From(l, j)]
           /\ <<l, From(l, j)>> # <<k, i>>
           /\ l = k => j \in 1 .. n - 1
    <2> SUFFICES ASSUME NEW l \in PoolKeys, NEW j \in DOMAIN entries'[l]
                 PROVE  /\ From(l, j) \in DOMAIN entries[l]
                        /\ entries'[l][j] = entries[l][From(l, j)]
                        /\ <<l, From(l, j)>> # <<k, i>>
                        /\ l = k => j \in 1 .. n - 1
      OBVIOUS
    <2>1. CASE l = k
      BY <2>1, <1>3, <1>4, <1>6
    <2>2. CASE l # k
      BY <2>2, <1>6
    <2> QED
      BY <2>1, <2>2
  <1>8. \A l, m \in PoolKeys : \A j \in DOMAIN entries'[l], h \in DOMAIN entries'[m] :
           l = m /\ From(l, j) = From(m, h) => j = h
    BY <1>3, <1>7
  <1>9. \A l \in PoolKeys : \A j \in DOMAIN entries[l] : <<l, j>> # <<k, i>> =>
           lru_key(entries[l][j]) # lru_key(pool[i])
    BY <1>2, KeyOf DEF Index, IdsUnique
  <1>10. IdsUnique'
    BY <1>7, <1>8 DEF Index, IdsUnique
  <1>11. IdsBelow'
    BY <1>1, <1>7 DEF Index, IdsBelow
  <1>12. KeysUnique'
    BY <1>7, <1>8 DEF KeysUnique
  <1>13. /\ DOMAIN lru' = DOMAIN lru \ {lru_key(pool[i])}
         /\ \A y \in DOMAIN lru' :
               lru'[y] = IF i < n /\ y = lru_key(pool[n]) THEN <<k, i>> ELSE lru[y]
    <2>1. CASE i < n
      <3>1. i <= Len(rest) /\ rest[i] = pool[n]
        BY <2>1, <1>3, <1>4
      <3>2. lru_key(pool[n]) \in DOMAIN lru /\ lru_key(pool[n]) # lru_key(pool[i])
        BY <2>1, <1>2, <1>3, <1>9 DEF Index, EntriesIndexed
      <3>3. lru' = Put(left, lru_key(pool[n]), <<k, i>>)
        BY <3>1, <1>5
      <3> QED
        BY <3>2, <3>3, <2>1 DEF Put, Drop
    <2>2. CASE ~(i < n)
      <3>1. ~(i <= Len(rest))
        BY <2>2, <1>3, <1>4
      <3> QED
        BY <2>2, <3>1, <1>5 DEF Drop
    <2> QED
      BY <2>1, <2>2
  <1>14. EntriesIndexed'
    <2> SUFFICES ASSUME NEW l \in PoolKeys, NEW j \in DOMAIN entries'[l]
                 PROVE  /\ lru_key(entries'[l][j]) \in DOMAIN lru'
                        /\ lru'[lru_key(entries'[l][j])] = <<l, j>>
      BY DEF EntriesIndexed, lru_key
    <2> DEFINE h == From(l, j)
               y == lru_key(entries[l][h])
    <2>1. /\ h \in DOMAIN entries[l] /\ entries'[l][j] = entries[l][h]
          /\ <<l, h>> # <<k, i>> /\ (l = k => j \in 1 .. n - 1)
      BY <1>7
    <2>2. y \in DOMAIN lru /\ lru[y] = <<l, h>>
      BY <2>1 DEF Index, EntriesIndexed
    <2>3. y \in DOMAIN lru'
      BY <2>1, <2>2, <1>9, <1>13
    <2>4. CASE l = k /\ j = i
      <3>1. h = n /\ i < n
        BY <2>1, <2>4, <1>3
      <3> QED
        BY <2>1, <2>3, <2>4, <3>1, <1>13
    <2>5. CASE ~(l = k /\ j = i)
      <3>1. h = j
        BY <2>5
      <3>2. ~(i < n /\ y = lru_key(pool[n]))
        <4> SUFFICES ASSUME y = lru_key(pool[n]) PROVE FALSE
          OBVIOUS
        <4>1. n \in DOMAIN entries[k] /\ lru[lru_key(pool[n])] = <<k, n>>
          BY <1>2, <1>3 DEF Index, EntriesIndexed
        <4>2. l = k /\ h = n
          BY <4>1, <2>2
        <4> QED
          BY <4>2, <3>1, <2>1, <1>3
      <3> QED
        BY <2>1, <2>2, <2>3, <3>1, <3>2, <1>13
    <2> QED
      BY <2>4, <2>5
  <1>15. IndexDescribesEntries'
    <2> SUFFICES ASSUME NEW y \in DOMAIN lru'
                 PROVE  /\ lru'[y][1] \in PoolKeys
                        /\ lru'[y][2] \in DOMAIN entries'[lru'[y][1]]
                        /\ lru_key(entries'[lru'[y][1]][lru'[y][2]]) = y
      BY DEF IndexDescribesEntries, lru_key
    <2>1. CASE i < n /\ y = lru_key(pool[n])
      <3>1. lru'[y] = <<k, i>>
        BY <2>1, <1>13
      <3>2. i \in DOMAIN entries'[k] /\ entries'[k][i] = pool[n]
        BY <2>1, <1>3, <1>4, <1>6
      <3> QED
        BY <2>1, <3>1, <3>2, <1>2
    <2>2. CASE ~(i < n /\ y = lru_key(pool[n]))
      <3> DEFINE l == lru[y][1]
                 j == lru[y][2]
      <3>1. y \in DOMAIN lru /\ y # lru_key(pool[i]) /\ lru'[y] = lru[y]
        BY <2>2, <1>13
      <3>2. l \in PoolKeys /\ j \in DOMAIN entries[l] /\ lru_key(entries[l][j]) = y
        BY <3>1 DEF Index, IndexDescribesEntries
      <3>3. j \in DOMAIN entries'[l] /\ entries'[l][j] = entries[l][j]
        <4>1. CASE l # k
          BY <4>1, <3>2, <1>6
        <4>2. CASE l = k
          <5>1. j \in 1 .. n /\ j # i
            BY <4>2, <3>1, <3>2, <1>3
          <5>2. j # n
            <6> SUFFICES ASSUME j = n PROVE FALSE
              OBVIOUS
            <6>1. i < n /\ y = lru_key(pool[n])
              BY <5>1, <4>2, <3>2, <1>3
            <6> QED
              BY <6>1, <2>2
          <5>3. j \in 1 .. n - 1
            BY <5>1, <5>2, <1>3
          <5> QED
            BY <4>2, <5>1, <5>3, <1>4, <1>6
        <4> QED
          BY <4>1, <4>2
      <3> QED
        BY <3>1, <3>2, <3>3
    <2> QED
      BY <2>1, <2>2
  <1> QED
    BY <1>10, <1>11, <1>12, <1>14, <1>15 DEF Index

\* A flush leaves nothing to index.
LEMMA FlushIndex ==
    ASSUME evict_all PROVE Index' /\ KeysUnique'
  <1>1. /\ \A k \in PoolKeys : DOMAIN entries'[k] = {}
        /\ DOMAIN lru' = {}
    BY DEF evict_all
  <1> QED
    BY <1>1 DEF Index, EntriesIndexed, IndexDescribesEntries, IdsUnique, IdsBelow,
                KeysUnique

\* The inductive invariant.
IInv == Typed /\ Index /\ KeysUnique

\* The invariant holds of the empty cache.
LEMMA IInvInit == Init => IInv
  <1> SUFFICES ASSUME Init PROVE IInv
    OBVIOUS
  <1>1. /\ \A k \in PoolKeys : DOMAIN entries[k] = {}
        /\ DOMAIN lru = {}
    BY DEF Init
  <1> QED
    BY <1>1, TypedInit DEF IInv, Index, EntriesIndexed, IndexDescribesEntries, IdsUnique,
                           IdsBelow, KeysUnique

\* Every step keeps the invariant.
LEMMA IInvNext == IInv /\ [Next]_vars => IInv'
  <1> SUFFICES ASSUME Typed, Index, KeysUnique, [Next]_vars
               PROVE  Index' /\ KeysUnique'
    BY TypedNext DEF IInv
  <1>1. CASE EvictLru
    BY <1>1, EvictIndex
  <1>2. CASE ClockAdvances
    BY <1>2, IndexUnchanged DEF ClockAdvances
  <1>3. ASSUME NEW s \in Sessions, Prefill(s) PROVE Index' /\ KeysUnique'
    <2> DEFINE r == sess[s]
    <2>1. r # NoSession
      BY <1>3 DEF Prefill, PrefillChunk, PrefillBoundary, PrefillDone, Abort
    <2>2. r.key \in PoolKeys /\ r.prompt \in Prompts /\ r.snapshot_at \in Nat /\ Boundary(r)
      BY <2>1 DEF Typed, SessType, Session, Boundaries
    <2>3. r.prompt \in Seq(Nat) /\ Prefix(r.prompt, r.snapshot_at) \in Seq(Nat)
      BY <2>2, PromptPrefix, ConstantsAssumption DEF Boundary, ConstantsAssumption
    <2>4. \/ insert_with_budget(r.key, Prefix(r.prompt, r.snapshot_at))
          \/ insert_with_budget(r.key, r.prompt)
          \/ UNCHANGED cacheVars
      BY <1>3 DEF Prefill, PrefillChunk, PrefillBoundary, PrefillDone, Abort
    <2> QED
      BY <2>2, <2>3, <2>4, InsertIndex, IndexUnchanged
  <1>4. ASSUME NEW s \in Sessions, NEW k \in PoolKeys, NEW p \in Prompts, Admit(s, k, p)
        PROVE  Index' /\ KeysUnique'
    <2>1. CASE AdmitHit(s, k, p)
      BY <2>1, TouchIndex DEF AdmitHit
    <2>2. CASE AdmitCold(s, k, p)
      BY <2>2, IndexUnchanged DEF AdmitCold
    <2>3. CASE AdmitHitNoRoom(s, k, p) \/ AdmitColdNoRoom(s, k, p)
      BY <2>3, FlushIndex DEF AdmitHitNoRoom, AdmitColdNoRoom
    <2> QED
      BY <1>4, <2>1, <2>2, <2>3 DEF Admit
  <1>5. CASE UNCHANGED vars
    BY <1>5, IndexUnchanged DEF vars, cacheVars
  <1> QED
    BY <1>1, <1>2, <1>3, <1>4, <1>5 DEF Next

\* The index that picks the victims is exact: it names every resident entry at
\* its slot and nothing else, after any sequence of inserts, touches,
\* swap_removes and flushes, for any number of pools and sessions.
THEOREM IndexCorrect == Spec => []IndexExact
  <1>1. IInv => IndexExact
    BY DEF IInv, Index, IndexExact
  <1> QED
    BY <1>1, IInvInit, IInvNext, PTL DEF Spec

\* Concurrent learners of one prefix leave one entry: the first insert wins.
THEOREM KeysCorrect == Spec => []KeysUnique
  <1>1. IInv => KeysUnique
    BY DEF IInv
  <1> QED
    BY <1>1, IInvInit, IInvNext, PTL DEF Spec

=============================================================================
