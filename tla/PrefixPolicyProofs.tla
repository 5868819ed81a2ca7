------------------------- MODULE PrefixPolicyProofs -------------------------
(***************************************************************************)
(* PrefixCache keeps its books and its promise: the byte and the lifetime  *)
(* counters are exact, an insert never evicts itself, and the recency      *)
(* index takes only the steps that the policy of LruPolicy allows.         *)
(***************************************************************************)
EXTENDS PrefixCacheProofs

-----------------------------------------------------------------------------
(* The strengthening. *)

\* A pool is no longer than the number of inserts, so Pos sees all of it.
Bounded == next_id <= MaxInserts /\ \A k \in PoolKeys : Len(entries[k]) <= next_id

\* No entry was used in the future.
UsedBefore == \A k \in PoolKeys : \A i \in DOMAIN entries[k] : entries[k][i].last_use <= now

\* The eviction loop runs exactly while the counter is over the budget.
LoopTest == evicting <=> total_bytes > Budget

\* While the loop runs, the entry that started it is there: the newest by id,
\* stamped with the present time, and within the budget on its own.
IsNewcomer(e) == e.id = next_id - 1 /\ e.last_use = now /\ e.bytes <= Budget
NewcomerThere ==
    evicting => \E k \in PoolKeys : \E i \in DOMAIN entries[k] : IsNewcomer(entries[k][i])

-----------------------------------------------------------------------------
(* The bytes of a set of entries. *)

Cell(v) == {v.id} \X (1 .. v.bytes)

\* The cells of a set are those of its members.
LEMMA CellsIn ==
    ASSUME NEW R
    PROVE  \A x : x \in Policy!Cells(R) <=> \E v \in R : x \in Cell(v)
  BY DEF Policy!Cells, Cell

\* The policy counts as this module does.
LEMMA SameCardinality ==
    ASSUME NEW S
    PROVE  Policy!Cardinality(S) = Cardinality(S)
  BY DEF Policy!Cardinality, Cardinality

\* An entry has as many cells as bytes.
LEMMA CellCount ==
    ASSUME NEW v, v.bytes \in Nat
    PROVE  IsFiniteSet(Cell(v)) /\ Cardinality(Cell(v)) = v.bytes
  <1>1. IsFiniteSet({v.id}) /\ Cardinality({v.id}) = 1
    BY FS_Singleton
  <1>2. IsFiniteSet(1 .. v.bytes) /\ Cardinality(1 .. v.bytes) = v.bytes
    BY FS_Interval
  <1>3. IsFiniteSet(Cell(v)) /\ Cardinality(Cell(v)) = 1 * v.bytes
    BY <1>1, <1>2, FS_Product DEF Cell
  <1> QED
    BY <1>3

\* A new entry adds its bytes.
LEMMA CellsAdd ==
    ASSUME NEW R, NEW v, v.bytes \in Nat, \A o \in R : o.id # v.id,
           IsFiniteSet(Policy!Cells(R))
    PROVE  /\ IsFiniteSet(Policy!Cells(R \cup {v}))
           /\ Cardinality(Policy!Cells(R \cup {v})) = Cardinality(Policy!Cells(R)) + v.bytes
  <1>1. Policy!Cells(R \cup {v}) = Policy!Cells(R) \cup Cell(v)
    <2>1. \A x : x \in Policy!Cells(R \cup {v}) <=> x \in Policy!Cells(R) \cup Cell(v)
      BY CellsIn
    <2> QED
      BY <2>1
  <1>2. Policy!Cells(R) \cap Cell(v) = {}
    <2>1. \A o \in R : Cell(o) \cap Cell(v) = {}
      BY DEF Cell
    <2> QED
      BY <2>1, CellsIn
  <1>3. Cardinality(Policy!Cells(R)) \in Nat
    BY FS_CardinalityType
  <1> DEFINE C == Policy!Cells(R)
             D == Cell(v)
  <1>4. IsFiniteSet(C \cup D) /\ Cardinality(C \cup D) = Cardinality(C) + v.bytes - Cardinality(C \cap D)
    <2>1. IsFiniteSet(C) /\ IsFiniteSet(D) /\ Cardinality(D) = v.bytes
      BY CellCount
    <2> HIDE DEF C, D
    <2> QED
      BY <2>1, FS_Union
  <1>5. Cardinality(C \cap D) = 0
    BY <1>2, FS_EmptySet
  <1> HIDE DEF C, D
  <1>6. Cardinality(C \cup D) = Cardinality(C) + v.bytes
    <2>1. Cardinality(C) \in Nat
      BY <1>3 DEF C
    <2> QED
      BY <1>4, <1>5, <2>1
  <1> QED
    BY <1>1, <1>4, <1>6 DEF C, D

\* An entry that leaves takes its bytes along.
LEMMA CellsRemove ==
    ASSUME NEW R, NEW v \in R, v.bytes \in Nat, \A o \in R : o.id = v.id => o = v,
           IsFiniteSet(Policy!Cells(R))
    PROVE  /\ IsFiniteSet(Policy!Cells(R \ {v}))
           /\ Cardinality(Policy!Cells(R)) >= v.bytes
           /\ Cardinality(Policy!Cells(R \ {v})) = Cardinality(Policy!Cells(R)) - v.bytes
  <1>1. \A o \in R \ {v} : Cell(o) \cap Cell(v) = {}
    BY DEF Cell
  <1>2. Policy!Cells(R \ {v}) = Policy!Cells(R) \ Cell(v)
    <2>1. \A x : x \in Policy!Cells(R \ {v}) <=> x \in Policy!Cells(R) \ Cell(v)
      BY <1>1, CellsIn
    <2> QED
      BY <2>1
  <1>3. Policy!Cells(R) \cap Cell(v) = Cell(v)
    BY CellsIn
  <1> DEFINE C == Policy!Cells(R)
             D == Cell(v)
  <1>4. /\ IsFiniteSet(C) /\ Cardinality(C) \in Nat
        /\ IsFiniteSet(D) /\ Cardinality(D) = v.bytes /\ C \cap D = D
    BY <1>3, CellCount, FS_CardinalityType
  <1> HIDE DEF C, D
  <1>5. IsFiniteSet(C \ D) /\ Cardinality(C \ D) = Cardinality(C) - v.bytes
    <2>1. IsFiniteSet(C \ D) /\ Cardinality(C \ D) = Cardinality(C) - Cardinality(C \cap D)
      BY <1>4, FS_Difference
    <2>2. Cardinality(C \cap D) = v.bytes
      BY <1>4
    <2> QED
      BY <2>1, <2>2
  <1>6. Cardinality(D) <= Cardinality(C)
    <2>1. D \in SUBSET C
      BY <1>4
    <2> QED
      BY <1>4, <2>1, FS_Subset
  <1> QED
    BY <1>2, <1>4, <1>5, <1>6 DEF C, D

\* A touch changes no bytes.
LEMMA CellsReplace ==
    ASSUME NEW R, NEW e \in R, NEW f, f.id = e.id, f.bytes = e.bytes,
           \A o \in R : o.id = e.id => o = e
    PROVE  Policy!Cells((R \ {e}) \cup {f}) = Policy!Cells(R)
  <1>1. Cell(f) = Cell(e)
    BY DEF Cell
  <1>2. \A x : x \in Policy!Cells((R \ {e}) \cup {f}) <=> x \in Policy!Cells(R)
    BY <1>1, CellsIn
  <1> QED
    BY <1>2

-----------------------------------------------------------------------------
(* The resident entries as a set. *)

View(k, e) ==
    [key |-> k, toks |-> e.toks, bytes |-> e.bytes, last_use |-> e.last_use, id |-> e.id]

\* What a view shows.
LEMMA ViewFields ==
    ASSUME NEW k, NEW e
    PROVE  /\ View(k, e).key = k /\ View(k, e).toks = e.toks /\ View(k, e).bytes = e.bytes
           /\ View(k, e).last_use = e.last_use /\ View(k, e).id = e.id
  BY DEF View

\* The slots and the residents of pools E, so that both the old and the new
\* pools of a step can be talked about.
PosOf(E) == {q \in PoolKeys \X (1 .. MaxInserts) : q[2] \in DOMAIN E[q[1]]}
ResOf(E) == {View(q[1], E[q[1]][q[2]]) : q \in PosOf(E)}
Fits(E) == E \in [PoolKeys -> Seq(PrefixEntry)] /\ \A k \in PoolKeys : Len(E[k]) <= MaxInserts

\* They are those of the module.
LEMMA ResidentIs ==
    /\ Pos = PosOf(entries) /\ Resident = ResOf(entries)
    /\ Pos' = PosOf(entries') /\ Resident' = ResOf(entries')
  BY DEF Pos, PosOf, Resident, ResOf, View

\* Pools that fit have all their slots in PosOf.
LEMMA PosMember ==
    ASSUME NEW E, Fits(E)
    PROVE  \A k, i : <<k, i>> \in PosOf(E) <=> k \in PoolKeys /\ i \in DOMAIN E[k]
  <1>1. ASSUME NEW k \in PoolKeys, NEW i \in DOMAIN E[k]
        PROVE  i \in 1 .. MaxInserts
    <2>1. E[k] \in Seq(PrefixEntry) /\ Len(E[k]) <= MaxInserts /\ MaxInserts \in Nat
      BY ConstantsAssumption DEF Fits, ConstantsAssumption
    <2> QED
      BY <2>1
  <1> QED
    BY <1>1 DEF PosOf

\* ... and all their entries in ResOf.
LEMMA ResMember ==
    ASSUME NEW E, Fits(E)
    PROVE  \A v : v \in ResOf(E) <=>
              \E k \in PoolKeys : \E i \in DOMAIN E[k] : v = View(k, E[k][i])
  <1>1. ASSUME NEW v \in ResOf(E)
        PROVE  \E k \in PoolKeys : \E i \in DOMAIN E[k] : v = View(k, E[k][i])
    <2>1. PICK q \in PosOf(E) : v = View(q[1], E[q[1]][q[2]])
      BY DEF ResOf
    <2> QED
      BY <2>1 DEF PosOf
  <1>2. ASSUME NEW k \in PoolKeys, NEW i \in DOMAIN E[k]
        PROVE  View(k, E[k][i]) \in ResOf(E)
    <2>1. <<k, i>> \in PosOf(E)
      BY PosMember
    <2> QED
      BY <2>1 DEF ResOf
  <1> QED
    BY <1>1, <1>2

-----------------------------------------------------------------------------
(* What the mutations do to that set. *)

\* Pools of a typed and bounded cache fit.
LEMMA FitsNow ==
    ASSUME Typed, Bounded
    PROVE  Fits(entries)
  <1>1. MaxInserts \in Nat /\ next_id \in Nat /\ entries \in [PoolKeys -> Seq(PrefixEntry)]
    BY ConstantsAssumption DEF ConstantsAssumption, Typed, CacheType
  <1>2. \A k \in PoolKeys : Len(entries[k]) \in Nat
    BY <1>1
  <1> QED
    BY <1>1, <1>2 DEF Fits, Bounded

\* The entry that insert_with_budget appends.
NewEntry(toks) == [toks |-> toks, bytes |-> EntryBytes(toks), last_use |-> now, id |-> next_id]

\* An insert adds one entry, in a new slot.
LEMMA InsertEffect ==
    ASSUME Typed, Bounded, NEW k \in PoolKeys, NEW toks \in Seq(Nat),
           insert_with_budget(k, toks), ~Rejected(k, toks)
    PROVE  /\ Bounded'
           /\ Resident' = Resident \cup {View(k, NewEntry(toks))}
           /\ Pos' = Pos \cup {<<k, Len(entries[k]) + 1>>}
           /\ <<k, Len(entries[k]) + 1>> \notin Pos
           /\ \E i \in DOMAIN entries'[k] : entries'[k][i] = NewEntry(toks)
           /\ \A l \in PoolKeys : \A j \in DOMAIN entries'[l] :
                 \/ entries'[l][j] = NewEntry(toks)
                 \/ j \in DOMAIN entries[l] /\ entries'[l][j] = entries[l][j]
  <1> DEFINE e == NewEntry(toks)
             n == Len(entries[k])
  <1>1. /\ entries' = [entries EXCEPT ![k] = Append(@, e)]
        /\ next_id' = next_id + 1 /\ next_id < MaxInserts
    BY DEF insert_with_budget, NewEntry
  <1>2. /\ entries \in [PoolKeys -> Seq(PrefixEntry)] /\ next_id \in Nat
        /\ n \in Nat /\ DOMAIN entries[k] = 1 .. n /\ MaxInserts \in Nat
    BY ConstantsAssumption DEF ConstantsAssumption, Typed, CacheType
  <1>3. e \in PrefixEntry
    <2>1. EntryBytes(toks) \in Nat
      BY ConstantsAssumption DEF ConstantsAssumption, EntryBytes
    <2> QED
      BY <2>1 DEF NewEntry, PrefixEntry, Typed, CacheType
  <1> HIDE DEF e
  <1>4. /\ \A l \in PoolKeys \ {k} : entries'[l] = entries[l]
        /\ DOMAIN entries'[k] = 1 .. n + 1 /\ Len(entries'[k]) = n + 1
        /\ \A i \in 1 .. n : entries'[k][i] = entries[k][i]
        /\ entries'[k][n + 1] = e
    <2>1. entries'[k] = Append(entries[k], e) /\ entries[k] \in Seq(PrefixEntry)
      BY <1>1, <1>2
    <2>2. \A l \in PoolKeys \ {k} : entries'[l] = entries[l]
      BY <1>1, <1>2
    <2> QED
      BY <1>2, <2>1, <2>2
  <1>5. Bounded'
    <2>1. \A l \in PoolKeys : Len(entries[l]) \in Nat /\ Len(entries[l]) <= next_id
      BY <1>2 DEF Bounded
    <2>2. \A l \in PoolKeys : Len(entries'[l]) <= next_id + 1
      BY <1>2, <1>4, <2>1
    <2> QED
      BY <1>1, <1>2, <2>2 DEF Bounded
  <1>6. Fits(entries) /\ Fits(entries')
    <2>1. entries' \in [PoolKeys -> Seq(PrefixEntry)]
      BY <1>1, <1>2, <1>3
    <2>2. \A l \in PoolKeys : Len(entries'[l]) \in Nat /\ Len(entries'[l]) <= next_id'
      BY <1>5, <2>1 DEF Bounded
    <2>3. next_id' <= MaxInserts /\ next_id' \in Nat
      BY <1>1, <1>2
    <2> QED
      BY <1>2, <2>1, <2>2, <2>3, FitsNow DEF Fits
  <1> HIDE DEF n
  <1>7. \A l \in PoolKeys : \A j \in DOMAIN entries'[l] :
           \/ l = k /\ j = n + 1 /\ entries'[l][j] = e
           \/ j \in DOMAIN entries[l] /\ entries'[l][j] = entries[l][j]
    BY <1>2, <1>4
  <1>8. \A l \in PoolKeys : \A j \in DOMAIN entries[l] :
           j \in DOMAIN entries'[l] /\ entries'[l][j] = entries[l][j]
    <2> SUFFICES ASSUME NEW l \in PoolKeys, NEW j \in DOMAIN entries[l]
                 PROVE  j \in DOMAIN entries'[l] /\ entries'[l][j] = entries[l][j]
      OBVIOUS
    <2>1. CASE l = k
      BY <2>1, <1>2, <1>4
    <2>2. CASE l # k
      BY <2>2, <1>4
    <2> QED
      BY <2>1, <2>2
  <1>9. n + 1 \in DOMAIN entries'[k] /\ entries'[k][n + 1] = e /\ n + 1 \notin DOMAIN entries[k]
    BY <1>2, <1>4
  <1>10. Resident' = Resident \cup {View(k, e)}
    <2>1. \A v : v \in ResOf(entries') <=> v \in ResOf(entries) \cup {View(k, e)}
      BY <1>6, <1>7, <1>8, <1>9, ResMember
    <2> QED
      BY <2>1, ResidentIs
  <1>11. Pos' = Pos \cup {<<k, n + 1>>} /\ <<k, n + 1>> \notin Pos
    <2>1. \A l, j : <<l, j>> \in PosOf(entries') <=> <<l, j>> \in PosOf(entries) \cup {<<k, n + 1>>}
      BY <1>6, <1>7, <1>8, <1>9, PosMember
    <2>2. <<k, n + 1>> \notin PosOf(entries)
      BY <1>6, <1>9, PosMember
    <2>3. \A q \in PosOf(entries') \cup PosOf(entries) \cup {<<k, n + 1>>} : q = <<q[1], q[2]>>
      BY DEF PosOf
    <2>4. PosOf(entries') = PosOf(entries) \cup {<<k, n + 1>>}
      BY <2>1, <2>3
    <2> QED
      BY <2>2, <2>4, ResidentIs
  <1> QED
    BY <1>5, <1>7, <1>9, <1>10, <1>11 DEF e, n

\* A touch replaces one entry by itself with a later stamp.
LEMMA TouchEffect ==
    ASSUME Typed, Bounded, Index, NEW k \in PoolKeys, NEW i \in DOMAIN entries[k], touch(k, i)
    PROVE  LET e == View(k, entries[k][i])
               f == [e EXCEPT !.last_use = now]
           IN  /\ Bounded'
               /\ e \in Resident
               /\ Resident' = (Resident \ {e}) \cup {f}
               /\ Pos' = Pos
               /\ \A l \in PoolKeys : \A j \in DOMAIN entries'[l] :
                     /\ j \in DOMAIN entries[l]
                     /\ entries'[l][j].last_use \in {now, entries[l][j].last_use}
  <1> DEFINE e == entries[k][i]
             f == [e EXCEPT !.last_use = now]
  <1>1. entries' = [entries EXCEPT ![k] = [@ EXCEPT ![i] = f]] /\ next_id' = next_id
    BY DEF touch
  <1>2. e \in PrefixEntry /\ entries \in [PoolKeys -> Seq(PrefixEntry)]
    BY EntryFacts DEF Typed, CacheType
  <1>3. f \in PrefixEntry /\ f.last_use = now
    BY <1>2 DEF PrefixEntry, Typed
  <1>4. View(k, f) = [View(k, e) EXCEPT !.last_use = now]
    <2>1. f.toks = e.toks /\ f.bytes = e.bytes /\ f.id = e.id
      BY <1>2 DEF PrefixEntry
    <2> HIDE DEF e, f
    <2> QED
      BY <1>3, <2>1 DEF View
  <1> HIDE DEF f
  <1>5. /\ \A l \in PoolKeys : DOMAIN entries'[l] = DOMAIN entries[l]
        /\ entries'[k][i] = f
        /\ \A l \in PoolKeys : \A j \in DOMAIN entries[l] :
              <<l, j>> # <<k, i>> => entries'[l][j] = entries[l][j]
    BY <1>1, <1>2
  <1>6. \A l \in PoolKeys : Len(entries'[l]) = Len(entries[l])
    <2>1. entries' \in [PoolKeys -> Seq(PrefixEntry)]
      BY <1>1, <1>2, <1>3
    <2> QED
      BY <1>1, <1>2
  <1>7. Bounded'
    BY <1>1, <1>6 DEF Bounded
  <1>8. Fits(entries) /\ Fits(entries')
    <2>1. entries' \in [PoolKeys -> Seq(PrefixEntry)]
      BY <1>1, <1>2, <1>3
    <2> QED
      BY <2>1, <1>6, FitsNow DEF Fits
  <1>9. \A l \in PoolKeys : \A j \in DOMAIN entries[l] :
           View(l, entries[l][j]) = View(k, e) => <<l, j>> = <<k, i>>
    BY ViewFields DEF Index, IdsUnique
  <1> HIDE DEF e
  <1>10. e = entries[k][i]
    BY DEF e
  <1>11. View(k, e) \in ResOf(entries)
    BY <1>8, <1>10, ResMember
  <1>12. \A v : v \in ResOf(entries') <=> v \in (ResOf(entries) \ {View(k, e)}) \cup {View(k, f)}
    <2>1. ASSUME NEW v \in ResOf(entries')
          PROVE  v \in (ResOf(entries) \ {View(k, e)}) \cup {View(k, f)}
      <3>0. PICK l \in PoolKeys : \E j \in DOMAIN entries'[l] : v = View(l, entries'[l][j])
        BY <1>8, ResMember
      <3>1. PICK j \in DOMAIN entries'[l] : v = View(l, entries'[l][j])
        BY <3>0
      <3>2. CASE <<l, j>> = <<k, i>>
        BY <3>1, <3>2, <1>5
      <3>3. CASE <<l, j>> # <<k, i>>
        <4>1. j \in DOMAIN entries[l] /\ v = View(l, entries[l][j])
          BY <3>1, <3>3, <1>5
        <4>2. v \in ResOf(entries) /\ v # View(k, e)
          BY <4>1, <3>3, <1>8, <1>9, ResMember
        <4> QED
          BY <4>2
      <3> QED
        BY <3>2, <3>3
    <2>2. View(k, f) \in ResOf(entries')
      <3>1. i \in DOMAIN entries'[k] /\ entries'[k][i] = f
        BY <1>5
      <3> QED
        BY <3>1, <1>8, ResMember
    <2>3. ASSUME NEW v \in ResOf(entries) \ {View(k, e)}
          PROVE  v \in ResOf(entries')
      <3>0. PICK l \in PoolKeys : \E j \in DOMAIN entries[l] : v = View(l, entries[l][j])
        BY <1>8, ResMember
      <3>1. PICK j \in DOMAIN entries[l] : v = View(l, entries[l][j])
        BY <3>0
      <3>2. j \in DOMAIN entries'[l] /\ v = View(l, entries'[l][j])
        <4>1. <<l, j>> # <<k, i>>
          BY <3>1, <2>3, <1>10
        <4> QED
          BY <4>1, <3>1, <1>5
      <3> QED
        BY <3>2, <1>8, ResMember
    <2> QED
      BY <2>1, <2>2, <2>3
  <1>13. Resident' = (Resident \ {View(k, e)}) \cup {View(k, f)}
    BY <1>12, ResidentIs
  <1>14. Pos' = Pos
    <2>1. PosOf(entries') = PosOf(entries)
      BY <1>5 DEF PosOf
    <2> QED
      BY <2>1, ResidentIs
  <1>15. \A l \in PoolKeys : \A j \in DOMAIN entries'[l] :
            /\ j \in DOMAIN entries[l]
            /\ entries'[l][j].last_use \in {now, entries[l][j].last_use}
    BY <1>3, <1>5
  <1> QED
    BY <1>4, <1>7, <1>10, <1>11, <1>13, <1>14, <1>15, ResidentIs DEF f

\* What one iteration of the loop does when (k, i) is its victim.
Evicts(k, i) ==
    LET v == View(k, entries[k][i])
    IN  /\ Bounded'
        /\ v \in Resident /\ Resident' = Resident \ {v}
        /\ <<k, Len(entries[k])>> \in Pos /\ Pos' = Pos \ {<<k, Len(entries[k])>>}
        /\ total_bytes' = Released(entries[k][i])
        /\ evictions' = evictions + 1
        /\ evicting' = (total_bytes' > Budget)
        /\ \A l \in PoolKeys : \A j \in DOMAIN entries[l] :
              KeyBefore(lru_key(entries[k][i]), lru_key(entries[l][j]))
        /\ \A l \in PoolKeys : \A j \in DOMAIN entries'[l] :
              \E h \in DOMAIN entries[l] : entries'[l][j] = entries[l][h]
        /\ \A l \in PoolKeys : \A h \in DOMAIN entries[l] : <<l, h>> # <<k, i>> =>
              \E j \in DOMAIN entries'[l] : entries'[l][j] = entries[l][h]

\* An iteration takes away one entry, before whose key no other one sorts.
LEMMA EvictEffect ==
    ASSUME Typed, Bounded, Index, EvictLru
    PROVE  \E k \in PoolKeys : \E i \in DOMAIN entries[k] : Evicts(k, i)
  <1>1. PICK x \in DOMAIN lru :
           /\ \A y \in DOMAIN lru : KeyBefore(x, y)
           /\ lru[x][2] \in DOMAIN entries[lru[x][1]]
           /\ remove_at(lru[x][1], lru[x][2])
           /\ total_bytes' = Released(entries[lru[x][1]][lru[x][2]])
           /\ evictions' = evictions + 1
           /\ evicting' = (total_bytes' > Budget)
           /\ next_id' = next_id
    BY DEF EvictLru
  <1> DEFINE k == lru[x][1]
             i == lru[x][2]
             pool == entries[k]
             n == Len(pool)
             rest == swap_remove(pool, i)
             v == View(k, pool[i])
  <1>2. /\ k \in PoolKeys /\ pool \in Seq(PrefixEntry) /\ i \in DOMAIN pool
        /\ entries \in [PoolKeys -> Seq(PrefixEntry)] /\ x = lru_key(pool[i])
    BY <1>1 DEF Typed, CacheType, Index, IndexDescribesEntries
  <1>3. n \in Nat \ {0} /\ DOMAIN pool = 1 .. n /\ i \in 1 .. n
    BY <1>2
  <1>4. /\ rest \in Seq(PrefixEntry)
        /\ DOMAIN rest = 1 .. n - 1 /\ Len(rest) = n - 1
        /\ \A j \in 1 .. n - 1 : rest[j] = IF j = i THEN pool[n] ELSE pool[j]
    <2>1. pool \in Seq(PrefixEntry) /\ i \in DOMAIN pool
      BY <1>2
    <2> HIDE DEF pool, i
    <2> QED
      BY <2>1, SwapRemoveShape, Zenon
  <1>5. entries' = [entries EXCEPT ![k] = rest]
    BY <1>1 DEF remove_at
  <1>6. \A l \in PoolKeys : \A j \in DOMAIN entries[l] : KeyBefore(x, lru_key(entries[l][j]))
    BY <1>1 DEF Index, EntriesIndexed
  <1> HIDE DEF rest, k, i
  <1>7. entries'[k] = rest /\ \A l \in PoolKeys \ {k} : entries'[l] = entries[l]
    BY <1>2, <1>5
  <1>8. Bounded'
    <2>1. \A l \in PoolKeys : Len(entries[l]) \in Nat /\ Len(entries[l]) <= next_id
      BY <1>2 DEF Bounded
    <2>2. next_id \in Nat
      BY DEF Typed, CacheType
    <2>3. \A l \in PoolKeys : Len(entries'[l]) <= next_id
      BY <1>2, <1>3, <1>4, <1>7, <2>1, <2>2
    <2> QED
      BY <1>1, <2>3 DEF Bounded
  <1>9. Fits(entries) /\ Fits(entries')
    <2>1. entries' \in [PoolKeys -> Seq(PrefixEntry)]
      BY <1>2, <1>4, <1>5
    <2>2. \A l \in PoolKeys : Len(entries'[l]) \in Nat /\ Len(entries'[l]) <= next_id
      BY <1>1, <1>8, <2>1 DEF Bounded
    <2>3. next_id <= MaxInserts /\ next_id \in Nat /\ MaxInserts \in Nat
      BY ConstantsAssumption DEF ConstantsAssumption, Bounded, Typed, CacheType
    <2> QED
      BY <2>1, <2>2, <2>3, FitsNow DEF Fits
  \* every new slot shows an old entry that is not the victim
  <1>10. \A l \in PoolKeys : \A j \in DOMAIN entries'[l] :
            \E h \in DOMAIN entries[l] : entries'[l][j] = entries[l][h] /\ <<l, h>> # <<k, i>>
    <2> SUFFICES ASSUME NEW l \in PoolKeys, NEW j \in DOMAIN entries'[l]
                 PROVE  \E h \in DOMAIN entries[l] :
                           entries'[l][j] = entries[l][h] /\ <<l, h>> # <<k, i>>
      OBVIOUS
    <2>1. CASE l # k
      BY <2>1, <1>7
    <2>2. CASE l = k /\ j = i
      <3>1. n \in DOMAIN entries[k] /\ entries'[k][j] = entries[k][n] /\ n # i
        BY <2>2, <1>3, <1>4, <1>7
      <3> QED
        BY <2>2, <3>1
    <2>3. CASE l = k /\ j # i
      <3>1. j \in DOMAIN entries[k] /\ entries'[k][j] = entries[k][j]
        BY <2>3, <1>3, <1>4, <1>7
      <3> QED
        BY <2>3, <3>1
    <2> QED
      BY <2>1, <2>2, <2>3
  \* every other old entry has a new slot
  <1>11. \A l \in PoolKeys : \A h \in DOMAIN entries[l] : <<l, h>> # <<k, i>> =>
            \E j \in DOMAIN entries'[l] : entries'[l][j] = entries[l][h]
    <2> SUFFICES ASSUME NEW l \in PoolKeys, NEW h \in DOMAIN entries[l], <<l, h>> # <<k, i>>
                 PROVE  \E j \in DOMAIN entries'[l] : entries'[l][j] = entries[l][h]
      OBVIOUS
    <2>1. CASE l # k
      BY <2>1, <1>7
    <2>2. CASE l = k /\ h = n
      <3>1. i \in DOMAIN entries'[k] /\ entries'[k][i] = entries[k][n]
        BY <2>2, <1>3, <1>4, <1>7
      <3> QED
        BY <2>2, <3>1
    <2>3. CASE l = k /\ h # n
      <3>1. h \in DOMAIN entries'[k] /\ entries'[k][h] = entries[k][h]
        BY <2>3, <1>3, <1>4, <1>7
      <3> QED
        BY <2>3, <3>1
    <2> QED
      BY <2>1, <2>2, <2>3
  <1>12. \A l \in PoolKeys : \A j \in DOMAIN entries[l] :
            View(l, entries[l][j]) = v => <<l, j>> = <<k, i>>
    BY <1>2, ViewFields DEF Index, IdsUnique
  <1>13. v \in ResOf(entries)
    BY <1>2, <1>9, ResMember
  <1>14. \A w : w \in ResOf(entries') <=> w \in ResOf(entries) \ {v}
    <2>1. ASSUME NEW w \in ResOf(entries') PROVE w \in ResOf(entries) \ {v}
      <3>1. PICK l \in PoolKeys : \E j \in DOMAIN entries'[l] : w = View(l, entries'[l][j])
        BY <1>9, ResMember
      <3>2. PICK h \in DOMAIN entries[l] : w = View(l, entries[l][h]) /\ <<l, h>> # <<k, i>>
        BY <3>1, <1>10
      <3> QED
        BY <3>2, <1>9, <1>12, ResMember
    <2>2. ASSUME NEW w \in ResOf(entries) \ {v} PROVE w \in ResOf(entries')
      <3>1. PICK l \in PoolKeys : \E j \in DOMAIN entries[l] : w = View(l, entries[l][j])
        BY <1>9, ResMember
      <3>2. PICK h \in DOMAIN entries[l] : w = View(l, entries[l][h])
        BY <3>1
      <3>3. <<l, h>> # <<k, i>>
        BY <3>2, <2>2
      <3>4. PICK j \in DOMAIN entries'[l] : w = View(l, entries'[l][j])
        BY <3>2, <3>3, <1>11
      <3> QED
        BY <3>4, <1>9, ResMember
    <2> QED
      BY <2>1, <2>2
  <1>15. v \in Resident /\ Resident' = Resident \ {v}
    BY <1>13, <1>14, ResidentIs
  <1>16. <<k, n>> \in Pos /\ Pos' = Pos \ {<<k, n>>}
    <2>1. DOMAIN entries'[k] = DOMAIN entries[k] \ {n} /\ n \in DOMAIN entries[k]
      BY <1>3, <1>4, <1>7
    <2> HIDE DEF n
    <2>2. \A l, j : <<l, j>> \in PosOf(entries') <=> <<l, j>> \in PosOf(entries) \ {<<k, n>>}
      <3> SUFFICES ASSUME NEW l, NEW j
                   PROVE  <<l, j>> \in PosOf(entries') <=> <<l, j>> \in PosOf(entries) \ {<<k, n>>}
        OBVIOUS
      <3>1. /\ <<l, j>> \in PosOf(entries') <=> l \in PoolKeys /\ j \in DOMAIN entries'[l]
            /\ <<l, j>> \in PosOf(entries) <=> l \in PoolKeys /\ j \in DOMAIN entries[l]
        BY <1>9, PosMember
      <3>2. CASE l = k
        BY <3>1, <3>2, <2>1, <1>2
      <3>3. CASE l # k
        BY <3>1, <3>3, <1>7
      <3> QED
        BY <3>2, <3>3
    <2>3. <<k, n>> \in PosOf(entries)
      BY <2>1, <1>2, <1>9, PosMember
    <2>4. \A q \in PosOf(entries') \cup PosOf(entries) : q = <<q[1], q[2]>>
      BY DEF PosOf
    <2>5. PosOf(entries') = PosOf(entries) \ {<<k, n>>}
      BY <2>2, <2>4
    <2> QED
      BY <2>3, <2>5, ResidentIs
  <1>17. Evicts(k, i)
    <2>1. /\ total_bytes' = Released(entries[k][i])
          /\ evictions' = evictions + 1
          /\ evicting' = (total_bytes' > Budget)
      BY <1>1 DEF k, i
    <2> QED
      BY <1>2, <1>6, <1>8, <1>10, <1>11, <1>15, <1>16, <2>1 DEF Evicts
  <1> QED
    BY <1>2, <1>17

\* A flush takes away all.
LEMMA FlushEffect ==
    ASSUME Typed, Bounded, evict_all
    PROVE  /\ Bounded' /\ Resident' = {} /\ Pos' = {}
           /\ \A k \in PoolKeys : DOMAIN entries'[k] = {}
  <1>1. entries' = [k \in PoolKeys |-> <<>>] /\ next_id' = next_id /\ next_id \in Nat
    BY DEF evict_all, Typed, CacheType
  <1>2. \A k \in PoolKeys : DOMAIN entries'[k] = {} /\ Len(entries'[k]) = 0
    BY <1>1
  <1>3. PosOf(entries') = {}
    BY <1>2 DEF PosOf
  <1>4. ResOf(entries') = {}
    BY <1>3 DEF ResOf
  <1>5. Bounded'
    BY <1>1, <1>2 DEF Bounded
  <1> QED
    BY <1>2, <1>3, <1>4, <1>5, ResidentIs

-----------------------------------------------------------------------------
(* The books. *)

\* The counters against the set of residents.
CountsExact == next_id = evictions + Cardinality(Pos)
BytesExact ==
    /\ IsFiniteSet(Policy!Cells(Resident))
    /\ total_bytes = Cardinality(Policy!Cells(Resident))
Books == Bounded /\ UsedBefore /\ CountsExact /\ BytesExact /\ LoopTest /\ NewcomerThere

\* What the invariants say of the residents.
LEMMA ResidentFacts ==
    ASSUME Typed, Index, Bounded
    PROVE  /\ \A v \in Resident : /\ v.bytes \in Nat /\ v.id \in Nat /\ v.last_use \in Nat
                                  /\ v.id < next_id
           /\ \A v, w \in Resident : v.id = w.id => v = w
           /\ UsedBefore => \A v \in Resident : v.last_use <= now
  <1>1. \A v \in Resident : \E k \in PoolKeys : \E i \in DOMAIN entries[k] :
           v = View(k, entries[k][i])
    BY FitsNow, ResMember, ResidentIs
  <1>2. \A k \in PoolKeys : \A i \in DOMAIN entries[k] :
           /\ entries[k][i].bytes \in Nat /\ entries[k][i].id \in Nat
           /\ entries[k][i].last_use \in Nat /\ entries[k][i].id < next_id
    BY EntryFacts DEF Typed, Index, IdsBelow
  <1>3. \A v \in Resident : /\ v.bytes \in Nat /\ v.id \in Nat /\ v.last_use \in Nat
                            /\ v.id < next_id
    BY <1>1, <1>2, ViewFields
  <1>4. ASSUME NEW v \in Resident, NEW w \in Resident, v.id = w.id
        PROVE  v = w
    <2>1. PICK k \in PoolKeys : \E i \in DOMAIN entries[k] : v = View(k, entries[k][i])
      BY <1>1
    <2>2. PICK i \in DOMAIN entries[k] : v = View(k, entries[k][i])
      BY <2>1
    <2>3. PICK l \in PoolKeys : \E j \in DOMAIN entries[l] : w = View(l, entries[l][j])
      BY <1>1
    <2>4. PICK j \in DOMAIN entries[l] : w = View(l, entries[l][j])
      BY <2>3
    <2>5. entries[k][i].id = entries[l][j].id
      BY <1>4, <2>2, <2>4, ViewFields
    <2>6. k = l /\ i = j
      BY <2>5 DEF Index, IdsUnique
    <2> QED
      BY <2>2, <2>4, <2>6
  <1>5. UsedBefore => \A v \in Resident : v.last_use <= now
    BY <1>1, ViewFields DEF UsedBefore
  <1> QED
    BY <1>3, <1>4, <1>5

\* The slots are finite in number.
LEMMA PosIsFinite == IsFiniteSet(Pos)
  <1>1. IsFiniteSet(PoolKeys)
    BY ConstantsAssumption DEF ConstantsAssumption
  <1>2. IsFiniteSet(1 .. MaxInserts)
    BY FS_Interval, ConstantsAssumption DEF ConstantsAssumption
  <1>3. IsFiniteSet(PoolKeys \X (1 .. MaxInserts))
    BY <1>1, <1>2, FS_Product
  <1> QED
    BY <1>3, FS_Subset DEF Pos

\* A step that leaves cache and clock alone changes no book.
LEMMA BooksUnchanged ==
    ASSUME Books, UNCHANGED <<cacheVars, now>>
    PROVE  Books' /\ UNCHANGED Policy!policyVars
  <1>1. /\ entries' = entries /\ next_id' = next_id /\ total_bytes' = total_bytes
        /\ evictions' = evictions /\ evicting' = evicting /\ now' = now
    BY DEF cacheVars
  <1>2. Pos' = Pos /\ Resident' = Resident
    BY <1>1, ResidentIs
  <1>3. Bounded' /\ UsedBefore' /\ NewcomerThere' /\ LoopTest'
    BY <1>1 DEF Books, Bounded, UsedBefore, NewcomerThere, IsNewcomer, LoopTest
  <1>4. CountsExact' /\ BytesExact'
    BY <1>1, <1>2 DEF Books, CountsExact, BytesExact
  <1> QED
    BY <1>1, <1>2, <1>3, <1>4 DEF Books, Policy!policyVars

\* insert_with_budget keeps the books and is the policy's Insert.
LEMMA InsertBooks ==
    ASSUME Typed, Index, Books, ~evicting, NEW k \in PoolKeys, NEW toks \in Seq(Nat),
           insert_with_budget(k, toks), UNCHANGED now
    PROVE  Books' /\ [Policy!Next]_(Policy!policyVars)
  <1>1. CASE Rejected(k, toks)
    BY <1>1, BooksUnchanged DEF insert_with_budget
  <1>2. CASE ~Rejected(k, toks)
    <2> DEFINE e == NewEntry(toks)
               v == View(k, e)
               q == <<k, Len(entries[k]) + 1>>
    <2>1. /\ next_id' = next_id + 1 /\ total_bytes' = total_bytes + EntryBytes(toks)
          /\ evicting' = (total_bytes' > Budget) /\ evictions' = evictions /\ now' = now
      BY <1>2 DEF insert_with_budget
    <2>2. /\ Bounded' /\ Resident' = Resident \cup {v}
          /\ Pos' = Pos \cup {q} /\ q \notin Pos
          /\ \E i \in DOMAIN entries'[k] : entries'[k][i] = e
          /\ \A l \in PoolKeys : \A j \in DOMAIN entries'[l] :
                \/ entries'[l][j] = e
                \/ j \in DOMAIN entries[l] /\ entries'[l][j] = entries[l][j]
      BY <1>2, InsertEffect DEF Books
    <2>3. /\ EntryBytes(toks) \in Nat /\ EntryBytes(toks) <= Budget
          /\ next_id \in Nat /\ total_bytes \in Nat /\ now \in Nat /\ evictions \in Nat
          /\ Budget \in Nat
      <3>1. Len(toks) \in Nat /\ TokBytes \in Nat /\ StateBytes \in Nat /\ Budget \in Nat
        BY ConstantsAssumption DEF ConstantsAssumption
      <3>2. EntryBytes(toks) \in Nat
        BY <3>1 DEF EntryBytes
      <3>3. EntryBytes(toks) <= Budget
        BY <1>2, <3>1, <3>2 DEF Rejected
      <3> QED
        BY <3>1, <3>2, <3>3 DEF Typed, CacheType
    <2>4. e.id = next_id /\ e.last_use = now /\ e.bytes = EntryBytes(toks) /\ e.toks = toks
      BY DEF NewEntry
    <2> HIDE DEF e
    <2>5. v.id = next_id /\ v.last_use = now /\ v.bytes = EntryBytes(toks)
          /\ v.toks = toks /\ v.key = k
      BY <2>4, ViewFields
    <2> HIDE DEF v, q
    <2>6. /\ \A o \in Resident : o.id \in Nat /\ o.id < next_id
          /\ \A o \in Resident : o.last_use <= now
      BY ResidentFacts DEF Books
    <2>7. \A o \in Resident : o.id # v.id
      BY <2>3, <2>5, <2>6
    <2>8. UsedBefore'
      BY <2>1, <2>2, <2>3, <2>4 DEF Books, UsedBefore
    <2>9. CountsExact'
      <3>1. Cardinality(Pos') = Cardinality(Pos) + 1
        BY <2>2, PosIsFinite, FS_AddElement
      <3>2. Cardinality(Pos) \in Nat
        BY PosFinite
      <3> QED
        BY <2>1, <2>3, <3>1, <3>2 DEF Books, CountsExact
    <2>10. BytesExact'
      <3>1. /\ IsFiniteSet(Policy!Cells(Resident \cup {v}))
            /\ Cardinality(Policy!Cells(Resident \cup {v}))
                 = Cardinality(Policy!Cells(Resident)) + EntryBytes(toks)
        BY <2>3, <2>5, <2>7, CellsAdd DEF Books, BytesExact
      <3>2. /\ IsFiniteSet(Policy!Cells(Resident'))
            /\ total_bytes' = Cardinality(Policy!Cells(Resident'))
        BY <2>1, <2>2, <3>1 DEF Books, BytesExact
      <3> QED
        BY <3>2 DEF BytesExact, Policy!Cells
    <2>11. LoopTest'
      BY <2>1 DEF LoopTest
    <2>12. NewcomerThere'
      <3>1. next_id' - 1 = next_id
        BY <2>1, <2>3
      <3>2. PICK i \in DOMAIN entries'[k] : entries'[k][i] = e
        BY <2>2
      <3> QED
        BY <2>1, <2>3, <2>4, <3>1, <3>2 DEF NewcomerThere, IsNewcomer
    <2>13. Policy!Insert
      <3>1. v \in Resident' \ Resident
        BY <2>2, <2>7
      <3>2. \A o \in Resident : <<o.key, o.toks>> # <<v.key, v.toks>>
        <4> SUFFICES ASSUME NEW o \in Resident, o.key = k, o.toks = toks
                     PROVE  FALSE
          BY <2>5
        <4>1. PICK l \in PoolKeys : \E j \in DOMAIN entries[l] : o = View(l, entries[l][j])
          BY FitsNow, ResMember, ResidentIs DEF Books
        <4>2. PICK j \in DOMAIN entries[l] : o = View(l, entries[l][j])
          BY <4>1
        <4>3. l = k /\ entries[l][j].toks = toks
          BY <4>2, ViewFields
        <4> QED
          BY <1>2, <4>3 DEF Rejected, has_key
      <3>3. Policy!Newest(v, Resident)
        BY <2>5, <2>6 DEF Policy!Newest
      <3>4. evicting' = (Policy!Cardinality(Policy!Cells(Resident')) > Budget)
        BY <2>1, <2>10, SameCardinality DEF BytesExact, Policy!Cells
      <3> QED
        BY <2>2, <2>3, <2>5, <2>7, <3>1, <3>2, <3>3, <3>4 DEF Policy!Insert
    <2> QED
      BY <2>2, <2>8, <2>9, <2>10, <2>11, <2>12, <2>13 DEF Books, Policy!Next
  <1> QED
    BY <1>1, <1>2

\* touch keeps the books and is the policy's Touch.
LEMMA TouchBooks ==
    ASSUME Typed, Index, Books, ~evicting, NEW k \in PoolKeys, NEW i \in DOMAIN entries[k],
           touch(k, i), UNCHANGED now
    PROVE  Books' /\ [Policy!Next]_(Policy!policyVars)
  <1> DEFINE e == View(k, entries[k][i])
             f == [e EXCEPT !.last_use = now]
  <1>1. /\ Bounded' /\ e \in Resident /\ Resident' = (Resident \ {e}) \cup {f} /\ Pos' = Pos
        /\ \A l \in PoolKeys : \A j \in DOMAIN entries'[l] :
              j \in DOMAIN entries[l] /\ entries'[l][j].last_use \in {now, entries[l][j].last_use}
    BY TouchEffect DEF Books
  <1>2. /\ next_id' = next_id /\ total_bytes' = total_bytes /\ evictions' = evictions
        /\ evicting' = evicting /\ now' = now /\ now \in Nat
    BY DEF touch, Typed
  <1>3. f.id = e.id /\ f.bytes = e.bytes /\ f.last_use = now
    BY DEF View
  <1> HIDE DEF e
  <1>4. UsedBefore'
    BY <1>1, <1>2 DEF Books, UsedBefore
  <1>5. CountsExact'
    BY <1>1, <1>2 DEF Books, CountsExact
  <1>6. BytesExact'
    <2>1. Policy!Cells(Resident') = Policy!Cells(Resident)
      <3>1. \A o \in Resident : o.id = e.id => o = e
        BY <1>1, ResidentFacts DEF Books
      <3> HIDE DEF f
      <3>2. Policy!Cells((Resident \ {e}) \cup {f}) = Policy!Cells(Resident)
        BY <1>1, <1>3, <3>1, CellsReplace
      <3> QED
        BY <1>1, <3>2
    <2> QED
      BY <1>2, <2>1 DEF Books, BytesExact, Policy!Cells
  <1>7. LoopTest' /\ NewcomerThere'
    BY <1>2 DEF Books, LoopTest, NewcomerThere
  <1>8. Policy!Touch
    <2>1. Policy!Newest(f, Resident)
      BY <1>3, ResidentFacts DEF Books, Policy!Newest
    <2>2. f = [e EXCEPT !.last_use = f.last_use]
      BY <1>3
    <2> HIDE DEF f
    <2>3. f \in Resident'
      BY <1>1
    <2> QED
      BY <1>1, <1>2, <2>1, <2>2, <2>3 DEF Policy!Touch
  <1> QED
    BY <1>1, <1>4, <1>5, <1>6, <1>7, <1>8 DEF Books, Policy!Next

\* The newest key sorts last, so it is the victim only when it is alone, and
\* alone it is within the budget: the loop that it started leaves it there.
LEMMA EvictKeepsNewcomer ==
    ASSUME Typed, Index, Books, EvictLru
    PROVE  \E k \in PoolKeys : \E i \in DOMAIN entries'[k] : IsNewcomer(entries'[k][i])
  <1>1. PICK a \in PoolKeys : \E b \in DOMAIN entries[a] : Evicts(a, b)
    BY EvictEffect DEF Books
  <1>2. PICK b \in DOMAIN entries[a] : Evicts(a, b)
    BY <1>1
  <1>3. evicting
    BY DEF EvictLru
  <1>4. PICK k \in PoolKeys : \E i \in DOMAIN entries[k] : IsNewcomer(entries[k][i])
    BY <1>3 DEF Books, NewcomerThere
  <1>5. PICK i \in DOMAIN entries[k] : IsNewcomer(entries[k][i])
    BY <1>4
  <1>6. CASE <<k, i>> # <<a, b>>
    <2>1. \E j \in DOMAIN entries'[k] : entries'[k][j] = entries[k][i]
      BY <1>2, <1>6 DEF Evicts
    <2> QED
      BY <1>5, <2>1
  <1>7. CASE <<k, i>> = <<a, b>>
    <2> DEFINE e == entries[a][b]
               v == View(a, e)
    <2>1. e.id = next_id - 1 /\ e.last_use = now /\ e.bytes <= Budget
      BY <1>5, <1>7 DEF IsNewcomer
    <2>2. ASSUME NEW l \in PoolKeys, NEW j \in DOMAIN entries[l], <<l, j>> # <<a, b>>
          PROVE  FALSE
      <3> DEFINE o == entries[l][j]
      <3>1. /\ o.id \in Nat /\ o.last_use \in Nat /\ now \in Nat /\ next_id \in Nat
            /\ o.id < next_id /\ o.last_use <= now
        BY EntryFacts DEF Typed, CacheType, Index, IdsBelow, Books, UsedBefore
      <3>2. o.id # e.id
        BY <2>2 DEF Index, IdsUnique
      <3>3. KeyBefore(lru_key(e), lru_key(o))
        BY <1>2 DEF Evicts
      <3> HIDE DEF e, o
      <3>4. e.last_use < o.last_use \/ (e.last_use = o.last_use /\ e.id <= o.id)
        BY <3>3 DEF KeyBefore, lru_key
      <3> QED
        BY <2>1, <3>1, <3>2, <3>4
    <2>3. Resident \ {v} = {}
      <3> SUFFICES ASSUME NEW w \in Resident PROVE w = v
        OBVIOUS
      <3>1. PICK l \in PoolKeys : \E j \in DOMAIN entries[l] : w = View(l, entries[l][j])
        BY FitsNow, ResMember, ResidentIs DEF Books
      <3>2. PICK j \in DOMAIN entries[l] : w = View(l, entries[l][j])
        BY <3>1
      <3>3. <<l, j>> = <<a, b>>
        BY <2>2
      <3> QED
        BY <3>2, <3>3
    <2>4. v \in Resident /\ v.bytes = e.bytes /\ e.bytes \in Nat
      BY <1>2, ViewFields, EntryFacts DEF Evicts, Typed
    <2> HIDE DEF e, v
    <2>5. \A o \in Resident : o.id = v.id => o = v
      BY <2>4, ResidentFacts DEF Books
    <2>6. /\ Cardinality(Policy!Cells(Resident)) >= e.bytes
          /\ Cardinality(Policy!Cells(Resident \ {v}))
               = Cardinality(Policy!Cells(Resident)) - e.bytes
      BY <2>4, <2>5, CellsRemove DEF Books, BytesExact
    <2>7. Cardinality(Policy!Cells(Resident \ {v})) = 0
      <3>1. Policy!Cells(Resident \ {v}) = {}
        BY <2>3, CellsIn
      <3> QED
        BY <3>1, FS_EmptySet
    <2>8. total_bytes \in Nat /\ total_bytes = Cardinality(Policy!Cells(Resident))
          /\ total_bytes > Budget /\ Budget \in Nat
      BY <1>3, BudgetIsNat DEF Books, BytesExact, LoopTest, Typed, CacheType
    <2> QED
      BY <2>1, <2>4, <2>6, <2>7, <2>8
  <1> QED
    BY <1>6, <1>7

\* An iteration of the loop keeps the books and is the policy's Evict.
LEMMA EvictBooks ==
    ASSUME Typed, Index, Books, EvictLru
    PROVE  Books' /\ Policy!Next
  <1>1. PICK k \in PoolKeys : \E i \in DOMAIN entries[k] : Evicts(k, i)
    BY EvictEffect DEF Books
  <1>2. PICK i \in DOMAIN entries[k] : Evicts(k, i)
    BY <1>1
  <1> DEFINE e == entries[k][i]
             v == View(k, e)
             q == <<k, Len(entries[k])>>
  <1>3. /\ Bounded' /\ v \in Resident /\ Resident' = Resident \ {v}
        /\ q \in Pos /\ Pos' = Pos \ {q}
        /\ total_bytes' = Released(e) /\ evictions' = evictions + 1
        /\ evicting' = (total_bytes' > Budget)
    BY <1>2 DEF Evicts
  <1>4. next_id' = next_id /\ now' = now /\ evicting
    BY DEF EvictLru
  <1>5. /\ e.bytes \in Nat /\ total_bytes \in Nat /\ evictions \in Nat /\ next_id \in Nat
        /\ v.bytes = e.bytes /\ v.last_use = e.last_use /\ Budget \in Nat
    BY EntryFacts, ViewFields, BudgetIsNat DEF Typed, CacheType
  <1>6. \A w \in Resident : e.last_use <= w.last_use
    <2> SUFFICES ASSUME NEW w \in Resident PROVE e.last_use <= w.last_use
      OBVIOUS
    <2>1. PICK l \in PoolKeys : \E j \in DOMAIN entries[l] : w = View(l, entries[l][j])
      BY FitsNow, ResMember, ResidentIs DEF Books
    <2>2. PICK j \in DOMAIN entries[l] : w = View(l, entries[l][j])
      BY <2>1
    <2>3. KeyBefore(lru_key(e), lru_key(entries[l][j])) /\ w.last_use = entries[l][j].last_use
      BY <1>2, <2>2, ViewFields DEF Evicts
    <2>4. e.last_use \in Nat /\ w.last_use \in Nat
      BY <2>3, EntryFacts DEF Typed
    <2> HIDE DEF e
    <2> QED
      BY <2>3, <2>4 DEF KeyBefore, lru_key
  <1>7. UsedBefore'
    BY <1>2, <1>4 DEF Evicts, Books, UsedBefore
  <1> HIDE DEF e, v, q
  <1>8. CountsExact'
    <2>1. Cardinality(Pos') = Cardinality(Pos) - 1
      BY <1>3, PosIsFinite, FS_RemoveElement
    <2>2. Cardinality(Pos) \in Nat
      BY PosFinite
    <2> QED
      BY <1>3, <1>4, <1>5, <2>1, <2>2 DEF Books, CountsExact
  <1>9. BytesExact'
    <2>1. \A o \in Resident : o.id = v.id => o = v
      BY <1>3, ResidentFacts DEF Books
    <2>2. /\ IsFiniteSet(Policy!Cells(Resident \ {v}))
          /\ Cardinality(Policy!Cells(Resident)) >= e.bytes
          /\ Cardinality(Policy!Cells(Resident \ {v}))
               = Cardinality(Policy!Cells(Resident)) - e.bytes
      BY <1>3, <1>5, <2>1, CellsRemove DEF Books, BytesExact
    <2>3. total_bytes = Cardinality(Policy!Cells(Resident))
      BY DEF Books, BytesExact
    <2>4. total_bytes' = Cardinality(Policy!Cells(Resident \ {v}))
      BY <1>3, <1>5, <2>2, <2>3 DEF Released
    <2> QED
      BY <1>3, <2>2, <2>4 DEF BytesExact, Policy!Cells
  <1>10. LoopTest'
    BY <1>3 DEF LoopTest
  <1>11. NewcomerThere'
    BY <1>4, EvictKeepsNewcomer DEF NewcomerThere, IsNewcomer
  <1>12. Policy!Evict
    <2>1. evicting' = (Policy!Cardinality(Policy!Cells(Resident')) > Budget)
      BY <1>3, <1>9, SameCardinality DEF BytesExact, Policy!Cells
    <2>2. \A o \in Resident : v.last_use <= o.last_use
      BY <1>5, <1>6
    <2> QED
      BY <1>3, <1>4, <2>1, <2>2 DEF Policy!Evict
  <1> QED
    BY <1>3, <1>7, <1>8, <1>9, <1>10, <1>11, <1>12 DEF Books, Policy!Next

\* evict_all keeps the books and is the policy's Flush.
LEMMA FlushBooks ==
    ASSUME Typed, Books, ~evicting, evict_all, UNCHANGED now
    PROVE  Books' /\ [Policy!Next]_(Policy!policyVars)
  <1>1. /\ Bounded' /\ Resident' = {} /\ Pos' = {}
        /\ \A k \in PoolKeys : DOMAIN entries'[k] = {}
    BY FlushEffect DEF Books
  <1>2. /\ next_id' = next_id /\ total_bytes' = 0 /\ evicting' = evicting
        /\ evictions' = evictions + Cardinality(Pos)
        /\ evictions \in Nat /\ Cardinality(Pos) \in Nat /\ Budget \in Nat
    BY PosFinite, BudgetIsNat DEF evict_all, Typed, CacheType
  <1>3. UsedBefore'
    BY <1>1 DEF UsedBefore
  <1>4. CountsExact'
    BY <1>1, <1>2, FS_EmptySet DEF Books, CountsExact
  <1>5. BytesExact'
    <2>1. Policy!Cells(Resident') = {}
      BY <1>1, CellsIn
    <2>2. IsFiniteSet(Policy!Cells(Resident')) /\ Cardinality(Policy!Cells(Resident')) = 0
      BY <2>1, FS_EmptySet
    <2> QED
      BY <1>2, <2>2 DEF BytesExact, Policy!Cells
  <1>6. LoopTest' /\ NewcomerThere'
    BY <1>2 DEF LoopTest, NewcomerThere
  <1>7. Policy!Flush
    BY <1>1, <1>2 DEF Policy!Flush
  <1> QED
    BY <1>1, <1>3, <1>4, <1>5, <1>6, <1>7 DEF Books, Policy!Next

-----------------------------------------------------------------------------
(* The theorems. *)

PolicyInv == IInv /\ Books

\* The books of the empty cache.
LEMMA PolicyInit == Init => PolicyInv /\ Policy!Init
  <1> SUFFICES ASSUME Init PROVE PolicyInv /\ Policy!Init
    OBVIOUS
  <1>1. /\ entries = [k \in PoolKeys |-> <<>>] /\ next_id = 0 /\ total_bytes = 0 /\ evictions = 0
        /\ evicting = FALSE /\ Budget \in Nat /\ MaxInserts \in Nat
    BY ConstantsAssumption DEF Init, ConstantsAssumption
  <1>2. \A k \in PoolKeys : DOMAIN entries[k] = {} /\ Len(entries[k]) = 0
    BY <1>1
  <1>3. PosOf(entries) = {}
    BY <1>2 DEF PosOf
  <1>4. Pos = {} /\ Resident = {}
    BY <1>3, ResidentIs DEF ResOf
  <1>5. Policy!Cells(Resident) = {}
    BY <1>4, CellsIn
  <1>6. Bounded /\ UsedBefore
    BY <1>1, <1>2 DEF Bounded, UsedBefore
  <1>7. CountsExact /\ BytesExact
    BY <1>1, <1>4, <1>5, FS_EmptySet DEF CountsExact, BytesExact
  <1>8. LoopTest /\ NewcomerThere
    BY <1>1 DEF LoopTest, NewcomerThere
  <1> QED
    BY <1>1, <1>4, <1>6, <1>7, <1>8, IInvInit DEF PolicyInv, Books, Policy!Init

\* Every step keeps the books and is a step of the policy or none.
LEMMA PolicyStep ==
    ASSUME PolicyInv, [Next]_vars
    PROVE  Books' /\ [Policy!Next]_(Policy!policyVars)
  <1>0. Typed /\ Index /\ Books
    BY DEF PolicyInv, IInv
  <1>1. CASE EvictLru
    BY <1>0, <1>1, EvictBooks
  <1>2. CASE ClockAdvances
    <2>1. ~evicting /\ now' = now + 1 /\ UNCHANGED cacheVars /\ now \in Nat
      BY <1>0, <1>2 DEF ClockAdvances, Typed
    <2>2. /\ entries' = entries /\ next_id' = next_id /\ total_bytes' = total_bytes
          /\ evictions' = evictions /\ evicting' = evicting
      BY <2>1 DEF cacheVars
    <2>3. Pos' = Pos /\ Resident' = Resident
      BY <2>2, ResidentIs
    <2>4. UsedBefore'
      <3> SUFFICES ASSUME NEW k \in PoolKeys, NEW i \in DOMAIN entries[k]
                   PROVE  entries[k][i].last_use <= now + 1
        BY <2>1, <2>2 DEF UsedBefore
      <3>1. entries[k][i].last_use \in Nat /\ entries[k][i].last_use <= now
        BY <1>0, EntryFacts DEF Typed, Books, UsedBefore
      <3> QED
        BY <2>1, <3>1
    <2>5. Bounded' /\ LoopTest' /\ NewcomerThere'
      BY <1>0, <2>1, <2>2 DEF Books, Bounded, LoopTest, NewcomerThere
    <2>6. CountsExact' /\ BytesExact'
      BY <1>0, <2>2, <2>3 DEF Books, CountsExact, BytesExact
    <2> QED
      BY <2>2, <2>3, <2>4, <2>5, <2>6 DEF Books, Policy!policyVars
  <1>3. ASSUME NEW s \in Sessions, Prefill(s)
        PROVE  Books' /\ [Policy!Next]_(Policy!policyVars)
    <2> DEFINE r == sess[s]
    <2>1. r # NoSession /\ ~evicting /\ UNCHANGED now
      BY <1>3 DEF Prefill, PrefillChunk, PrefillBoundary, PrefillDone, Abort
    <2>2. r.key \in PoolKeys /\ r.prompt \in Prompts /\ r.snapshot_at \in Nat /\ Boundary(r)
      BY <1>0, <2>1 DEF Typed, SessType, Session, Boundaries
    <2>3. r.prompt \in Seq(Nat) /\ Prefix(r.prompt, r.snapshot_at) \in Seq(Nat)
      BY <2>2, PromptPrefix, ConstantsAssumption DEF Boundary, ConstantsAssumption
    <2>4. \/ insert_with_budget(r.key, Prefix(r.prompt, r.snapshot_at))
          \/ insert_with_budget(r.key, r.prompt)
          \/ UNCHANGED cacheVars
      BY <1>3 DEF Prefill, PrefillChunk, PrefillBoundary, PrefillDone, Abort
    <2> QED
      BY <1>0, <2>1, <2>2, <2>3, <2>4, InsertBooks, BooksUnchanged
  <1>4. ASSUME NEW s \in Sessions, NEW k \in PoolKeys, NEW p \in Prompts, Admit(s, k, p)
        PROVE  Books' /\ [Policy!Next]_(Policy!policyVars)
    <2>1. CASE AdmitHit(s, k, p)
      BY <1>0, <2>1, TouchBooks DEF AdmitHit
    <2>2. CASE AdmitCold(s, k, p)
      BY <1>0, <2>2, BooksUnchanged DEF AdmitCold
    <2>3. CASE AdmitHitNoRoom(s, k, p) \/ AdmitColdNoRoom(s, k, p)
      BY <1>0, <2>3, FlushBooks DEF AdmitHitNoRoom, AdmitColdNoRoom
    <2> QED
      BY <1>4, <2>1, <2>2, <2>3 DEF Admit
  <1>5. CASE UNCHANGED vars
    BY <1>0, <1>5, BooksUnchanged DEF vars, cacheVars
  <1> QED
    BY <1>1, <1>2, <1>3, <1>4, <1>5 DEF Next

\* The strengthening is inductive.
LEMMA PolicyNext == PolicyInv /\ [Next]_vars => PolicyInv'
  <1> SUFFICES ASSUME PolicyInv, [Next]_vars PROVE PolicyInv'
    OBVIOUS
  <1>1. IInv'
    BY IInvNext DEF PolicyInv
  <1>2. Books'
    BY PolicyStep
  <1> QED
    BY <1>1, <1>2 DEF PolicyInv

\* total_bytes is the size of what is resident, for any pools, prompts and
\* sizes: nothing is charged twice or released short, and outside the loop of
\* insert_with_budget the cache is within its budget.
THEOREM BytesCorrect == Spec => []BytesAccounted
  <1>1. PolicyInv => BytesAccounted
    <2> SUFFICES ASSUME PolicyInv PROVE BytesAccounted
      OBVIOUS
    <2>1. total_bytes = Cardinality(Policy!Cells(Resident)) /\ total_bytes \in Nat
      BY DEF PolicyInv, IInv, Books, BytesExact, Typed, CacheType
    <2>2. ~evicting => total_bytes <= Budget
      BY <2>1, BudgetIsNat DEF PolicyInv, Books, LoopTest
    <2> QED
      BY <2>1, <2>2 DEF BytesAccounted
  <1> QED
    BY <1>1, PolicyInit, PolicyNext, PTL DEF Spec

\* The published counters agree with the pools: inserts are evictions plus
\* residents, flushes included.
THEOREM CountersCorrect == Spec => []CountersAgree
  <1>1. PolicyInv => CountersAgree
    BY DEF PolicyInv, Books, CountsExact, CountersAgree
  <1> QED
    BY <1>1, PolicyInit, PolicyNext, PTL DEF Spec

\* No insert evicts what it inserted, whatever the clock reads.
THEOREM NewcomerCorrect == Spec => NewcomerSurvives
  <1>1. PolicyInv /\ [Next]_vars =>
           [EvictLru => \E q \in Pos' : entries'[q[1]][q[2]].id = next_id - 1]_vars
    <2> SUFFICES ASSUME PolicyInv, EvictLru
                 PROVE  \E q \in Pos' : entries'[q[1]][q[2]].id = next_id - 1
      OBVIOUS
    <2>0. Typed /\ Index /\ Books
      BY DEF PolicyInv, IInv
    <2>1. PICK k \in PoolKeys : \E i \in DOMAIN entries'[k] : IsNewcomer(entries'[k][i])
      BY <2>0, EvictKeepsNewcomer
    <2>2. PICK i \in DOMAIN entries'[k] : IsNewcomer(entries'[k][i])
      BY <2>1
    <2>3. Fits(entries')
      <3>1. Typed' /\ Books' /\ next_id' \in Nat
        BY <2>0, TypedNext, EvictBooks DEF Next, Typed, CacheType
      <3>2. MaxInserts \in Nat /\ next_id' <= MaxInserts
        BY <3>1, ConstantsAssumption DEF ConstantsAssumption, Books, Bounded
      <3>3. entries' \in [PoolKeys -> Seq(PrefixEntry)]
        BY <3>1 DEF Typed, CacheType
      <3>4. \A l \in PoolKeys : Len(entries'[l]) \in Nat /\ Len(entries'[l]) <= next_id'
        BY <3>1, <3>3 DEF Books, Bounded
      <3> QED
        BY <3>1, <3>2, <3>3, <3>4 DEF Fits
    <2>4. <<k, i>> \in Pos'
      BY <2>3, PosMember, ResidentIs
    <2> QED
      BY <2>2, <2>4 DEF IsNewcomer
  <1> QED
    BY <1>1, PolicyInit, PolicyNext, PTL DEF Spec, NewcomerSurvives

\* The recency index implements the policy it replaced: each step of the cache
\* is an insert, a touch, a flush or the eviction of a least recently used
\* entry of the set of residents, or leaves that set alone.
THEOREM ImplementsPolicySafety == Spec => Policy!Init /\ [][Policy!Next]_(Policy!policyVars)
  <1>1. Init => Policy!Init
    BY PolicyInit
  <1>2. PolicyInv /\ [Next]_vars => [Policy!Next]_(Policy!policyVars)
    BY PolicyStep
  <1> QED
    BY <1>1, <1>2, PolicyInit, PolicyNext, PTL DEF Spec

=============================================================================
