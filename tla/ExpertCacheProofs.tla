------------------------- MODULE ExpertCacheProofs -------------------------
(***************************************************************************)
(* Proofs about the expert cache and its buffer pool, for any number of    *)
(* blocks, layers, slots and buffers and any switches: the slots are       *)
(* accounted for, the pinned buffers are safe, and the types hold.         *)
(***************************************************************************)
EXTENDS ExpertCache, FiniteSetTheorems, SequenceTheorems, WellFoundedInduction, TLAPS
-----------------------------------------------------------------------------
(* The owner thread *)

Forward == {"row", "warm", "submit", "promote", "seed", "ahead", "dispatch"}
Selected == {"submit", "promote", "seed", "ahead", "dispatch"}
Dropping == {"drop_copy", "drop_pool", "drop_slots", "gone"}

HostOK ==
    /\ cfg \in Configs /\ at \in Places /\ faults \in 0 .. MaxFaults
    /\ kept \in BOOLEAN
    /\ at \in Forward => layer \in Layers
    /\ at \in Selected => sel \in Seq(Blocks) /\ pos \in 1 .. Len(sel)
    /\ at \in {"submit", "promote"} => Promoting /\ compute = <<>>
    /\ at = "seed" => cfg.mode = "worker"
    /\ at \in Forward => lost = {}

-----------------------------------------------------------------------------
(* The cache *)

Caches == [free : Seq(Slots), prob : Seq(Slots), prot : Seq(Slots),
           occ : [Slots -> Blocks \cup {NoBlock}],
           table : [Blocks -> 0 .. NumSlots], pend : [Blocks -> 0 .. NumSlots],
           count : [Layers -> Nat], rows : [Layers -> Seq(0 .. NumSlots)]]

Queued(k) == Range(k.prob) \cup Range(k.prot)
Pending(k) == {k.pend[id] : id \in Blocks} \ {0}
InUse(k) == Range(k.free) \cup Queued(k) \cup Pending(k)

Lists(k) ==
    /\ IsInjective(k.free) /\ IsInjective(k.prob) /\ IsInjective(k.prot)
    /\ Range(k.free) \cap Queued(k) = {} /\ Range(k.prob) \cap Range(k.prot) = {}
    /\ Pending(k) \cap (Range(k.free) \cup Queued(k)) = {}
    /\ Len(k.prot) <= ProtectedCap

Occupied(k) ==
    /\ \A id \in Blocks : k.table[id] # 0 => k.table[id] \in Queued(k) /\ k.occ[k.table[id]] = id
    /\ \A s \in Queued(k) : k.occ[s] \in Blocks /\ k.table[k.occ[s]] = s
    /\ \A id \in Blocks : k.pend[id] # 0 => k.occ[k.pend[id]] = id

ResidentOf(k, l) == {id \in Range(LayerBlocks[l]) : k.table[id] # 0}

Layered(k) ==
    \A l \in Layers :
        /\ k.count[l] = Cardinality(ResidentOf(k, l))
        /\ k.rows[l] # <<>> =>
              /\ k.rows[l] = [i \in DOMAIN LayerBlocks[l] |-> k.table[LayerBlocks[l][i]]]
              /\ ResidentOf(k, l) = Range(LayerBlocks[l])

Accounted(k) == k \in Caches /\ Lists(k) /\ Occupied(k) /\ Layered(k)

CacheOK == Accounted(c) /\ (lost = {} => InUse(c) = Slots)

-----------------------------------------------------------------------------
(* The streams *)

Streams(q, r) ==
    /\ q \in Seq(Ops) /\ r \in Seq(Ops)
    /\ \A i \in DOMAIN q : q[i].fence <= Len(r)
    /\ \A i \in DOMAIN r : r[i].fence <= Len(q)
    /\ \A i \in DOMAIN r : r[i].kind = "write"

StreamsOK == Streams(compute, copy)

-----------------------------------------------------------------------------
(* The pool *)

PoolTypes(p, w, t, g, d, m) ==
    /\ p \in [Buffers -> Phases] /\ w \in [Buffers -> Blocks \cup {NoBlock}]
    /\ t \in [Blocks -> 0 .. NumBuffers] /\ g \subseteq Buffers
    /\ d \in [Buffers -> {"none", "ok", "err"}] /\ m \in [Buffers -> Blocks \cup {NoBlock}]

PoolOK == PoolTypes(phase, want, reads, reading, done, data)

\* A buffer is in the hands of a worker, or its completion is under way, just
\* when the pool waits for one.
Workers(p, g, d) ==
    /\ \A b \in Buffers : (b \in g \/ d[b] # "none") <=> p[b] \in {"Reading", "Canceled"}
    /\ \A b \in g : d[b] = "none"

\* A ticket leads to a buffer that waits for its block, holds it, or has failed,
\* and no two tickets share a buffer.
Tickets(p, w, t, g, d, m) ==
    /\ \A id \in Blocks : t[id] # 0 =>
          \/ /\ p[t[id]] = "Reading"
             /\ t[id] \in g => w[t[id]] = id
             /\ d[t[id]] = "ok" => m[t[id]] = id
          \/ p[t[id]] = "Ready" /\ m[t[id]] = id
          \/ p[t[id]] = "Failed"
    /\ \A i, j \in Blocks : t[i] # 0 /\ t[i] = t[j] => i = j

Pool(p, w, t, g, d, m) ==
    PoolTypes(p, w, t, g, d, m) /\ Workers(p, g, d) /\ Tickets(p, w, t, g, d, m)

\* The copies of a stream find their buffers as they were when queued.
Copying(q, p, m) ==
    \A i \in DOMAIN q : q[i].buf # 0 => p[q[i].buf] = "H2d" /\ m[q[i].buf] = q[i].id

Buffered(q) == \E i \in DOMAIN q : q[i].buf # 0

PoolInv ==
    /\ Pool(phase, want, reads, reading, done, data)
    /\ Copying(compute, phase, data) /\ Copying(copy, phase, data)
    /\ cfg.mode = "blocking" => reading = {} /\ done = NoneDone
    /\ Buffered(compute) => IF at \in Dropping THEN lost # {} ELSE kept
    /\ Buffered(copy) => cfg.copy
    /\ "buffers" \in freed => /\ at \in {"drop_slots", "gone"} /\ reading = {}
                              /\ ~Buffered(compute) /\ ~Buffered(copy)

-----------------------------------------------------------------------------
(* Sequences without repetitions: the SLRU lists and the free list *)

\* The two ends of a list that is not empty.
LEMMA Ends ==
    ASSUME NEW S, NEW q \in Seq(S), q # <<>>
    PROVE  /\ Len(q) \in Nat \ {0} /\ Head(q) = q[1] /\ Head(q) \in S
           /\ Tail(q) \in Seq(S) /\ Len(Tail(q)) = Len(q) - 1
           /\ \A i \in 1 .. Len(q) - 1 : Tail(q)[i] = q[i + 1]
           /\ Last(q) = q[Len(q)] /\ Last(q) \in S
           /\ Front(q) \in Seq(S) /\ Len(Front(q)) = Len(q) - 1
           /\ \A i \in 1 .. Len(q) - 1 : Front(q)[i] = q[i]
<1>1. /\ Len(q) \in Nat \ {0} /\ Head(q) = q[1] /\ Head(q) \in S
      /\ Tail(q) \in Seq(S) /\ Len(Tail(q)) = Len(q) - 1
      /\ \A i \in 1 .. Len(q) : q[i] \in S
  OBVIOUS
<1>2. \A i \in 1 .. Len(q) - 1 : Tail(q)[i] = q[i + 1]
  OBVIOUS
<1>3. Last(q) = q[Len(q)] /\ Last(q) \in S
  BY <1>1 DEF Last
<1>4. /\ 1 \in Int /\ Len(q) - 1 \in Int
      /\ \A i \in 1 .. Len(q) - 1 : q[i] \in S
  BY <1>1
<1>5. /\ Front(q) \in Seq(S) /\ Len(Front(q)) = IF 1 <= Len(q) - 1 THEN (Len(q) - 1) - 1 + 1 ELSE 0
      /\ \A i \in 1 .. (Len(q) - 1) - 1 + 1 : Front(q)[i] = q[1 + i - 1]
  BY <1>4, SubSeqProperties DEF Front
<1> DEFINE n == Len(q)
           f == Front(q)
<1> HIDE DEF n, f
<1>6. Len(f) = n - 1
  <2>1. n \in Nat \ {0} /\ Len(f) = IF 1 <= n - 1 THEN (n - 1) - 1 + 1 ELSE 0
    BY <1>1, <1>5 DEF n, f
  <2> QED BY <2>1
<1>7. \A i \in 1 .. n - 1 : f[i] = q[i]
  <2>1. n \in Nat \ {0} /\ \A i \in 1 .. (n - 1) - 1 + 1 : f[i] = q[1 + i - 1]
    BY <1>1, <1>5 DEF n, f
  <2>2. ASSUME NEW i \in 1 .. n - 1 PROVE i \in 1 .. (n - 1) - 1 + 1 /\ 1 + i - 1 = i
    BY <2>1
  <2> QED BY <2>1, <2>2
<1> QED BY <1>1, <1>2, <1>3, <1>5, <1>6, <1>7 DEF n, f

\* push_back.
LEMMA AppendList ==
    ASSUME NEW S, NEW q \in Seq(S), NEW x \in S
    PROVE  /\ Append(q, x) \in Seq(S) /\ Len(Append(q, x)) = Len(q) + 1
           /\ Range(Append(q, x)) = Range(q) \cup {x}
           /\ IsInjective(q) /\ x \notin Range(q) => IsInjective(Append(q, x))
<1>1. /\ Append(q, x) \in Seq(S) /\ Len(Append(q, x)) = Len(q) + 1 /\ Len(q) \in Nat
      /\ \A i \in 1 .. Len(q) : Append(q, x)[i] = q[i]
      /\ Append(q, x)[Len(q) + 1] = x
      /\ DOMAIN q = 1 .. Len(q) /\ DOMAIN Append(q, x) = 1 .. Len(q) + 1
  OBVIOUS
<1>2. Range(Append(q, x)) = Range(q) \cup {x}
  BY <1>1 DEF Range
<1>3. ASSUME IsInjective(q), x \notin Range(q) PROVE IsInjective(Append(q, x))
  BY <1>1, <1>3 DEF Range, IsInjective
<1> QED BY <1>1, <1>2, <1>3

\* pop of the free list.
LEMMA FrontList ==
    ASSUME NEW S, NEW q \in Seq(S), q # <<>>
    PROVE  /\ Range(q) = Range(Front(q)) \cup {Last(q)}
           /\ IsInjective(q) => IsInjective(Front(q)) /\ Last(q) \notin Range(Front(q))
<1>1. /\ DOMAIN q = 1 .. Len(q) /\ DOMAIN Front(q) = 1 .. Len(q) - 1 /\ Len(q) \in Nat \ {0}
      /\ \A i \in 1 .. Len(q) - 1 : Front(q)[i] = q[i]
      /\ Last(q) = q[Len(q)]
  BY Ends
<1> QED BY <1>1 DEF Range, IsInjective

\* pop_front.
LEMMA TailList ==
    ASSUME NEW S, NEW q \in Seq(S), q # <<>>
    PROVE  /\ Range(q) = Range(Tail(q)) \cup {Head(q)}
           /\ IsInjective(q) => IsInjective(Tail(q)) /\ Head(q) \notin Range(Tail(q))
<1>1. /\ DOMAIN q = 1 .. Len(q) /\ DOMAIN Tail(q) = 1 .. Len(q) - 1 /\ Len(q) \in Nat \ {0}
      /\ \A i \in 1 .. Len(q) - 1 : Tail(q)[i] = q[i + 1]
      /\ Head(q) = q[1]
  BY Ends
<1> DEFINE t == Tail(q)
           h == Head(q)
           n == Len(q)
<1> HIDE DEF t, h, n
<1>2. \A i \in 1 .. n : i = 1 \/ (i - 1 \in 1 .. n - 1 /\ q[i] = t[i - 1])
  BY <1>1 DEF t, n
<1>3. Range(q) = Range(t) \cup {h}
  <2>1. ASSUME NEW i \in 1 .. n PROVE q[i] \in Range(t) \cup {h}
    BY <1>1, <1>2 DEF Range, t, h, n
  <2>2. ASSUME NEW i \in 1 .. n - 1 PROVE t[i] \in Range(q)
    <3>1. i + 1 \in 1 .. n BY <1>1 DEF n
    <3> QED BY <1>1, <3>1 DEF Range, t, n
  <2>3. h \in Range(q) BY <1>1 DEF Range, h
  <2> QED BY <1>1, <2>1, <2>2, <2>3 DEF Range, t, n
<1>4. ASSUME IsInjective(q)
      PROVE  IsInjective(Tail(q)) /\ Head(q) \notin Range(Tail(q))
  BY <1>1, <1>4 DEF Range, IsInjective
<1> QED BY <1>3, <1>4 DEF t, h

\* SlruList::unlink.
LEMMA WithoutList ==
    ASSUME NEW S, NEW q \in Seq(S), NEW s, IsInjective(q)
    PROVE  /\ Without(q, s) \in Seq(S) /\ Range(Without(q, s)) = Range(q) \ {s}
           /\ IsInjective(Without(q, s))
           /\ Len(Without(q, s)) = IF s \in Range(q) THEN Len(q) - 1 ELSE Len(q)
<1>1. CASE s \notin Range(q) BY <1>1 DEF Without
<1>2. CASE s \in Range(q)
  <2> DEFINE k == CHOOSE i \in DOMAIN q : q[i] = s
             w == Without(q, s)
  <2>1. k \in 1 .. Len(q) /\ q[k] = s /\ Len(q) \in Nat /\ DOMAIN q = 1 .. Len(q)
    BY <1>2 DEF Range
  <2>2. w = SubSeq(q, 1, k - 1) \o SubSeq(q, k + 1, Len(q))
    BY <1>2 DEF Without, RemoveAt
  <2> HIDE DEF k, w
  <2>3. /\ SubSeq(q, 1, k - 1) \in Seq(S) /\ Len(SubSeq(q, 1, k - 1)) = k - 1
        /\ \A i \in 1 .. k - 1 : SubSeq(q, 1, k - 1)[i] = q[i]
    BY <2>1
  <2>4. /\ SubSeq(q, k + 1, Len(q)) \in Seq(S) /\ Len(SubSeq(q, k + 1, Len(q))) = Len(q) - k
        /\ \A i \in 1 .. Len(q) - k : SubSeq(q, k + 1, Len(q))[i] = q[k + i]
    <3>1. Len(q) - (k + 1) + 1 = Len(q) - k /\ k + 1 \in Int
      BY <2>1
    <3>2. \A i \in k + 1 .. Len(q) : q[i] \in S
      BY <2>1
    <3>3. /\ SubSeq(q, k + 1, Len(q)) \in Seq(S)
          /\ Len(SubSeq(q, k + 1, Len(q))) = IF k + 1 <= Len(q) THEN Len(q) - (k + 1) + 1 ELSE 0
          /\ \A i \in 1 .. Len(q) - (k + 1) + 1 : SubSeq(q, k + 1, Len(q))[i] = q[(k + 1) + i - 1]
      BY <3>1, <3>2, <2>1, SubSeqProperties
    <3>4. Len(SubSeq(q, k + 1, Len(q))) = Len(q) - k
      <4> DEFINE n == Len(q)
                 f == SubSeq(q, k + 1, n)
      <4> HIDE DEF n, f
      <4>1. n \in Nat /\ k \in 1 .. n /\ Len(f) = IF k + 1 <= n THEN n - (k + 1) + 1 ELSE 0
        BY <3>3, <2>1 DEF n, f
      <4>2. Len(f) = n - k BY <4>1
      <4> QED BY <4>2 DEF n, f
    <3>5. ASSUME NEW i \in 1 .. Len(q) - k PROVE SubSeq(q, k + 1, Len(q))[i] = q[k + i]
      <4>1. (k + 1) + i - 1 = k + i BY <2>1
      <4> QED BY <4>1, <3>1, <3>3
    <3> QED BY <3>3, <3>4, <3>5
  <2>5. /\ w \in Seq(S) /\ Len(w) = Len(q) - 1 /\ DOMAIN w = 1 .. Len(q) - 1
        /\ \A i \in 1 .. Len(q) - 1 : w[i] = IF i < k THEN q[i] ELSE q[i + 1]
    <3> DEFINE u == SubSeq(q, 1, k - 1)
               v == SubSeq(q, k + 1, Len(q))
    <3> HIDE DEF u, v
    <3>1. /\ u \in Seq(S) /\ Len(u) = k - 1 /\ v \in Seq(S) /\ Len(v) = Len(q) - k /\ w = u \o v
          /\ \A i \in 1 .. k - 1 : u[i] = q[i]
          /\ \A i \in 1 .. Len(q) - k : v[i] = q[k + i]
      BY <2>2, <2>3, <2>4 DEF u, v
    <3>2. w \in Seq(S) /\ Len(w) = Len(u) + Len(v)
      <4>1. u \in Seq(S) /\ v \in Seq(S) BY <3>1
      <4>2. u \o v \in Seq(S) /\ Len(u \o v) = Len(u) + Len(v) BY <4>1, ConcatProperties
      <4>3. w = u \o v BY <3>1
      <4> QED BY <4>2, <4>3
    <3>3. Len(w) = Len(q) - 1 /\ DOMAIN w = 1 .. Len(w)
      BY <3>1, <3>2, <2>1
    <3>4. ASSUME NEW i \in 1 .. Len(q) - 1 PROVE w[i] = IF i < k THEN q[i] ELSE q[i + 1]
      <4>1. w[i] = IF i <= Len(u) THEN u[i] ELSE v[i - Len(u)]
        BY <3>1, <3>3, <2>1
      <4>2. CASE i < k BY <4>1, <4>2, <3>1, <2>1
      <4>3. CASE ~(i < k)
        <5>1. i - (k - 1) \in 1 .. Len(q) - k /\ k + (i - (k - 1)) = i + 1 /\ ~(i <= k - 1)
          BY <4>3, <2>1
        <5> QED BY <4>1, <4>3, <5>1, <3>1
      <4> QED BY <4>2, <4>3
    <3> QED BY <3>2, <3>3, <3>4
  <2>6. Range(w) = Range(q) \ {s}
    <3>1. ASSUME NEW i \in 1 .. Len(q), i # k PROVE q[i] \in Range(w)
      <4>1. CASE i < k BY <4>1, <2>1, <2>5 DEF Range
      <4>2. CASE i > k
        <5>1. i - 1 \in 1 .. Len(q) - 1 /\ ~(i - 1 < k) /\ (i - 1) + 1 = i BY <4>2, <2>1
        <5> QED BY <5>1, <2>5 DEF Range
      <4> QED BY <3>1, <4>1, <4>2, <2>1
    <3>2. ASSUME NEW i \in 1 .. Len(q) - 1 PROVE w[i] \in Range(q) /\ w[i] # s
      <4>1. CASE i < k
        <5>1. i \in 1 .. Len(q) /\ i # k /\ w[i] = q[i] BY <4>1, <2>1, <2>5
        <5> QED BY <5>1, <2>1 DEF Range, IsInjective
      <4>2. CASE ~(i < k)
        <5>1. i + 1 \in 1 .. Len(q) /\ i + 1 # k /\ w[i] = q[i + 1] BY <4>2, <2>1, <2>5
        <5> QED BY <5>1, <2>1 DEF Range, IsInjective
      <4> QED BY <4>1, <4>2
    <3> QED BY <3>1, <3>2, <2>1, <2>5 DEF Range
  <2>7. IsInjective(w)
    BY <2>1, <2>5 DEF IsInjective
  <2> QED BY <1>2, <2>5, <2>6, <2>7 DEF w
<1> QED BY <1>1, <1>2

\* One list behind another.
LEMMA ConcatList ==
    ASSUME NEW S, NEW q \in Seq(S), NEW r \in Seq(S)
    PROVE  /\ q \o r \in Seq(S) /\ Range(q \o r) = Range(q) \cup Range(r)
           /\ IsInjective(q) /\ IsInjective(r) /\ Range(q) \cap Range(r) = {} => IsInjective(q \o r)
<1>1. /\ q \o r \in Seq(S) /\ Len(q) \in Nat /\ Len(r) \in Nat
      /\ DOMAIN q = 1 .. Len(q) /\ DOMAIN r = 1 .. Len(r) /\ DOMAIN (q \o r) = 1 .. Len(q) + Len(r)
      /\ \A i \in 1 .. Len(q) + Len(r) : (q \o r)[i] = IF i <= Len(q) THEN q[i] ELSE r[i - Len(q)]
  OBVIOUS
<1> DEFINE w == q \o r
<1> HIDE DEF w
<1>2. ASSUME NEW i \in 1 .. Len(r) PROVE r[i] = w[Len(q) + i] /\ Len(q) + i \in 1 .. Len(q) + Len(r)
  BY <1>1 DEF w
<1>3. ASSUME NEW i \in 1 .. Len(q) PROVE q[i] = w[i] /\ i \in 1 .. Len(q) + Len(r)
  BY <1>1 DEF w
<1>4. ASSUME NEW i \in 1 .. Len(q) + Len(r)
      PROVE  \/ i \in 1 .. Len(q) /\ w[i] = q[i]
             \/ i - Len(q) \in 1 .. Len(r) /\ w[i] = r[i - Len(q)]
  BY <1>1 DEF w
<1>5. Range(w) = Range(q) \cup Range(r)
  BY <1>1, <1>2, <1>3, <1>4 DEF Range, w
<1>6. ASSUME IsInjective(q), IsInjective(r), Range(q) \cap Range(r) = {} PROVE IsInjective(w)
  <2> SUFFICES ASSUME NEW i \in 1 .. Len(q) + Len(r), NEW j \in 1 .. Len(q) + Len(r), w[i] = w[j]
               PROVE  i = j
    BY <1>1 DEF IsInjective, w
  <2>1. \A a \in 1 .. Len(q), b \in 1 .. Len(r) : q[a] # r[b]
    BY <1>1, <1>6 DEF Range
  <2>2. CASE i \in 1 .. Len(q) /\ w[i] = q[i] /\ j \in 1 .. Len(q) /\ w[j] = q[j]
    BY <2>2, <1>6, <1>1 DEF IsInjective
  <2>3. CASE /\ i - Len(q) \in 1 .. Len(r) /\ w[i] = r[i - Len(q)]
             /\ j - Len(q) \in 1 .. Len(r) /\ w[j] = r[j - Len(q)]
    <3>1. i - Len(q) = j - Len(q) BY <2>3, <1>6, <1>1 DEF IsInjective
    <3> QED BY <3>1, <1>1
  <2> QED BY <2>1, <2>2, <2>3, <1>4
<1> QED BY <1>1, <1>5, <1>6 DEF w
-----------------------------------------------------------------------------
(* The bookkeeping of the cache: what each operation keeps *)

\* A block belongs to one layer, and a layer has finitely many blocks.
LEMMA LayerFacts ==
    /\ \A id \in Blocks : /\ LayerOf(id) \in Layers /\ id \in Range(LayerBlocks[LayerOf(id)])
                          /\ \A l \in Layers : id \in Range(LayerBlocks[l]) => l = LayerOf(id)
    /\ \A l \in Layers : /\ Range(LayerBlocks[l]) \subseteq Blocks
                         /\ IsFiniteSet(Range(LayerBlocks[l]))
                         /\ Cardinality(Range(LayerBlocks[l])) \in 0 .. Len(LayerBlocks[l])
<1>1. ASSUME NEW id \in Blocks
      PROVE  /\ LayerOf(id) \in Layers /\ id \in Range(LayerBlocks[LayerOf(id)])
             /\ \A l \in Layers : id \in Range(LayerBlocks[l]) => l = LayerOf(id)
  <2>1. LayerOf(id) \in Layers /\ id \in Range(LayerBlocks[LayerOf(id)])
    BY CacheAssumption DEF CacheAssumption, LayerOf
  <2> QED BY <2>1, CacheAssumption DEF CacheAssumption
<1>2. ASSUME NEW l \in Layers
      PROVE  /\ Range(LayerBlocks[l]) \subseteq Blocks
             /\ IsFiniteSet(Range(LayerBlocks[l]))
             /\ Cardinality(Range(LayerBlocks[l])) \in 0 .. Len(LayerBlocks[l])
  <2> DEFINE q == LayerBlocks[l]
             n == Len(q)
  <2>1. q \in Seq(Blocks) BY CacheAssumption DEF CacheAssumption
  <2>2. n \in Nat /\ DOMAIN q = 1 .. n /\ \A i \in 1 .. n : q[i] \in Blocks BY <2>1
  <2> HIDE DEF q, n
  <2>3. Range(q) \subseteq Blocks BY <2>2 DEF Range
  <2>4. IsFiniteSet(1 .. n) /\ Cardinality(1 .. n) = n
    BY <2>2, FS_Interval, 1 \in Int, n \in Int
  <2>5. q \in Surjection(1 .. n, Range(q))
    <3>1. q \in [1 .. n -> Blocks] BY <2>1 DEF n
    <3>2. q \in [1 .. n -> Range(q)] BY <3>1 DEF Range
    <3>3. \A t \in Range(q) : \E i \in 1 .. n : q[i] = t BY <2>2 DEF Range
    <3> QED BY <3>2, <3>3 DEF Surjection
  <2>6. IsFiniteSet(Range(q)) /\ Cardinality(Range(q)) <= n
    BY <2>4, <2>5, FS_Surjection
  <2> QED BY <2>2, <2>3, <2>6, FS_CardinalityType DEF q, n
<1> QED BY <1>1, <1>2

\* The parts of a cache.
LEMMA CacheFields ==
    ASSUME NEW k \in Caches
    PROVE  /\ k.free \in Seq(Slots) /\ k.prob \in Seq(Slots) /\ k.prot \in Seq(Slots)
           /\ k.occ \in [Slots -> Blocks \cup {NoBlock}]
           /\ k.table \in [Blocks -> 0 .. NumSlots] /\ k.pend \in [Blocks -> 0 .. NumSlots]
           /\ k.count \in [Layers -> Nat] /\ k.rows \in [Layers -> Seq(0 .. NumSlots)]
           /\ InUse(k) \subseteq Slots
<1>1. /\ k.free \in Seq(Slots) /\ k.prob \in Seq(Slots) /\ k.prot \in Seq(Slots)
      /\ k.occ \in [Slots -> Blocks \cup {NoBlock}]
      /\ k.table \in [Blocks -> 0 .. NumSlots] /\ k.pend \in [Blocks -> 0 .. NumSlots]
      /\ k.count \in [Layers -> Nat] /\ k.rows \in [Layers -> Seq(0 .. NumSlots)]
  BY DEF Caches
<1>2. \A q \in Seq(Slots) : Range(q) \subseteq Slots
  BY DEF Range
<1>3. Pending(k) \subseteq Slots
  BY <1>1, CacheAssumption DEF Pending, Slots, CacheAssumption
<1> QED BY <1>1, <1>2, <1>3 DEF InUse, Queued

\* Reordering the SLRU lists: the slots in them stay the same.
LEMMA Relisted ==
    ASSUME NEW k, Accounted(k), NEW h \in Caches,
           h.free = k.free, h.occ = k.occ, h.table = k.table, h.pend = k.pend,
           h.count = k.count, h.rows = k.rows,
           IsInjective(h.prob), IsInjective(h.prot), Range(h.prob) \cap Range(h.prot) = {},
           Range(h.prob) \cup Range(h.prot) = Queued(k), Len(h.prot) <= ProtectedCap
    PROVE  Accounted(h) /\ InUse(h) = InUse(k)
<1>3. Queued(h) = Queued(k) /\ Pending(h) = Pending(k)
  BY DEF Queued, Pending
<1>4. Lists(h)
  BY <1>3 DEF Accounted, Lists
<1>5. Occupied(h)
  BY <1>3 DEF Accounted, Occupied
<1>6. Layered(h)
  <2>1. \A l \in Layers : ResidentOf(h, l) = ResidentOf(k, l)
    BY DEF ResidentOf
  <2> QED BY <2>1 DEF Accounted, Layered
<1>7. InUse(h) = InUse(k)
  BY <1>3 DEF InUse
<1> QED BY <1>4, <1>5, <1>6, <1>7 DEF Accounted

\* on_hit: only the order of the lists changes.
LEMMA HitKeeps ==
    ASSUME NEW k, Accounted(k), NEW s \in Queued(k)
    PROVE  /\ Accounted(on_hit(k, s)) /\ InUse(on_hit(k, s)) = InUse(k)
           /\ on_hit(k, s).table = k.table /\ on_hit(k, s).pend = k.pend
<1> DEFINE h == on_hit(k, s)
<1>1. /\ k \in Caches /\ k.prob \in Seq(Slots) /\ k.prot \in Seq(Slots)
      /\ k = [k EXCEPT !.prob = k.prob, !.prot = k.prot] /\ s \in Slots
  BY CacheFields DEF Accounted, Caches, InUse
<1>2. /\ IsInjective(k.prob) /\ IsInjective(k.prot) /\ Range(k.prob) \cap Range(k.prot) = {}
      /\ Len(k.prot) <= ProtectedCap /\ Range(k.prob) \cup Range(k.prot) = Queued(k)
  BY DEF Accounted, Lists, Queued
<1>3. CASE k.free # <<>>
  BY <1>3 DEF on_hit
<1>4. CASE k.free = <<>> /\ s \in Range(k.prot)
  <2> DEFINE w == Without(k.prot, s)
             t == Append(w, s)
  <2>1. /\ w \in Seq(Slots) /\ Range(w) = Range(k.prot) \ {s} /\ IsInjective(w)
        /\ Len(w) = Len(k.prot) - 1
    BY <1>1, <1>2, <1>4, WithoutList
  <2> HIDE DEF w
  <2>2. t \in Seq(Slots) /\ Len(t) = Len(w) + 1 /\ Range(t) = Range(w) \cup {s} /\ IsInjective(t)
    BY <1>1, <2>1, AppendList
  <2>3. /\ h \in Caches /\ h.free = k.free /\ h.prob = k.prob /\ h.prot = t /\ h.occ = k.occ
        /\ h.table = k.table /\ h.pend = k.pend /\ h.count = k.count /\ h.rows = k.rows
    <3>1. h = [k EXCEPT !.prot = t] BY <1>4, <1>1 DEF on_hit, w
    <3> HIDE DEF h, t
    <3> QED BY <3>1, <1>1, <2>2 DEF Caches
  <2> HIDE DEF t, h
  <2>4. Len(k.prot) \in Nat /\ Len(t) = Len(k.prot) BY <1>1, <2>1, <2>2
  <2>5. Range(t) = Range(k.prot) BY <2>1, <2>2, <1>4
  <2>6. Len(t) <= ProtectedCap /\ Range(k.prob) \cup Range(t) = Queued(k) /\ Range(k.prob) \cap Range(t) = {}
    BY <2>4, <2>5, <1>2
  <2>7. Accounted(h) /\ InUse(h) = InUse(k) /\ h.table = k.table /\ h.pend = k.pend
    BY <1>1, <1>2, <2>2, <2>3, <2>6, Relisted
  <2> QED BY <2>7 DEF h
<1>5. CASE k.free = <<>> /\ s \notin Range(k.prot)
  <2> DEFINE w == Without(k.prob, s)
             q == Append(k.prot, s)
  <2>0. s \in Range(k.prob) BY <1>2, <1>5
  <2>1. w \in Seq(Slots) /\ Range(w) = Range(k.prob) \ {s} /\ IsInjective(w)
    BY <1>1, <1>2, WithoutList
  <2>2. /\ q \in Seq(Slots) /\ Len(q) = Len(k.prot) + 1 /\ Range(q) = Range(k.prot) \cup {s}
        /\ IsInjective(q)
    BY <1>1, <1>2, <1>5, AppendList
  <2>3. h = push_protected([k EXCEPT !.prob = w], s) /\ [k EXCEPT !.prob = w].prot = k.prot
    BY <1>5, <1>1 DEF on_hit, Caches
  <2>4. CASE Len(q) > ProtectedCap
    <3> DEFINE t == Tail(q)
               p == Append(w, Head(q))
    <3>2. q # <<>> /\ Len(k.prot) \in Nat BY <2>2, <1>1
    <3>3. /\ t \in Seq(Slots) /\ Len(t) = Len(q) - 1 /\ Head(q) \in Slots
          /\ Range(q) = Range(t) \cup {Head(q)} /\ IsInjective(t) /\ Head(q) \notin Range(t)
      BY <2>2, <3>2, Ends, TailList
    <3>4. Head(q) \notin Range(w)
      BY <3>3, <2>1, <2>2, <1>2
    <3>5. p \in Seq(Slots) /\ Range(p) = Range(w) \cup {Head(q)} /\ IsInjective(p)
      BY <2>1, <3>3, <3>4, AppendList
    <3>6. Len(t) <= ProtectedCap
      BY <3>2, <3>3, <2>2, <1>2
    <3>7. Range(p) \cap Range(t) = {} /\ Range(p) \cup Range(t) = Queued(k)
      BY <3>3, <3>5, <2>0, <2>1, <2>2, <1>2
    <3>1. /\ h \in Caches /\ h.free = k.free /\ h.prob = p /\ h.prot = t /\ h.occ = k.occ
          /\ h.table = k.table /\ h.pend = k.pend /\ h.count = k.count /\ h.rows = k.rows
      <4>1. [k EXCEPT !.prob = w].prob = w BY <1>1 DEF Caches
      <4>2. h = [[k EXCEPT !.prob = w] EXCEPT !.prot = t, !.prob = p]
        BY <2>3, <2>4, <4>1 DEF push_protected
      <4> HIDE DEF h, p, t, w
      <4> QED BY <4>2, <1>1, <3>3, <3>5 DEF Caches
    <3> HIDE DEF p, t, h, q, w
    <3>8. Accounted(h) /\ InUse(h) = InUse(k) /\ h.table = k.table /\ h.pend = k.pend
      BY <3>1, <3>3, <3>5, <3>6, <3>7, Relisted
    <3> QED BY <3>8 DEF h
  <2>5. CASE ~(Len(q) > ProtectedCap)
    <3>1. /\ h \in Caches /\ h.free = k.free /\ h.prob = w /\ h.prot = q /\ h.occ = k.occ
          /\ h.table = k.table /\ h.pend = k.pend /\ h.count = k.count /\ h.rows = k.rows
      <4>1. h = [[k EXCEPT !.prob = w] EXCEPT !.prot = q]
        BY <2>3, <2>5 DEF push_protected
      <4> HIDE DEF h, q, w
      <4> QED BY <4>1, <1>1, <2>1, <2>2 DEF Caches
    <3>2. Len(q) <= ProtectedCap
      BY <2>5, <2>2, <1>1, CacheAssumption DEF CacheAssumption
    <3>3. Range(w) \cap Range(q) = {} /\ Range(w) \cup Range(q) = Queued(k)
      BY <2>0, <2>1, <2>2, <1>2
    <3> HIDE DEF h, q, w
    <3>4. Accounted(h) /\ InUse(h) = InUse(k) /\ h.table = k.table /\ h.pend = k.pend
      BY <3>1, <3>2, <3>3, <2>1, <2>2, Relisted
    <3> QED BY <3>4 DEF h
  <2> QED BY <2>4, <2>5
<1> QED BY <1>3, <1>4, <1>5

\* The counts and rows depend on the table only.
LEMMA SameTable ==
    ASSUME NEW k, Layered(k), NEW h, h.table = k.table, h.count = k.count, h.rows = k.rows
    PROVE  Layered(h)
<1>1. \A l \in Layers : ResidentOf(h, l) = ResidentOf(k, l)
  BY DEF ResidentOf
<1> QED BY <1>1 DEF Layered

\* A slot nobody uses has no block, resident or pending.
LEMMA OutOfUse ==
    ASSUME NEW k, Accounted(k), NEW s \in Slots, s \notin InUse(k), NEW id \in Blocks
    PROVE  k.table[id] # s /\ k.pend[id] # s
<1>1. s # 0 BY CacheAssumption DEF Slots, CacheAssumption
<1>2. k.table[id] # s BY <1>1 DEF Accounted, Occupied, InUse
<1>3. k.pend[id] # s BY <1>1 DEF InUse, Pending
<1> QED BY <1>2, <1>3

\* release_reserved_slot.
LEMMA ReleaseKeeps ==
    ASSUME NEW k, Accounted(k), NEW s \in Slots, s \notin InUse(k),
           NEW h, h = release_reserved_slot(k, s)
    PROVE  /\ Accounted(h) /\ InUse(h) = InUse(k) \cup {s}
           /\ h.table = k.table /\ h.pend = k.pend
<1>1. k \in Caches /\ k.free \in Seq(Slots) BY CacheFields DEF Accounted
<1> DEFINE f == Append(k.free, s)
<1>2. /\ f \in Seq(Slots) /\ Range(f) = Range(k.free) \cup {s}
      /\ IsInjective(k.free) /\ s \notin Range(k.free) => IsInjective(f)
  BY <1>1, AppendList
<1> HIDE DEF f
<1>3. /\ h \in Caches /\ h.free = f /\ h.prob = k.prob /\ h.prot = k.prot /\ h.occ = k.occ
      /\ h.table = k.table /\ h.pend = k.pend /\ h.count = k.count /\ h.rows = k.rows
  BY <1>1, <1>2 DEF release_reserved_slot, Caches, f
<1>4. Queued(h) = Queued(k) /\ Pending(h) = Pending(k)
  BY <1>3 DEF Queued, Pending
<1>5. Lists(h)
  BY <1>2, <1>3, <1>4 DEF Accounted, Lists, InUse
<1>6. Occupied(h)
  BY <1>3, <1>4 DEF Accounted, Occupied
<1>7. Layered(h)
  BY <1>3, SameTable DEF Accounted
<1>8. InUse(h) = InUse(k) \cup {s}
  BY <1>2, <1>3, <1>4 DEF InUse
<1> QED BY <1>3, <1>5, <1>6, <1>7, <1>8 DEF Accounted

\* Admission into a slot nobody uses: publish.
LEMMA PublishKeeps ==
    ASSUME NEW k, Accounted(k), NEW s \in Slots, s \notin InUse(k),
           NEW id \in Blocks, k.table[id] = 0,
           NEW h, h = publish(k, id, s)
    PROVE  /\ Accounted(h) /\ InUse(h) = InUse(k) \cup {s}
           /\ h.table = [k.table EXCEPT ![id] = s] /\ h.pend = k.pend
<1>0. s # 0 /\ s \in 0 .. NumSlots BY CacheAssumption DEF Slots, CacheAssumption
<1>1. /\ k \in Caches /\ k.prob \in Seq(Slots) /\ k.table \in [Blocks -> 0 .. NumSlots]
      /\ k.pend \in [Blocks -> 0 .. NumSlots] /\ k.occ \in [Slots -> Blocks \cup {NoBlock}]
      /\ k.count \in [Layers -> Nat]
  BY CacheFields DEF Accounted
<1>2. LayerOf(id) \in Layers BY LayerFacts
<1> DEFINE p == Append(k.prob, s)
           o == [k.occ EXCEPT ![s] = id]
           t == [k.table EXCEPT ![id] = s]
           n == [k.count EXCEPT ![LayerOf(id)] = @ + 1]
<1>3. /\ p \in Seq(Slots) /\ Range(p) = Range(k.prob) \cup {s}
      /\ IsInjective(k.prob) /\ s \notin Range(k.prob) => IsInjective(p)
  BY <1>1, AppendList
<1>4. /\ o \in [Slots -> Blocks \cup {NoBlock}] /\ t \in [Blocks -> 0 .. NumSlots]
      /\ n \in [Layers -> Nat]
  BY <1>0, <1>1, <1>2
<1>5. h = [k EXCEPT !.occ = o, !.table = t, !.prob = p, !.count = n]
  BY DEF publish
<1> HIDE DEF p, o, t, n
<1>6. /\ h \in Caches /\ h.free = k.free /\ h.prob = p /\ h.prot = k.prot /\ h.occ = o
      /\ h.table = t /\ h.pend = k.pend /\ h.count = n /\ h.rows = k.rows
  BY <1>1, <1>3, <1>4, <1>5 DEF Caches
<1>7. Queued(h) = Queued(k) \cup {s} /\ Pending(h) = Pending(k)
  BY <1>3, <1>6 DEF Queued, Pending
<1>8. Lists(h)
  <2>1. s \notin Range(k.free) /\ s \notin Range(k.prob) /\ s \notin Range(k.prot) /\ s \notin Pending(k)
    BY DEF InUse, Queued
  <2> QED BY <2>1, <1>3, <1>6, <1>7 DEF Accounted, Lists, Queued
<1>9. \A x \in Blocks : k.table[x] # s /\ k.pend[x] # s
  BY OutOfUse
<1>10. Occupied(h)
  <2>1. /\ \A x \in Slots : x # s => o[x] = k.occ[x]
        /\ o[s] = id /\ t[id] = s
        /\ \A x \in Blocks : x # id => t[x] = k.table[x]
    BY <1>1 DEF o, t
  <2>2. Queued(k) \subseteq Slots BY <1>1, CacheFields DEF InUse
  <2>3. \A x \in Blocks : t[x] # 0 => t[x] \in Queued(h) /\ o[t[x]] = x
    BY <2>1, <2>2, <1>7, <1>9 DEF Accounted, Occupied
  <2>4. \A x \in Queued(h) : o[x] \in Blocks /\ t[o[x]] = x
    <3>1. ASSUME NEW x \in Queued(k), x # s PROVE o[x] \in Blocks /\ t[o[x]] = x
      <4>1. o[x] = k.occ[x] /\ k.occ[x] \in Blocks /\ k.table[k.occ[x]] = x
        BY <3>1, <2>1, <2>2 DEF Accounted, Occupied
      <4>2. x # 0 BY <2>2, CacheAssumption DEF Slots, CacheAssumption
      <4> QED BY <4>1, <4>2, <2>1
    <3> QED BY <3>1, <2>1, <1>7
  <2>5. \A x \in Blocks : k.pend[x] # 0 => o[k.pend[x]] = x
    <3> SUFFICES ASSUME NEW x \in Blocks, k.pend[x] # 0 PROVE o[k.pend[x]] = x
      OBVIOUS
    <3>1. k.pend[x] \in Slots BY <1>1, CacheAssumption DEF Slots, CacheAssumption
    <3> QED BY <3>1, <2>1, <1>9 DEF Accounted, Occupied
  <2> QED BY <2>3, <2>4, <2>5, <1>6 DEF Occupied
<1>11. Layered(h)
  <2> SUFFICES ASSUME NEW l \in Layers
               PROVE  /\ n[l] = Cardinality(ResidentOf(h, l))
                      /\ k.rows[l] # <<>> =>
                            /\ k.rows[l] = [i \in DOMAIN LayerBlocks[l] |-> t[LayerBlocks[l][i]]]
                            /\ ResidentOf(h, l) = Range(LayerBlocks[l])
    BY <1>6 DEF Layered
  <2>0. /\ Range(LayerBlocks[l]) \subseteq Blocks /\ IsFiniteSet(Range(LayerBlocks[l]))
        /\ ResidentOf(k, l) \subseteq Range(LayerBlocks[l])
    BY LayerFacts DEF ResidentOf
  <2>1. IsFiniteSet(ResidentOf(k, l)) /\ k.count[l] = Cardinality(ResidentOf(k, l))
    BY <2>0, FS_Subset DEF Accounted, Layered
  <2>2. CASE l = LayerOf(id)
    <3>1. ResidentOf(h, l) = ResidentOf(k, l) \cup {id} /\ id \notin ResidentOf(k, l)
      BY <2>0, <2>2, <1>0, <1>1, <1>6, LayerFacts DEF ResidentOf, t
    <3>2. Cardinality(ResidentOf(h, l)) = Cardinality(ResidentOf(k, l)) + 1
      BY <3>1, <2>1, FS_AddElement
    <3>3. n[l] = k.count[l] + 1 BY <2>2, <1>1 DEF n
    <3>4. k.rows[l] = <<>>
      BY <3>1, <2>2, LayerFacts DEF Accounted, Layered
    <3> QED BY <3>2, <3>3, <3>4, <2>1
  <2>3. CASE l # LayerOf(id)
    <3>1. id \notin Range(LayerBlocks[l]) BY <2>3, LayerFacts
    <3>2. \A x \in Range(LayerBlocks[l]) : t[x] = k.table[x] BY <3>1, <2>0, <1>1 DEF t
    <3>3. ResidentOf(h, l) = ResidentOf(k, l) BY <3>2, <1>6 DEF ResidentOf
    <3>4. n[l] = k.count[l] BY <2>3, <1>1 DEF n
    <3>5. [i \in DOMAIN LayerBlocks[l] |-> t[LayerBlocks[l][i]]]
             = [i \in DOMAIN LayerBlocks[l] |-> k.table[LayerBlocks[l][i]]]
      BY <3>2 DEF Range
    <3> QED BY <3>3, <3>4, <3>5 DEF Accounted, Layered
  <2> QED BY <2>2, <2>3
<1>12. InUse(h) = InUse(k) \cup {s}
  BY <1>6, <1>7 DEF InUse
<1> QED BY <1>6, <1>8, <1>10, <1>11, <1>12 DEF Accounted, t

\* A copy queued into a slot nobody uses: the block is pending.
LEMMA PendKeeps ==
    ASSUME NEW k, Accounted(k), NEW s \in Slots, s \notin InUse(k),
           NEW id \in Blocks, k.pend[id] = 0,
           NEW h, h = Pend(k, id, s)
    PROVE  /\ Accounted(h) /\ InUse(h) = InUse(k) \cup {s}
           /\ h.table = k.table /\ h.pend = [k.pend EXCEPT ![id] = s]
<1>0. s # 0 /\ s \in 0 .. NumSlots BY CacheAssumption DEF Slots, CacheAssumption
<1>1. /\ k \in Caches /\ k.table \in [Blocks -> 0 .. NumSlots]
      /\ k.pend \in [Blocks -> 0 .. NumSlots] /\ k.occ \in [Slots -> Blocks \cup {NoBlock}]
  BY CacheFields DEF Accounted
<1> DEFINE o == [k.occ EXCEPT ![s] = id]
           t == [k.pend EXCEPT ![id] = s]
<1>2. o \in [Slots -> Blocks \cup {NoBlock}] /\ t \in [Blocks -> 0 .. NumSlots]
  BY <1>0, <1>1
<1>3. h = [k EXCEPT !.occ = o, !.pend = t]
  BY DEF Pend
<1>4. /\ \A x \in Slots : x # s => o[x] = k.occ[x]
      /\ o[s] = id /\ t[id] = s
      /\ \A x \in Blocks : x # id => t[x] = k.pend[x]
  BY <1>1
<1> HIDE DEF o, t
<1>5. /\ h \in Caches /\ h.free = k.free /\ h.prob = k.prob /\ h.prot = k.prot /\ h.occ = o
      /\ h.table = k.table /\ h.pend = t /\ h.count = k.count /\ h.rows = k.rows
  BY <1>1, <1>2, <1>3 DEF Caches
<1>6. Queued(h) = Queued(k)
  BY <1>5 DEF Queued
<1>7. Pending(h) = Pending(k) \cup {s}
  BY <1>0, <1>4, <1>5 DEF Pending
<1>8. Lists(h)
  <2>1. s \notin Range(k.free) /\ s \notin Queued(k) BY DEF InUse
  <2> QED BY <2>1, <1>5, <1>6, <1>7 DEF Accounted, Lists
<1>9. \A x \in Blocks : k.table[x] # s /\ k.pend[x] # s
  BY OutOfUse
<1>10. Occupied(h)
  <2>1. Queued(k) \subseteq Slots /\ s \notin Queued(k) BY <1>1, CacheFields DEF InUse
  <2>2. \A x \in Blocks : k.table[x] # 0 => k.table[x] \in Queued(h) /\ o[k.table[x]] = x
    BY <2>1, <1>4, <1>6, <1>9 DEF Accounted, Occupied
  <2>3. \A x \in Queued(h) : o[x] \in Blocks /\ k.table[o[x]] = x
    BY <2>1, <1>4, <1>6 DEF Accounted, Occupied
  <2>4. \A x \in Blocks : t[x] # 0 => o[t[x]] = x
    <3> SUFFICES ASSUME NEW x \in Blocks, x # id, k.pend[x] # 0 PROVE o[k.pend[x]] = x
      BY <1>4
    <3>1. k.pend[x] \in Slots BY <1>1, CacheAssumption DEF Slots, CacheAssumption
    <3> QED BY <3>1, <1>4, <1>9 DEF Accounted, Occupied
  <2> QED BY <2>2, <2>3, <2>4, <1>5 DEF Occupied
<1>11. Layered(h)
  BY <1>5, SameTable DEF Accounted
<1>12. InUse(h) = InUse(k) \cup {s}
  BY <1>5, <1>6, <1>7 DEF InUse
<1> QED BY <1>5, <1>8, <1>10, <1>11, <1>12 DEF Accounted, t

\* take_pending: the slot leaves the pending ones.
LEMMA UnpendKeeps ==
    ASSUME NEW k, Accounted(k), NEW id \in Blocks, k.pend[id] # 0
    PROVE  LET s == k.pend[id]
               h == [k EXCEPT !.pend[id] = 0] IN
           /\ Accounted(h) /\ InUse(k) = InUse(h) \cup {s} /\ s \in Slots /\ s \notin InUse(h)
           /\ h.table = k.table /\ h.pend = [k.pend EXCEPT ![id] = 0]
<1> DEFINE s == k.pend[id]
<1>1. k \in Caches /\ k.pend \in [Blocks -> 0 .. NumSlots]
  BY CacheFields DEF Accounted
<1>2. s \in Slots BY <1>1, CacheAssumption DEF Slots, CacheAssumption
<1> DEFINE t == [k.pend EXCEPT ![id] = 0]
           h == [k EXCEPT !.pend[id] = 0]
<1>3. t \in [Blocks -> 0 .. NumSlots] BY <1>1, CacheAssumption DEF CacheAssumption
<1>4. t[id] = 0 /\ \A x \in Blocks : x # id => t[x] = k.pend[x]
  BY <1>1
<1>5. h = [k EXCEPT !.pend = t] BY DEF t
<1> HIDE DEF t, h, s
<1>6. /\ h \in Caches /\ h.free = k.free /\ h.prob = k.prob /\ h.prot = k.prot /\ h.occ = k.occ
      /\ h.table = k.table /\ h.pend = t /\ h.count = k.count /\ h.rows = k.rows
  BY <1>1, <1>3, <1>5 DEF Caches
<1>7. Queued(h) = Queued(k)
  BY <1>6 DEF Queued
<1>8. s = k.pend[id] /\ s # 0 /\ \A x \in Blocks : x # id => k.pend[x] # s
  BY DEF Accounted, Occupied, s
<1>9. Pending(h) = Pending(k) \ {s}
  <2>1. ASSUME NEW x \in Blocks, t[x] # 0 PROVE t[x] \in Pending(k) \ {s}
    BY <2>1, <1>4, <1>8 DEF Pending
  <2>2. ASSUME NEW x \in Blocks, k.pend[x] # 0, k.pend[x] # s PROVE k.pend[x] \in {t[y] : y \in Blocks} \ {0}
    <3>1. t[x] = k.pend[x] BY <2>2, <1>4, <1>8
    <3> QED BY <2>2, <3>1
  <2>3. Pending(h) = {t[y] : y \in Blocks} \ {0} BY <1>6 DEF Pending
  <2> QED BY <2>1, <2>2, <2>3 DEF Pending
<1>10. Lists(h)
  BY <1>6, <1>7, <1>9 DEF Accounted, Lists
<1>11. Occupied(h)
  BY <1>4, <1>6, <1>7 DEF Accounted, Occupied
<1>12. Layered(h)
  BY <1>6, SameTable DEF Accounted
<1>13. s \in Pending(k) BY <1>8 DEF Pending
<1>14. InUse(k) = InUse(h) \cup {s} /\ s \notin InUse(h)
  <2>1. s \notin Range(k.free) /\ s \notin Queued(k) BY <1>13 DEF Accounted, Lists
  <2> QED BY <2>1, <1>6, <1>7, <1>9, <1>13 DEF InUse
<1> QED BY <1>2, <1>6, <1>10, <1>11, <1>12, <1>14 DEF Accounted, t, h, s

\* A resident block leaves: its counts, its row and its table entry with it.
LEMMA EvictKeeps ==
    ASSUME NEW k, Accounted(k), NEW s \in Queued(k), NEW h, h = evict(k, s)
    PROVE  /\ Accounted(h) /\ InUse(k) = InUse(h) \cup {s} /\ s \in Slots /\ s \notin InUse(h)
           /\ h.pend = k.pend /\ k.occ[s] \in Blocks /\ k.table[k.occ[s]] = s
           /\ h.table = [k.table EXCEPT ![k.occ[s]] = 0]
<1> DEFINE id == k.occ[s]
<1>1. /\ k \in Caches /\ k.prob \in Seq(Slots) /\ k.prot \in Seq(Slots)
      /\ k.table \in [Blocks -> 0 .. NumSlots] /\ k.rows \in [Layers -> Seq(0 .. NumSlots)]
      /\ k.pend \in [Blocks -> 0 .. NumSlots] /\ k.occ \in [Slots -> Blocks \cup {NoBlock}]
      /\ k.count \in [Layers -> Nat] /\ Queued(k) \subseteq Slots
  BY CacheFields DEF Accounted, InUse
<1>2. s \in Slots /\ s # 0 /\ id \in Blocks /\ k.table[id] = s
  BY <1>1, CacheAssumption DEF Accounted, Occupied, Slots, CacheAssumption
<1>3. LayerOf(id) \in Layers /\ id \in Range(LayerBlocks[LayerOf(id)]) BY <1>2, LayerFacts
<1>4. k.count[LayerOf(id)] \in Nat \ {0}
  <2>1. id \in ResidentOf(k, LayerOf(id)) BY <1>2, <1>3 DEF ResidentOf
  <2>2. IsFiniteSet(ResidentOf(k, LayerOf(id)))
    BY <1>3, LayerFacts, FS_Subset, ResidentOf(k, LayerOf(id)) \subseteq Range(LayerBlocks[LayerOf(id)])
       DEF ResidentOf
  <2>3. Cardinality(ResidentOf(k, LayerOf(id))) # 0 BY <2>1, <2>2, FS_EmptySet
  <2> QED BY <2>3, <1>1, <1>3 DEF Accounted, Layered
<1> DEFINE p == Without(k.prob, s)
           q == Without(k.prot, s)
           o == [k.occ EXCEPT ![s] = NoBlock]
           t == [k.table EXCEPT ![id] = 0]
           n == [k.count EXCEPT ![LayerOf(id)] = @ - 1]
           w == [k.rows EXCEPT ![LayerOf(id)] = <<>>]
<1>5. /\ p \in Seq(Slots) /\ Range(p) = Range(k.prob) \ {s} /\ IsInjective(p)
      /\ q \in Seq(Slots) /\ Range(q) = Range(k.prot) \ {s} /\ IsInjective(q)
      /\ Len(q) <= ProtectedCap
  <2>1. IsInjective(k.prob) /\ IsInjective(k.prot) /\ Len(k.prot) <= ProtectedCap
    BY DEF Accounted, Lists
  <2>2. /\ p \in Seq(Slots) /\ Range(p) = Range(k.prob) \ {s} /\ IsInjective(p)
        /\ q \in Seq(Slots) /\ Range(q) = Range(k.prot) \ {s} /\ IsInjective(q)
        /\ Len(q) = IF s \in Range(k.prot) THEN Len(k.prot) - 1 ELSE Len(k.prot)
    BY <2>1, <1>1, WithoutList
  <2> HIDE DEF p, q
  <2>3. Len(k.prot) \in Nat /\ (Len(q) = Len(k.prot) \/ Len(q) = Len(k.prot) - 1)
    BY <2>2, <1>1
  <2>4. Len(q) <= ProtectedCap
    BY <2>1, <2>3, CacheAssumption DEF CacheAssumption
  <2> QED BY <2>2, <2>4
<1>6. /\ o \in [Slots -> Blocks \cup {NoBlock}] /\ t \in [Blocks -> 0 .. NumSlots]
      /\ n \in [Layers -> Nat] /\ w \in [Layers -> Seq(0 .. NumSlots)]
  <2>1. o \in [Slots -> Blocks \cup {NoBlock}] BY <1>1
  <2> HIDE DEF id
  <2>2. t \in [Blocks -> 0 .. NumSlots]
    <3>1. 0 \in 0 .. NumSlots BY CacheAssumption DEF CacheAssumption
    <3> QED BY <3>1, <1>1
  <2>3. n \in [Layers -> Nat]
    <3>1. k.count[LayerOf(id)] - 1 \in Nat BY <1>4
    <3> QED BY <3>1, <1>1
  <2>4. <<>> \in Seq(0 .. NumSlots) OBVIOUS
  <2>5. w \in [Layers -> Seq(0 .. NumSlots)]
    <3> DEFINE X == Seq(0 .. NumSlots)
    <3> HIDE DEF X
    <3>1. k.rows \in [Layers -> X] /\ <<>> \in X BY <1>1, <2>4 DEF X
    <3>2. w \in [Layers -> X] BY <3>1
    <3> QED BY <3>2 DEF X
  <2> QED BY <2>1, <2>2, <2>3, <2>5
<1>7. /\ \A x \in Slots : x # s => o[x] = k.occ[x]
      /\ t[id] = 0 /\ \A x \in Blocks : x # id => t[x] = k.table[x]
      /\ \A l \in Layers : n[l] = IF l = LayerOf(id) THEN k.count[l] - 1 ELSE k.count[l]
      /\ \A l \in Layers : w[l] = IF l = LayerOf(id) THEN <<>> ELSE k.rows[l]
  BY <1>1, <1>2, <1>3
<1>8. h = [k EXCEPT !.prob = p, !.prot = q, !.occ = o, !.table = t, !.count = n, !.rows = w]
  BY DEF evict
<1> HIDE DEF p, q, o, t, n, w
<1>9. /\ h \in Caches /\ h.free = k.free /\ h.prob = p /\ h.prot = q /\ h.occ = o
      /\ h.table = t /\ h.pend = k.pend /\ h.count = n /\ h.rows = w
  BY <1>1, <1>5, <1>6, <1>8 DEF Caches
<1> HIDE DEF id
<1>10. Queued(h) = Queued(k) \ {s} /\ Pending(h) = Pending(k)
  BY <1>5, <1>9 DEF Queued, Pending
<1>11. Lists(h)
  BY <1>5, <1>9, <1>10 DEF Accounted, Lists, Queued
<1>12. Occupied(h)
  <2>1. ASSUME NEW x \in Blocks, t[x] # 0 PROVE t[x] \in Queued(h) /\ o[t[x]] = x
    <3>1. x # id /\ t[x] = k.table[x] BY <2>1, <1>7
    <3>2. k.table[x] \in Queued(k) /\ k.occ[k.table[x]] = x BY <2>1, <3>1 DEF Accounted, Occupied
    <3>3. k.table[x] # s BY <3>1, <3>2 DEF id
    <3> QED BY <3>1, <3>2, <3>3, <1>1, <1>7, <1>10
  <2>2. ASSUME NEW x \in Queued(h) PROVE o[x] \in Blocks /\ t[o[x]] = x
    <3>1. x \in Queued(k) /\ x # s /\ x \in Slots BY <1>1, <1>10
    <3>2. k.occ[x] \in Blocks /\ k.table[k.occ[x]] = x BY <3>1 DEF Accounted, Occupied
    <3>3. k.occ[x] # id BY <3>1, <3>2, <1>2
    <3> QED BY <3>1, <3>2, <3>3, <1>7
  <2>3. ASSUME NEW x \in Blocks, k.pend[x] # 0 PROVE o[k.pend[x]] = x
    <3>1. k.pend[x] \in Slots /\ k.pend[x] \in Pending(k)
      BY <2>3, <1>1, CacheAssumption DEF Slots, CacheAssumption, Pending
    <3>2. k.pend[x] # s BY <3>1 DEF Accounted, Lists
    <3> QED BY <3>1, <3>2, <2>3, <1>7 DEF Accounted, Occupied
  <2> QED BY <2>1, <2>2, <2>3, <1>9 DEF Occupied
<1>13. Layered(h)
  <2> SUFFICES ASSUME NEW l \in Layers
               PROVE  /\ n[l] = Cardinality(ResidentOf(h, l))
                      /\ w[l] # <<>> =>
                            /\ w[l] = [i \in DOMAIN LayerBlocks[l] |-> t[LayerBlocks[l][i]]]
                            /\ ResidentOf(h, l) = Range(LayerBlocks[l])
    BY <1>9 DEF Layered
  <2>0. /\ Range(LayerBlocks[l]) \subseteq Blocks /\ IsFiniteSet(Range(LayerBlocks[l]))
        /\ ResidentOf(k, l) \subseteq Range(LayerBlocks[l])
    BY LayerFacts DEF ResidentOf
  <2>1. IsFiniteSet(ResidentOf(k, l)) /\ k.count[l] = Cardinality(ResidentOf(k, l))
    BY <2>0, FS_Subset DEF Accounted, Layered
  <2>2. CASE l = LayerOf(id)
    <3>1. ResidentOf(h, l) = ResidentOf(k, l) \ {id} /\ id \in ResidentOf(k, l)
      BY <2>0, <2>2, <1>2, <1>3, <1>7, <1>9 DEF ResidentOf
    <3>2. Cardinality(ResidentOf(h, l)) = Cardinality(ResidentOf(k, l)) - 1
      BY <3>1, <2>1, FS_RemoveElement
    <3> QED BY <3>2, <2>1, <2>2, <1>7
  <2>3. CASE l # LayerOf(id)
    <3>1. id \notin Range(LayerBlocks[l]) BY <2>3, <1>2, LayerFacts
    <3>2. \A x \in Range(LayerBlocks[l]) : t[x] = k.table[x] BY <3>1, <2>0, <1>7
    <3>3. ResidentOf(h, l) = ResidentOf(k, l) BY <3>2, <1>9 DEF ResidentOf
    <3>4. n[l] = k.count[l] /\ w[l] = k.rows[l] BY <2>3, <1>7
    <3>5. [i \in DOMAIN LayerBlocks[l] |-> t[LayerBlocks[l][i]]]
             = [i \in DOMAIN LayerBlocks[l] |-> k.table[LayerBlocks[l][i]]]
      BY <3>2 DEF Range
    <3> QED BY <3>3, <3>4, <3>5 DEF Accounted, Layered
  <2> QED BY <2>2, <2>3
<1>14. InUse(k) = InUse(h) \cup {s} /\ s \notin InUse(h)
  <2>1. s \notin Range(k.free) /\ s \notin Pending(k) BY DEF Accounted, Lists
  <2> QED BY <2>1, <1>9, <1>10 DEF InUse
<1> QED BY <1>2, <1>9, <1>11, <1>12, <1>13, <1>14 DEF Accounted, t, id

\* reserve_slot and reserve_prefetch_slot: a slot nobody uses, at the price of
\* at most one resident block.
LEMMA ReserveKeeps ==
    ASSUME NEW k, Accounted(k), NEW keep, NEW r \in reserve(k, keep)
    PROVE  /\ Accounted(r.cache) /\ r.slot \in Slots /\ r.slot \notin InUse(r.cache)
           /\ InUse(k) = InUse(r.cache) \cup {r.slot}
           /\ r.cache.pend = k.pend
           /\ \A id \in Blocks : r.cache.table[id] \in {0, k.table[id]}
           /\ \A id \in Blocks : k.pend[id] # r.slot
<1>0. /\ k \in Caches /\ k.free \in Seq(Slots) /\ k.prob \in Seq(Slots) /\ k.prot \in Seq(Slots)
      /\ k.table \in [Blocks -> 0 .. NumSlots]
  BY CacheFields DEF Accounted
<1>1. CASE k.free # <<>>
  <2> DEFINE f == Front(k.free)
             s == Last(k.free)
             h == [k EXCEPT !.free = f]
  <2>1. r = [cache |-> h, slot |-> s] BY <1>1 DEF reserve
  <2>2. f \in Seq(Slots) /\ s \in Slots BY <1>0, <1>1, Ends
  <2>3. /\ Range(k.free) = Range(f) \cup {s}
        /\ IsInjective(f) /\ s \notin Range(f)
    BY <1>0, <1>1, FrontList DEF Accounted, Lists
  <2> HIDE DEF f, s
  <2>4. /\ h \in Caches /\ h.free = f /\ h.prob = k.prob /\ h.prot = k.prot /\ h.occ = k.occ
        /\ h.table = k.table /\ h.pend = k.pend /\ h.count = k.count /\ h.rows = k.rows
    BY <1>0, <2>2 DEF Caches
  <2>5. r.cache = h /\ r.slot = s BY <2>1
  <2> HIDE DEF h
  <2>6. Queued(h) = Queued(k) /\ Pending(h) = Pending(k)
    BY <2>4 DEF Queued, Pending
  <2>7. Lists(h)
    BY <2>3, <2>4, <2>6 DEF Accounted, Lists
  <2>8. Occupied(h)
    BY <2>4, <2>6 DEF Accounted, Occupied
  <2>9. Layered(h)
    BY <2>4, SameTable DEF Accounted
  <2>10. s \notin InUse(h) /\ InUse(k) = InUse(h) \cup {s}
    BY <2>3, <2>4, <2>6 DEF InUse, Accounted, Lists
  <2>11. Accounted(h) BY <2>4, <2>7, <2>8, <2>9 DEF Accounted
  <2>12. \A id \in Blocks : h.pend[id] # s BY <2>2, <2>10, <2>11, OutOfUse
  <2> QED BY <2>2, <2>4, <2>5, <2>10, <2>11, <2>12
<1>2. CASE k.free = <<>>
  <2>1. PICK s \in Victims(k, keep) : r = [cache |-> evict(k, s), slot |-> s]
    BY <1>2 DEF reserve
  <2>2. s \in Queued(k)
    <3>1. s \in Range(k.prob \o k.prot) BY DEF Victims, Range
    <3> QED BY <3>1, <1>0, ConcatList DEF Queued
  <2>3. r.cache = evict(k, s) /\ r.slot = s BY <2>1
  <2>4. /\ Accounted(r.cache) /\ InUse(k) = InUse(r.cache) \cup {s} /\ s \in Slots
        /\ s \notin InUse(r.cache) /\ r.cache.pend = k.pend
        /\ k.occ[s] \in Blocks /\ r.cache.table = [k.table EXCEPT ![k.occ[s]] = 0]
    BY <2>2, <2>3, EvictKeeps
  <2>5. \A id \in Blocks : r.cache.table[id] \in {0, k.table[id]}
    BY <2>4, <1>0
  <2>6. \A id \in Blocks : r.cache.pend[id] # s BY <2>4, OutOfUse
  <2> QED BY <2>3, <2>4, <2>5, <2>6
<1> QED BY <1>1, <1>2

-----------------------------------------------------------------------------
(* What one action may do to the cache and the streams together *)

\* Blocks may leave the table, nothing else moves.
Shrinks(k, h) == h.pend = k.pend /\ \A id \in Blocks : h.table[id] \in {0, k.table[id]}

\* k is the cache once slot s has been reserved in it.
Reserved(k, s) ==
    /\ Accounted(k) /\ Shrinks(c, k)
    /\ s \in Slots /\ s \notin InUse(k) /\ InUse(c) = InUse(k) \cup {s}

\* No operation is queued; a slot may have been reserved and given back, or a
\* synchronize of the drop has failed.
Quiet ==
    /\ Accounted(c') /\ Shrinks(c, c') /\ InUse(c') = InUse(c)
    /\ UNCHANGED <<compute, copy, mem>> /\ (lost' = {} => lost = {})

\* A kernel on a resident block.
Uses ==
    /\ lost = {} /\ Accounted(c') /\ InUse(c') = InUse(c)
    /\ c'.table = c.table /\ c'.pend = c.pend
    /\ \E id \in Blocks : /\ c.table[id] # 0
                          /\ compute' = Append(compute, Kernel(c.table[id], id))
    /\ UNCHANGED <<copy, mem, lost>>

\* A kernel on a pending block, behind its copy.
Takes ==
    /\ lost = {}
    /\ \E id \in Blocks :
          /\ c.table[id] = 0 /\ c.pend[id] # 0
          /\ c' = publish([c EXCEPT !.pend[id] = 0], id, c.pend[id])
          /\ compute' = Append(compute, [Kernel(c.pend[id], id) EXCEPT !.fence = CopyOf(id)])
    /\ UNCHANGED <<copy, mem, lost>>

Admits ==
    /\ lost = {}
    /\ \E k \in Caches, s \in Slots, id \in Blocks, b \in 0 .. NumBuffers :
          /\ Reserved(k, s) /\ k.table[id] = 0 /\ c' = publish(k, id, s)
          /\ \/ compute' = Append(compute, Op("write", s, id, b, 0))
             \/ compute' = Append(Append(compute, Op("write", s, id, b, 0)), Kernel(s, id))
    /\ UNCHANGED <<copy, mem, lost>>

Pends ==
    /\ lost = {}
    /\ \E k \in Caches, s \in Slots, id \in Blocks, b \in 0 .. NumBuffers :
          /\ Reserved(k, s) /\ k.pend[id] = 0 /\ c' = Pend(k, id, s)
          /\ copy' = Append(copy, Op("write", s, id, b, Len(compute)))
    /\ UNCHANGED <<compute, mem, lost>>

\* A synchronize fails: the slot is given up, its copy may be queued or not.
Loses ==
    /\ lost = {} /\ lost' # {}
    /\ \E k \in Caches, s \in Slots, id \in Blocks, b \in 0 .. NumBuffers :
          /\ Reserved(k, s) /\ c' = k
          /\ \/ UNCHANGED <<compute, copy>>
             \/ compute' = Append(compute, Op("write", s, id, b, 0)) /\ UNCHANGED copy
             \/ copy' = Append(copy, Op("write", s, id, b, Len(compute))) /\ UNCHANGED compute
    /\ UNCHANGED mem

DeviceStep == Quiet \/ Uses \/ Takes \/ Admits \/ Pends \/ Loses

\* What a reservation leaves.
LEMMA ReserveStep ==
    ASSUME NEW k, Accounted(k), Shrinks(c, k), InUse(k) = InUse(c), Accounted(c),
           NEW keep, NEW r \in reserve(k, keep)
    PROVE  /\ r.cache \in Caches /\ r.slot \in Slots /\ Reserved(r.cache, r.slot)
           /\ \A id \in Blocks : k.table[id] = 0 => r.cache.table[id] = 0
           /\ r.cache.pend = c.pend
<1>1. /\ Accounted(r.cache) /\ r.slot \in Slots /\ r.slot \notin InUse(r.cache)
      /\ InUse(k) = InUse(r.cache) \cup {r.slot}
      /\ r.cache.pend = k.pend
      /\ \A id \in Blocks : r.cache.table[id] \in {0, k.table[id]}
  BY ReserveKeeps
<1>2. Shrinks(c, r.cache)
  BY <1>1 DEF Shrinks
<1>3. r.cache \in Caches BY <1>1 DEF Accounted
<1> QED BY <1>1, <1>2, <1>3 DEF Reserved, Shrinks

\* A reservation given back.
LEMMA ReleaseStep ==
    ASSUME NEW k, NEW s, Reserved(k, s), NEW h, h = release_reserved_slot(k, s)
    PROVE  Accounted(h) /\ Shrinks(c, h) /\ InUse(h) = InUse(c)
<1>1. /\ Accounted(h) /\ InUse(h) = InUse(k) \cup {s} /\ h.table = k.table /\ h.pend = k.pend
  BY ReleaseKeeps DEF Reserved
<1> QED BY <1>1 DEF Reserved, Shrinks

\* What stays the same shrinks.
LEMMA ShrinksSame == Shrinks(c, c)
  BY DEF Shrinks

\* admit as a whole, from a cache that an earlier attempt has left.
LEMMA AdmitStep ==
    ASSUME Accounted(c), lost = {}, NEW k, Accounted(k), Shrinks(c, k), InUse(k) = InUse(c),
           NEW id \in Blocks, k.table[id] = 0, NEW n \in 0 .. MaxFaults, NEW kernels,
           NEW where, NEW p, Admit(k, id, n, kernels, where, p), UNCHANGED <<copy, mem>>
    PROVE  /\ Quiet \/ Admits \/ Loses
           /\ faults' \in 0 .. MaxFaults
           /\ (Goto("idle", 1) /\ (lost' = {} \/ lost' = {"device", "compute"}))
                 \/ (Goto(where, p) /\ lost' = {})
<1>0. MaxFaults \in Nat BY CacheAssumption DEF CacheAssumption
<1>1. CASE /\ reserve(k, {}) = {}
           /\ FailForward /\ c' = k /\ faults' = n /\ UNCHANGED <<compute, lost>>
  BY <1>1 DEF Quiet, FailForward
<1>2. CASE \E r \in reserve(k, {}) :
             LET write == Op("write", r.slot, id, 0, 0) IN
             \/ /\ c' = publish(r.cache, id, r.slot)
                /\ compute' = Append(compute, write) \o (IF kernels THEN <<Kernel(r.slot, id)>> ELSE <<>>)
                /\ faults' = n /\ Goto(where, p) /\ UNCHANGED lost
             \/ /\ n < MaxFaults /\ faults' = n + 1
                /\ compute = <<>>
                /\ c' = release_reserved_slot(r.cache, r.slot)
                /\ FailForward /\ UNCHANGED <<compute, lost>>
             \/ /\ n < MaxFaults /\ faults' = n + 1
                /\ lost' = {"device", "compute"}
                /\ c' = r.cache
                /\ compute' \in {compute, Append(compute, write)}
                /\ FailForward
  <2>1. PICK r \in reserve(k, {}) :
             LET write == Op("write", r.slot, id, 0, 0) IN
             \/ /\ c' = publish(r.cache, id, r.slot)
                /\ compute' = Append(compute, write) \o (IF kernels THEN <<Kernel(r.slot, id)>> ELSE <<>>)
                /\ faults' = n /\ Goto(where, p) /\ UNCHANGED lost
             \/ /\ n < MaxFaults /\ faults' = n + 1
                /\ compute = <<>>
                /\ c' = release_reserved_slot(r.cache, r.slot)
                /\ FailForward /\ UNCHANGED <<compute, lost>>
             \/ /\ n < MaxFaults /\ faults' = n + 1
                /\ lost' = {"device", "compute"}
                /\ c' = r.cache
                /\ compute' \in {compute, Append(compute, write)}
                /\ FailForward
    BY <1>2
  <2> DEFINE w == Op("write", r.slot, id, 0, 0)
  <2>2. /\ r.cache \in Caches /\ r.slot \in Slots /\ Reserved(r.cache, r.slot)
        /\ r.cache.table[id] = 0 /\ 0 \in 0 .. NumBuffers
    BY ReserveStep, CacheAssumption DEF CacheAssumption
  <2>3. CASE /\ c' = publish(r.cache, id, r.slot)
             /\ compute' = Append(compute, w) \o (IF kernels THEN <<Kernel(r.slot, id)>> ELSE <<>>)
             /\ faults' = n /\ Goto(where, p) /\ UNCHANGED lost
    <3>1. \/ compute' = Append(compute, w)
          \/ compute' = Append(Append(compute, w), Kernel(r.slot, id))
      BY <2>3
    <3>2. Admits
      BY <2>2, <2>3, <3>1 DEF Admits
    <3> QED BY <2>3, <3>2
  <2>4. CASE /\ n < MaxFaults /\ faults' = n + 1
             /\ compute = <<>>
             /\ c' = release_reserved_slot(r.cache, r.slot)
             /\ FailForward /\ UNCHANGED <<compute, lost>>
    <3>1. Accounted(c') /\ Shrinks(c, c') /\ InUse(c') = InUse(c)
      BY <2>2, <2>4, ReleaseStep
    <3> QED BY <3>1, <2>4, <1>0 DEF Quiet, FailForward
  <2>5. CASE /\ n < MaxFaults /\ faults' = n + 1
             /\ lost' = {"device", "compute"}
             /\ c' = r.cache
             /\ compute' \in {compute, Append(compute, w)}
             /\ FailForward
    <3>1. Loses
      BY <2>2, <2>5 DEF Loses
    <3> QED BY <3>1, <2>5, <1>0 DEF FailForward
  <2> QED BY <2>1, <2>3, <2>4, <2>5
<1> QED BY <1>1, <1>2 DEF Admit

\* dispatch_disk from a ready buffer, as a whole.
LEMMA StageStep ==
    ASSUME Accounted(c), lost = {}, faults \in 0 .. MaxFaults, compute \in Seq(Ops),
           sel[pos] \in Blocks, c.table[sel[pos]] = 0, NEW b \in 0 .. NumBuffers, NEW p,
           StageRead(b, p), UNCHANGED <<copy, mem>>
    PROVE  /\ Quiet \/ Admits \/ Loses
           /\ faults' \in 0 .. MaxFaults
           /\ (Goto("idle", 1) /\ lost' \in {{}, {"device"}, {"device", "compute"}})
                 \/ (Goto(NextAt, NextPos) /\ lost' = {})
<1>0. MaxFaults \in Nat BY CacheAssumption DEF CacheAssumption
<1>1. CASE /\ reserve(c, {}) = {}
           /\ phase' = p /\ FailForward /\ UNCHANGED <<c, compute, lost, faults>>
  BY <1>1, ShrinksSame DEF Quiet, FailForward
<1>2. CASE ~ (/\ reserve(c, {}) = {}
              /\ phase' = p /\ FailForward /\ UNCHANGED <<c, compute, lost, faults>>)
  <2>1. PICK r \in reserve(c, {}) :
          LET write == Op("write", r.slot, sel[pos], b, 0) IN
          \/ /\ c' = publish(r.cache, sel[pos], r.slot)
             /\ compute' = compute \o <<write, Kernel(r.slot, sel[pos])>>
             /\ phase' = [p EXCEPT ![b] = "H2d"]
             /\ Goto(NextAt, NextPos) /\ UNCHANGED <<lost, faults>>
          \/ /\ faults < MaxFaults /\ compute = <<>>
             /\ phase' = [p EXCEPT ![b] = "Free"]
             /\ Admit(release_reserved_slot(r.cache, r.slot), sel[pos], faults + 1,
                      TRUE, NextAt, NextPos)
          \/ /\ Faulty /\ lost' = {"device"}
             /\ c' = r.cache /\ compute' \in {compute, Append(compute, write)}
             /\ phase' = [p EXCEPT ![b] = "H2d"]
             /\ FailForward
    BY <1>2 DEF StageRead
  <2> DEFINE w == Op("write", r.slot, sel[pos], b, 0)
  <2>2. /\ r.cache \in Caches /\ r.slot \in Slots /\ Reserved(r.cache, r.slot)
        /\ r.cache.table[sel[pos]] = 0
    BY ReserveStep, ShrinksSame
  <2>3. CASE /\ c' = publish(r.cache, sel[pos], r.slot)
             /\ compute' = compute \o <<w, Kernel(r.slot, sel[pos])>>
             /\ phase' = [p EXCEPT ![b] = "H2d"]
             /\ Goto(NextAt, NextPos) /\ UNCHANGED <<lost, faults>>
    <3>1. ASSUME NEW x, NEW y PROVE compute \o <<x, y>> = Append(Append(compute, x), y)
      OBVIOUS
    <3>2. compute' = Append(Append(compute, w), Kernel(r.slot, sel[pos]))
      BY <2>3, <3>1
    <3> HIDE DEF w
    <3>3. Admits
      BY <2>2, <2>3, <3>2 DEF Admits, w
    <3> QED BY <2>3, <3>3
  <2>4. CASE /\ faults < MaxFaults
             /\ Admit(release_reserved_slot(r.cache, r.slot), sel[pos], faults + 1,
                      TRUE, NextAt, NextPos)
    <3> DEFINE k == release_reserved_slot(r.cache, r.slot)
    <3>1. Accounted(k) /\ Shrinks(c, k) /\ InUse(k) = InUse(c) /\ k.table = r.cache.table
      BY <2>2, ReleaseStep, ReleaseKeeps DEF Reserved
    <3>2. k.table[sel[pos]] = 0 /\ faults + 1 \in 0 .. MaxFaults
      BY <3>1, <2>2, <2>4, <1>0
    <3>3. Admit(k, sel[pos], faults + 1, TRUE, NextAt, NextPos) BY <2>4
    <3> HIDE DEF k
    <3> QED BY <3>1, <3>2, <3>3, AdmitStep
  <2>5. CASE /\ Faulty /\ lost' = {"device"}
             /\ c' = r.cache /\ compute' \in {compute, Append(compute, w)}
             /\ FailForward
    <3>1. Loses
      BY <2>2, <2>5 DEF Loses
    <3> QED BY <3>1, <2>5, <1>0 DEF FailForward, Faulty
  <2> QED BY <2>1, <2>3, <2>4, <2>5
<1> QED BY <1>1, <1>2

\* prefetch_bytes as a whole.
LEMMA PrefetchStep ==
    ASSUME Accounted(c), lost = {}, faults \in 0 .. MaxFaults,
           NEW id \in Blocks, c.pend[id] = 0, PrefetchBytes(id), UNCHANGED <<compute, mem>>
    PROVE  /\ Quiet \/ Pends \/ Loses
           /\ faults' \in 0 .. MaxFaults
           /\ (Goto("idle", 1) /\ lost' \in {{}, {"device", "copy"}})
                 \/ (Goto("dispatch", pos) /\ lost' = {})
<1>0. MaxFaults \in Nat /\ 0 \in 0 .. NumBuffers BY CacheAssumption DEF CacheAssumption
<1>1. CASE /\ reserve(c, {sel[pos]}) = {}
           /\ Goto("dispatch", pos) /\ UNCHANGED <<c, copy, lost, faults>>
  BY <1>1, ShrinksSame DEF Quiet
<1>2. CASE ~ (/\ reserve(c, {sel[pos]}) = {}
              /\ Goto("dispatch", pos) /\ UNCHANGED <<c, copy, lost, faults>>)
  <2>1. PICK r \in reserve(c, {sel[pos]}) :
          LET write == Op("write", r.slot, id, 0, CopyFence) IN
          \/ /\ c' = Pend(r.cache, id, r.slot) /\ copy' = Append(copy, write)
             /\ Goto("dispatch", pos) /\ UNCHANGED <<lost, faults>>
          \/ /\ Faulty
             /\ c' = release_reserved_slot(r.cache, r.slot)
             /\ FailForward /\ UNCHANGED <<copy, lost>>
          \/ /\ Faulty
             /\ c' = r.cache /\ lost' = {"device", "copy"}
             /\ copy' \in {copy, Append(copy, write)}
             /\ FailForward
    BY <1>2 DEF PrefetchBytes
  <2> DEFINE w == Op("write", r.slot, id, 0, Len(compute))
  <2>2. /\ r.cache \in Caches /\ r.slot \in Slots /\ Reserved(r.cache, r.slot)
        /\ r.cache.pend[id] = 0
    BY ReserveStep, ShrinksSame
  <2>3. CASE /\ c' = Pend(r.cache, id, r.slot) /\ copy' = Append(copy, w)
             /\ Goto("dispatch", pos) /\ UNCHANGED <<lost, faults>>
    <3>1. Pends BY <2>2, <2>3, <1>0 DEF Pends
    <3> QED BY <2>3, <3>1
  <2>4. CASE /\ Faulty
             /\ c' = release_reserved_slot(r.cache, r.slot)
             /\ FailForward /\ UNCHANGED <<copy, lost>>
    <3>1. Accounted(c') /\ Shrinks(c, c') /\ InUse(c') = InUse(c)
      BY <2>2, <2>4, ReleaseStep
    <3> QED BY <3>1, <2>4, <1>0 DEF Quiet, FailForward, Faulty
  <2>5. CASE /\ Faulty
             /\ c' = r.cache /\ lost' = {"device", "copy"}
             /\ copy' \in {copy, Append(copy, w)}
             /\ FailForward
    <3>1. Loses BY <2>2, <2>5, <1>0 DEF Loses
    <3> QED BY <3>1, <2>5, <1>0 DEF FailForward, Faulty
  <2> QED BY <2>1, <2>3, <2>4, <2>5 DEF CopyFence
<1> QED BY <1>1, <1>2

\* Where the owner thread may go next.
LEMMA GotoHost ==
    ASSUME HostOK, NEW w \in Places, NEW p, Goto(w, p), cfg' = cfg, kept' \in BOOLEAN,
           faults' \in 0 .. MaxFaults,
           w \in Forward => layer \in Layers /\ lost' = {},
           w \in Selected => sel \in Seq(Blocks) /\ p \in 1 .. Len(sel),
           w \in {"submit", "promote"} => Promoting /\ compute' = <<>>,
           w = "seed" => cfg.mode = "worker"
    PROVE  HostOK'
<1>1. at' = w /\ pos' = p /\ (w # "idle" => layer' = layer /\ sel' = sel)
  BY DEF Goto
<1>2. CASE w = "idle"
  BY <1>1, <1>2 DEF HostOK, Forward, Selected
<1>3. CASE w # "idle"
  <2>1. at' = w /\ pos' = p /\ layer' = layer /\ sel' = sel BY <1>1, <1>3
  <2>2. Promoting' = Promoting BY DEF Promoting
  <2> QED BY <2>1, <2>2 DEF HostOK
<1> QED BY <1>2, <1>3

\* The places of the owner thread that the moves above name.
LEMMA Moves ==
    ASSUME HostOK, at \in Selected
    PROVE  /\ sel \in Seq(Blocks) /\ Len(sel) \in Nat /\ pos \in 1 .. Len(sel)
           /\ sel[pos] \in Blocks /\ layer \in Layers /\ lost = {}
           /\ NextAt \in {"idle", "ahead"} /\ NextPos \in 1 .. Len(sel)
           /\ pos # Len(sel) => pos + 1 \in 1 .. Len(sel) /\ sel[pos + 1] \in Blocks
<1>1. sel \in Seq(Blocks) /\ pos \in 1 .. Len(sel) /\ layer \in Layers /\ lost = {}
  BY DEF HostOK, Selected, Forward
<1>2. Len(sel) \in Nat /\ sel[pos] \in Blocks BY <1>1
<1>3. NextPos \in 1 .. Len(sel) BY <1>1, <1>2 DEF NextPos
<1>4. pos # Len(sel) => pos + 1 \in 1 .. Len(sel) BY <1>1, <1>2
<1> QED BY <1>1, <1>2, <1>3, <1>4 DEF NextAt

\* First picks the least of a set that is not empty.
LEMMA LeastOf ==
    ASSUME NEW S, S \subseteq Nat, S # {}
    PROVE  First(S) \in S /\ \A d \in S : First(S) <= d
<1>1. \E b \in S : \A d \in S : ~ (<<d, b>> \in OpToRel(<, Nat))
  BY NatLessThanWellFounded, WFMin
<1>2. \A b, d \in Nat : (<<d, b>> \in OpToRel(<, Nat)) <=> d < b
  BY DEF OpToRel
<1>3. \E b \in S : \A d \in S : ~(d < b)
  BY <1>1, <1>2, Zenon
<1>4. \E b \in S : \A d \in S : b <= d
  BY <1>3
<1> QED BY <1>4 DEF First

\* Lists and occupants do not depend on the counts and rows.
LEMMA SameSlots ==
    ASSUME NEW k, Lists(k), Occupied(k), NEW h, h.free = k.free, h.prob = k.prob,
           h.prot = k.prot, h.occ = k.occ, h.table = k.table, h.pend = k.pend
    PROVE  Lists(h) /\ Occupied(h) /\ InUse(h) = InUse(k)
<1>1. Queued(h) = Queued(k) /\ Pending(h) = Pending(k) BY DEF Queued, Pending
<1>2. Lists(h) BY <1>1 DEF Lists
<1>3. Occupied(h) BY <1>1 DEF Occupied
<1>4. InUse(h) = InUse(k) BY <1>1 DEF InUse
<1> QED BY <1>2, <1>3, <1>4

FullRow(k, l) == [i \in DOMAIN LayerBlocks[l] |-> k.table[LayerBlocks[l][i]]]

\* layer_dev_row: the row of a layer that is fully resident.
LEMMA RowKeeps ==
    ASSUME NEW k, Accounted(k), NEW l \in Layers, k.count[l] = Len(LayerBlocks[l])
    PROVE  /\ k.rows[l] # <<>> => k.rows[l] = FullRow(k, l)
           /\ ResidentOf(k, l) = Range(LayerBlocks[l])
           /\ LET h == [k EXCEPT !.rows[l] = FullRow(k, l)] IN
              Accounted(h) /\ InUse(h) = InUse(k) /\ h.table = k.table /\ h.pend = k.pend
<1> DEFINE q == LayerBlocks[l]
           full == FullRow(k, l)
           w == [k.rows EXCEPT ![l] = full]
           h == [k EXCEPT !.rows[l] = full]
<1>1. /\ k \in Caches /\ k.table \in [Blocks -> 0 .. NumSlots]
      /\ k.rows \in [Layers -> Seq(0 .. NumSlots)]
  BY CacheFields DEF Accounted
<1>2. k.rows[l] # <<>> => k.rows[l] = full
  BY DEF Accounted, Layered, FullRow
<1>3. q \in Seq(Blocks) BY CacheAssumption DEF CacheAssumption
<1>4. ResidentOf(k, l) = Range(q)
  <2>1. /\ IsFiniteSet(Range(q)) /\ Cardinality(Range(q)) \in 0 .. Len(q)
        /\ ResidentOf(k, l) \subseteq Range(q)
    BY LayerFacts DEF ResidentOf
  <2>2. Cardinality(ResidentOf(k, l)) = Len(q) BY DEF Accounted, Layered
  <2>3. Cardinality(ResidentOf(k, l)) <= Cardinality(Range(q)) BY <2>1, FS_Subset
  <2>4. Len(q) \in Nat BY <1>3
  <2>5. Cardinality(Range(q)) = Cardinality(ResidentOf(k, l)) BY <2>1, <2>2, <2>3, <2>4
  <2> QED BY <2>1, <2>5, FS_Subset
<1>5. full \in Seq(0 .. NumSlots)
  <2>1. \A i \in 1 .. Len(q) : q[i] \in Blocks /\ DOMAIN q = 1 .. Len(q) /\ Len(q) \in Nat
    BY <1>3
  <2>2. full \in [1 .. Len(q) -> 0 .. NumSlots] /\ Len(q) \in Nat BY <1>1, <1>3, <2>1 DEF FullRow
  <2>3. ASSUME NEW S, NEW n \in Nat, NEW f \in [1 .. n -> S] PROVE f \in Seq(S)
    OBVIOUS
  <2> HIDE DEF full
  <2> QED BY <2>2, <2>3
<1> HIDE DEF q, full
<1>6. w \in [Layers -> Seq(0 .. NumSlots)]
  <2> DEFINE X == Seq(0 .. NumSlots)
  <2> HIDE DEF X
  <2>1. k.rows \in [Layers -> X] /\ full \in X BY <1>1, <1>5 DEF X
  <2>2. w \in [Layers -> X] BY <2>1
  <2> QED BY <2>2 DEF X
<1>7. w[l] = full /\ \A m \in Layers : m # l => w[m] = k.rows[m]
  BY <1>1
<1>8. h = [k EXCEPT !.rows = w] BY DEF w
<1> HIDE DEF w, h
<1>9. /\ h \in Caches /\ h.free = k.free /\ h.prob = k.prob /\ h.prot = k.prot /\ h.occ = k.occ
      /\ h.table = k.table /\ h.pend = k.pend /\ h.count = k.count /\ h.rows = w
  BY <1>1, <1>6, <1>8 DEF Caches
<1>10. Lists(h) /\ Occupied(h) /\ InUse(h) = InUse(k)
  BY <1>9, SameSlots DEF Accounted
<1>11. Layered(h)
  <2>1. \A m \in Layers : ResidentOf(h, m) = ResidentOf(k, m)
    BY <1>9 DEF ResidentOf
  <2> SUFFICES ASSUME NEW m \in Layers
               PROVE  /\ k.count[m] = Cardinality(ResidentOf(k, m))
                      /\ w[m] # <<>> =>
                            /\ w[m] = [i \in DOMAIN LayerBlocks[m] |-> k.table[LayerBlocks[m][i]]]
                            /\ ResidentOf(k, m) = Range(LayerBlocks[m])
    BY <2>1, <1>9 DEF Layered
  <2>2. CASE m = l BY <2>2, <1>2, <1>4, <1>7 DEF Accounted, Layered, q, full, FullRow
  <2>3. CASE m # l BY <2>3, <1>7 DEF Accounted, Layered
  <2> QED BY <2>2, <2>3
<1>12. Accounted(h) BY <1>9, <1>10, <1>11 DEF Accounted
<1> QED BY <1>2, <1>4, <1>9, <1>10, <1>12 DEF q, full, h

\* The buffers that are free are buffers.
LEMMA FirstFree ==
    ASSUME cfg \in Configs, NEW p, FreeIn(p) # {}
    PROVE  First(FreeIn(p)) \in FreeIn(p) /\ First(FreeIn(p)) \in Buffers /\ FreeIn(p) \subseteq Buffers
<1>1. cfg.depth \in 1 .. NumBuffers /\ NumBuffers \in Nat BY CacheAssumption DEF CacheAssumption
<1>2. FreeIn(p) \subseteq Nat /\ FreeIn(p) \subseteq Buffers BY <1>1 DEF FreeIn, Buffers
<1> QED BY <1>2, LeastOf

\* A step that leaves the cache, the streams and the slots alone.
LEMMA Untouched ==
    ASSUME Accounted(c), UNCHANGED <<c, compute, copy, mem>>, lost' = {} => lost = {}
    PROVE  DeviceStep
  BY ShrinksSame DEF DeviceStep, Quiet

\* A forward that ends early.
LEMMA FailsHost ==
    ASSUME HostOK, Goto("idle", 1), cfg' = cfg, kept' \in BOOLEAN, faults' \in 0 .. MaxFaults
    PROVE  HostOK'
  BY GotoHost DEF Places, Forward, Selected

\* A dispatch that ends: early, or with the next block.
LEMMA DispatchHost ==
    ASSUME HostOK, at \in Selected, cfg' = cfg, kept' \in BOOLEAN, faults' \in 0 .. MaxFaults,
           Goto("idle", 1) \/ (Goto(NextAt, NextPos) /\ lost' = {})
    PROVE  HostOK'
<1>1. CASE Goto("idle", 1) BY <1>1, FailsHost
<1>2. CASE Goto(NextAt, NextPos) /\ lost' = {}
  <2>1. /\ sel \in Seq(Blocks) /\ layer \in Layers /\ NextAt \in {"idle", "ahead"}
        /\ NextPos \in 1 .. Len(sel)
    BY Moves
  <2>2. NextAt \in Places /\ NextAt \notin {"submit", "promote"} BY <2>1 DEF Places
  <2> QED BY <1>2, <2>1, <2>2, GotoHost
<1> QED BY <1>1, <1>2

\* The owner thread stays within its protocol, and the cache and the streams
\* change together, in one of the ways listed above.
LEMMA HostSteps ==
    ASSUME HostOK, Accounted(c), StreamsOK, PoolOK, Next
    PROVE  HostOK' /\ (DeviceStep \/ RunCompute \/ RunCopy)
<1> USE DEF Places, Forward, Selected
<1>0. /\ cfg \in Configs /\ at \in Places /\ faults \in 0 .. MaxFaults /\ kept \in BOOLEAN
      /\ MaxFaults \in Nat /\ compute \in Seq(Ops) /\ copy \in Seq(Ops)
  BY CacheAssumption DEF HostOK, StreamsOK, Streams, CacheAssumption
<1>1. CASE RunCompute
  <2>1. compute # <<>> /\ UNCHANGED <<cfg, kept, hostVars, lost, faults>> BY <1>1 DEF RunCompute
  <2>2. Promoting' = Promoting BY <2>1 DEF Promoting
  <2> QED BY <1>1, <2>1, <2>2 DEF HostOK, hostVars
<1>2. CASE RunCopy
  <2>1. UNCHANGED <<cfg, kept, hostVars, lost, faults>> /\ compute' = Landed(compute)
    BY <1>2 DEF RunCopy
  <2>2. Promoting' = Promoting /\ (compute = <<>> => compute' = <<>>) BY <2>1 DEF Promoting, Landed
  <2> QED BY <1>2, <2>1, <2>2 DEF HostOK, hostVars
<1>3. CASE \E b \in Buffers : WorkerReads(b)
  <2>1. PICK b \in Buffers : WorkerReads(b) BY <1>3
  <2>2. /\ UNCHANGED <<cfg, c, kept, compute, copy, mem, hostVars, lost>>
        /\ faults' = faults \/ (faults < MaxFaults /\ faults' = faults + 1)
    BY <2>1 DEF WorkerReads, Faulty, deviceVars
  <2>3. faults' \in 0 .. MaxFaults BY <2>2, <1>0
  <2>4. Promoting' = Promoting BY <2>2 DEF Promoting
  <2>5. HostOK' BY <2>2, <2>3, <2>4 DEF HostOK, hostVars
  <2> QED BY <2>2, <2>5, Untouched
<1>4. CASE \E l \in Layers : Begin(l)
  <2>1. PICK l \in Layers : Begin(l) BY <1>4
  <2>2. /\ UNCHANGED <<cfg, c, kept, compute, copy, mem, lost, faults>>
        /\ at' = "row" /\ layer' = l /\ lost = {}
    BY <2>1 DEF Begin, deviceVars
  <2> QED BY <2>2, Untouched DEF HostOK
<1>5. CASE Prewarm
  <2>1. /\ UNCHANGED <<cfg, c, kept, compute, copy, mem, lost, faults>> /\ at = "row"
        /\ Goto("warm", 1) \/ UNCHANGED hostVars
    BY <1>5 DEF Prewarm, deviceVars
  <2>2. layer \in Layers /\ lost = {} BY <2>1 DEF HostOK
  <2>3. CASE Goto("warm", 1) BY <2>1, <2>2, <2>3, <1>0, GotoHost, Untouched
  <2>4. CASE UNCHANGED hostVars BY <2>1, <2>2, <2>4, <1>0, Untouched DEF HostOK, hostVars
  <2> QED BY <2>1, <2>3, <2>4
<1>6. CASE Warm
  <2>1. /\ at = "warm" /\ layer \in Layers /\ lost = {} /\ cfg' = cfg /\ kept' = kept
        /\ UNCHANGED <<copy, mem>>
    BY <1>6 DEF Warm, HostOK
  <2>2. CASE Missing = {}
    <3>1. Goto("row", 1) /\ UNCHANGED <<c, compute, copy, mem, lost, faults>> BY <1>6, <2>2 DEF Warm
    <3> QED BY <3>1, <2>1, <1>0, GotoHost, Untouched
  <2>3. CASE Missing # {}
    <3> DEFINE id == LayerBlocks[layer][First(Missing)]
    <3>1. Admit(c, id, faults, FALSE, "warm", 1) BY <1>6, <2>3 DEF Warm
    <3>2. id \in Blocks /\ c.table[id] = 0
      <4>1. Missing \subseteq Nat
        BY <2>1, CacheAssumption DEF CacheAssumption, Missing
      <4>2. First(Missing) \in Missing
        BY <2>3, <4>1, LeastOf DEF First
      <4>3. LayerBlocks[layer] \in Seq(Blocks) BY <2>1, CacheAssumption DEF CacheAssumption
      <4> DEFINE i == First(Missing)
      <4> HIDE DEF i
      <4>4. i \in DOMAIN LayerBlocks[layer] /\ c.table[LayerBlocks[layer][i]] = 0
        BY <4>2 DEF Missing, i
      <4>5. LayerBlocks[layer][i] \in Blocks BY <4>3, <4>4
      <4> QED BY <4>4, <4>5 DEF i
    <3> HIDE DEF id
    <3>3. /\ Quiet \/ Admits \/ Loses
          /\ faults' \in 0 .. MaxFaults
          /\ Goto("idle", 1) \/ (Goto("warm", 1) /\ lost' = {})
      BY <3>1, <3>2, <2>1, <1>0, ShrinksSame, AdmitStep
    <3>4. HostOK'
      <4>1. CASE Goto("idle", 1) BY <4>1, <3>3, <2>1, <1>0, FailsHost
      <4>2. CASE Goto("warm", 1) /\ lost' = {} BY <4>2, <3>3, <2>1, <1>0, GotoHost
      <4> QED BY <3>3, <4>1, <4>2
    <3> QED BY <3>3, <3>4 DEF DeviceStep
  <2> QED BY <2>2, <2>3
<1>7. CASE DeviceForward
  <2> DEFINE q == LayerBlocks[layer]
             row == IF c.rows[layer] # <<>> THEN c.rows[layer]
                    ELSE [i \in DOMAIN q |-> c.table[q[i]]]
  <2>1. /\ at = "row" /\ layer \in Layers /\ lost = {} /\ Resident
        /\ c' = [c EXCEPT !.rows[layer] = row]
        /\ \E i \in DOMAIN row : compute' = Append(compute, Kernel(row[i], q[i]))
        /\ Goto("idle", 1) /\ UNCHANGED <<cfg, kept, copy, mem, lost, faults>>
    BY <1>7 DEF DeviceForward, HostOK
  <2>2. q \in Seq(Blocks) BY <2>1, CacheAssumption DEF CacheAssumption
  <2>3. /\ row = FullRow(c, layer) /\ ResidentOf(c, layer) = Range(q)
        /\ Accounted(c') /\ InUse(c') = InUse(c) /\ c'.table = c.table /\ c'.pend = c.pend
    <3>1. c.count[layer] = Len(LayerBlocks[layer]) BY <2>1 DEF Resident
    <3>2. /\ c.rows[layer] # <<>> => c.rows[layer] = FullRow(c, layer)
          /\ ResidentOf(c, layer) = Range(LayerBlocks[layer])
          /\ LET h == [c EXCEPT !.rows[layer] = FullRow(c, layer)] IN
             Accounted(h) /\ InUse(h) = InUse(c) /\ h.table = c.table /\ h.pend = c.pend
      BY <2>1, <3>1, RowKeeps
    <3>3. row = FullRow(c, layer) BY <3>2 DEF FullRow
    <3> HIDE DEF row
    <3>4. c' = [c EXCEPT !.rows[layer] = FullRow(c, layer)] BY <2>1, <3>3
    <3> QED BY <3>2, <3>3, <3>4
  <2> HIDE DEF row
  <2>4. PICK i \in DOMAIN row : compute' = Append(compute, Kernel(row[i], q[i])) BY <2>1
  <2>5. i \in DOMAIN q /\ q[i] \in Range(q) /\ q[i] \in Blocks /\ row[i] = c.table[q[i]]
    BY <2>2, <2>3 DEF Range, FullRow
  <2>6. c.table[q[i]] # 0 BY <2>3, <2>5 DEF ResidentOf
  <2>7. Uses BY <2>1, <2>3, <2>4, <2>5, <2>6 DEF Uses
  <2> QED BY <2>1, <2>7, <1>0, FailsHost DEF DeviceStep
<1>8. CASE Route
  <2>1. /\ at = "row" /\ layer \in Layers /\ lost = {} /\ compute = <<>>
        /\ UNCHANGED <<cfg, c, kept, compute, copy, mem, lost, faults, layer>>
        /\ pos' = 1 /\ at' = IF Promoting THEN "submit" ELSE LoopStart
        /\ \E n \in 1 .. cfg.width : sel' \in [1 .. n -> Range(LayerBlocks[layer])]
    BY <1>8 DEF Route, HostOK, deviceVars
  <2>2. sel' \in Seq(Blocks) /\ pos' \in 1 .. Len(sel')
    <3>1. PICK n \in 1 .. cfg.width : sel' \in [1 .. n -> Range(LayerBlocks[layer])] BY <2>1
    <3>2. cfg.width \in Nat BY <1>0, CacheAssumption DEF CacheAssumption
    <3>3. sel' \in [1 .. n -> Blocks] BY <3>1, <2>1, LayerFacts
    <3> QED BY <3>1, <3>2, <3>3, <2>1
  <2>3. Promoting' = Promoting BY <2>1 DEF Promoting
  <2> QED BY <2>1, <2>2, <2>3, <1>0, Untouched DEF HostOK, LoopStart
<1>9. CASE Submit
  <2>1. /\ at = "submit" /\ UNCHANGED <<cfg, c, kept, compute, copy, mem, lost, faults>>
        /\ IF pos = Len(sel) THEN Goto("promote", 1) ELSE Goto("submit", pos + 1)
    BY <1>9 DEF Submit, deviceVars
  <2>2. /\ sel \in Seq(Blocks) /\ pos \in 1 .. Len(sel) /\ Len(sel) \in Nat /\ layer \in Layers
        /\ lost = {} /\ (pos # Len(sel) => pos + 1 \in 1 .. Len(sel))
    BY <2>1, Moves
  <2>3. Promoting /\ compute = <<>> BY <2>1 DEF HostOK
  <2>4. CASE Goto("promote", 1) BY <2>1, <2>2, <2>3, <2>4, <1>0, GotoHost, Untouched
  <2>5. CASE pos # Len(sel) /\ Goto("submit", pos + 1)
    BY <2>1, <2>2, <2>3, <2>5, <1>0, GotoHost, Untouched
  <2> QED BY <2>1, <2>4, <2>5
<1>10. ASSUME at = "promote", PromoteNext, UNCHANGED <<cfg, kept, compute, lost>>, faults' \in 0 .. MaxFaults
       PROVE  HostOK'
  <2>2. /\ sel \in Seq(Blocks) /\ pos \in 1 .. Len(sel) /\ Len(sel) \in Nat /\ layer \in Layers
        /\ lost = {} /\ (pos # Len(sel) => pos + 1 \in 1 .. Len(sel))
    BY <1>10, Moves
  <2>3. Promoting /\ compute = <<>> BY <1>10 DEF HostOK
  <2>4. CASE Goto(LoopStart, 1)
    <3>1. LoopStart \in {"seed", "ahead"} /\ (LoopStart = "seed" => cfg.mode = "worker") BY DEF LoopStart
    <3> HIDE DEF LoopStart
    <3> QED BY <1>10, <2>2, <2>4, <3>1, <1>0, GotoHost
  <2>5. CASE pos # Len(sel) /\ Goto("promote", pos + 1)
    BY <1>10, <2>2, <2>3, <2>5, <1>0, GotoHost
  <2> QED BY <1>10, <2>4, <2>5 DEF PromoteNext
<1>11. CASE PromoteSkips
  <2>1. at = "promote" /\ PromoteNext /\ UNCHANGED <<cfg, c, kept, compute, copy, mem, lost, faults>>
    BY <1>11 DEF PromoteSkips, deviceVars
  <2> QED BY <2>1, <1>0, <1>10, Untouched
<1>12. CASE Promote
  <2> DEFINE id == sel[pos]
             b == reads[id]
  <2>1. /\ at = "promote" /\ c.pend[id] = 0 /\ UNCHANGED <<cfg, kept, compute, mem>>
        /\ \E r \in reserve(c, Range(sel)) :
             LET write == Op("write", r.slot, id, b, 0) IN
             \/ /\ c' = release_reserved_slot(r.cache, r.slot)
                /\ PromoteNext /\ UNCHANGED <<copy, lost, faults>>
             \/ /\ c' = Pend(r.cache, id, r.slot)
                /\ copy' = Append(copy, write)
                /\ PromoteNext /\ UNCHANGED <<lost, faults>>
             \/ /\ Faulty
                /\ c' = release_reserved_slot(r.cache, r.slot)
                /\ PromoteNext /\ UNCHANGED <<copy, lost>>
             \/ /\ Faulty
                /\ c' = r.cache /\ lost' = {"device", "copy"}
                /\ copy' \in {copy, Append(copy, write)}
                /\ FailForward
    BY <1>12 DEF Promote
  <2>2. id \in Blocks /\ lost = {} /\ compute = <<>> /\ Len(compute) = 0
    BY <2>1, Moves DEF HostOK
  <2>3. b \in 0 .. NumBuffers BY <2>2 DEF PoolOK, PoolTypes
  <2>4. PICK r \in reserve(c, Range(sel)) :
             LET write == Op("write", r.slot, id, b, 0) IN
             \/ /\ c' = release_reserved_slot(r.cache, r.slot)
                /\ PromoteNext /\ UNCHANGED <<copy, lost, faults>>
             \/ /\ c' = Pend(r.cache, id, r.slot)
                /\ copy' = Append(copy, write)
                /\ PromoteNext /\ UNCHANGED <<lost, faults>>
             \/ /\ Faulty
                /\ c' = release_reserved_slot(r.cache, r.slot)
                /\ PromoteNext /\ UNCHANGED <<copy, lost>>
             \/ /\ Faulty
                /\ c' = r.cache /\ lost' = {"device", "copy"}
                /\ copy' \in {copy, Append(copy, write)}
                /\ FailForward
    BY <2>1
  <2> DEFINE w == Op("write", r.slot, id, b, Len(compute))
  <2>5. /\ r.cache \in Caches /\ r.slot \in Slots /\ Reserved(r.cache, r.slot)
        /\ r.cache.pend[id] = 0
    BY <2>1, <2>2, ReserveStep, ShrinksSame
  <2>6. Faulty => faults' \in 0 .. MaxFaults BY <1>0 DEF Faulty
  <2> HIDE DEF b
  <2>7. CASE /\ c' = release_reserved_slot(r.cache, r.slot)
             /\ PromoteNext /\ UNCHANGED <<copy, lost>> /\ (Faulty \/ UNCHANGED faults)
    <3>1. Accounted(c') /\ Shrinks(c, c') /\ InUse(c') = InUse(c)
      BY <2>5, <2>7, ReleaseStep
    <3>2. Quiet BY <3>1, <2>1, <2>7 DEF Quiet
    <3> QED BY <3>2, <2>1, <2>6, <2>7, <1>0, <1>10 DEF DeviceStep
  <2>8. CASE /\ c' = Pend(r.cache, id, r.slot)
             /\ copy' = Append(copy, w)
             /\ PromoteNext /\ UNCHANGED <<lost, faults>>
    <3>1. Pends BY <2>1, <2>2, <2>3, <2>5, <2>8 DEF Pends
    <3> QED BY <3>1, <2>1, <2>8, <1>0, <1>10 DEF DeviceStep
  <2>9. CASE /\ Faulty
             /\ c' = r.cache /\ lost' = {"device", "copy"}
             /\ copy' \in {copy, Append(copy, w)}
             /\ FailForward
    <3>1. Loses BY <2>1, <2>2, <2>3, <2>5, <2>9 DEF Loses
    <3> QED BY <3>1, <2>1, <2>6, <2>9, <1>0, FailsHost DEF DeviceStep, FailForward
  <2> QED BY <2>2, <2>4, <2>7, <2>8, <2>9
<1>13. CASE Ahead
  <2>1. at = "ahead" /\ UNCHANGED <<cfg, kept, compute, mem>> BY <1>13 DEF Ahead
  <2>2. /\ sel \in Seq(Blocks) /\ pos \in 1 .. Len(sel) /\ Len(sel) \in Nat /\ layer \in Layers
        /\ lost = {} /\ (pos + 1 <= Len(sel) => sel[pos + 1] \in Blocks)
    BY <2>1, Moves
  <2>3. CASE Goto("dispatch", pos) /\ UNCHANGED <<c, copy, lost, faults>>
    BY <2>1, <2>2, <2>3, <1>0, GotoHost, Untouched
  <2>4. CASE PrefetchBytes(sel[pos + 1]) /\ pos + 1 <= Len(sel) /\ c.pend[sel[pos + 1]] = 0
    <3>1. /\ Quiet \/ Pends \/ Loses
          /\ faults' \in 0 .. MaxFaults
          /\ Goto("idle", 1) \/ (Goto("dispatch", pos) /\ lost' = {})
      BY <2>1, <2>2, <2>4, <1>0, PrefetchStep
    <3>2. HostOK'
      <4>1. CASE Goto("idle", 1) BY <4>1, <3>1, <2>1, <1>0, FailsHost
      <4>2. CASE Goto("dispatch", pos) /\ lost' = {} BY <4>2, <3>1, <2>1, <2>2, <1>0, GotoHost
      <4> QED BY <3>1, <4>1, <4>2
    <3> QED BY <3>1, <3>2 DEF DeviceStep
  <2>5. pos + 1 > Len(sel) <=> ~(pos + 1 <= Len(sel)) BY <2>2
  <2> QED BY <1>13, <2>3, <2>4, <2>5 DEF Ahead, Known
<1>14. CASE Hit
  <2>1. /\ at = "dispatch" /\ c.table[sel[pos]] # 0 /\ c' = on_hit(c, c.table[sel[pos]])
        /\ compute' = Append(compute, Kernel(c.table[sel[pos]], sel[pos]))
        /\ Goto(NextAt, NextPos) /\ UNCHANGED <<cfg, kept, copy, mem, lost, faults>>
    BY <1>14 DEF Hit
  <2>2. sel[pos] \in Blocks /\ lost = {} BY <2>1, Moves
  <2>3. c.table[sel[pos]] \in Queued(c) BY <2>1, <2>2 DEF Accounted, Occupied
  <2>4. Accounted(c') /\ InUse(c') = InUse(c) /\ c'.table = c.table /\ c'.pend = c.pend
    BY <2>1, <2>3, HitKeeps
  <2>5. Uses BY <2>1, <2>2, <2>4 DEF Uses
  <2> QED BY <2>1, <2>2, <2>5, <1>0, DispatchHost DEF DeviceStep
<1>15. CASE TakePending
  <2>1. /\ at = "dispatch" /\ c.table[sel[pos]] = 0 /\ c.pend[sel[pos]] # 0
        /\ UNCHANGED <<cfg, kept, copy, mem, lost>>
    BY <1>15 DEF TakePending
  <2>2. sel[pos] \in Blocks /\ lost = {} BY <2>1, Moves
  <2>3. CASE /\ c' = publish([c EXCEPT !.pend[sel[pos]] = 0], sel[pos], c.pend[sel[pos]])
             /\ compute' = Append(compute, [Kernel(c.pend[sel[pos]], sel[pos]) EXCEPT !.fence = CopyOf(sel[pos])])
             /\ Goto(NextAt, NextPos) /\ UNCHANGED faults
    <3>1. Takes BY <2>1, <2>2, <2>3 DEF Takes
    <3> QED BY <2>1, <2>2, <2>3, <3>1, <1>0, DispatchHost DEF DeviceStep
  <2>4. CASE Faulty /\ FailForward /\ UNCHANGED <<c, compute>>
    <3>1. faults' \in 0 .. MaxFaults BY <2>4, <1>0 DEF Faulty
    <3> QED BY <2>1, <2>4, <3>1, <1>0, FailsHost, Untouched DEF FailForward
  <2> QED BY <1>15, <2>3, <2>4 DEF TakePending
<1>16. ASSUME NEW n \in 0 .. MaxFaults, Miss, Admit(c, sel[pos], n, TRUE, NextAt, NextPos),
              UNCHANGED <<cfg, copy, mem>>, kept' \in BOOLEAN
       PROVE  HostOK' /\ DeviceStep
  <2>1. at = "dispatch" /\ c.table[sel[pos]] = 0 BY <1>16 DEF Miss
  <2>2. sel[pos] \in Blocks /\ lost = {} BY <2>1, Moves
  <2>3. /\ Quiet \/ Admits \/ Loses
        /\ faults' \in 0 .. MaxFaults
        /\ Goto("idle", 1) \/ (Goto(NextAt, NextPos) /\ lost' = {})
    BY <1>16, <2>1, <2>2, ShrinksSame, AdmitStep
  <2> QED BY <1>16, <2>1, <2>3, DispatchHost DEF DeviceStep
<1>17. ASSUME NEW b \in 0 .. NumBuffers, NEW p, Miss, StageRead(b, p),
              UNCHANGED <<cfg, copy, mem>>, kept' \in BOOLEAN
       PROVE  HostOK' /\ DeviceStep
  <2>1. at = "dispatch" /\ c.table[sel[pos]] = 0 BY <1>17 DEF Miss
  <2>2. sel[pos] \in Blocks /\ lost = {} BY <2>1, Moves
  <2>3. /\ Quiet \/ Admits \/ Loses
        /\ faults' \in 0 .. MaxFaults
        /\ Goto("idle", 1) \/ (Goto(NextAt, NextPos) /\ lost' = {})
    BY <1>17, <2>1, <2>2, <1>0, StageStep
  <2> QED BY <1>17, <2>1, <2>3, DispatchHost DEF DeviceStep
<1>18. CASE MissMemory
  BY <1>0, <1>16, <1>18 DEF MissMemory
<1>19. CASE MissBlocking
  <2>1. Miss /\ kept' \in BOOLEAN /\ UNCHANGED <<cfg, copy, mem>> BY <1>19 DEF MissBlocking
  <2>2. \/ \E n, p : n \in {faults, faults + 1} /\ (n = faults \/ faults < MaxFaults) /\ Fallback(n, p)
        \/ \E p, q : FreeIn(p) # {} /\ StageRead(First(FreeIn(p)), q)
    BY <1>19 DEF MissBlocking
  <2>3. CASE \E n, p : n \in {faults, faults + 1} /\ (n = faults \/ faults < MaxFaults) /\ Fallback(n, p)
    <3>1. PICK n, p : n \in {faults, faults + 1} /\ (n = faults \/ faults < MaxFaults) /\ Fallback(n, p)
      BY <2>3
    <3>2. n \in 0 .. MaxFaults BY <3>1, <1>0
    <3> QED BY <2>1, <3>1, <3>2, <1>16 DEF Fallback
  <2>4. CASE \E p, q : FreeIn(p) # {} /\ StageRead(First(FreeIn(p)), q)
    <3>1. PICK p, q : FreeIn(p) # {} /\ StageRead(First(FreeIn(p)), q) BY <2>4
    <3>2. First(FreeIn(p)) \in 0 .. NumBuffers BY <3>1, <1>0, FirstFree DEF Buffers
    <3> QED BY <2>1, <3>1, <3>2, <1>17
  <2> QED BY <2>2, <2>3, <2>4
<1>20. CASE MissSubmit
  <2>1. Miss /\ kept' \in BOOLEAN /\ UNCHANGED <<cfg, copy, mem>> BY <1>20 DEF MissSubmit
  <2>2. CASE UNCHANGED <<c, compute, hostVars, lost, faults>>
    <3>1. Promoting' = Promoting BY <2>1 DEF Promoting
    <3>2. HostOK' BY <2>1, <2>2, <3>1 DEF HostOK, hostVars
    <3> QED BY <2>1, <2>2, <3>2, Untouched
  <2>3. CASE Fallback(faults, Reaped)
    BY <2>1, <2>3, <1>0, <1>16 DEF Fallback
  <2> QED BY <1>20, <2>2, <2>3 DEF MissSubmit
<1>21. CASE MissRead
  <2>1. Miss /\ kept' \in BOOLEAN /\ UNCHANGED <<cfg, copy, mem>> BY <1>21 DEF MissRead
  <2>2. reads[sel[pos]] \in 0 .. NumBuffers
    <3>1. at = "dispatch" BY <2>1 DEF Miss
    <3> QED BY <3>1, Moves DEF PoolOK, PoolTypes
  <2>3. \/ StageRead(reads[sel[pos]], Polled)
        \/ \E p : Fallback(faults, p)
    BY <1>21 DEF MissRead
  <2> QED BY <2>1, <2>2, <2>3, <1>0, <1>16, <1>17 DEF Fallback
<1>22. CASE ForwardFails
  <2>1. Faulty /\ Goto("idle", 1) /\ UNCHANGED <<cfg, c, kept, compute, copy, mem, lost>>
    BY <1>22 DEF ForwardFails, FailForward, deviceVars
  <2>2. faults' \in 0 .. MaxFaults BY <2>1, <1>0 DEF Faulty
  <2> QED BY <2>1, <2>2, <1>0, FailsHost, Untouched
<1>23. CASE DropCompute \/ DropCopy \/ DropPool \/ DropSlots
  <2>1. /\ UNCHANGED <<cfg, c, compute, copy, mem>> /\ kept' \in BOOLEAN
        /\ lost' = {} => lost = {}
        /\ faults' = faults \/ Faulty
        /\ \E w \in {"drop_copy", "drop_pool", "drop_slots", "gone"} : Goto(w, 1)
    BY <1>23, <1>0 DEF DropCompute, DropCopy, DropPool, DropSlots, Synced, Unsynced, deviceVars
  <2>2. faults' \in 0 .. MaxFaults BY <2>1, <1>0 DEF Faulty
  <2> QED BY <2>1, <2>2, <1>0, GotoHost, Untouched
<1>24. CASE Gone
  <2>1. UNCHANGED vars BY <1>24 DEF Gone
  <2>2. Promoting' = Promoting BY <2>1 DEF Promoting, vars
  <2> QED BY <2>1, <2>2, Untouched DEF HostOK, vars, hostVars, deviceVars
<1>25. CASE Seed
  <2>1. /\ at = "seed" /\ UNCHANGED <<cfg, c, kept, compute, copy, mem, lost, faults>>
        /\ Goto("dispatch", 1) \/ (pos < Len(sel) /\ Goto("seed", pos + 1))
    BY <1>25 DEF Seed, deviceVars
  <2>2. /\ sel \in Seq(Blocks) /\ pos \in 1 .. Len(sel) /\ Len(sel) \in Nat /\ layer \in Layers
        /\ lost = {} /\ 1 \in 1 .. Len(sel) /\ (pos < Len(sel) => pos + 1 \in 1 .. Len(sel))
    BY <2>1, Moves
  <2>3. cfg.mode = "worker" BY <2>1 DEF HostOK
  <2>4. CASE Goto("dispatch", 1) BY <2>1, <2>2, <2>4, <1>0, GotoHost, Untouched
  <2>5. CASE pos < Len(sel) /\ Goto("seed", pos + 1)
    BY <2>1, <2>2, <2>3, <2>5, <1>0, GotoHost, Untouched
  <2> QED BY <2>1, <2>4, <2>5
<1> QED
  BY <1>1, <1>2, <1>3, <1>4, <1>5, <1>6, <1>7, <1>8, <1>9, <1>11, <1>12, <1>13, <1>14, <1>15,
     <1>18, <1>19, <1>20, <1>21, <1>22, <1>23, <1>24, <1>25 DEF Next

-----------------------------------------------------------------------------
(* The accounts and the streams *)

\* The cache stays accounted for, whatever one action does to it.
LEMMA CacheStep ==
    ASSUME CacheOK, DeviceStep
    PROVE  CacheOK'
<1>0. Accounted(c) /\ (lost = {} => InUse(c) = Slots) BY DEF CacheOK
<1> SUFFICES Accounted(c') /\ (lost' = {} => InUse(c') = Slots)
  BY DEF CacheOK
<1>1. CASE Quiet BY <1>0, <1>1 DEF Quiet
<1>2. CASE Uses BY <1>0, <1>2 DEF Uses
<1>3. CASE Takes
  <2>1. PICK id \in Blocks :
          /\ c.table[id] = 0 /\ c.pend[id] # 0
          /\ c' = publish([c EXCEPT !.pend[id] = 0], id, c.pend[id])
    BY <1>3 DEF Takes
  <2> DEFINE k == [c EXCEPT !.pend[id] = 0]
             s == c.pend[id]
  <2>2. /\ Accounted(k) /\ InUse(c) = InUse(k) \cup {s} /\ s \in Slots /\ s \notin InUse(k)
        /\ k.table = c.table
    BY <1>0, <2>1, UnpendKeeps
  <2>3. k.table[id] = 0 /\ c' = publish(k, id, s) BY <2>1, <2>2
  <2> HIDE DEF k, s
  <2>4. Accounted(c') /\ InUse(c') = InUse(k) \cup {s}
    BY <2>2, <2>3, PublishKeeps
  <2> QED BY <2>2, <2>4, <1>0, <1>3 DEF Takes
<1>4. CASE Admits
  <2>1. PICK k \in Caches, s \in Slots, id \in Blocks :
          Reserved(k, s) /\ k.table[id] = 0 /\ c' = publish(k, id, s)
    BY <1>4 DEF Admits
  <2>2. Accounted(k) /\ s \notin InUse(k) /\ InUse(c) = InUse(k) \cup {s} BY <2>1 DEF Reserved
  <2>3. Accounted(c') /\ InUse(c') = InUse(k) \cup {s} BY <2>1, <2>2, PublishKeeps
  <2> QED BY <2>2, <2>3, <1>0, <1>4 DEF Admits
<1>5. CASE Pends
  <2>1. PICK k \in Caches, s \in Slots, id \in Blocks :
          Reserved(k, s) /\ k.pend[id] = 0 /\ c' = Pend(k, id, s)
    BY <1>5 DEF Pends
  <2>2. Accounted(k) /\ s \notin InUse(k) /\ InUse(c) = InUse(k) \cup {s} BY <2>1 DEF Reserved
  <2>3. Accounted(c') /\ InUse(c') = InUse(k) \cup {s} BY <2>1, <2>2, PendKeeps
  <2> QED BY <2>2, <2>3, <1>0, <1>5 DEF Pends
<1>6. CASE Loses BY <1>6 DEF Loses, Reserved
<1> QED BY <1>1, <1>2, <1>3, <1>4, <1>5, <1>6 DEF DeviceStep

\* Queueing an operation on the compute stream.
LEMMA AppendCompute ==
    ASSUME NEW q, NEW r, Streams(q, r), NEW o \in Ops, o.fence <= Len(r)
    PROVE  Streams(Append(q, o), r)
<1> DEFINE p == Append(q, o)
<1>0. q \in Seq(Ops) /\ r \in Seq(Ops) BY DEF Streams
<1>1. /\ p \in Seq(Ops) /\ Len(p) = Len(q) + 1 /\ Len(q) \in Nat /\ DOMAIN p = 1 .. Len(q) + 1
      /\ DOMAIN q = 1 .. Len(q) /\ p[Len(q) + 1] = o
      /\ \A i \in 1 .. Len(q) : p[i] = q[i]
  BY <1>0
<1> HIDE DEF p
<1>2. \A i \in DOMAIN p : p[i].fence <= Len(r)
  <2> SUFFICES ASSUME NEW i \in 1 .. Len(q) + 1 PROVE p[i].fence <= Len(r) BY <1>1
  <2>1. CASE i = Len(q) + 1 BY <2>1, <1>1
  <2>2. CASE i # Len(q) + 1
    <3>1. i \in 1 .. Len(q) BY <2>2, <1>1
    <3> QED BY <3>1, <1>1 DEF Streams
  <2> QED BY <2>1, <2>2
<1>3. \A i \in DOMAIN r : r[i].fence <= Len(p)
  <2> SUFFICES ASSUME NEW i \in DOMAIN r PROVE r[i].fence <= Len(p) OBVIOUS
  <2>1. r[i] \in Ops BY <1>0
  <2>2. r[i].fence \in Nat /\ r[i].fence <= Len(q) BY <2>1 DEF Ops, Streams
  <2> QED BY <2>2, <1>1
<1> QED BY <1>0, <1>1, <1>2, <1>3 DEF Streams, p

\* Queueing a copy on the copy stream.
LEMMA AppendCopy ==
    ASSUME NEW q, NEW r, Streams(q, r), NEW o \in Ops, o.fence <= Len(q), o.kind = "write"
    PROVE  Streams(q, Append(r, o))
<1> DEFINE p == Append(r, o)
<1>0. q \in Seq(Ops) /\ r \in Seq(Ops) BY DEF Streams
<1>1. /\ p \in Seq(Ops) /\ Len(p) = Len(r) + 1 /\ Len(r) \in Nat /\ DOMAIN p = 1 .. Len(r) + 1
      /\ DOMAIN r = 1 .. Len(r) /\ p[Len(r) + 1] = o
      /\ \A i \in 1 .. Len(r) : p[i] = r[i]
  BY <1>0
<1> HIDE DEF p
<1>2. \A i \in DOMAIN p : p[i].fence <= Len(q) /\ p[i].kind = "write"
  <2> SUFFICES ASSUME NEW i \in 1 .. Len(r) + 1 PROVE p[i].fence <= Len(q) /\ p[i].kind = "write" BY <1>1
  <2>1. CASE i = Len(r) + 1 BY <2>1, <1>1
  <2>2. CASE i # Len(r) + 1
    <3>1. i \in 1 .. Len(r) BY <2>2, <1>1
    <3> QED BY <3>1, <1>1 DEF Streams
  <2> QED BY <2>1, <2>2
<1>3. \A i \in DOMAIN q : q[i].fence <= Len(p)
  <2> SUFFICES ASSUME NEW i \in DOMAIN q PROVE q[i].fence <= Len(p) OBVIOUS
  <2>1. q[i] \in Ops BY <1>0
  <2>2. q[i].fence \in Nat /\ q[i].fence <= Len(r) BY <2>1 DEF Ops, Streams
  <2> QED BY <2>2, <1>1
<1> QED BY <1>0, <1>1, <1>2, <1>3 DEF Streams, p

\* What the end of an operation does to the fences of the other stream.
LEMMA LandedFacts ==
    ASSUME NEW q \in Seq(Ops)
    PROVE  /\ Landed(q) \in Seq(Ops) /\ Len(Landed(q)) = Len(q) /\ DOMAIN Landed(q) = 1 .. Len(q)
           /\ \A i \in 1 .. Len(q) :
                 /\ Landed(q)[i].kind = q[i].kind /\ Landed(q)[i].slot = q[i].slot
                 /\ Landed(q)[i].id = q[i].id /\ Landed(q)[i].buf = q[i].buf
                 /\ Landed(q)[i].fence = IF q[i].fence = 0 THEN 0 ELSE q[i].fence - 1
<1> DEFINE w == Landed(q)
<1>1. Len(q) \in Nat /\ DOMAIN q = 1 .. Len(q) /\ \A i \in 1 .. Len(q) : q[i] \in Ops
  OBVIOUS
<1>2. DOMAIN w = 1 .. Len(q) BY <1>1 DEF Landed
<1>3. ASSUME NEW i \in 1 .. Len(q)
      PROVE  /\ w[i] \in Ops /\ w[i].kind = q[i].kind /\ w[i].slot = q[i].slot
             /\ w[i].id = q[i].id /\ w[i].buf = q[i].buf
             /\ w[i].fence = IF q[i].fence = 0 THEN 0 ELSE q[i].fence - 1
  <2>1. q[i] \in Ops BY <1>1
  <2>2. w[i] = [q[i] EXCEPT !.fence = IF @ = 0 THEN 0 ELSE @ - 1] BY <1>1 DEF Landed
  <2> HIDE DEF w
  <2>3. q[i].fence \in Nat BY <2>1 DEF Ops
  <2> DEFINE f == IF q[i].fence = 0 THEN 0 ELSE q[i].fence - 1
  <2>4. f \in Nat BY <2>3
  <2>5. w[i] = [q[i] EXCEPT !.fence = f] BY <2>2
  <2> HIDE DEF f
  <2>6. /\ w[i] \in Ops /\ w[i].kind = q[i].kind /\ w[i].slot = q[i].slot
        /\ w[i].id = q[i].id /\ w[i].buf = q[i].buf /\ w[i].fence = f
    BY <2>1, <2>4, <2>5 DEF Ops
  <2> QED BY <2>6 DEF f
<1>4. w = [i \in 1 .. Len(q) |-> w[i]] BY <1>1 DEF Landed
<1> HIDE DEF w
<1>5. w \in [1 .. Len(q) -> Ops] BY <1>2, <1>3, <1>4
<1>6. ASSUME NEW n \in Nat, NEW f \in [1 .. n -> Ops] PROVE f \in Seq(Ops) /\ Len(f) = n
  OBVIOUS
<1> QED BY <1>1, <1>2, <1>3, <1>5, <1>6 DEF w

\* The head of one stream ends.
LEMMA RunStreams ==
    ASSUME NEW q, NEW r, Streams(q, r)
    PROVE  /\ q # <<>> => Streams(Tail(q), Landed(r))
           /\ r # <<>> => Streams(Landed(q), Tail(r))
<1>0. q \in Seq(Ops) /\ r \in Seq(Ops) BY DEF Streams
<1>1. ASSUME NEW s \in Seq(Ops), NEW i \in DOMAIN s PROVE s[i] \in Ops /\ s[i].fence \in Nat
  <2>1. s[i] \in Ops OBVIOUS
  <2> QED BY <2>1 DEF Ops
<1>2. Len(q) \in Nat /\ Len(r) \in Nat /\ DOMAIN q = 1 .. Len(q) /\ DOMAIN r = 1 .. Len(r)
  BY <1>0
<1>3. ASSUME NEW x \in Seq(Ops), NEW y \in Seq(Ops), x # <<>>,
             \A i \in DOMAIN x : x[i].fence <= Len(y), \A i \in DOMAIN y : y[i].fence <= Len(x)
      PROVE  /\ Tail(x) \in Seq(Ops) /\ Landed(y) \in Seq(Ops)
             /\ \A i \in DOMAIN Tail(x) : Tail(x)[i].fence <= Len(Landed(y))
             /\ \A i \in DOMAIN Landed(y) : Landed(y)[i].fence <= Len(Tail(x))
  <2>1. /\ Len(x) \in Nat \ {0} /\ DOMAIN x = 1 .. Len(x) /\ Tail(x) \in Seq(Ops)
        /\ Len(Tail(x)) = Len(x) - 1 /\ DOMAIN Tail(x) = 1 .. Len(x) - 1
        /\ \A i \in 1 .. Len(x) - 1 : Tail(x)[i] = x[i + 1]
    BY <1>3, Ends
  <2>2. /\ Landed(y) \in Seq(Ops) /\ Len(Landed(y)) = Len(y) /\ DOMAIN Landed(y) = 1 .. Len(y)
        /\ \A i \in 1 .. Len(y) : Landed(y)[i].fence = IF y[i].fence = 0 THEN 0 ELSE y[i].fence - 1
        /\ DOMAIN y = 1 .. Len(y)
    BY LandedFacts
  <2>3. ASSUME NEW i \in 1 .. Len(x) - 1 PROVE Tail(x)[i].fence <= Len(y)
    <3>1. i + 1 \in DOMAIN x /\ Tail(x)[i] = x[i + 1] BY <2>1
    <3> QED BY <3>1, <1>3
  <2>4. ASSUME NEW i \in 1 .. Len(y) PROVE Landed(y)[i].fence <= Len(x) - 1
    <3>1. y[i].fence \in Nat /\ y[i].fence <= Len(x) BY <1>1, <1>3, <2>2
    <3> QED BY <3>1, <2>1, <2>2
  <2> QED BY <2>1, <2>2, <2>3, <2>4
<1>4. ASSUME q # <<>> PROVE Streams(Tail(q), Landed(r))
  <2>1. /\ Tail(q) \in Seq(Ops) /\ Landed(r) \in Seq(Ops)
        /\ \A i \in DOMAIN Tail(q) : Tail(q)[i].fence <= Len(Landed(r))
        /\ \A i \in DOMAIN Landed(r) : Landed(r)[i].fence <= Len(Tail(q))
    BY <1>0, <1>3, <1>4 DEF Streams
  <2>2. \A i \in DOMAIN Landed(r) : Landed(r)[i].kind = "write"
    BY <1>0, <1>2, LandedFacts DEF Streams
  <2> QED BY <2>1, <2>2 DEF Streams
<1>5. ASSUME r # <<>> PROVE Streams(Landed(q), Tail(r))
  <2>1. /\ Tail(r) \in Seq(Ops) /\ Landed(q) \in Seq(Ops)
        /\ \A i \in DOMAIN Tail(r) : Tail(r)[i].fence <= Len(Landed(q))
        /\ \A i \in DOMAIN Landed(q) : Landed(q)[i].fence <= Len(Tail(r))
    BY <1>0, <1>3, <1>5 DEF Streams
  <2>2. \A i \in DOMAIN Tail(r) : Tail(r)[i].kind = "write"
    <3>1. /\ DOMAIN Tail(r) = 1 .. Len(r) - 1 /\ \A i \in 1 .. Len(r) - 1 : Tail(r)[i] = r[i + 1]
      BY <1>0, <1>5, Ends
    <3>2. \A i \in 1 .. Len(r) - 1 : i + 1 \in DOMAIN r BY <1>2
    <3> QED BY <3>1, <3>2 DEF Streams
  <2> QED BY <2>1, <2>2 DEF Streams
<1> QED BY <1>4, <1>5

\* Where a block's copy is: the last one of the copy stream that carries it.
LEMMA CopyOfFacts ==
    ASSUME NEW id, copy \in Seq(Ops)
    PROVE  /\ CopyOf(id) \in 0 .. Len(copy)
           /\ \A i \in DOMAIN copy : copy[i].id = id => i <= CopyOf(id)
<1> DEFINE A == {i \in DOMAIN copy : copy[i].id = id}
           n == Len(copy)
<1>1. n \in Nat /\ A \subseteq 1 .. n OBVIOUS
<1>2. CASE A = {}
  BY <1>1, <1>2 DEF CopyOf
<1>3. CASE A # {}
  <2> HIDE DEF A, n
  <2> DEFINE B == {n - i : i \in A}
  <2>1. B \subseteq Nat /\ B # {}
    <3>1. ASSUME NEW i \in A PROVE n - i \in Nat
      <4>1. i \in 1 .. n /\ n \in Nat BY <1>1
      <4> QED BY <4>1
    <3> QED BY <3>1, <1>3
  <2>2. First(B) \in B /\ \A d \in B : First(B) <= d BY <2>1, LeastOf
  <2>3. PICK m \in A : First(B) = n - m BY <2>2
  <2>4. \A i \in A : n - m <= n - i BY <2>2, <2>3
  <2>5. \A i \in A : i <= m
    <3> SUFFICES ASSUME NEW i \in A PROVE i <= m OBVIOUS
    <3>1. n - m <= n - i /\ i \in 1 .. n /\ m \in 1 .. n BY <2>4, <1>1
    <3> QED BY <3>1, <1>1
  <2>6. CopyOf(id) = CHOOSE i \in A : \A j \in A : j <= i BY <1>3 DEF CopyOf, A
  <2>7. CopyOf(id) \in A /\ \A j \in A : j <= CopyOf(id) BY <2>5, <2>6
  <2> QED BY <2>7, <1>1 DEF A, n
<1> QED BY <1>2, <1>3

\* The operations the host queues.
LEMMA OpTypes ==
    ASSUME NEW s \in Slots, NEW id \in Blocks, NEW b \in 0 .. NumBuffers, NEW f \in Nat
    PROVE  /\ Op("write", s, id, b, f) \in Ops /\ Op("write", s, id, b, f).kind = "write"
           /\ Op("write", s, id, b, f).slot = s /\ Op("write", s, id, b, f).id = id
           /\ Op("write", s, id, b, f).buf = b /\ Op("write", s, id, b, f).fence = f
           /\ Kernel(s, id) \in Ops /\ Kernel(s, id) = Op("read", s, id, 0, 0)
           /\ [Kernel(s, id) EXCEPT !.fence = f] = Op("read", s, id, 0, f)
           /\ Op("read", s, id, 0, f) \in Ops /\ Op("read", s, id, 0, f).kind = "read"
           /\ Op("read", s, id, 0, f).slot = s /\ Op("read", s, id, 0, f).id = id
           /\ Op("read", s, id, 0, f).buf = 0 /\ Op("read", s, id, 0, f).fence = f
<1>1. 0 \in 0 .. NumBuffers /\ 0 \in Nat BY CacheAssumption DEF CacheAssumption
<1> QED BY <1>1 DEF Op, Kernel, Ops

\* The streams stay well-formed: a fence never counts more than is queued.
LEMMA StreamsStep ==
    ASSUME CacheOK, StreamsOK, DeviceStep \/ RunCompute \/ RunCopy
    PROVE  StreamsOK'
<1>0. /\ Streams(compute, copy) /\ compute \in Seq(Ops) /\ copy \in Seq(Ops)
      /\ Len(compute) \in Nat /\ Len(copy) \in Nat
  BY DEF StreamsOK, Streams
<1>a. /\ Accounted(c) /\ c.table \in [Blocks -> 0 .. NumSlots] /\ c.pend \in [Blocks -> 0 .. NumSlots]
  BY CacheFields DEF CacheOK, Accounted
<1>b. ASSUME NEW x \in 0 .. NumSlots, x # 0 PROVE x \in Slots
  BY <1>b, CacheAssumption DEF Slots, CacheAssumption
<1>c. 0 \in 0 .. NumBuffers BY CacheAssumption DEF CacheAssumption
<1> SUFFICES Streams(compute', copy') BY DEF StreamsOK
<1>1. CASE Quiet BY <1>0, <1>1 DEF Quiet
<1>2. CASE Uses
  <2>1. PICK id \in Blocks : c.table[id] # 0 /\ compute' = Append(compute, Kernel(c.table[id], id))
    BY <1>2 DEF Uses
  <2>2. c.table[id] \in Slots BY <2>1, <1>a, <1>b
  <2>3. Kernel(c.table[id], id) \in Ops /\ Kernel(c.table[id], id).fence = 0
    BY <2>2, <1>c, OpTypes
  <2>4. copy' = copy BY <1>2 DEF Uses
  <2>5. Kernel(c.table[id], id).fence <= Len(copy) BY <2>3, <1>0
  <2> HIDE DEF Kernel
  <2> QED BY <2>1, <2>3, <2>4, <2>5, <1>0, AppendCompute
<1>3. CASE Takes
  <2>1. PICK id \in Blocks : c.pend[id] # 0 /\
           compute' = Append(compute, [Kernel(c.pend[id], id) EXCEPT !.fence = CopyOf(id)])
    BY <1>3 DEF Takes
  <2>2. c.pend[id] \in Slots BY <2>1, <1>a, <1>b
  <2>3. CopyOf(id) \in Nat /\ CopyOf(id) <= Len(copy) BY <1>0, CopyOfFacts
  <2> DEFINE o == Op("read", c.pend[id], id, 0, CopyOf(id))
  <2>4. /\ [Kernel(c.pend[id], id) EXCEPT !.fence = CopyOf(id)] = o
        /\ o \in Ops /\ o.fence = CopyOf(id)
    BY <2>2, <2>3, <1>c, OpTypes
  <2> HIDE DEF o
  <2>5. copy' = copy /\ compute' = Append(compute, o) BY <1>3, <2>1, <2>4 DEF Takes
  <2> QED BY <2>3, <2>4, <2>5, <1>0, AppendCompute
<1>4. CASE Admits
  <2>1. PICK s \in Slots, id \in Blocks, b \in 0 .. NumBuffers :
          \/ compute' = Append(compute, Op("write", s, id, b, 0))
          \/ compute' = Append(Append(compute, Op("write", s, id, b, 0)), Kernel(s, id))
    BY <1>4 DEF Admits
  <2> DEFINE o == Op("write", s, id, b, 0)
             x == Kernel(s, id)
  <2>2. o \in Ops /\ o.fence = 0 /\ x \in Ops /\ x.fence = 0 BY <1>c, OpTypes
  <2>3. compute' = Append(compute, o) \/ compute' = Append(Append(compute, o), x) BY <2>1
  <2> HIDE DEF o, x
  <2>4. o.fence <= Len(copy) /\ x.fence <= Len(copy) BY <2>2, <1>0
  <2>5. Streams(Append(compute, o), copy) BY <2>2, <2>4, <1>0, AppendCompute
  <2>6. Streams(Append(Append(compute, o), x), copy) BY <2>2, <2>4, <2>5, AppendCompute
  <2> QED BY <2>3, <2>5, <2>6, <1>4 DEF Admits
<1>5. CASE Pends
  <2>1. PICK s \in Slots, id \in Blocks, b \in 0 .. NumBuffers :
          copy' = Append(copy, Op("write", s, id, b, Len(compute)))
    BY <1>5 DEF Pends
  <2> DEFINE o == Op("write", s, id, b, Len(compute))
  <2>2. o \in Ops /\ o.fence = Len(compute) /\ o.kind = "write" BY <1>0, OpTypes
  <2>3. copy' = Append(copy, o) BY <2>1
  <2> HIDE DEF o
  <2>4. o.fence <= Len(compute) BY <2>2, <1>0
  <2> QED BY <2>2, <2>3, <2>4, <1>0, <1>5, AppendCopy DEF Pends
<1>6. CASE Loses
  <2>1. PICK s \in Slots, id \in Blocks, b \in 0 .. NumBuffers :
             \/ UNCHANGED <<compute, copy>>
             \/ compute' = Append(compute, Op("write", s, id, b, 0)) /\ UNCHANGED copy
             \/ copy' = Append(copy, Op("write", s, id, b, Len(compute))) /\ UNCHANGED compute
    BY <1>6 DEF Loses
  <2> DEFINE o == Op("write", s, id, b, 0)
             x == Op("write", s, id, b, Len(compute))
  <2>2. /\ o \in Ops /\ o.fence = 0
        /\ x \in Ops /\ x.fence = Len(compute) /\ x.kind = "write"
    BY <1>0, OpTypes
  <2>3. \/ UNCHANGED <<compute, copy>>
        \/ compute' = Append(compute, o) /\ UNCHANGED copy
        \/ copy' = Append(copy, x) /\ UNCHANGED compute
    BY <2>1
  <2> HIDE DEF o, x
  <2>4. o.fence <= Len(copy) /\ x.fence <= Len(compute) BY <2>2, <1>0
  <2>5. Streams(Append(compute, o), copy) BY <2>2, <2>4, <1>0, AppendCompute
  <2>6. Streams(compute, Append(copy, x)) BY <2>2, <2>4, <1>0, AppendCopy
  <2> QED BY <2>3, <2>5, <2>6, <1>0
<1>7. CASE RunCompute BY <1>0, <1>7, RunStreams DEF RunCompute
<1>8. CASE RunCopy BY <1>0, <1>8, RunStreams DEF RunCopy
<1> QED BY <1>1, <1>2, <1>3, <1>4, <1>5, <1>6, <1>7, <1>8 DEF DeviceStep

-----------------------------------------------------------------------------
(* The pool: what each operation keeps *)

\* poll_worker_completions.
LEMMA PolledKeeps ==
    ASSUME Pool(phase, want, reads, reading, done, data)
    PROVE  /\ Pool(Polled, want, reads, reading, NoneDone, data)
           /\ \A b \in Buffers : phase[b] = "H2d" => Polled[b] = "H2d"
<1>0. /\ PoolTypes(phase, want, reads, reading, done, data) /\ Workers(phase, reading, done)
      /\ Tickets(phase, want, reads, reading, done, data)
  BY DEF Pool
<1> DEFINE p == Polled
<1>1. /\ \A b \in Buffers : p[b] = IF done[b] = "none" THEN phase[b] ELSE finish_read(phase[b], done[b])
      /\ DOMAIN p = Buffers /\ p = [b \in Buffers |-> p[b]]
      /\ \A b \in Buffers : NoneDone[b] = "none"
      /\ NoneDone \in [Buffers -> {"none", "ok", "err"}]
  BY DEF Polled, NoneDone
<1> HIDE DEF p
<1>2. \A b \in Buffers : done[b] \in {"none", "ok", "err"} /\ phase[b] \in Phases
  BY <1>0 DEF PoolTypes
<1>3. \A b \in Buffers : p[b] \in Phases
  BY <1>1, <1>2 DEF finish_read, Phases
<1>4. PoolTypes(p, want, reads, reading, NoneDone, data)
  BY <1>0, <1>1, <1>3 DEF PoolTypes
<1>5. Workers(p, reading, NoneDone)
  BY <1>0, <1>1, <1>2 DEF Workers, finish_read, PoolTypes
<1>6. ASSUME NEW id \in Blocks, reads[id] # 0
      PROVE  \/ /\ p[reads[id]] = "Reading"
                /\ reads[id] \in reading => want[reads[id]] = id
             \/ p[reads[id]] = "Ready" /\ data[reads[id]] = id
             \/ p[reads[id]] = "Failed"
  <2> DEFINE b == reads[id]
  <2>1. b \in Buffers BY <1>0, <1>6, CacheAssumption DEF PoolTypes, Buffers, CacheAssumption
  <2>2. \/ /\ phase[b] = "Reading"
           /\ b \in reading => want[b] = id
           /\ done[b] = "ok" => data[b] = id
        \/ phase[b] = "Ready" /\ data[b] = id
        \/ phase[b] = "Failed"
    BY <1>0, <1>6 DEF Tickets
  <2> HIDE DEF b
  <2>3. phase[b] \in {"Ready", "Failed"} => done[b] = "none" BY <1>0, <2>1 DEF Workers
  <2>4. \/ /\ p[b] = "Reading" /\ (b \in reading => want[b] = id)
        \/ p[b] = "Ready" /\ data[b] = id
        \/ p[b] = "Failed"
    BY <1>1, <1>2, <2>1, <2>2, <2>3 DEF finish_read
  <2> QED BY <2>4 DEF b
<1>7. Tickets(p, want, reads, reading, NoneDone, data)
  <2>1. ASSUME NEW id \in Blocks, reads[id] # 0 PROVE NoneDone[reads[id]] # "ok"
    BY <1>0, <2>1, <1>1, CacheAssumption DEF PoolTypes, Buffers, CacheAssumption
  <2> QED BY <1>0, <1>6, <2>1 DEF Tickets
<1>8. \A b \in Buffers : phase[b] = "H2d" => p[b] = "H2d"
  BY <1>0, <1>1 DEF Workers
<1> QED BY <1>4, <1>5, <1>7, <1>8 DEF Pool, p

\* The copies still queued keep their buffers when only others change.
LEMMA CopyingKeeps ==
    ASSUME NEW q \in Seq(Ops), NEW p, NEW m, Copying(q, p, m), NEW x, NEW y,
           \A b \in Buffers : (\E i \in DOMAIN q : q[i].buf = b) /\ p[b] = "H2d"
                                 => x[b] = "H2d" /\ y[b] = m[b]
    PROVE  Copying(q, x, y)
<1> SUFFICES ASSUME NEW i \in DOMAIN q, q[i].buf # 0
             PROVE  x[q[i].buf] = "H2d" /\ y[q[i].buf] = q[i].id
  BY DEF Copying
<1>1. q[i] \in Ops OBVIOUS
<1>2. q[i].buf \in Buffers BY <1>1, CacheAssumption DEF Ops, Buffers, CacheAssumption
<1>3. p[q[i].buf] = "H2d" /\ m[q[i].buf] = q[i].id BY DEF Copying
<1> QED BY <1>2, <1>3

\* reap_completed: a buffer whose copy has ended is free.
LEMMA ReapedKeeps ==
    ASSUME Pool(phase, want, reads, reading, done, data), StreamsOK,
           Copying(compute, phase, data), Copying(copy, phase, data)
    PROVE  /\ Pool(Reaped, want, reads, reading, NoneDone, data)
           /\ Copying(compute, Reaped, data) /\ Copying(copy, Reaped, data)
<1>0. Pool(Polled, want, reads, reading, NoneDone, data) /\ \A b \in Buffers : phase[b] = "H2d" => Polled[b] = "H2d"
  BY PolledKeeps
<1> DEFINE p == Polled
           r == Reaped
<1>1. /\ \A b \in Buffers : r[b] = IF p[b] = "H2d" /\ Complete(b) THEN "Free" ELSE p[b]
      /\ r = [b \in Buffers |-> r[b]]
  BY DEF Reaped
<1> HIDE DEF p, r
<1>2. /\ PoolTypes(p, want, reads, reading, NoneDone, data) /\ Workers(p, reading, NoneDone)
      /\ Tickets(p, want, reads, reading, NoneDone, data)
  BY <1>0 DEF Pool, p
<1>3. \A b \in Buffers : r[b] \in Phases BY <1>1, <1>2 DEF PoolTypes, Phases
<1>4. PoolTypes(r, want, reads, reading, NoneDone, data)
  BY <1>1, <1>2, <1>3 DEF PoolTypes
<1>5. Workers(r, reading, NoneDone)
  BY <1>1, <1>2 DEF Workers
<1>6. \A id \in Blocks : reads[id] # 0 => reads[id] \in Buffers
  BY <1>2, CacheAssumption DEF PoolTypes, Buffers, CacheAssumption
<1>7. \A id \in Blocks : reads[id] # 0 => r[reads[id]] = p[reads[id]]
  BY <1>1, <1>2, <1>6 DEF Tickets
<1>8. Tickets(r, want, reads, reading, NoneDone, data)
  BY <1>2, <1>7 DEF Tickets
<1>9. compute \in Seq(Ops) /\ copy \in Seq(Ops) BY DEF StreamsOK, Streams
<1>10. ASSUME NEW q \in {compute, copy}, NEW b \in Buffers, \E i \in DOMAIN q : q[i].buf = b, phase[b] = "H2d"
       PROVE  r[b] = "H2d"
  BY <1>0, <1>1, <1>10 DEF Complete, p
<1>11. Copying(compute, r, data) BY <1>9, <1>10, CopyingKeeps
<1>12. Copying(copy, r, data) BY <1>9, <1>10, CopyingKeeps
<1> QED BY <1>4, <1>5, <1>8, <1>11, <1>12 DEF Pool, r

\* submit_worker_with_admission on a free buffer.
LEMMA SubmittedKeeps ==
    ASSUME NEW p, NEW w, NEW t, NEW g, NEW m, Pool(p, w, t, g, NoneDone, m),
           NEW id \in Blocks, NEW b \in Buffers, p[b] = "Free"
    PROVE  Pool([p EXCEPT ![b] = "Reading"], [w EXCEPT ![b] = id], [t EXCEPT ![id] = b],
                g \cup {b}, NoneDone, [m EXCEPT ![b] = NoBlock])
<1> DEFINE p1 == [p EXCEPT ![b] = "Reading"]
           w1 == [w EXCEPT ![b] = id]
           t1 == [t EXCEPT ![id] = b]
           m1 == [m EXCEPT ![b] = NoBlock]
<1>0. PoolTypes(p, w, t, g, NoneDone, m) /\ Workers(p, g, NoneDone) /\ Tickets(p, w, t, g, NoneDone, m)
  BY DEF Pool
<1>1. \A x \in Buffers : NoneDone[x] = "none" BY DEF NoneDone
<1>2. b \in 0 .. NumBuffers /\ b # 0 BY CacheAssumption DEF Buffers, CacheAssumption
<1>3. PoolTypes(p1, w1, t1, g \cup {b}, NoneDone, m1)
  BY <1>0, <1>2 DEF PoolTypes, Phases
<1>4. /\ \A x \in Buffers : p1[x] = IF x = b THEN "Reading" ELSE p[x]
      /\ \A x \in Buffers : w1[x] = IF x = b THEN id ELSE w[x]
      /\ \A x \in Blocks : t1[x] = IF x = id THEN b ELSE t[x]
      /\ \A x \in Buffers : m1[x] = IF x = b THEN NoBlock ELSE m[x]
  BY <1>0 DEF PoolTypes
<1> HIDE DEF p1, w1, t1, m1
<1>5. Workers(p1, g \cup {b}, NoneDone)
  BY <1>0, <1>1, <1>4 DEF Workers
<1>6. \A x \in Blocks : t[x] # 0 => t[x] \in Buffers /\ t[x] # b
  <2> SUFFICES ASSUME NEW x \in Blocks, t[x] # 0 PROVE t[x] \in Buffers /\ t[x] # b OBVIOUS
  <2>1. t[x] \in Buffers BY <1>0, CacheAssumption DEF PoolTypes, Buffers, CacheAssumption
  <2> QED BY <1>0, <2>1 DEF Tickets
<1>7. Tickets(p1, w1, t1, g \cup {b}, NoneDone, m1)
  <2>1. ASSUME NEW x \in Blocks, t1[x] # 0
        PROVE  \/ /\ p1[t1[x]] = "Reading"
                  /\ t1[x] \in g \cup {b} => w1[t1[x]] = x
                  /\ NoneDone[t1[x]] = "ok" => m1[t1[x]] = x
               \/ p1[t1[x]] = "Ready" /\ m1[t1[x]] = x
               \/ p1[t1[x]] = "Failed"
    <3>1. CASE x = id BY <3>1, <1>1, <1>4
    <3>2. CASE x # id
      <4>1. t1[x] = t[x] /\ t[x] # 0 /\ t[x] \in Buffers /\ t[x] # b BY <3>2, <2>1, <1>4, <1>6
      <4>2. p1[t[x]] = p[t[x]] /\ w1[t[x]] = w[t[x]] /\ m1[t[x]] = m[t[x]] BY <4>1, <1>4
      <4> QED BY <4>1, <4>2, <1>0 DEF Tickets
    <3> QED BY <3>1, <3>2
  <2>2. \A i, j \in Blocks : t1[i] # 0 /\ t1[i] = t1[j] => i = j
    BY <1>0, <1>2, <1>4, <1>6 DEF Tickets
  <2> QED BY <2>1, <2>2 DEF Tickets
<1> QED BY <1>3, <1>5, <1>7 DEF Pool, p1, w1, t1, m1

\* wait_worker takes the ticket away.
LEMMA TicketTaken ==
    ASSUME NEW p, NEW w, NEW t, NEW g, NEW d, NEW m, Pool(p, w, t, g, d, m), NEW id \in Blocks,
           t[id] # 0
    PROVE  /\ Pool(p, w, [t EXCEPT ![id] = 0], g, d, m)
           /\ t[id] \in Buffers /\ \A x \in Blocks : [t EXCEPT ![id] = 0][x] # t[id]
<1> DEFINE t1 == [t EXCEPT ![id] = 0]
<1>0. PoolTypes(p, w, t, g, d, m) /\ Workers(p, g, d) /\ Tickets(p, w, t, g, d, m)
  BY DEF Pool
<1>1. PoolTypes(p, w, t1, g, d, m) BY <1>0, CacheAssumption DEF PoolTypes, CacheAssumption
<1>2. \A x \in Blocks : t1[x] = IF x = id THEN 0 ELSE t[x] BY <1>0 DEF PoolTypes
<1>3. t[id] \in Buffers BY <1>0, CacheAssumption DEF PoolTypes, Buffers, CacheAssumption
<1> HIDE DEF t1
<1>4. Tickets(p, w, t1, g, d, m) BY <1>0, <1>2 DEF Tickets
<1>5. \A x \in Blocks : t1[x] # t[id] BY <1>0, <1>2 DEF Tickets
<1> QED BY <1>0, <1>1, <1>3, <1>4, <1>5 DEF Pool, t1

\* No worker has buffer b, and no ticket leads to it.
AtRest(p, t, b) == p[b] \notin {"Reading", "Canceled"} /\ \A id \in Blocks : t[id] # b

\* The phases and the contents may change from p and m at buffer b only.
Moved(p, m, x, y, b) ==
    /\ x \in [Buffers -> Phases] /\ y \in [Buffers -> Blocks \cup {NoBlock}]
    /\ x[b] \notin {"Reading", "Canceled"}
    /\ \A i \in Buffers : i # b => x[i] = p[i] /\ y[i] = m[i]

\* A buffer at rest changes hands.
LEMMA BufferMoves ==
    ASSUME NEW p, NEW w, NEW t, NEW g, NEW d, NEW m, Pool(p, w, t, g, d, m), NEW b \in Buffers,
           AtRest(p, t, b), NEW x, NEW y, Moved(p, m, x, y, b)
    PROVE  Pool(x, w, t, g, d, y)
<1> USE DEF AtRest, Moved
<1>0. PoolTypes(p, w, t, g, d, m) /\ Workers(p, g, d) /\ Tickets(p, w, t, g, d, m)
  BY DEF Pool
<1>1. PoolTypes(x, w, t, g, d, y) BY <1>0 DEF PoolTypes
<1>2. Workers(x, g, d) BY <1>0 DEF Workers
<1>3. \A id \in Blocks : t[id] # 0 => t[id] \in Buffers
  BY <1>0, CacheAssumption DEF PoolTypes, Buffers, CacheAssumption
<1>4. \A id \in Blocks : t[id] # 0 => x[t[id]] = p[t[id]] /\ y[t[id]] = m[t[id]]
  BY <1>3
<1>5. Tickets(x, w, t, g, d, y) BY <1>0, <1>4 DEF Tickets
<1> QED BY <1>1, <1>2, <1>5 DEF Pool

\* cancel_worker.
LEMMA CancelKeeps ==
    ASSUME Pool(phase, want, reads, reading, done, data), NEW ids \in SUBSET Blocks, Cancel(ids)
    PROVE  /\ Pool(phase', want', reads', reading', done', data')
           /\ \A b \in Buffers : phase[b] = "H2d" => phase'[b] = "H2d"
           /\ data' = data /\ reading' = reading /\ done' = NoneDone
<1> DEFINE p == Polled
<1>0. Pool(p, want, reads, reading, NoneDone, data) /\ \A b \in Buffers : phase[b] = "H2d" => p[b] = "H2d"
  BY PolledKeeps
<1>1. /\ phase' = [b \in Buffers |-> IF \E id \in ids : reads[id] = b THEN cancel_read(p[b]) ELSE p[b]]
      /\ reads' = [id \in Blocks |-> IF id \in ids THEN 0 ELSE reads[id]]
      /\ want' = want /\ reading' = reading /\ data' = data /\ done' = NoneDone
  BY DEF Cancel
<1> HIDE DEF p
<1>2. /\ PoolTypes(p, want, reads, reading, NoneDone, data) /\ Workers(p, reading, NoneDone)
      /\ Tickets(p, want, reads, reading, NoneDone, data)
  BY <1>0 DEF Pool
<1>3. \A b \in Buffers : p[b] \in Phases BY <1>2 DEF PoolTypes
<1>4. \A b \in Buffers : /\ cancel_read(p[b]) \in Phases
                         /\ cancel_read(p[b]) \in {"Reading", "Canceled"} <=> p[b] \in {"Reading", "Canceled"}
                         /\ p[b] = "H2d" => cancel_read(p[b]) = "H2d"
  BY <1>3 DEF cancel_read, Phases
<1>5. PoolTypes(phase', want, reads', reading, NoneDone, data)
  BY <1>1, <1>2, <1>3, <1>4, CacheAssumption DEF PoolTypes, CacheAssumption
<1>6. Workers(phase', reading, NoneDone)
  BY <1>1, <1>2, <1>4 DEF Workers
<1>7. \A b \in Buffers : phase[b] = "H2d" => phase'[b] = "H2d" BY <1>0, <1>1, <1>4
<1>8. ASSUME NEW id \in Blocks, reads'[id] # 0
      PROVE  reads'[id] = reads[id] /\ reads[id] \in Buffers /\ phase'[reads[id]] = p[reads[id]]
  <2>1. id \notin ids /\ reads'[id] = reads[id] /\ reads[id] # 0 BY <1>1, <1>8
  <2>2. reads[id] \in Buffers
    BY <2>1, <1>2, CacheAssumption DEF PoolTypes, Buffers, CacheAssumption
  <2>3. ~ \E i \in ids : reads[i] = reads[id] BY <2>1, <1>2 DEF Tickets
  <2> QED BY <2>1, <2>2, <2>3, <1>1
<1>9. Tickets(phase', want, reads', reading, NoneDone, data)
  BY <1>2, <1>8 DEF Tickets
<1> QED BY <1>1, <1>5, <1>6, <1>7, <1>9 DEF Pool

\* A disk worker ends a read.
LEMMA WorkerKeeps ==
    ASSUME Pool(phase, want, reads, reading, done, data), NEW b \in Buffers, WorkerReads(b)
    PROVE  /\ Pool(phase', want', reads', reading', done', data')
           /\ phase' = phase /\ \A x \in Buffers : phase[x] = "H2d" => data'[x] = data[x]
<1>0. /\ PoolTypes(phase, want, reads, reading, done, data) /\ Workers(phase, reading, done)
      /\ Tickets(phase, want, reads, reading, done, data)
  BY DEF Pool
<1>1. PICK e \in {"ok", "err"} :
         /\ done' = [done EXCEPT ![b] = e]
         /\ data' = [data EXCEPT ![b] = IF e = "ok" THEN want[b] ELSE NoBlock]
  BY DEF WorkerReads
<1>2. /\ b \in reading /\ reading' = reading \ {b} /\ want' = [want EXCEPT ![b] = NoBlock]
      /\ phase' = phase /\ reads' = reads
  BY DEF WorkerReads
<1>3. PoolTypes(phase', want', reads', reading', done', data')
  BY <1>0, <1>1, <1>2 DEF PoolTypes
<1>4. /\ \A x \in Buffers : done'[x] = IF x = b THEN e ELSE done[x]
      /\ \A x \in Buffers : want'[x] = IF x = b THEN NoBlock ELSE want[x]
      /\ \A x \in Buffers : data'[x] = IF x = b THEN (IF e = "ok" THEN want[b] ELSE NoBlock) ELSE data[x]
      /\ reading \subseteq Buffers
  BY <1>0, <1>1, <1>2 DEF PoolTypes
<1>5. phase[b] \in {"Reading", "Canceled"} /\ done[b] = "none" BY <1>0, <1>2 DEF Workers
<1>6. Workers(phase', reading', done')
  BY <1>0, <1>2, <1>4, <1>5 DEF Workers
<1>7. ASSUME NEW id \in Blocks, reads[id] # 0
      PROVE  \/ /\ phase[reads[id]] = "Reading"
                /\ reads[id] \in reading' => want'[reads[id]] = id
                /\ done'[reads[id]] = "ok" => data'[reads[id]] = id
             \/ phase[reads[id]] = "Ready" /\ data'[reads[id]] = id
             \/ phase[reads[id]] = "Failed"
  <2> DEFINE x == reads[id]
  <2>1. x \in Buffers BY <1>0, <1>7, CacheAssumption DEF PoolTypes, Buffers, CacheAssumption
  <2>2. \/ /\ phase[x] = "Reading"
           /\ x \in reading => want[x] = id
           /\ done[x] = "ok" => data[x] = id
        \/ phase[x] = "Ready" /\ data[x] = id
        \/ phase[x] = "Failed"
    BY <1>0, <1>7 DEF Tickets
  <2> HIDE DEF x
  <2>3. \/ /\ phase[x] = "Reading"
           /\ x \in reading' => want'[x] = id
           /\ done'[x] = "ok" => data'[x] = id
        \/ phase[x] = "Ready" /\ data'[x] = id
        \/ phase[x] = "Failed"
    BY <2>1, <2>2, <1>2, <1>4, <1>5
  <2> QED BY <2>3 DEF x
<1>8. Tickets(phase', want', reads', reading', done', data')
  BY <1>0, <1>2, <1>7 DEF Tickets
<1> QED BY <1>2, <1>3, <1>4, <1>5, <1>6, <1>8 DEF Pool

-----------------------------------------------------------------------------
(* The buffers of the operations queued *)

\* q2 has no buffer that q had not, for the same block.
Keeps(q, q2) ==
    \A i \in DOMAIN q2 : q2[i].buf # 0 =>
        \E j \in DOMAIN q : q[j].buf = q2[i].buf /\ q[j].id = q2[i].id

\* q2 may have buffer b for block id besides.
Adds(q, q2, b, id) ==
    \A i \in DOMAIN q2 : q2[i].buf # 0 =>
        \/ q2[i].buf = b /\ q2[i].id = id
        \/ \E j \in DOMAIN q : q[j].buf = q2[i].buf /\ q[j].id = q2[i].id

\* What one more operation adds.
LEMMA AppendBuffers ==
    ASSUME NEW q \in Seq(Ops), NEW o
    PROVE  Adds(q, Append(q, o), o.buf, o.id) /\ (o.buf = 0 => Keeps(q, Append(q, o)))
<1> DEFINE p == Append(q, o)
<1>1. q \in Seq(Ops \cup {o}) OBVIOUS
<1>2. /\ DOMAIN p = 1 .. Len(q) + 1 /\ DOMAIN q = 1 .. Len(q) /\ Len(q) \in Nat
      /\ p[Len(q) + 1] = o /\ \A i \in 1 .. Len(q) : p[i] = q[i]
  BY <1>1
<1> HIDE DEF p
<1>3. \A i \in DOMAIN p : p[i] = o \/ (i \in DOMAIN q /\ p[i] = q[i])
  BY <1>2
<1> QED BY <1>3 DEF Adds, Keeps, p

\* Keeping is reflexive and transitive, and running an operation keeps.
LEMMA KeepsMore ==
    /\ \A q : Keeps(q, q)
    /\ \A q, r, s : Keeps(q, r) /\ Keeps(r, s) => Keeps(q, s)
    /\ \A q, r, s, b, id : Adds(q, r, b, id) /\ Keeps(r, s) => Adds(q, s, b, id)
    /\ \A q, r, b, id : Keeps(q, r) => Adds(q, r, b, id)
    /\ \A q \in Seq(Ops) : Keeps(q, Landed(q)) /\ (q # <<>> => Keeps(q, Tail(q)))
<1>1. \A q : Keeps(q, q) BY DEF Keeps
<1>2. ASSUME NEW q, NEW r, NEW s, Keeps(q, r), Keeps(r, s) PROVE Keeps(q, s)
  BY <1>2 DEF Keeps
<1>3. ASSUME NEW q, NEW r, NEW s, NEW b, NEW id, Adds(q, r, b, id), Keeps(r, s)
      PROVE  Adds(q, s, b, id)
  BY <1>3 DEF Keeps, Adds
<1>4. \A q, r, b, id : Keeps(q, r) => Adds(q, r, b, id) BY DEF Keeps, Adds
<1>5. ASSUME NEW q \in Seq(Ops) PROVE Keeps(q, Landed(q))
  <2> DEFINE w == Landed(q)
  <2>1. DOMAIN w = 1 .. Len(q) /\ \A i \in 1 .. Len(q) : w[i].id = q[i].id /\ w[i].buf = q[i].buf
    BY LandedFacts
  <2> HIDE DEF w
  <2>2. DOMAIN q = 1 .. Len(q) OBVIOUS
  <2> QED BY <2>1, <2>2 DEF Keeps, w
<1>6. ASSUME NEW q \in Seq(Ops), q # <<>> PROVE Keeps(q, Tail(q))
  <2> DEFINE w == Tail(q)
             n == Len(q)
  <2>1. /\ n \in Nat \ {0} /\ DOMAIN q = 1 .. n /\ DOMAIN w = 1 .. n - 1
        /\ \A i \in 1 .. n - 1 : w[i] = q[i + 1]
    BY <1>6, Ends
  <2> HIDE DEF w, n
  <2>2. \A i \in DOMAIN w : i + 1 \in DOMAIN q /\ w[i] = q[i + 1] BY <2>1
  <2> QED BY <2>2 DEF Keeps, w
<1> QED BY <1>1, <1>2, <1>3, <1>4, <1>5, <1>6

\* admit reads the mapped file: no buffer.
LEMMA AdmitBuffers ==
    ASSUME compute \in Seq(Ops), NEW k, NEW id \in Blocks, NEW n, NEW kernels, NEW where, NEW p,
           Accounted(k), Admit(k, id, n, kernels, where, p)
    PROVE  Keeps(compute, compute')
<1>1. CASE compute' = compute BY <1>1, KeepsMore
<1>2. CASE \E r \in reserve(k, {}) :
             LET write == Op("write", r.slot, id, 0, 0) IN
             \/ compute' = Append(compute, write) \o (IF kernels THEN <<Kernel(r.slot, id)>> ELSE <<>>)
             \/ compute' = Append(compute, write)
  <2>1. PICK r \in reserve(k, {}) :
             LET write == Op("write", r.slot, id, 0, 0) IN
             \/ compute' = Append(compute, write) \o (IF kernels THEN <<Kernel(r.slot, id)>> ELSE <<>>)
             \/ compute' = Append(compute, write)
    BY <1>2
  <2>2. r.slot \in Slots BY ReserveKeeps
  <2> DEFINE w == Op("write", r.slot, id, 0, 0)
             u == Kernel(r.slot, id)
             q == Append(compute, w)
  <2>3. compute' = q \/ compute' = Append(q, u)
    BY <2>1
  <2>4. w.buf = 0 /\ u.buf = 0 /\ w \in Ops
    <3>1. 0 \in 0 .. NumBuffers /\ 0 \in Nat BY CacheAssumption DEF CacheAssumption
    <3> QED BY <2>2, <3>1, OpTypes
  <2> HIDE DEF w, u
  <2>5. q \in Seq(Ops) BY <2>4
  <2>6. Keeps(compute, q) BY <2>4, AppendBuffers
  <2> HIDE DEF q
  <2>7. Keeps(q, Append(q, u)) BY <2>4, <2>5, AppendBuffers
  <2>8. Keeps(compute, Append(q, u)) BY <2>6, <2>7, KeepsMore
  <2> QED BY <2>3, <2>6, <2>8
<1> QED BY <1>1, <1>2 DEF Admit

\* dispatch_disk: the copy from buffer b is queued and the buffer is H2d, or neither.
LEMMA StageBuffers ==
    ASSUME Accounted(c), compute \in Seq(Ops), sel[pos] \in Blocks, NEW b \in 0 .. NumBuffers, NEW p,
           StageRead(b, p)
    PROVE  \/ phase' \in {p, [p EXCEPT ![b] = "Free"]} /\ Keeps(compute, compute')
           \/ phase' = [p EXCEPT ![b] = "H2d"] /\ Adds(compute, compute', b, sel[pos])
<1>1. CASE phase' = p /\ compute' = compute BY <1>1, KeepsMore
<1>2. CASE \E r \in reserve(c, {}) :
             /\ phase' = [p EXCEPT ![b] = "Free"]
             /\ Admit(release_reserved_slot(r.cache, r.slot), sel[pos], faults + 1, TRUE, NextAt, NextPos)
  <2>1. PICK r \in reserve(c, {}) :
             /\ phase' = [p EXCEPT ![b] = "Free"]
             /\ Admit(release_reserved_slot(r.cache, r.slot), sel[pos], faults + 1, TRUE, NextAt, NextPos)
    BY <1>2
  <2>2. Accounted(release_reserved_slot(r.cache, r.slot)) BY ReserveKeeps, ReleaseKeeps
  <2>3. Keeps(compute, compute') BY <2>1, <2>2, AdmitBuffers
  <2> QED BY <2>1, <2>3
<1>3. CASE \E r \in reserve(c, {}) :
             LET write == Op("write", r.slot, sel[pos], b, 0) IN
             /\ compute' \in {compute, Append(compute, write), compute \o <<write, Kernel(r.slot, sel[pos])>>}
             /\ phase' = [p EXCEPT ![b] = "H2d"]
  <2>1. PICK r \in reserve(c, {}) :
             LET write == Op("write", r.slot, sel[pos], b, 0) IN
             /\ compute' \in {compute, Append(compute, write), compute \o <<write, Kernel(r.slot, sel[pos])>>}
             /\ phase' = [p EXCEPT ![b] = "H2d"]
    BY <1>3
  <2>2. r.slot \in Slots BY ReserveKeeps
  <2> DEFINE w == Op("write", r.slot, sel[pos], b, 0)
             u == Kernel(r.slot, sel[pos])
             q == Append(compute, w)
  <2>4. w.buf = b /\ w.id = sel[pos] /\ u.buf = 0 /\ w \in Ops /\ u \in Ops
    <3>1. 0 \in 0 .. NumBuffers /\ 0 \in Nat BY CacheAssumption DEF CacheAssumption
    <3> QED BY <2>2, <3>1, OpTypes
  <2>3. compute' = compute \/ compute' = q \/ compute' = compute \o <<w, u>>
    BY <2>1
  <2> HIDE DEF w, u
  <2>5. compute \o <<w, u>> = Append(q, u) BY <2>4
  <2>6. q \in Seq(Ops) BY <2>4
  <2>7. Adds(compute, q, b, sel[pos]) BY <2>4, AppendBuffers
  <2> HIDE DEF q
  <2>8. Keeps(q, Append(q, u)) BY <2>4, <2>6, AppendBuffers
  <2>9. Adds(compute, compute, b, sel[pos]) BY KeepsMore
  <2>10. Adds(compute, Append(q, u), b, sel[pos]) BY <2>7, <2>8, KeepsMore
  <2> QED BY <2>1, <2>3, <2>5, <2>7, <2>9, <2>10
<1> QED BY <1>1, <1>2, <1>3 DEF StageRead

\* prefetch_bytes copies from the mapped file: no buffer.
LEMMA PrefetchBuffers ==
    ASSUME Accounted(c), copy \in Seq(Ops), Len(compute) \in Nat, NEW id \in Blocks, PrefetchBytes(id)
    PROVE  Keeps(copy, copy')
<1>1. CASE copy' = copy BY <1>1, KeepsMore
<1>2. CASE \E r \in reserve(c, {sel[pos]}) : copy' = Append(copy, Op("write", r.slot, id, 0, CopyFence))
  <2>1. PICK r \in reserve(c, {sel[pos]}) : copy' = Append(copy, Op("write", r.slot, id, 0, CopyFence))
    BY <1>2
  <2>2. Op("write", r.slot, id, 0, CopyFence).buf = 0 BY DEF Op
  <2> QED BY <2>1, <2>2, AppendBuffers
<1> QED BY <1>1, <1>2 DEF PrefetchBytes

\* No buffer is queued, or buffer b, handed over with block id in it.
Stages(q, r, x, y, b, id) ==
    Keeps(q, r) \/ (Adds(q, r, b, id) /\ x[b] = "H2d" /\ y[b] = id)

\* The copies of a stream after a step that moves buffer b.
LEMMA StageCopying ==
    ASSUME NEW q \in Seq(Ops), NEW r, NEW p, NEW m, Copying(q, p, m), NEW b, p[b] # "H2d",
           NEW x, NEW y, Moved(p, m, x, y, b), NEW id, Stages(q, r, x, y, b, id)
    PROVE  Copying(r, x, y)
<1> USE DEF Moved, Stages
<1> SUFFICES ASSUME NEW i \in DOMAIN r, r[i].buf # 0
             PROVE  x[r[i].buf] = "H2d" /\ y[r[i].buf] = r[i].id
  BY DEF Copying
<1>1. CASE r[i].buf = b /\ r[i].id = id /\ x[b] = "H2d" /\ y[b] = id
  BY <1>1
<1>2. CASE \E j \in DOMAIN q : q[j].buf = r[i].buf /\ q[j].id = r[i].id
  <2>1. PICK j \in DOMAIN q : q[j].buf = r[i].buf /\ q[j].id = r[i].id BY <1>2
  <2>2. q[j] \in Ops OBVIOUS
  <2>3. q[j].buf \in Buffers BY <2>1, <2>2, CacheAssumption DEF Ops, Buffers, CacheAssumption
  <2>4. p[q[j].buf] = "H2d" /\ m[q[j].buf] = q[j].id BY <2>1 DEF Copying
  <2> QED BY <2>1, <2>3, <2>4
<1> QED BY <1>1, <1>2 DEF Keeps, Adds

\* The same when no buffer moves.
LEMMA KeepsCopying ==
    ASSUME NEW q, NEW r, NEW p, NEW m, Copying(q, p, m), Keeps(q, r)
    PROVE  Copying(r, p, m) /\ (Buffered(r) => Buffered(q))
  BY DEF Copying, Keeps, Buffered

-----------------------------------------------------------------------------
(* The pool: every action *)

\* A step of a forward.
LEMMA ForwardPool ==
    ASSUME PoolInv, at \notin Dropping, at' \notin Dropping, cfg' = cfg, freed' = freed,
           Pool(phase', want', reads', reading', done', data'),
           Copying(compute', phase', data'), Copying(copy', phase', data'),
           cfg.mode = "blocking" => reading' = {} /\ done' = NoneDone,
           kept' \/ (kept' = kept /\ Keeps(compute, compute')),
           cfg.copy \/ Keeps(copy, copy')
    PROVE  PoolInv'
<1>1. "buffers" \notin freed BY DEF PoolInv, Dropping
<1>2. Keeps(compute, compute') /\ Buffered(compute') => Buffered(compute) BY DEF Keeps, Buffered
<1>3. Keeps(copy, copy') /\ Buffered(copy') => Buffered(copy) BY DEF Keeps, Buffered
<1>4. Buffered(compute') => kept' BY <1>2 DEF PoolInv
<1>5. Buffered(copy') => cfg.copy BY <1>3 DEF PoolInv
<1>6. NoneDone' = NoneDone BY DEF NoneDone
<1> QED BY <1>1, <1>4, <1>5, <1>6 DEF PoolInv

\* A step of the device or of a worker, or none, wherever the owner thread is.
LEMMA OtherPool ==
    ASSUME PoolInv, UNCHANGED <<at, cfg, freed, kept, lost>>,
           Pool(phase', want', reads', reading', done', data'),
           Copying(compute', phase', data'), Copying(copy', phase', data'),
           reading' \subseteq reading, cfg.mode = "blocking" => done' = NoneDone,
           Keeps(compute, compute'), Keeps(copy, copy')
    PROVE  PoolInv'
<1>2. Buffered(compute') => Buffered(compute) BY DEF Keeps, Buffered
<1>3. Buffered(copy') => Buffered(copy) BY DEF Keeps, Buffered
<1>6. NoneDone' = NoneDone BY DEF NoneDone
<1> QED BY <1>2, <1>3, <1>6 DEF PoolInv

\* A step of a forward that leaves the pool alone and queues no buffer.
LEMMA QuietPool ==
    ASSUME PoolInv, at \notin Dropping, at' \notin Dropping, UNCHANGED <<cfg, freed, kept, poolVars>>,
           Keeps(compute, compute'), Keeps(copy, copy')
    PROVE  PoolInv'
<1>1. UNCHANGED <<phase, want, reads, reading, done, data>> BY DEF poolVars
<1>2. /\ Copying(compute, phase, data) /\ Copying(copy, phase, data)
      /\ Pool(phase, want, reads, reading, done, data)
      /\ cfg.mode = "blocking" => reading = {} /\ done = NoneDone
  BY DEF PoolInv
<1>3. Copying(compute', phase, data) /\ Copying(copy', phase, data) BY <1>2, KeepsCopying
<1> QED BY <1>1, <1>2, <1>3, ForwardPool

\* A step of a forward that only changes the pool, and keeps every H2d buffer
\* of the two streams.
LEMMA PooledStep ==
    ASSUME PoolInv, at \notin Dropping, at' \notin Dropping, UNCHANGED <<cfg, freed, kept>>,
           UNCHANGED <<compute, copy>>,
           Pool(phase', want', reads', reading', done', data'), done' = NoneDone,
           Copying(compute, phase', data'), Copying(copy, phase', data'),
           cfg.mode = "blocking" => reading' = {}
    PROVE  PoolInv'
<1>1. Keeps(compute, compute') /\ Keeps(copy, copy') BY KeepsMore
<1> QED BY <1>1, ForwardPool

\* A submission leaves the copies alone: the buffer it takes is free.
LEMMA SubmittedCopying ==
    ASSUME cfg \in Configs, NEW p, Pool(p, want, reads, reading, NoneDone, data), StreamsOK,
           Copying(compute, p, data), Copying(copy, p, data), NEW id \in Blocks,
           FreeIn(p) # {}, Submitted(id, p), done' = NoneDone
    PROVE  /\ Pool(phase', want', reads', reading', done', data')
           /\ Copying(compute, phase', data') /\ Copying(copy, phase', data')
<1> DEFINE b == First(FreeIn(p))
<1>1. b \in Buffers /\ p[b] = "Free" BY FirstFree DEF FreeIn
<1>2. /\ phase' = [p EXCEPT ![b] = "Reading"] /\ want' = [want EXCEPT ![b] = id]
      /\ reads' = [reads EXCEPT ![id] = b] /\ reading' = reading \cup {b}
      /\ data' = [data EXCEPT ![b] = NoBlock]
  BY DEF Submitted
<1> HIDE DEF b
<1>3. Pool(phase', want', reads', reading', NoneDone, data')
  BY <1>1, <1>2, SubmittedKeeps
<1>4. p \in [Buffers -> Phases] /\ data \in [Buffers -> Blocks \cup {NoBlock}] BY DEF Pool, PoolTypes
<1>5. \A x \in Buffers : p[x] = "H2d" => phase'[x] = "H2d" /\ data'[x] = data[x]
  BY <1>1, <1>2, <1>4
<1>6. compute \in Seq(Ops) /\ copy \in Seq(Ops) BY DEF StreamsOK, Streams
<1>7. Copying(compute, phase', data') BY <1>5, <1>6, CopyingKeeps
<1>8. Copying(copy, phase', data') BY <1>5, <1>6, CopyingKeeps
<1> QED BY <1>3, <1>7, <1>8

\* A speculative read: taken up, or not.
LEMMA SpeculateKeeps ==
    ASSUME PoolInv, StreamsOK, cfg \in Configs, NEW id \in Blocks, Speculate(id)
    PROVE  /\ Pool(phase', want', reads', reading', done', data') /\ done' = NoneDone
           /\ Copying(compute, phase', data') /\ Copying(copy, phase', data')
<1>1. /\ Pool(Reaped, want, reads, reading, NoneDone, data)
      /\ Copying(compute, Reaped, data) /\ Copying(copy, Reaped, data)
  BY ReapedKeeps DEF PoolInv
<1>2. done' = NoneDone BY DEF Speculate
<1>3. CASE phase' = Reaped /\ UNCHANGED <<want, reads, reading, data>>
  BY <1>1, <1>2, <1>3
<1>4. CASE Cardinality(FreeIn(Reaped)) > 1 /\ Submitted(id, Reaped)
  <2>1. FreeIn(Reaped) # {}
    <3>1. Cardinality({}) = 0 BY FS_EmptySet
    <3> QED BY <1>4, <3>1
  <2> QED BY <1>1, <1>2, <1>4, <2>1, SubmittedCopying
<1> QED BY <1>3, <1>4 DEF Speculate

\* A buffer goes from the host to a queued copy, or back to the free ones.
LEMMA StageMoves ==
    ASSUME NEW q \in Seq(Ops), NEW q2, NEW r \in Seq(Ops), NEW r2,
           NEW p, NEW w, NEW t, NEW g, NEW d, NEW m, Pool(p, w, t, g, d, m),
           Copying(q, p, m), Copying(r, p, m),
           NEW b \in Buffers, AtRest(p, t, b), p[b] # "H2d",
           NEW x, NEW y, Moved(p, m, x, y, b),
           NEW id, Stages(q, q2, x, y, b, id), Stages(r, r2, x, y, b, id)
    PROVE  Pool(x, w, t, g, d, y) /\ Copying(q2, x, y) /\ Copying(r2, x, y)
<1>1. Pool(x, w, t, g, d, y) BY BufferMoves
<1>2. Copying(q2, x, y) BY StageCopying
<1>3. Copying(r2, x, y) BY StageCopying
<1> QED BY <1>1, <1>2, <1>3

\* dispatch_disk on the blocking backend.
LEMMA BlockingPool ==
    ASSUME HostOK, Accounted(c), StreamsOK, StreamsOK', PoolInv, MissBlocking
    PROVE  PoolInv'
<1> DEFINE id == sel[pos]
           h2d == {b \in Buffers : Reaped[b] = "H2d"}
           waits == FreeIn(Reaped) = {} /\ h2d # {}
           p == IF waits THEN [Reaped EXCEPT ![First(h2d)] = "Free"] ELSE Reaped
           b == First(FreeIn(p))
<1>0. /\ at = "dispatch" /\ cfg.mode = "blocking" /\ kept' = TRUE
      /\ UNCHANGED <<cfg, want, reads, reading, done, copy, freed>>
      /\ waits => Complete(First(h2d))
      /\ \/ FreeIn(p) = {} /\ Fallback(faults, p) /\ UNCHANGED data
         \/ /\ FreeIn(p) # {} /\ data' = [data EXCEPT ![b] = sel[pos]]
            /\ StageRead(b, [p EXCEPT ![b] = "Ready"])
         \/ /\ FreeIn(p) # {} /\ faults < MaxFaults
            /\ data' = [data EXCEPT ![b] = NoBlock] /\ Fallback(faults + 1, p)
  BY DEF MissBlocking, Miss
<1>1. /\ Pool(Reaped, want, reads, reading, NoneDone, data)
      /\ Copying(compute, Reaped, data) /\ Copying(copy, Reaped, data)
  BY ReapedKeeps DEF PoolInv
<1>2. /\ id \in Blocks /\ cfg \in Configs /\ compute \in Seq(Ops) /\ copy \in Seq(Ops)
      /\ reading = {} /\ done = NoneDone /\ copy' \in Seq(Ops) /\ compute' \in Seq(Ops)
  BY <1>0, Moves DEF Selected, HostOK, StreamsOK, Streams, PoolInv
<1>3. at' \in {"idle", "ahead"} /\ at \notin Dropping /\ at' \notin Dropping
  <2>1. NextAt \in {"idle", "ahead"} BY DEF NextAt
  <2>2. at' \in {"idle", NextAt}
    BY <1>0, Zenon DEF Fallback, StageRead, Admit, FailForward, Goto
  <2> QED BY <1>0, <2>1, <2>2 DEF Dropping
<1>4. /\ Pool(p, want, reads, reading, NoneDone, data)
      /\ Copying(compute, p, data) /\ Copying(copy, p, data)
  <2>1. CASE ~waits BY <2>1, <1>1
  <2>2. CASE waits
    <3> DEFINE d == First(h2d)
    <3>1. h2d \subseteq Nat BY CacheAssumption DEF Buffers, CacheAssumption
    <3>2. d \in h2d BY <2>2, <3>1, LeastOf
    <3>3. d \in Buffers /\ Reaped[d] = "H2d" /\ Complete(d) BY <3>2, <2>2, <1>0
    <3>4. p = [Reaped EXCEPT ![d] = "Free"] BY <2>2
    <3> HIDE DEF d, p, waits, h2d
    <3>5. Reaped \in [Buffers -> Phases] /\ data \in [Buffers -> Blocks \cup {NoBlock}]
      BY <1>1 DEF Pool, PoolTypes
    <3>6. /\ p \in [Buffers -> Phases] /\ p[d] = "Free"
          /\ \A i \in Buffers : i # d => p[i] = Reaped[i]
      BY <3>3, <3>4, <3>5 DEF Phases
    <3>7. \A i \in Blocks : reads[i] # d
      <4>1. d # 0 BY <3>3, CacheAssumption DEF Buffers, CacheAssumption
      <4>2. Tickets(Reaped, want, reads, reading, NoneDone, data) BY <1>1 DEF Pool
      <4> QED BY <3>3, <4>1, <4>2 DEF Tickets
    <3>8. Pool(p, want, reads, reading, NoneDone, data)
      <4>1. AtRest(Reaped, reads, d) BY <3>3, <3>7 DEF AtRest
      <4>2. Moved(Reaped, data, p, data, d) BY <3>5, <3>6 DEF Moved
      <4> QED BY <4>1, <4>2, <1>1, <3>3, BufferMoves
    <3>9. ASSUME NEW q \in {compute, copy}, NEW i \in Buffers, \E j \in DOMAIN q : q[j].buf = i, Reaped[i] = "H2d"
          PROVE  p[i] = "H2d"
      BY <3>3, <3>6, <3>9 DEF Complete
    <3>10. Copying(compute, p, data) BY <1>1, <1>2, <3>9, CopyingKeeps
    <3>11. Copying(copy, p, data) BY <1>1, <1>2, <3>9, CopyingKeeps
    <3> QED BY <3>8, <3>10, <3>11
  <2> QED BY <2>1, <2>2
<1>5. FreeIn(p) # {} => b \in Buffers /\ p[b] = "Free" /\ b \in 0 .. NumBuffers /\ \A i \in Blocks : reads[i] # b
  <2> HIDE DEF p
  <2> SUFFICES ASSUME FreeIn(p) # {}
               PROVE  b \in Buffers /\ p[b] = "Free" /\ b \in 0 .. NumBuffers /\ \A i \in Blocks : reads[i] # b
    OBVIOUS
  <2>1. b \in Buffers /\ p[b] = "Free" BY <1>2, FirstFree DEF FreeIn
  <2> HIDE DEF b
  <2>2. b \in 0 .. NumBuffers /\ b # 0 BY <2>1, CacheAssumption DEF Buffers, CacheAssumption
  <2>3. Tickets(p, want, reads, reading, NoneDone, data) BY <1>4 DEF Pool
  <2> QED BY <2>1, <2>2, <2>3 DEF Tickets
<1> HIDE DEF p, b, waits, h2d, id
<1>6. p \in [Buffers -> Phases] /\ data \in [Buffers -> Blocks \cup {NoBlock}]
  BY <1>4 DEF Pool, PoolTypes
<1>7. Keeps(copy, copy') BY <1>0, KeepsMore
<1> SUFFICES /\ Pool(phase', want, reads, reading, NoneDone, data')
             /\ Copying(compute', phase', data') /\ Copying(copy', phase', data')
  BY <1>0, <1>2, <1>3, <1>7, ForwardPool
<1>8. CASE FreeIn(p) = {} /\ Fallback(faults, p) /\ UNCHANGED data
  <2>1. Keeps(compute, compute') /\ phase' = p
    BY <1>2, <1>8, AdmitBuffers DEF Fallback, id
  <2> QED BY <2>1, <1>4, <1>7, <1>8, KeepsCopying
<1>a. ASSUME FreeIn(p) # {}, NEW x \in {"Free", "Ready", "H2d"}, NEW z \in Blocks \cup {NoBlock},
             phase' = [p EXCEPT ![b] = x], data' = [data EXCEPT ![b] = z],
             Keeps(compute, compute') \/ (Adds(compute, compute', b, id) /\ x = "H2d" /\ z = id)
      PROVE  /\ Pool(phase', want, reads, reading, NoneDone, data')
             /\ Copying(compute', phase', data') /\ Copying(copy', phase', data')
  <2>1. b \in Buffers /\ AtRest(p, reads, b) /\ p[b] # "H2d" BY <1>5, <1>a DEF AtRest
  <2>2. Moved(p, data, phase', data', b)
    BY <2>1, <1>6, <1>a DEF Moved, Phases
  <2>3. phase'[b] = x /\ data'[b] = z BY <2>1, <1>6, <1>a
  <2>4. Stages(compute, compute', phase', data', b, id) /\ Stages(copy, copy', phase', data', b, id)
    BY <2>3, <1>7, <1>a DEF Stages
  <2> QED BY <2>1, <2>2, <2>4, <1>2, <1>4, StageMoves
<1>9. CASE /\ FreeIn(p) # {} /\ data' = [data EXCEPT ![b] = NoBlock] /\ Fallback(faults + 1, p)
  <2>1. Keeps(compute, compute') /\ phase' = p
    BY <1>2, <1>9, AdmitBuffers DEF Fallback, id
  <2>2. p = [p EXCEPT ![b] = "Free"] BY <1>5, <1>6, <1>9
  <2> QED BY <2>1, <2>2, <1>9, <1>a
<1>10. CASE /\ FreeIn(p) # {} /\ data' = [data EXCEPT ![b] = id]
            /\ StageRead(b, [p EXCEPT ![b] = "Ready"])
  <2> DEFINE r == [p EXCEPT ![b] = "Ready"]
  <2>1. \/ phase' \in {r, [r EXCEPT ![b] = "Free"]} /\ Keeps(compute, compute')
        \/ phase' = [r EXCEPT ![b] = "H2d"] /\ Adds(compute, compute', b, id)
    BY <1>2, <1>5, <1>10, StageBuffers DEF id
  <2>3. [r EXCEPT ![b] = "Free"] = [p EXCEPT ![b] = "Free"] /\ [r EXCEPT ![b] = "H2d"] = [p EXCEPT ![b] = "H2d"]
    BY <1>5, <1>6, <1>10
  <2> QED BY <2>1, <2>3, <1>2, <1>10, <1>a
<1> QED BY <1>0, <1>8, <1>9, <1>10 DEF id

\* dispatch_disk on the worker backend, with a ticket.
LEMMA ReadPool ==
    ASSUME HostOK, Accounted(c), StreamsOK, StreamsOK', PoolInv, MissRead
    PROVE  PoolInv'
<1> DEFINE id == sel[pos]
           b == reads[id]
           t == [reads EXCEPT ![id] = 0]
<1>0. /\ at = "dispatch" /\ cfg.mode = "worker" /\ kept' = TRUE /\ done' = NoneDone
      /\ UNCHANGED <<cfg, want, reading, data, copy, freed>> /\ b # 0 /\ reads' = t
      /\ \/ Polled[b] = "Ready" /\ StageRead(b, Polled)
         \/ Polled[b] = "Failed" /\ Fallback(faults, [Polled EXCEPT ![b] = "Free"])
  BY DEF MissRead, Miss
<1>1. /\ Pool(Polled, want, reads, reading, NoneDone, data)
      /\ \A x \in Buffers : phase[x] = "H2d" => Polled[x] = "H2d"
  BY PolledKeeps DEF PoolInv
<1>2. id \in Blocks /\ compute \in Seq(Ops) /\ copy \in Seq(Ops)
  BY <1>0, Moves DEF Selected, StreamsOK, Streams
<1>3. at \notin Dropping /\ at' \notin Dropping
  <2>1. NextAt \in {"idle", "ahead"} BY DEF NextAt
  <2>2. at' \in {"idle", NextAt}
    BY <1>0, Zenon DEF Fallback, StageRead, Admit, FailForward, Goto
  <2> QED BY <1>0, <2>1, <2>2 DEF Dropping
<1>4. Copying(compute, Polled, data) /\ Copying(copy, Polled, data)
  BY <1>1, <1>2, CopyingKeeps DEF PoolInv
<1>5. /\ Pool(Polled, want, t, reading, NoneDone, data)
      /\ b \in Buffers /\ \A x \in Blocks : t[x] # b
  BY <1>0, <1>1, <1>2, TicketTaken
<1>6. Polled[b] = "Ready" => data[b] = id
  <2>1. Tickets(Polled, want, reads, reading, NoneDone, data) BY <1>1 DEF Pool
  <2> QED BY <2>1, <1>0, <1>2 DEF Tickets
<1>7. b \in 0 .. NumBuffers /\ Polled \in [Buffers -> Phases] /\ data \in [Buffers -> Blocks \cup {NoBlock}]
  BY <1>5, CacheAssumption DEF Pool, PoolTypes, Buffers, CacheAssumption
<1> HIDE DEF id, b, t
<1>8. Keeps(copy, copy') BY <1>0, KeepsMore
<1> SUFFICES /\ Pool(phase', want, t, reading, NoneDone, data')
             /\ Copying(compute', phase', data') /\ Copying(copy', phase', data')
  BY <1>0, <1>3, <1>8, ForwardPool
<1>10. ASSUME NEW x \in {"Free", "Ready", "H2d"}, phase' = [Polled EXCEPT ![b] = x],
              Polled[b] \in {"Ready", "Failed"},
              Keeps(compute, compute') \/ (Adds(compute, compute', b, id) /\ x = "H2d" /\ data[b] = id)
       PROVE  /\ Pool(phase', want, t, reading, NoneDone, data')
              /\ Copying(compute', phase', data') /\ Copying(copy', phase', data')
  <2>1. AtRest(Polled, t, b) /\ Polled[b] # "H2d" BY <1>5, <1>10 DEF AtRest
  <2>2. Moved(Polled, data, phase', data', b)
    BY <1>0, <1>5, <1>7, <1>10 DEF Moved, Phases
  <2>3. phase'[b] = x /\ data'[b] = data[b] BY <1>0, <1>5, <1>7, <1>10
  <2>4. Stages(compute, compute', phase', data', b, id) /\ Stages(copy, copy', phase', data', b, id)
    BY <2>3, <1>8, <1>10 DEF Stages
  <2> QED BY <2>1, <2>2, <2>4, <1>2, <1>4, <1>5, StageMoves
<1>11. CASE Polled[b] = "Failed" /\ Fallback(faults, [Polled EXCEPT ![b] = "Free"])
  <2>1. Keeps(compute, compute') /\ phase' = [Polled EXCEPT ![b] = "Free"]
    BY <1>2, <1>11, AdmitBuffers DEF Fallback, id
  <2> QED BY <2>1, <1>10, <1>11
<1>12. CASE Polled[b] = "Ready" /\ StageRead(b, Polled)
  <2>1. \/ phase' \in {Polled, [Polled EXCEPT ![b] = "Free"]} /\ Keeps(compute, compute')
        \/ phase' = [Polled EXCEPT ![b] = "H2d"] /\ Adds(compute, compute', b, id)
    BY <1>2, <1>7, <1>12, StageBuffers DEF id
  <2>2. Polled = [Polled EXCEPT ![b] = "Ready"] BY <1>5, <1>7, <1>12
  <2> QED BY <2>1, <2>2, <1>6, <1>10, <1>12
<1> QED BY <1>0, <1>11, <1>12

\* promote_worker_reads_at_safe_boundary, with a slot reserved.
LEMMA PromotePool ==
    ASSUME HostOK, StreamsOK, StreamsOK', PoolInv, Promote
    PROVE  PoolInv'
<1> DEFINE id == sel[pos]
           b == reads[id]
           t == [reads EXCEPT ![id] = 0]
<1>0. /\ at = "promote" /\ done' = NoneDone
      /\ UNCHANGED <<cfg, want, reading, data, compute, kept, freed>> /\ b # 0 /\ reads' = t
      /\ at' \in {"seed", "ahead", "promote", "idle"}
      /\ \E s : \/ /\ Polled[b] \in {"Failed", "Ready"} /\ phase' = [Polled EXCEPT ![b] = "Free"] /\ copy' = copy
                \/ /\ Polled[b] = "Ready" /\ phase' = [Polled EXCEPT ![b] = "H2d"]
                   /\ copy' \in {copy, Append(copy, Op("write", s, id, b, 0))}
  BY DEF Promote, PromoteNext, LoopStart, FailForward, Goto
<1>1. /\ Pool(Polled, want, reads, reading, NoneDone, data)
      /\ \A x \in Buffers : phase[x] = "H2d" => Polled[x] = "H2d"
  BY PolledKeeps DEF PoolInv
<1>2. id \in Blocks /\ compute \in Seq(Ops) /\ copy \in Seq(Ops)
  BY <1>0, Moves DEF Selected, StreamsOK, Streams
<1>3. at \notin Dropping /\ at' \notin Dropping /\ cfg.copy /\ cfg.mode = "worker"
  BY <1>0 DEF HostOK, Promoting, Dropping
<1>4. Copying(compute, Polled, data) /\ Copying(copy, Polled, data)
  BY <1>1, <1>2, CopyingKeeps DEF PoolInv
<1>5. /\ Pool(Polled, want, t, reading, NoneDone, data)
      /\ b \in Buffers /\ \A x \in Blocks : t[x] # b
  BY <1>0, <1>1, <1>2, TicketTaken
<1>6. Polled[b] = "Ready" => data[b] = id
  <2>1. Tickets(Polled, want, reads, reading, NoneDone, data) BY <1>1 DEF Pool
  <2> QED BY <2>1, <1>0, <1>2 DEF Tickets
<1>7. Polled \in [Buffers -> Phases] /\ data \in [Buffers -> Blocks \cup {NoBlock}]
  BY <1>5 DEF Pool, PoolTypes
<1> HIDE DEF id, b, t
<1>8. Keeps(compute, compute') BY <1>0, KeepsMore
<1> SUFFICES /\ Pool(phase', want, t, reading, NoneDone, data')
             /\ Copying(compute', phase', data') /\ Copying(copy', phase', data')
  BY <1>0, <1>3, <1>8, ForwardPool
<1>10. ASSUME NEW x \in {"Free", "H2d"}, phase' = [Polled EXCEPT ![b] = x],
              Polled[b] \in {"Ready", "Failed"},
              Keeps(copy, copy') \/ (Adds(copy, copy', b, id) /\ x = "H2d" /\ data[b] = id)
       PROVE  /\ Pool(phase', want, t, reading, NoneDone, data')
              /\ Copying(compute', phase', data') /\ Copying(copy', phase', data')
  <2>1. AtRest(Polled, t, b) /\ Polled[b] # "H2d" BY <1>5, <1>10 DEF AtRest
  <2>2. Moved(Polled, data, phase', data', b)
    BY <1>0, <1>5, <1>7, <1>10 DEF Moved, Phases
  <2>3. phase'[b] = x /\ data'[b] = data[b] BY <1>0, <1>5, <1>7, <1>10
  <2>4. Stages(compute, compute', phase', data', b, id) /\ Stages(copy, copy', phase', data', b, id)
    BY <2>3, <1>8, <1>10 DEF Stages
  <2> QED BY <2>1, <2>2, <2>4, <1>2, <1>4, <1>5, StageMoves
<1>11. CASE Polled[b] \in {"Failed", "Ready"} /\ phase' = [Polled EXCEPT ![b] = "Free"] /\ copy' = copy
  <2>1. Keeps(copy, copy') BY <1>11, KeepsMore
  <2> QED BY <2>1, <1>10, <1>11
<1>12. CASE \E s : /\ Polled[b] = "Ready" /\ phase' = [Polled EXCEPT ![b] = "H2d"]
                   /\ copy' \in {copy, Append(copy, Op("write", s, id, b, 0))}
  <2>1. PICK s : copy' \in {copy, Append(copy, Op("write", s, id, b, 0))} BY <1>12
  <2> DEFINE w == Op("write", s, id, b, 0)
  <2>2. w.buf = b /\ w.id = id BY DEF Op
  <2> HIDE DEF w
  <2>3. Adds(copy, Append(copy, w), b, id) BY <1>2, <2>2, AppendBuffers
  <2>4. Adds(copy, copy, b, id) BY KeepsMore
  <2>5. Adds(copy, copy', b, id) BY <2>1, <2>3, <2>4 DEF w
  <2> QED BY <2>5, <1>6, <1>10, <1>12
<1> QED BY <1>0, <1>11, <1>12

\* Every action keeps the pool and the buffers of the queued copies.
LEMMA PoolStep ==
    ASSUME HostOK, CacheOK, StreamsOK, PoolInv, Next, StreamsOK'
    PROVE  PoolInv'
<1>0. /\ Accounted(c) /\ cfg \in Configs /\ compute \in Seq(Ops) /\ copy \in Seq(Ops)
      /\ Len(compute) \in Nat
      /\ Pool(phase, want, reads, reading, done, data)
      /\ Copying(compute, phase, data) /\ Copying(copy, phase, data)
      /\ cfg.mode = "blocking" => reading = {} /\ done = NoneDone
  BY DEF CacheOK, HostOK, StreamsOK, Streams, PoolInv
<1>k. \A q : Keeps(q, q) BY KeepsMore
<1>a. ASSUME UNCHANGED <<at, cfg, freed, kept, lost, poolVars>>,
             Keeps(compute, compute'), Keeps(copy, copy')
      PROVE  PoolInv'
  <2>1. UNCHANGED <<phase, want, reads, reading, done, data>> BY <1>a DEF poolVars
  <2>2. Copying(compute', phase, data) /\ Copying(copy', phase, data) BY <1>0, <1>a, KeepsCopying
  <2> QED BY <1>0, <1>a, <2>1, <2>2, OtherPool
<1>b. ASSUME NEW o, o.buf = 0, compute' = Append(compute, o) PROVE Keeps(compute, compute')
  BY <1>0, <1>b, AppendBuffers
<1>1. CASE RunCompute
  BY <1>0, <1>1, <1>a, KeepsMore DEF RunCompute, hostVars
<1>2. CASE RunCopy
  BY <1>0, <1>2, <1>a, KeepsMore DEF RunCopy, hostVars
<1>3. CASE \E b \in Buffers : WorkerReads(b)
  <2>1. PICK b \in Buffers : WorkerReads(b) BY <1>3
  <2>2. /\ UNCHANGED <<at, cfg, freed, kept, lost, compute, copy>>
        /\ reading' \subseteq reading /\ b \in reading
    BY <2>1 DEF WorkerReads, deviceVars, hostVars
  <2>3. /\ Pool(phase', want', reads', reading', done', data')
        /\ phase' = phase /\ \A x \in Buffers : phase[x] = "H2d" => data'[x] = data[x]
    BY <1>0, <2>1, WorkerKeeps
  <2>4. Copying(compute, phase', data') /\ Copying(copy, phase', data') BY <1>0, <2>3, CopyingKeeps
  <2>5. cfg.mode # "blocking" BY <1>0, <2>2
  <2>6. Keeps(compute, compute') /\ Keeps(copy, copy') BY <2>2, <1>k
  <2> QED BY <2>2, <2>3, <2>4, <2>5, <2>6, OtherPool
<1>c. ASSUME NEW ids \in SUBSET Blocks, Cancel(ids), at \notin Dropping, at' \notin Dropping,
             UNCHANGED <<cfg, freed, kept, compute, copy>>
      PROVE  PoolInv'
  <2>1. /\ Pool(phase', want', reads', reading', done', data')
        /\ \A b \in Buffers : phase[b] = "H2d" => phase'[b] = "H2d"
        /\ data' = data /\ reading' = reading /\ done' = NoneDone
    BY <1>0, <1>c, CancelKeeps
  <2>2. Copying(compute, phase', data') /\ Copying(copy, phase', data') BY <1>0, <2>1, CopyingKeeps
  <2> QED BY <1>0, <1>c, <2>1, <2>2, PooledStep
<1>4. CASE \E l \in Layers : Begin(l)
  <2>1. PICK l \in Layers : Begin(l) BY <1>4
  <2>2. /\ at = "idle" /\ at' = "row" /\ UNCHANGED <<cfg, freed, kept, compute, copy>>
        /\ UNCHANGED poolVars \/ Cancel({id \in Blocks : reads[id] # 0})
    BY <2>1 DEF Begin, deviceVars
  <2>3. at \notin Dropping /\ at' \notin Dropping BY <2>2 DEF Dropping
  <2>4. CASE UNCHANGED poolVars BY <2>2, <2>3, <2>4, <1>k, QuietPool
  <2>5. CASE Cancel({id \in Blocks : reads[id] # 0}) BY <2>2, <2>3, <2>5, <1>c
  <2> QED BY <2>2, <2>4, <2>5
<1>5. CASE Prewarm
  <2>1. at = "row" /\ at' \in {"row", "warm"} /\ UNCHANGED <<cfg, freed, kept, compute, copy, poolVars>>
    BY <1>5 DEF Prewarm, Goto, hostVars, deviceVars
  <2> QED BY <2>1, <1>k, QuietPool DEF Dropping
<1>d. ASSUME at \notin Dropping, at' \notin Dropping, UNCHANGED <<cfg, freed, kept, copy, poolVars>>,
             Keeps(compute, compute')
      PROVE  PoolInv'
  BY <1>d, <1>k, QuietPool
<1>6. CASE Warm
  <2>1. at = "warm" /\ UNCHANGED <<cfg, freed, kept, copy, poolVars>> BY <1>6 DEF Warm
  <2>2. CASE Missing = {}
    <3>1. at' = "row" /\ compute' = compute BY <1>6, <2>2 DEF Warm, Goto
    <3> QED BY <2>1, <3>1, <1>k, <1>d DEF Dropping
  <2>3. CASE Missing # {}
    <3> DEFINE id == LayerBlocks[layer][First(Missing)]
    <3>1. Admit(c, id, faults, FALSE, "warm", 1) BY <1>6, <2>3 DEF Warm
    <3>2. id \in Blocks
      <4>1. layer \in Layers BY <2>1 DEF HostOK, Forward
      <4>2. Missing \subseteq Nat BY <4>1, CacheAssumption DEF CacheAssumption, Missing
      <4>3. First(Missing) \in Missing BY <2>3, <4>2, LeastOf
      <4>4. LayerBlocks[layer] \in Seq(Blocks) BY <4>1, CacheAssumption DEF CacheAssumption
      <4>5. First(Missing) \in DOMAIN LayerBlocks[layer] BY <4>3 DEF Missing
      <4> QED BY <4>4, <4>5
    <3> HIDE DEF id
    <3>3. Keeps(compute, compute') BY <3>1, <3>2, <1>0, AdmitBuffers
    <3>4. at' \in {"idle", "warm"} BY <3>1 DEF Admit, FailForward, Goto
    <3> QED BY <2>1, <3>3, <3>4, <1>d DEF Dropping
  <2> QED BY <2>2, <2>3
<1>7. CASE DeviceForward
  <2>1. /\ at = "row" /\ at' = "idle" /\ UNCHANGED <<cfg, freed, kept, copy, poolVars>>
        /\ \E s, id : compute' = Append(compute, Kernel(s, id))
    BY <1>7 DEF DeviceForward, Goto
  <2>2. \A s, id : Kernel(s, id).buf = 0 BY DEF Kernel, Op
  <2>3. Keeps(compute, compute') BY <2>1, <2>2, <1>b
  <2> QED BY <2>1, <2>3, <1>d DEF Dropping
<1>8. CASE Route
  <2>1. /\ at = "row" /\ at' \in {"submit", "seed", "ahead"}
        /\ UNCHANGED <<cfg, freed, kept, compute, copy, poolVars>>
    BY <1>8 DEF Route, LoopStart, deviceVars
  <2> QED BY <2>1, <1>k, QuietPool DEF Dropping
<1>e. ASSUME NEW id \in Blocks, Speculate(id), cfg.mode = "worker", at \notin Dropping,
             at' \notin Dropping, UNCHANGED <<cfg, freed, kept, compute, copy>>
      PROVE  PoolInv'
  <2>1. /\ Pool(phase', want', reads', reading', done', data') /\ done' = NoneDone
        /\ Copying(compute, phase', data') /\ Copying(copy, phase', data')
    BY <1>0, <1>e, SpeculateKeeps
  <2> QED BY <1>e, <2>1, PooledStep
<1>9. CASE Submit
  <2>1. /\ at = "submit" /\ at' \in {"submit", "promote"} /\ UNCHANGED <<cfg, freed, kept, compute, copy>>
        /\ UNCHANGED poolVars \/ Speculate(sel[pos])
    BY <1>9 DEF Submit, PrefetchRead, Goto, deviceVars
  <2>2. at \notin Dropping /\ at' \notin Dropping BY <2>1 DEF Dropping
  <2>3. sel[pos] \in Blocks /\ cfg.mode = "worker" BY <2>1, Moves DEF Selected, HostOK, Promoting
  <2>4. CASE UNCHANGED poolVars BY <2>1, <2>2, <2>4, <1>k, QuietPool
  <2>5. CASE Speculate(sel[pos]) BY <2>1, <2>2, <2>3, <2>5, <1>e
  <2> QED BY <2>1, <2>4, <2>5
<1>10. CASE PromoteSkips
  <2>1. /\ at = "promote" /\ at' \in {"promote", "seed", "ahead"} /\ UNCHANGED <<cfg, freed, kept, compute, copy>>
        /\ UNCHANGED poolVars \/ Cancel({sel[pos]})
    BY <1>10 DEF PromoteSkips, PromoteNext, LoopStart, Goto, deviceVars
  <2>2. at \notin Dropping /\ at' \notin Dropping BY <2>1 DEF Dropping
  <2>3. {sel[pos]} \in SUBSET Blocks BY <2>1, Moves DEF Selected
  <2>4. CASE UNCHANGED poolVars BY <2>1, <2>2, <2>4, <1>k, QuietPool
  <2>5. CASE Cancel({sel[pos]}) BY <2>1, <2>2, <2>3, <2>5, <1>c
  <2> QED BY <2>1, <2>4, <2>5
<1>11. CASE Promote BY <1>11, PromotePool
<1>12. CASE Ahead
  <2>1. at = "ahead" /\ UNCHANGED <<cfg, kept, compute, freed>> BY <1>12 DEF Ahead
  <2>2. CASE Goto("dispatch", pos) /\ UNCHANGED <<copy, poolVars>>
    <3>1. at' = "dispatch" BY <2>2 DEF Goto
    <3> QED BY <2>1, <2>2, <3>1, <1>k, QuietPool DEF Dropping
  <2>n. sel \in Seq(Blocks) /\ pos \in 1 .. Len(sel) /\ Len(sel) \in Nat BY <2>1, Moves DEF Selected
  <2>3. CASE /\ pos + 1 <= Len(sel) /\ PrefetchBytes(sel[pos + 1]) /\ UNCHANGED poolVars
    <3>1. sel[pos + 1] \in Blocks BY <2>n, <2>3
    <3>2. Keeps(copy, copy') BY <2>3, <3>1, <1>0, PrefetchBuffers
    <3>3. at' \in {"idle", "dispatch"} BY <2>3 DEF PrefetchBytes, FailForward, Goto
    <3> QED BY <2>1, <2>3, <3>2, <3>3, <1>k, QuietPool DEF Dropping
  <2>w. cfg.window \in Nat /\ cfg.mode \in {"memory", "blocking", "worker"}
    BY <1>0, CacheAssumption DEF CacheAssumption
  <2>4. CASE /\ cfg.mode = "worker" /\ cfg.window # 0 /\ pos + cfg.window - 1 <= Len(sel)
             /\ Speculate(sel[pos + cfg.window - 1]) /\ Goto("dispatch", pos) /\ UNCHANGED copy
    <3>1. pos + cfg.window - 1 \in 1 .. Len(sel) BY <2>n, <2>w, <2>4
    <3>2. sel[pos + cfg.window - 1] \in Blocks BY <2>n, <3>1
    <3>3. at' = "dispatch" BY <2>4 DEF Goto
    <3>4. at \notin Dropping /\ at' \notin Dropping BY <2>1, <3>3 DEF Dropping
    <3> QED BY <2>1, <2>4, <3>2, <3>4, <1>e
  <2>5. \A n \in Int : n > Len(sel) <=> ~(n <= Len(sel)) BY <2>n
  <2>6. pos + 1 \in Int /\ pos + cfg.window - 1 \in Int BY <2>n, <2>w
  <2> QED BY <1>12, <2>2, <2>3, <2>4, <2>5, <2>6, <2>w DEF Ahead
<1>25. CASE Seed
  <2>1. /\ at = "seed" /\ at' \in {"seed", "dispatch"} /\ UNCHANGED <<cfg, freed, kept, compute, copy>>
        /\ UNCHANGED poolVars \/ Speculate(sel[pos])
    BY <1>25 DEF Seed, PrefetchRead, Goto, deviceVars
  <2>2. at \notin Dropping /\ at' \notin Dropping BY <2>1 DEF Dropping
  <2>3. sel[pos] \in Blocks /\ cfg.mode = "worker" BY <2>1, Moves DEF Selected, HostOK
  <2>4. CASE UNCHANGED poolVars BY <2>1, <2>2, <2>4, <1>k, QuietPool
  <2>5. CASE Speculate(sel[pos]) BY <2>1, <2>2, <2>3, <2>5, <1>e
  <2> QED BY <2>1, <2>4, <2>5
<1>f. ASSUME at = "dispatch", at' \in {"idle", NextAt}
      PROVE  at \notin Dropping /\ at' \notin Dropping
  BY <1>f DEF NextAt, Dropping
<1>13. CASE Hit
  <2>1. /\ at = "dispatch" /\ at' \in {"idle", NextAt} /\ UNCHANGED <<cfg, freed, kept, copy, poolVars>>
        /\ \E s, id : compute' = Append(compute, Kernel(s, id))
    BY <1>13 DEF Hit, Goto
  <2>2. \A s, id : Kernel(s, id).buf = 0 BY DEF Kernel, Op
  <2>3. Keeps(compute, compute') BY <2>1, <2>2, <1>b
  <2> QED BY <2>1, <2>3, <1>d, <1>f
<1>14. CASE TakePending
  <2>1. /\ at = "dispatch" /\ at' \in {"idle", NextAt} /\ UNCHANGED <<cfg, freed, kept, copy, poolVars>>
        /\ \/ compute' = compute
           \/ \E s, id, f : compute' = Append(compute, [Kernel(s, id) EXCEPT !.fence = f])
    BY <1>14 DEF TakePending, FailForward, Goto
  <2>2. \A s, id, f : [Kernel(s, id) EXCEPT !.fence = f].buf = 0 BY DEF Kernel, Op
  <2>3. Keeps(compute, compute') BY <2>1, <2>2, <1>b, <1>k
  <2> QED BY <2>1, <2>3, <1>d, <1>f
<1>15. CASE MissMemory
  <2>1. /\ at = "dispatch" /\ UNCHANGED <<cfg, freed, kept, copy, poolVars>>
        /\ Admit(c, sel[pos], faults, TRUE, NextAt, NextPos)
    BY <1>15 DEF MissMemory, Miss
  <2>2. at' \in {"idle", NextAt} BY <2>1 DEF Admit, FailForward, Goto
  <2>3. sel[pos] \in Blocks BY <2>1, Moves DEF Selected
  <2>4. Keeps(compute, compute') BY <2>1, <2>3, <1>0, AdmitBuffers
  <2> QED BY <2>1, <2>2, <2>4, <1>d, <1>f
<1>16. CASE MissBlocking BY <1>0, <1>16, BlockingPool
<1>17. CASE MissSubmit
  <2>1. /\ at = "dispatch" /\ cfg.mode = "worker" /\ kept' = TRUE /\ done' = NoneDone
        /\ UNCHANGED <<cfg, freed, copy>>
    BY <1>17 DEF MissSubmit, Miss
  <2>2. sel[pos] \in Blocks BY <2>1, Moves DEF Selected
  <2>3. /\ Pool(Reaped, want, reads, reading, NoneDone, data)
        /\ Copying(compute, Reaped, data) /\ Copying(copy, Reaped, data)
    BY <1>0, ReapedKeeps
  <2>4. Keeps(copy, copy') BY <2>1, <1>k
  <2>5. CASE FreeIn(Reaped) # {} /\ Submitted(sel[pos], Reaped) /\ UNCHANGED <<compute, at>>
    <3>1. /\ Pool(phase', want', reads', reading', done', data')
          /\ Copying(compute, phase', data') /\ Copying(copy, phase', data')
      BY <1>0, <2>1, <2>2, <2>3, <2>5, SubmittedCopying
    <3>2. at \notin Dropping /\ at' \notin Dropping BY <2>1, <2>5 DEF Dropping
    <3> QED BY <2>1, <2>4, <2>5, <3>1, <3>2, ForwardPool
  <2>6. CASE Fallback(faults, Reaped) /\ UNCHANGED <<want, reads, reading, data>>
    <3>1. Keeps(compute, compute') /\ phase' = Reaped
      BY <2>2, <2>6, <1>0, AdmitBuffers DEF Fallback
    <3>2. at' \in {"idle", NextAt} BY <2>6 DEF Fallback, Admit, FailForward, Goto
    <3>3. Copying(compute', Reaped, data) /\ Copying(copy', Reaped, data)
      BY <2>3, <2>4, <3>1, KeepsCopying
    <3> QED BY <2>1, <2>3, <2>4, <2>6, <3>1, <3>2, <3>3, <1>f, ForwardPool
  <2> QED BY <1>17, <2>5, <2>6 DEF MissSubmit, hostVars
<1>18. CASE MissRead BY <1>0, <1>18, ReadPool
<1>19. CASE ForwardFails
  <2>1. /\ at \in {"ahead", "dispatch"} /\ at' = "idle"
        /\ UNCHANGED <<cfg, freed, kept, compute, copy, poolVars>>
    BY <1>19 DEF ForwardFails, FailForward, Goto, deviceVars
  <2> QED BY <2>1, <1>k, QuietPool DEF Dropping
<1>g. NoneDone' = NoneDone BY DEF NoneDone
<1>20. CASE DropCompute
  <2>1. /\ at = "idle" /\ at' = "drop_copy" /\ UNCHANGED <<cfg, compute, copy, poolVars>>
        /\ freed' = freed \/ freed' = freed \cup {"leak"}
        /\ kept => lost' # {} \/ compute = <<>>
    BY <1>20 DEF DropCompute, Goto, Synced, Unsynced, deviceVars
  <2>2. "buffers" \notin freed' BY <2>1 DEF PoolInv
  <2>3. Buffered(compute) => kept BY <2>1 DEF PoolInv, Dropping
  <2>4. compute = <<>> => ~Buffered(compute) BY DEF Buffered
  <2> QED BY <2>1, <2>2, <2>3, <2>4, <1>g DEF PoolInv, Dropping, poolVars
<1>21. CASE DropCopy
  <2>1. /\ at = "drop_copy" /\ at' = "drop_pool" /\ UNCHANGED <<cfg, compute, copy, kept, poolVars>>
        /\ lost' = {} => lost = {}
        /\ freed' = freed \/ freed' = freed \cup {"leak"}
    BY <1>21 DEF DropCopy, Goto, Synced, Unsynced, deviceVars
  <2>2. "buffers" \notin freed' BY <2>1 DEF PoolInv
  <2> QED BY <2>1, <2>2, <1>g DEF PoolInv, Dropping, poolVars
<1>22. CASE DropPool
  <2>1. /\ at = "drop_pool" /\ at' = "drop_slots" /\ reading = {} /\ done' = NoneDone
        /\ UNCHANGED <<cfg, kept, want, reading, data, compute, copy>> /\ (lost' = {} => lost = {})
    BY <1>22 DEF DropPool, Goto, Unsynced, deviceVars
  <2>2. (Buffered(compute) => lost # {}) /\ (Buffered(copy) => cfg.copy) BY <2>1 DEF PoolInv, Dropping
  <2>3. CASE /\ lost = {} /\ PoolStream = <<>> /\ freed' = freed \cup {"buffers"}
             /\ phase' = [b \in Buffers |-> "Free"] /\ reads' = [id \in Blocks |-> 0]
    <3>1. ~Buffered(compute) /\ ~Buffered(copy) BY <2>2, <2>3 DEF Buffered, PoolStream
    <3>2. Copying(compute, phase', data) /\ Copying(copy, phase', data) BY <3>1 DEF Copying, Buffered
    <3>3. PoolTypes(phase', want, reads', reading, NoneDone, data)
      BY <1>0, <2>3, CacheAssumption DEF Pool, PoolTypes, Phases, NoneDone, CacheAssumption
    <3>4. Workers(phase', reading, NoneDone) BY <2>1, <2>3 DEF Workers, NoneDone
    <3>5. Tickets(phase', want, reads', reading, NoneDone, data) BY <2>3 DEF Tickets
    <3>6. Pool(phase', want, reads', reading, NoneDone, data) BY <3>3, <3>4, <3>5 DEF Pool
    <3> QED BY <2>1, <3>1, <3>2, <3>6, <1>g DEF PoolInv, Dropping
  <2>4. CASE Unsynced /\ phase' = Polled /\ UNCHANGED reads
    <3>1. lost' # {} /\ freed' = freed \cup {"leak"} BY <2>4 DEF Unsynced
    <3>2. "buffers" \notin freed' BY <2>1, <3>1 DEF PoolInv
    <3>3. /\ Pool(Polled, want, reads, reading, NoneDone, data)
          /\ \A b \in Buffers : phase[b] = "H2d" => Polled[b] = "H2d"
      BY <1>0, PolledKeeps
    <3>4. Copying(compute, Polled, data) /\ Copying(copy, Polled, data) BY <1>0, <3>3, CopyingKeeps
    <3> QED BY <2>1, <2>2, <2>4, <3>1, <3>2, <3>3, <3>4, <1>g DEF PoolInv, Dropping
  <2> QED BY <1>22, <2>3, <2>4 DEF DropPool
<1>23. CASE DropSlots
  <2>1. /\ at \in {"drop_slots", "drop_pool"} /\ at' = "gone" /\ UNCHANGED <<cfg, compute, copy, kept, lost, poolVars>>
        /\ "buffers" \in freed' => "buffers" \in freed
    BY <1>23 DEF DropSlots, Goto, deviceVars
  <2> QED BY <2>1, <1>g DEF PoolInv, Dropping, poolVars
<1>24. CASE Gone
  <2>1. UNCHANGED <<at, cfg, freed, kept, lost, poolVars, compute, copy>>
    BY <1>24 DEF Gone, vars, hostVars, deviceVars
  <2> QED BY <2>1, <1>a, <1>k
<1> QED
  BY <1>1, <1>2, <1>3, <1>4, <1>5, <1>6, <1>7, <1>8, <1>9, <1>10, <1>11, <1>12, <1>13, <1>14, <1>15,
     <1>16, <1>17, <1>18, <1>19, <1>20, <1>21, <1>22, <1>23, <1>24, <1>25 DEF Next

-----------------------------------------------------------------------------
(* The invariant *)

ExpertInv ==
    /\ HostOK /\ CacheOK /\ StreamsOK /\ PoolInv
    /\ mem \in [Slots -> Blocks \cup {NoBlock}]

\* The cache at start-up: every slot is free, and nothing else is known.
LEMMA InitCache ==
    ASSUME Init
    PROVE  CacheOK
<1> DEFINE f == [s \in Slots |-> s]
           r == Reverse(f)
<1>0. /\ c = [free |-> r, prob |-> <<>>, prot |-> <<>>, occ |-> [s \in Slots |-> NoBlock],
              table |-> [id \in Blocks |-> 0], pend |-> [id \in Blocks |-> 0],
              count |-> [l \in Layers |-> 0], rows |-> [l \in Layers |-> <<>>]]
      /\ lost = {}
  BY DEF Init
<1>1. NumSlots \in Nat /\ ProtectedCap \in Nat \ {0} BY CacheAssumption DEF CacheAssumption
<1>2. /\ r \in Seq(Slots) /\ Len(r) = NumSlots
      /\ \A i \in 1 .. NumSlots : r[i] = NumSlots - i + 1
  <2>1. f \in Seq(Slots) /\ Len(f) = NumSlots /\ \A i \in 1 .. NumSlots : f[i] = i BY <1>1 DEF Slots
  <2>2. r = [i \in 1 .. NumSlots |-> f[(NumSlots - i) + 1]] BY <2>1 DEF Reverse
  <2> HIDE DEF f
  <2>3. \A i \in 1 .. NumSlots : (NumSlots - i) + 1 \in 1 .. NumSlots BY <1>1
  <2> HIDE DEF r
  <2>4. r = [i \in 1 .. NumSlots |-> (NumSlots - i) + 1] BY <2>1, <2>2, <2>3
  <2>5. r \in [1 .. NumSlots -> Slots] BY <2>3, <2>4 DEF Slots
  <2> QED BY <1>1, <2>4, <2>5
<1> HIDE DEF r, f
<1>3. IsInjective(r) BY <1>1, <1>2 DEF IsInjective
<1>4. Range(r) = Slots
  <2>1. ASSUME NEW s \in Slots PROVE \E i \in 1 .. NumSlots : r[i] = s
    <3>1. NumSlots - s + 1 \in 1 .. NumSlots /\ NumSlots - (NumSlots - s + 1) + 1 = s BY <1>1 DEF Slots
    <3> QED BY <3>1, <1>2
  <2>2. DOMAIN r = 1 .. NumSlots /\ \A i \in 1 .. NumSlots : r[i] \in Slots BY <1>1, <1>2
  <2> QED BY <2>1, <2>2 DEF Range
<1>5. /\ c.free = r /\ c.prob = <<>> /\ c.prot = <<>> /\ c.occ = [s \in Slots |-> NoBlock]
      /\ c.table = [id \in Blocks |-> 0] /\ c.pend = [id \in Blocks |-> 0]
      /\ c.count = [l \in Layers |-> 0] /\ c.rows = [l \in Layers |-> <<>>]
  BY <1>0
<1>6. Range(<<>>) = {} /\ IsInjective(<<>>) /\ Len(<<>>) = 0 BY DEF Range, IsInjective
<1>7. Queued(c) = {} /\ Pending(c) = {} BY <1>5, <1>6 DEF Queued, Pending
<1>8. c \in Caches
  <2>1. <<>> \in Seq(Slots) /\ <<>> \in Seq(0 .. NumSlots) /\ 0 \in 0 .. NumSlots BY <1>1
  <2> QED BY <1>0, <1>2, <2>1 DEF Caches
<1>9. Lists(c) BY <1>1, <1>3, <1>5, <1>6, <1>7 DEF Lists
<1>10. Occupied(c) BY <1>5, <1>7 DEF Occupied
<1>11. Layered(c)
  <2>1. ASSUME NEW l \in Layers PROVE ResidentOf(c, l) = {}
    BY <1>5, LayerFacts DEF ResidentOf
  <2>2. Cardinality({}) = 0 BY FS_EmptySet
  <2> QED BY <1>5, <2>1, <2>2 DEF Layered
<1>12. InUse(c) = Slots BY <1>4, <1>5, <1>7 DEF InUse
<1> QED BY <1>8, <1>9, <1>10, <1>11, <1>12 DEF CacheOK, Accounted

\* Initially.
LEMMA InitInv == Init => ExpertInv
<1> SUFFICES ASSUME Init PROVE ExpertInv OBVIOUS
<1>1. CacheOK BY InitCache
<1>2. /\ cfg \in Configs /\ kept = FALSE /\ at = "idle" /\ lost = {} /\ faults = 0 /\ freed = {}
      /\ compute = <<>> /\ copy = <<>> /\ mem = [s \in Slots |-> NoBlock]
      /\ phase = [b \in Buffers |-> "Free"] /\ want = [b \in Buffers |-> NoBlock]
      /\ reads = [id \in Blocks |-> 0] /\ reading = {} /\ done = [b \in Buffers |-> "none"]
      /\ data = [b \in Buffers |-> NoBlock]
  BY DEF Init
<1>3. MaxFaults \in Nat /\ NumBuffers \in Nat BY CacheAssumption DEF CacheAssumption
<1>4. HostOK
  <2>1. kept \in BOOLEAN BY <1>2
  <2>2. cfg \in Configs /\ at = "idle" /\ faults \in 0 .. MaxFaults BY <1>2, <1>3
  <2> QED BY <2>1, <2>2 DEF HostOK, Places, Forward, Selected
<1>5. StreamsOK BY <1>2 DEF StreamsOK, Streams
<1>6. PoolTypes(phase, want, reads, reading, done, data) BY <1>2, <1>3 DEF PoolTypes, Phases
<1>7. Workers(phase, reading, done) BY <1>2 DEF Workers
<1>8. Tickets(phase, want, reads, reading, done, data) BY <1>2 DEF Tickets
<1>9. /\ Copying(compute, phase, data) /\ Copying(copy, phase, data)
      /\ ~Buffered(compute) /\ ~Buffered(copy)
  BY <1>2 DEF Copying, Buffered
<1>10. done = NoneDone /\ "buffers" \notin freed BY <1>2 DEF NoneDone
<1>11. Pool(phase, want, reads, reading, done, data) BY <1>6, <1>7, <1>8 DEF Pool
<1>12. PoolInv BY <1>2, <1>9, <1>10, <1>11 DEF PoolInv
<1> QED BY <1>1, <1>2, <1>4, <1>5, <1>12 DEF ExpertInv

\* Every step.
LEMMA NextInv == ExpertInv /\ [Next]_vars => ExpertInv'
<1> SUFFICES ASSUME ExpertInv, [Next]_vars PROVE ExpertInv' OBVIOUS
<1>0. HostOK /\ CacheOK /\ StreamsOK /\ PoolInv /\ mem \in [Slots -> Blocks \cup {NoBlock}]
  BY DEF ExpertInv
<1>1. CASE Next
  <2>1. Accounted(c) /\ PoolOK BY <1>0 DEF CacheOK, PoolInv, Pool, PoolOK
  <2>2. HostOK' /\ (DeviceStep \/ RunCompute \/ RunCopy) BY <1>0, <1>1, <2>1, HostSteps
  <2>3. StreamsOK' BY <1>0, <2>2, StreamsStep
  <2>4. PoolInv' BY <1>0, <1>1, <2>3, PoolStep
  <2>5. CASE DeviceStep
    <3>1. CacheOK' BY <1>0, <2>5, CacheStep
    <3>2. mem' = mem BY <2>5 DEF DeviceStep, Quiet, Uses, Takes, Admits, Pends, Loses
    <3> QED BY <1>0, <2>2, <2>3, <2>4, <3>1, <3>2 DEF ExpertInv
  <2>6. CASE RunCompute \/ RunCopy
    <3>1. c' = c /\ lost' = lost BY <2>6 DEF RunCompute, RunCopy
    <3>2. CacheOK' BY <1>0, <3>1 DEF CacheOK
    <3>3. \E q \in {compute, copy} : q # <<>> /\ mem' = Effect(Head(q)) BY <2>6 DEF RunCompute, RunCopy
    <3>4. PICK q \in {compute, copy} : q # <<>> /\ mem' = Effect(Head(q)) BY <3>3
    <3>5. q \in Seq(Ops) BY <1>0 DEF StreamsOK, Streams
    <3>6. Head(q) \in Ops BY <3>4, <3>5
    <3> DEFINE o == Head(q)
    <3> HIDE DEF o
    <3>7. o.slot \in Slots /\ o.id \in Blocks BY <3>6 DEF Ops, o
    <3>8. mem' = Effect(o) BY <3>4 DEF o
    <3>9. mem' \in [Slots -> Blocks \cup {NoBlock}] BY <3>7, <3>8, <1>0 DEF Effect
    <3> QED BY <2>2, <2>3, <2>4, <3>2, <3>9 DEF ExpertInv
  <2> QED BY <2>2, <2>5, <2>6
<1>2. CASE UNCHANGED vars
  <2>1. UNCHANGED <<cfg, c, kept, phase, want, reads, reading, done, data, compute, copy, mem,
                    at, layer, sel, pos, lost, freed, faults>>
    BY <1>2 DEF vars, poolVars, deviceVars, hostVars
  <2>2. HostOK' BY <1>0, <2>1 DEF HostOK, Promoting
  <2>3. CacheOK' BY <1>0, <2>1 DEF CacheOK
  <2>4. StreamsOK' BY <1>0, <2>1 DEF StreamsOK
  <2>5. NoneDone' = NoneDone BY DEF NoneDone
  <2>6. PoolInv' BY <1>0, <2>1, <2>5 DEF PoolInv
  <2> QED BY <1>0, <2>1, <2>2, <2>3, <2>4, <2>6 DEF ExpertInv
<1> QED BY <1>1, <1>2

\* The invariant holds in every state of every behaviour.
LEMMA Invariant == Spec => []ExpertInv
<1> QED BY InitInv, NextInv, PTL DEF Spec

-----------------------------------------------------------------------------
(* Theorems *)

\* Slots, blocks, buffers, phases and counters stay in range, per_layer never
\* runs below zero, and an event only waits for operations that are queued.
THEOREM ExpertTypes == Spec => []TypeOK
<1>1. ExpertInv => TypeOK
  <2> SUFFICES ASSUME ExpertInv PROVE TypeOK OBVIOUS
  <2>0. HostOK /\ CacheOK /\ StreamsOK /\ PoolInv /\ mem \in [Slots -> Blocks \cup {NoBlock}]
    BY DEF ExpertInv
  <2>1. cfg \in Configs /\ at \in Places /\ faults \in 0 .. MaxFaults BY <2>0 DEF HostOK
  <2>2. /\ Accounted(c) /\ c.free \in Seq(Slots) /\ c.prob \in Seq(Slots) /\ c.prot \in Seq(Slots)
        /\ c.occ \in [Slots -> Blocks \cup {NoBlock}]
        /\ c.table \in [Blocks -> 0 .. NumSlots] /\ c.pend \in [Blocks -> 0 .. NumSlots]
        /\ InUse(c) \subseteq Slots
    BY <2>0, CacheFields DEF CacheOK, Accounted
  <2>3. Range(c.free) \cup Range(c.prob) \cup Range(c.prot) \subseteq Slots
    BY <2>2 DEF InUse, Queued
  <2>4. ASSUME NEW l \in Layers PROVE c.count[l] \in 0 .. Len(LayerBlocks[l])
    <3> DEFINE B == Range(LayerBlocks[l])
               n == Len(LayerBlocks[l])
    <3>1. IsFiniteSet(B) /\ Cardinality(B) \in 0 .. n BY LayerFacts
    <3>2. n \in Nat BY CacheAssumption DEF CacheAssumption
    <3>3. ResidentOf(c, l) \subseteq B BY DEF ResidentOf
    <3>4. Cardinality(ResidentOf(c, l)) \in Nat /\ Cardinality(ResidentOf(c, l)) <= Cardinality(B)
      BY <3>1, <3>3, FS_Subset, FS_CardinalityType
    <3>5. c.count[l] = Cardinality(ResidentOf(c, l)) BY <2>2 DEF Accounted, Layered
    <3> HIDE DEF B, n
    <3>6. c.count[l] \in 0 .. n BY <3>1, <3>2, <3>4, <3>5
    <3> QED BY <3>6 DEF n
  <2>5. /\ phase \in [Buffers -> Phases] /\ reads \in [Blocks -> 0 .. NumBuffers]
        /\ reading \subseteq Buffers /\ done \in [Buffers -> {"none", "ok", "err"}]
        /\ data \in [Buffers -> Blocks \cup {NoBlock}]
    BY <2>0 DEF PoolInv, Pool, PoolTypes
  <2>6. /\ compute \in Seq(Ops) /\ copy \in Seq(Ops)
        /\ \A i \in DOMAIN compute : compute[i].fence <= Len(copy)
        /\ \A i \in DOMAIN copy : copy[i].fence <= Len(compute)
    BY <2>0 DEF StreamsOK, Streams
  <2>7. Range(compute) \cup Range(copy) \subseteq Ops BY <2>6 DEF Range
  <2> QED BY <2>0, <2>1, <2>2, <2>3, <2>4, <2>5, <2>6, <2>7 DEF TypeOK
<1> QED BY <1>1, Invariant, PTL

\* Every slot is free, resident in one SLRU segment, or pending, never two of
\* these at once; the table, the occupants, the counts and the rows agree.
THEOREM SlotsAreAccounted == Spec => []SlotsAccounted
<1>1. ExpertInv => SlotsAccounted
  <2> SUFFICES ASSUME ExpertInv PROVE SlotsAccounted OBVIOUS
  <2>0. Accounted(c) /\ (lost = {} => InUse(c) = Slots) BY DEF ExpertInv, CacheOK
  <2> DEFINE resident == c.prob \o c.prot
             all == c.free \o resident
             pending == {c.pend[id] : id \in Blocks} \ {0}
  <2>1. /\ c.free \in Seq(Slots) /\ c.prob \in Seq(Slots) /\ c.prot \in Seq(Slots)
        /\ c.table \in [Blocks -> 0 .. NumSlots]
    BY <2>0, CacheFields DEF Accounted
  <2>2. Lists(c) /\ Occupied(c) /\ Layered(c) BY <2>0 DEF Accounted
  <2>3. resident \in Seq(Slots) /\ Range(resident) = Queued(c) /\ IsInjective(resident)
    BY <2>1, <2>2, ConcatList DEF Lists, Queued
  <2> HIDE DEF resident
  <2>4. Range(all) = Range(c.free) \cup Queued(c) /\ IsInjective(all)
    BY <2>1, <2>2, <2>3, ConcatList DEF Lists
  <2> HIDE DEF all
  <2>5. pending \cap Range(all) = {} BY <2>2, <2>4 DEF Lists, Pending
  <2>6. lost = {} => Range(all) \cup pending = Slots BY <2>0, <2>4 DEF InUse, Pending
  <2>7. {c.table[id] : id \in Blocks} \ {0} = Range(resident)
    <3>1. 0 \notin Queued(c)
      <4>1. Queued(c) \subseteq Slots BY <2>3 DEF Range
      <4> QED BY <4>1, CacheAssumption DEF Slots, CacheAssumption
    <3> QED BY <2>2, <2>3, <3>1 DEF Occupied
  <2>8. \A id \in Blocks : /\ c.table[id] # 0 => c.occ[c.table[id]] = id
                           /\ c.pend[id] # 0 => c.occ[c.pend[id]] = id
    BY <2>2 DEF Occupied
  <2>9. Len(c.prot) <= ProtectedCap BY <2>2 DEF Lists
  <2>10. \A l \in Layers :
          /\ c.count[l] = Cardinality({id \in Range(LayerBlocks[l]) : c.table[id] # 0})
          /\ c.rows[l] # <<>> =>
                c.rows[l] = [i \in DOMAIN LayerBlocks[l] |-> c.table[LayerBlocks[l][i]]]
    BY <2>2 DEF Layered, ResidentOf
  <2> QED BY <2>4, <2>5, <2>6, <2>7, <2>8, <2>9, <2>10 DEF SlotsAccounted, resident, all
<1> QED BY <1>1, Invariant, PTL

\* A queued copy owns its buffer and finds its block there, a disk worker
\* writes only where the pool waits for it, a ticket leads to its block, and
\* none of this touches a buffer the pool has freed.
THEOREM BuffersAreSafe == Spec => []BuffersSafe
<1>1. ExpertInv => BuffersSafe
  <2> SUFFICES ASSUME ExpertInv PROVE BuffersSafe OBVIOUS
  <2>0. PoolInv /\ StreamsOK BY DEF ExpertInv
  <2>1. /\ PoolTypes(phase, want, reads, reading, done, data) /\ Workers(phase, reading, done)
        /\ Tickets(phase, want, reads, reading, done, data)
        /\ Copying(compute, phase, data) /\ Copying(copy, phase, data)
        /\ "buffers" \in freed => reading = {} /\ ~Buffered(compute) /\ ~Buffered(copy)
    BY <2>0 DEF PoolInv, Pool
  <2>2. ASSUME NEW o \in Range(compute) \cup Range(copy), o.buf # 0
        PROVE  "buffers" \notin freed /\ phase[o.buf] = "H2d" /\ data[o.buf] = o.id
    BY <2>1, <2>2 DEF Copying, Buffered, Range
  <2>3. ASSUME NEW id \in Blocks, reads[id] # 0
        PROVE  LET b == reads[id] IN
               \/ phase[b] = "Reading" /\ id = (IF b \in reading THEN want ELSE data)[b]
               \/ phase[b] = "Ready" /\ data[b] = id
               \/ phase[b] = "Failed" \/ done[b] = "err"
    <3> DEFINE b == reads[id]
    <3>1. b \in Buffers BY <2>1, <2>3, CacheAssumption DEF PoolTypes, Buffers, CacheAssumption
    <3>2. \/ /\ phase[b] = "Reading"
             /\ b \in reading => want[b] = id
             /\ done[b] = "ok" => data[b] = id
          \/ phase[b] = "Ready" /\ data[b] = id
          \/ phase[b] = "Failed"
      BY <2>1, <2>3 DEF Tickets
    <3>3. phase[b] = "Reading" => b \in reading \/ done[b] \in {"ok", "err"}
      BY <2>1, <3>1 DEF Workers, PoolTypes
    <3> QED BY <3>2, <3>3
  <2>4. \A b \in Buffers : (b \in reading \/ done[b] # "none") <=> phase[b] \in {"Reading", "Canceled"}
    BY <2>1 DEF Workers
  <2>5. \A b \in reading : done[b] = "none" /\ "buffers" \notin freed
    BY <2>1 DEF Workers
  <2> QED BY <2>2, <2>3, <2>4, <2>5 DEF BuffersSafe
<1> QED BY <1>1, Invariant, PTL

=============================================================================
