------------------------- MODULE ExpertDeviceProofs -------------------------
(***************************************************************************)
(* Proof that the kernels of the expert cache read the blocks they were    *)
(* given: what the queued operations will have done to a slot by the time  *)
(* a kernel starts, in whatever order the two streams interleave.          *)
(***************************************************************************)
EXTENDS ExpertCacheProofs
-----------------------------------------------------------------------------
(* The order of the operations queued: q is the compute stream, r the copy *)
(* stream, j a place in q and i a place in r.                              *)

\* Copy i waits for operation j.
Waits(r, j, i) == j <= r[i].fence

\* Operation j comes after copy i: it, or one before it, waits for the copy.
Follows(q, j, i) == \E m \in 1 .. j : q[m].fence >= i

\* The compute stream waits for copy i.
Covered(q, i) == \E m \in DOMAIN q : q[m].fence >= i

Writes(q, m, s) == q[m].kind = "write" /\ q[m].slot = s

\* Once the first j - 1 operations of q and the copies I have ended, slot s
\* holds block id: of the writes to s the last has id, whichever of those that
\* are not ordered comes last, and without any the slot has it now.
Sees(q, r, M, j, I, s, id) ==
    /\ \A m \in 1 .. j - 1 : Writes(q, m, s) =>
          \/ q[m].id = id
          \/ \E n \in m + 1 .. j - 1 : Writes(q, n, s)
          \/ \E i \in I : r[i].slot = s /\ Waits(r, m, i)
    /\ \A i \in I : r[i].slot = s =>
          \/ r[i].id = id
          \/ \E h \in I : h > i /\ r[h].slot = s
          \/ \E n \in 1 .. j - 1 : Writes(q, n, s) /\ Follows(q, n, i)
    /\ \/ \E m \in 1 .. j - 1 : Writes(q, m, s)
       \/ \E i \in I : r[i].slot = s
       \/ M[s] = id

\* Two operations of different streams on one slot are ordered.
Ordered(q, r) ==
    \A i \in DOMAIN r : \A j \in DOMAIN q :
        r[i].slot = q[j].slot => Waits(r, j, i) \/ Follows(q, j, i)

\* Every kernel queued will find its block.
KernelsSee(q, r, M) ==
    \A j \in DOMAIN q : q[j].kind = "read" =>
        Sees(q, r, M, j, {i \in DOMAIN r : Follows(q, j, i)}, q[j].slot, q[j].id)

Device(q, r, M) == Ordered(q, r) /\ KernelsSee(q, r, M)

\* The cache says that the block is in the slot, or on its way.
Holds(k, id, s) == k.table[id] = s \/ k.pend[id] = s

\* Once everything queued has ended, what the cache says is true.
HoldersSee(k, q, r, M) ==
    \A id \in Blocks : \A s \in Slots :
        Holds(k, id, s) => Sees(q, r, M, Len(q) + 1, DOMAIN r, s, id)

\* The compute stream waits for every copy that is not pending any more.
CopiesWaited(k, q, r) ==
    \A i \in DOMAIN r : Covered(q, i) \/ k.pend[r[i].id] = r[i].slot

\* Every copy queued is one the compute stream waits for.
AllCovered(q, r) == \A i \in DOMAIN r : Covered(q, i)

\* What the cache says of the slots is what the device will make of them.
Truthful(k, q, r, M, e) ==
    Device(q, r, M) /\ HoldersSee(k, q, r, M) /\ (e = {} => CopiesWaited(k, q, r))

\* The drop protocol: a copy the compute stream does not wait for, and a stream
\* that could not be drained, make the drop leak the slots.
DropOK ==
    /\ at \notin Dropping =>
          freed = {} /\ (lost # {} => kept \/ "compute" \in lost \/ "copy" \in lost)
    /\ at \in Dropping /\ lost # {} => "leak" \in freed \/ (at = "drop_copy" /\ "copy" \in lost)
    /\ at \in Dropping \ {"drop_copy"} =>
          "leak" \in freed \/ AllCovered(compute, copy)
    /\ "slots" \in freed => at = "gone" /\ "leak" \notin freed

DeviceInv == Truthful(c, compute, copy, mem, lost) /\ DropOK

-----------------------------------------------------------------------------
(* Operations queued *)

\* What a slot will hold depends on the operations before a place only.
LEMMA SeesSame ==
    ASSUME NEW q, NEW q2, NEW r, NEW r2, NEW M, NEW j \in Nat, NEW I, NEW s, NEW id,
           \A m \in 1 .. j - 1 : q2[m] = q[m], \A i \in I : r2[i] = r[i],
           Sees(q, r, M, j, I, s, id)
    PROVE  Sees(q2, r2, M, j, I, s, id)
<1>1. \A m \in 1 .. j - 1 : \A t : Writes(q2, m, t) <=> Writes(q, m, t) BY DEF Writes
<1>2. \A i \in I : \A m : Waits(r2, m, i) <=> Waits(r, m, i) BY DEF Waits
<1>3. ASSUME NEW m \in 1 .. j - 1, NEW i PROVE Follows(q2, m, i) <=> Follows(q, m, i)
  <2>1. \A a \in 1 .. m : q2[a] = q[a] OBVIOUS
  <2> QED BY <2>1 DEF Follows
<1>4. ASSUME NEW m \in 1 .. j - 1, Writes(q2, m, s)
      PROVE  \/ q2[m].id = id
             \/ \E n \in m + 1 .. j - 1 : Writes(q2, n, s)
             \/ \E i \in I : r2[i].slot = s /\ Waits(r2, m, i)
  <2>1. \/ q[m].id = id
        \/ \E n \in m + 1 .. j - 1 : Writes(q, n, s)
        \/ \E i \in I : r[i].slot = s /\ Waits(r, m, i)
    BY <1>1, <1>4 DEF Sees
  <2>2. \A n \in m + 1 .. j - 1 : n \in 1 .. j - 1 OBVIOUS
  <2> QED BY <1>1, <1>2, <2>1, <2>2
<1>5. ASSUME NEW i \in I, r2[i].slot = s
      PROVE  \/ r2[i].id = id
             \/ \E h \in I : h > i /\ r2[h].slot = s
             \/ \E n \in 1 .. j - 1 : Writes(q2, n, s) /\ Follows(q2, n, i)
  <2>1. \/ r[i].id = id
        \/ \E h \in I : h > i /\ r[h].slot = s
        \/ \E n \in 1 .. j - 1 : Writes(q, n, s) /\ Follows(q, n, i)
    BY <1>5 DEF Sees
  <2> QED BY <1>1, <1>3, <2>1
<1>6. \/ \E m \in 1 .. j - 1 : Writes(q2, m, s)
      \/ \E i \in I : r2[i].slot = s
      \/ M[s] = id
  BY <1>1 DEF Sees
<1> QED BY <1>4, <1>5, <1>6 DEF Sees

\* Copies of other slots do not matter.
LEMMA SeesAmong ==
    ASSUME NEW q, NEW r, NEW M, NEW j, NEW I, NEW J, NEW s, NEW id,
           \A i \in I : r[i].slot = s => i \in J, \A i \in J : r[i].slot = s => i \in I,
           Sees(q, r, M, j, I, s, id)
    PROVE  Sees(q, r, M, j, J, s, id)
  BY DEF Sees

\* One more operation on the compute stream that does not write to the slot.
LEMMA SeesPast ==
    ASSUME NEW q, NEW r, NEW M, NEW j \in Nat \ {0}, NEW I, NEW s, NEW id,
           ~Writes(q, j, s), Sees(q, r, M, j, I, s, id)
    PROVE  Sees(q, r, M, j + 1, I, s, id)
<1>1. (j + 1) - 1 = j /\ \A m \in 1 .. j : m \in 1 .. j - 1 \/ m = j OBVIOUS
<1>2. \A m \in 1 .. j - 1 : m \in 1 .. j OBVIOUS
<1>3. ASSUME NEW m \in 1 .. j, Writes(q, m, s)
      PROVE  \/ q[m].id = id
             \/ \E n \in m + 1 .. j : Writes(q, n, s)
             \/ \E i \in I : r[i].slot = s /\ Waits(r, m, i)
  <2>1. m \in 1 .. j - 1 BY <1>1, <1>3
  <2>2. \/ q[m].id = id
        \/ \E n \in m + 1 .. j - 1 : Writes(q, n, s)
        \/ \E i \in I : r[i].slot = s /\ Waits(r, m, i)
    BY <1>3, <2>1 DEF Sees
  <2>3. \A n \in m + 1 .. j - 1 : n \in m + 1 .. j BY <2>1
  <2> QED BY <2>2, <2>3
<1>4. ASSUME NEW i \in I, r[i].slot = s
      PROVE  \/ r[i].id = id
             \/ \E h \in I : h > i /\ r[h].slot = s
             \/ \E n \in 1 .. j : Writes(q, n, s) /\ Follows(q, n, i)
  BY <1>2, <1>4 DEF Sees
<1>5. \/ \E m \in 1 .. j : Writes(q, m, s)
      \/ \E i \in I : r[i].slot = s
      \/ M[s] = id
  BY <1>2 DEF Sees
<1> QED BY <1>1, <1>3, <1>4, <1>5 DEF Sees

\* A stream with one more operation.
LEMMA AppendFacts ==
    ASSUME NEW q \in Seq(Ops), NEW o \in Ops
    PROVE  LET p == Append(q, o) IN
           /\ Len(q) \in Nat /\ DOMAIN q = 1 .. Len(q)
           /\ p \in Seq(Ops) /\ Len(p) = Len(q) + 1 /\ DOMAIN p = 1 .. Len(q) + 1
           /\ p[Len(q) + 1] = o /\ \A i \in 1 .. Len(q) : p[i] = q[i]
           /\ o.fence \in Nat /\ \A i \in 1 .. Len(q) : q[i].fence \in Nat
<1>1. o.fence \in Nat BY DEF Ops
<1>2. ASSUME NEW i \in 1 .. Len(q) PROVE q[i].fence \in Nat
  <2>1. q[i] \in Ops OBVIOUS
  <2> QED BY <2>1 DEF Ops
<1> QED BY <1>1, <1>2

\* The order and the kernels already queued, when the compute stream grows.
LEMMA DeviceCompute ==
    ASSUME NEW q \in Seq(Ops), NEW r, NEW M, NEW o \in Ops, Device(q, r, M),
           \A i \in DOMAIN r : r[i].slot = o.slot => Covered(q, i) \/ o.fence >= i,
           o.kind = "read" => Sees(q, r, M, Len(q) + 1, DOMAIN r, o.slot, o.id)
    PROVE  Device(Append(q, o), r, M)
<1> DEFINE p == Append(q, o)
           n == Len(q)
<1>1. /\ n \in Nat /\ DOMAIN q = 1 .. n /\ DOMAIN p = 1 .. n + 1 /\ p[n + 1] = o
      /\ \A i \in 1 .. n : p[i] = q[i]
  BY AppendFacts
<1> HIDE DEF p, n
<1>2. ASSUME NEW j \in 1 .. n, NEW i PROVE Follows(p, j, i) <=> Follows(q, j, i)
  <2>1. \A m \in 1 .. j : m \in 1 .. n BY <1>1
  <2> QED BY <1>1, <2>1 DEF Follows
<1>3. ASSUME NEW i \in DOMAIN r, r[i].slot = o.slot PROVE Follows(p, n + 1, i)
  <2>1. n + 1 \in 1 .. n + 1 /\ \A m \in 1 .. n : m \in 1 .. n + 1 BY <1>1
  <2> QED BY <1>1, <1>3, <2>1 DEF Follows, Covered
<1>4. Ordered(p, r)
  <2> SUFFICES ASSUME NEW i \in DOMAIN r, NEW j \in 1 .. n + 1, r[i].slot = p[j].slot
               PROVE  Waits(r, j, i) \/ Follows(p, j, i)
    BY <1>1 DEF Ordered
  <2>1. CASE j = n + 1 BY <1>1, <1>3, <2>1
  <2>2. CASE j \in 1 .. n BY <1>1, <1>2, <2>2 DEF Device, Ordered
  <2> QED BY <1>1, <2>1, <2>2
<1>5. KernelsSee(p, r, M)
  <2> SUFFICES ASSUME NEW j \in 1 .. n + 1, p[j].kind = "read"
               PROVE  Sees(p, r, M, j, {i \in DOMAIN r : Follows(p, j, i)}, p[j].slot, p[j].id)
    BY <1>1 DEF KernelsSee
  <2>1. CASE j = n + 1
    <3>1. Sees(q, r, M, n + 1, DOMAIN r, o.slot, o.id) BY <1>1, <2>1 DEF n
    <3>2. n + 1 \in Nat /\ \A m \in 1 .. (n + 1) - 1 : p[m] = q[m] BY <1>1
    <3>3. Sees(p, r, M, n + 1, DOMAIN r, o.slot, o.id) BY <3>1, <3>2, SeesSame
    <3>4. Sees(p, r, M, n + 1, {i \in DOMAIN r : Follows(p, n + 1, i)}, o.slot, o.id)
      BY <3>3, <1>3, SeesAmong
    <3> QED BY <3>4, <2>1, <1>1
  <2>2. CASE j \in 1 .. n
    <3>1. Sees(q, r, M, j, {i \in DOMAIN r : Follows(q, j, i)}, q[j].slot, q[j].id)
      BY <1>1, <2>2 DEF Device, KernelsSee
    <3>2. {i \in DOMAIN r : Follows(q, j, i)} = {i \in DOMAIN r : Follows(p, j, i)} BY <1>2, <2>2
    <3>3. j \in Nat /\ \A m \in 1 .. j - 1 : p[m] = q[m] BY <1>1, <2>2
    <3>4. p[j] = q[j] BY <1>1, <2>2
    <3> QED BY <3>1, <3>2, <3>3, <3>4, SeesSame
  <2> QED BY <1>1, <2>1, <2>2
<1> QED BY <1>4, <1>5 DEF Device, p

\* What a slot will hold, when the compute stream grows by an operation that
\* does not write to it.
LEMMA HeldPast ==
    ASSUME NEW q \in Seq(Ops), NEW r, NEW M, NEW o \in Ops, NEW s, NEW id,
           o.kind # "write" \/ o.slot # s, Sees(q, r, M, Len(q) + 1, DOMAIN r, s, id)
    PROVE  Sees(Append(q, o), r, M, Len(Append(q, o)) + 1, DOMAIN r, s, id)
<1> DEFINE p == Append(q, o)
           n == Len(q)
<1>1. n \in Nat /\ Len(p) = n + 1 /\ p[n + 1] = o /\ \A i \in 1 .. n : p[i] = q[i]
  BY AppendFacts
<1>2. Sees(q, r, M, n + 1, DOMAIN r, s, id) OBVIOUS
<1> HIDE DEF p, n
<1>3. n + 1 \in Nat \ {0} /\ \A m \in 1 .. (n + 1) - 1 : p[m] = q[m] BY <1>1
<1>4. Sees(p, r, M, n + 1, DOMAIN r, s, id) BY <1>2, <1>3, SeesSame
<1>5. ~Writes(p, n + 1, s) BY <1>1 DEF Writes
<1>6. Sees(p, r, M, (n + 1) + 1, DOMAIN r, s, id) BY <1>3, <1>4, <1>5, SeesPast
<1> QED BY <1>1, <1>6 DEF p

\* And by a write to it, with every copy to the slot behind.
LEMMA HeldWritten ==
    ASSUME NEW q \in Seq(Ops), NEW r, NEW M, NEW o \in Ops, o.kind = "write",
           \A i \in DOMAIN r : r[i].slot = o.slot => Covered(q, i)
    PROVE  Sees(Append(q, o), r, M, Len(Append(q, o)) + 1, DOMAIN r, o.slot, o.id)
<1> DEFINE p == Append(q, o)
           n == Len(q)
           s == o.slot
           id == o.id
<1>1. /\ n \in Nat /\ Len(p) = n + 1 /\ p[n + 1] = o /\ DOMAIN q = 1 .. n
      /\ \A i \in 1 .. n : p[i] = q[i]
  BY AppendFacts
<1> HIDE DEF p, n
<1>2. Writes(p, n + 1, s) /\ p[n + 1].id = id BY <1>1 DEF Writes
<1>3. n + 1 \in 1 .. n + 1 /\ \A m \in 1 .. n : m \in 1 .. n + 1 /\ n + 1 \in m + 1 .. n + 1 BY <1>1
<1>4. ASSUME NEW i \in DOMAIN r, r[i].slot = s PROVE Follows(p, n + 1, i)
  BY <1>1, <1>3, <1>4 DEF Follows, Covered
<1>5. ASSUME NEW m \in 1 .. n + 1
      PROVE  p[m].id = id \/ \E a \in m + 1 .. n + 1 : Writes(p, a, s)
  <2>1. CASE m = n + 1 BY <1>2, <2>1
  <2>2. CASE m \in 1 .. n BY <1>2, <1>3, <2>2
  <2> QED BY <1>1, <2>1, <2>2
<1>6. Sees(p, r, M, (n + 1) + 1, DOMAIN r, s, id)
  <2>1. ((n + 1) + 1) - 1 = n + 1 BY <1>1
  <2> QED BY <1>2, <1>3, <1>4, <1>5, <2>1 DEF Sees
<1> QED BY <1>1, <1>6 DEF p

\* A copy behind everything the compute stream has queued.
LEMMA DeviceCopy ==
    ASSUME NEW q \in Seq(Ops), NEW r \in Seq(Ops), NEW M, NEW o \in Ops, Device(q, r, M),
           o.fence = Len(q), \A j \in DOMAIN q : q[j].fence <= Len(r)
    PROVE  Device(q, Append(r, o), M)
<1> DEFINE p == Append(r, o)
           n == Len(r)
<1>1. /\ n \in Nat /\ DOMAIN r = 1 .. n /\ DOMAIN p = 1 .. n + 1 /\ p[n + 1] = o
      /\ \A i \in 1 .. n : p[i] = r[i]
  BY AppendFacts
<1>2. /\ Len(q) \in Nat /\ DOMAIN q = 1 .. Len(q) /\ \A j \in DOMAIN q : q[j].fence \in 0 .. n
  BY AppendFacts
<1> HIDE DEF p, n
<1>3. Ordered(q, p)
  <2> SUFFICES ASSUME NEW i \in 1 .. n + 1, NEW j \in DOMAIN q, p[i].slot = q[j].slot
               PROVE  Waits(p, j, i) \/ Follows(q, j, i)
    BY <1>1 DEF Ordered
  <2>1. CASE i = n + 1 BY <1>1, <1>2, <2>1 DEF Waits
  <2>2. CASE i \in 1 .. n BY <1>1, <2>2 DEF Device, Ordered, Waits
  <2> QED BY <1>1, <2>1, <2>2
<1>4. KernelsSee(q, p, M)
  <2> SUFFICES ASSUME NEW j \in DOMAIN q, q[j].kind = "read"
               PROVE  Sees(q, p, M, j, {i \in DOMAIN p : Follows(q, j, i)}, q[j].slot, q[j].id)
    BY DEF KernelsSee
  <2>1. ~Follows(q, j, n + 1)
    <3>1. \A m \in 1 .. j : m \in DOMAIN q BY <1>2
    <3> QED BY <1>1, <1>2, <3>1 DEF Follows
  <2>2. {i \in DOMAIN p : Follows(q, j, i)} = {i \in DOMAIN r : Follows(q, j, i)}
    BY <1>1, <2>1
  <2>3. Sees(q, r, M, j, {i \in DOMAIN r : Follows(q, j, i)}, q[j].slot, q[j].id)
    BY DEF Device, KernelsSee
  <2>4. j \in Nat /\ \A i \in {i \in DOMAIN r : Follows(q, j, i)} : p[i] = r[i] BY <1>1, <1>2
  <2> QED BY <2>2, <2>3, <2>4, SeesSame
<1> QED BY <1>3, <1>4 DEF Device, p

\* What a slot will hold, when a copy to another slot is queued.
LEMMA HeldBeside ==
    ASSUME NEW q \in Seq(Ops), NEW r \in Seq(Ops), NEW M, NEW o \in Ops, NEW s, NEW id,
           o.slot # s, Sees(q, r, M, Len(q) + 1, DOMAIN r, s, id)
    PROVE  Sees(q, Append(r, o), M, Len(q) + 1, DOMAIN Append(r, o), s, id)
<1> DEFINE p == Append(r, o)
           n == Len(r)
<1>1. /\ n \in Nat /\ DOMAIN r = 1 .. n /\ DOMAIN p = 1 .. n + 1 /\ p[n + 1] = o
      /\ \A i \in 1 .. n : p[i] = r[i] /\ i \in 1 .. n + 1
  BY AppendFacts
<1>2. Len(q) + 1 \in Nat BY AppendFacts
<1> HIDE DEF p, n
<1>3. Sees(q, p, M, Len(q) + 1, DOMAIN r, s, id) BY <1>1, <1>2, SeesSame
<1>4. /\ \A i \in DOMAIN r : p[i].slot = s => i \in DOMAIN p
      /\ \A i \in DOMAIN p : p[i].slot = s => i \in DOMAIN r
  BY <1>1
<1> QED BY <1>3, <1>4, SeesAmong DEF p

\* And when one to the slot is, behind everything.
LEMMA HeldCopied ==
    ASSUME NEW q \in Seq(Ops), NEW r \in Seq(Ops), NEW M, NEW o \in Ops, o.fence = Len(q)
    PROVE  Sees(q, Append(r, o), M, Len(q) + 1, DOMAIN Append(r, o), o.slot, o.id)
<1> DEFINE p == Append(r, o)
           n == Len(r)
           k == Len(q)
<1>1. n \in Nat /\ DOMAIN p = 1 .. n + 1 /\ p[n + 1] = o BY AppendFacts
<1>2. k \in Nat /\ (k + 1) - 1 = k BY AppendFacts
<1>3. o.fence = k OBVIOUS
<1> HIDE DEF p, n, k
<1>4. n + 1 \in DOMAIN p /\ p[n + 1].slot = o.slot BY <1>1
<1>5. \A m \in 1 .. k : Waits(p, m, n + 1) BY <1>1, <1>2, <1>3 DEF Waits
<1>6. ASSUME NEW i \in DOMAIN p PROVE p[i].id = o.id \/ n + 1 > i
  <2>1. i = n + 1 \/ n + 1 > i BY <1>1
  <2> QED BY <1>1, <2>1
<1>7. Sees(q, p, M, k + 1, DOMAIN p, o.slot, o.id)
  BY <1>2, <1>4, <1>5, <1>6 DEF Sees
<1> QED BY <1>7 DEF p, k

-----------------------------------------------------------------------------
(* Operations run *)

\* The head of the compute stream runs: q and r become q2 and r2.
ComputeRuns(q, q2, r, r2, M, M2) ==
    /\ Len(q) \in Nat \ {0} /\ DOMAIN q = 1 .. Len(q) /\ Len(q2) = Len(q) - 1 /\ DOMAIN q2 = 1 .. Len(q) - 1
    /\ q[1].fence = 0 /\ \A m \in 1 .. Len(q) - 1 : q2[m] = q[m + 1]
    /\ Len(r) \in Nat /\ DOMAIN r = 1 .. Len(r) /\ DOMAIN r2 = 1 .. Len(r)
    /\ \A i \in 1 .. Len(r) : /\ r2[i].slot = r[i].slot /\ r2[i].id = r[i].id /\ r[i].fence \in Nat
                              /\ r2[i].fence = IF r[i].fence = 0 THEN 0 ELSE r[i].fence - 1
    /\ \A s \in Slots : M2[s] = IF Writes(q, 1, s) THEN q[1].id ELSE M[s]

\* The order of what remains does not change.
LEMMA ComputeOrder ==
    ASSUME NEW q, NEW q2, NEW r, NEW r2, NEW M, NEW M2, ComputeRuns(q, q2, r, r2, M, M2)
    PROVE  /\ \A m \in 1 .. Len(q) - 1 : \A s : Writes(q2, m, s) <=> Writes(q, m + 1, s)
           /\ \A m \in 1 .. Len(q) - 1 : \A i \in DOMAIN r : Follows(q2, m, i) <=> Follows(q, m + 1, i)
           /\ \A m \in 1 .. Len(q) - 1 : \A i \in DOMAIN r : Waits(r2, m, i) <=> Waits(r, m + 1, i)
           /\ \A i \in DOMAIN r : ~Follows(q, 1, i)
           /\ \A i \in DOMAIN r : Covered(q, i) => Covered(q2, i)
<1> DEFINE n == Len(q)
<1>0. /\ n \in Nat \ {0} /\ q[1].fence = 0 /\ \A m \in 1 .. n - 1 : q2[m] = q[m + 1]
      /\ DOMAIN q = 1 .. n /\ DOMAIN q2 = 1 .. n - 1
      /\ Len(r) \in Nat /\ DOMAIN r = 1 .. Len(r)
      /\ \A i \in 1 .. Len(r) : /\ r[i].fence \in Nat
                                /\ r2[i].fence = IF r[i].fence = 0 THEN 0 ELSE r[i].fence - 1
  BY DEF ComputeRuns
<1> HIDE DEF n
<1>1. \A m \in 1 .. n - 1 : \A s : Writes(q2, m, s) <=> Writes(q, m + 1, s)
  BY <1>0 DEF Writes
<1>2. ASSUME NEW i \in DOMAIN r, NEW a \in 1 .. n, q[a].fence >= i
      PROVE  a - 1 \in 1 .. n - 1 /\ q2[a - 1].fence >= i
  <2>1. a # 1 BY <1>0, <1>2
  <2>2. a - 1 \in 1 .. n - 1 /\ (a - 1) + 1 = a BY <1>0, <2>1
  <2> QED BY <1>0, <1>2, <2>2
<1>3. ASSUME NEW m \in 1 .. n - 1, NEW i \in DOMAIN r PROVE Follows(q2, m, i) <=> Follows(q, m + 1, i)
  <2>1. ASSUME NEW a \in 1 .. m, q2[a].fence >= i PROVE Follows(q, m + 1, i)
    <3>1. a + 1 \in 1 .. m + 1 /\ a \in 1 .. n - 1 BY <1>0
    <3> QED BY <1>0, <2>1, <3>1 DEF Follows
  <2>2. ASSUME NEW a \in 1 .. m + 1, q[a].fence >= i PROVE Follows(q2, m, i)
    <3>1. a \in 1 .. n BY <1>0
    <3>2. a - 1 \in 1 .. n - 1 /\ q2[a - 1].fence >= i BY <1>2, <2>2, <3>1
    <3>3. a - 1 \in 1 .. m BY <1>0, <3>2
    <3> QED BY <3>2, <3>3 DEF Follows
  <2> QED BY <2>1, <2>2 DEF Follows
<1>4. ASSUME NEW m \in 1 .. n - 1, NEW i \in DOMAIN r PROVE Waits(r2, m, i) <=> Waits(r, m + 1, i)
  <2> DEFINE f == r[i].fence
             g == r2[i].fence
  <2>1. f \in Nat /\ g = (IF f = 0 THEN 0 ELSE f - 1) /\ m \in Nat \ {0} BY <1>0
  <2> HIDE DEF f, g
  <2>2. m <= g <=> m + 1 <= f BY <2>1
  <2> QED BY <2>2 DEF Waits, f, g
<1>5. ASSUME NEW i \in DOMAIN r PROVE ~Follows(q, 1, i) BY <1>0 DEF Follows
<1>6. ASSUME NEW i \in DOMAIN r, Covered(q, i) PROVE Covered(q2, i)
  BY <1>0, <1>2, <1>6 DEF Covered
<1> QED BY <1>1, <1>3, <1>4, <1>5, <1>6 DEF n

\* What a slot will hold after the operations that remain.
LEMMA ComputeSees ==
    ASSUME NEW q, NEW q2, NEW r, NEW r2, NEW M, NEW M2, ComputeRuns(q, q2, r, r2, M, M2),
           NEW j \in 2 .. Len(q) + 1, NEW I \in SUBSET DOMAIN r, NEW s \in Slots, NEW id,
           Sees(q, r, M, j, I, s, id)
    PROVE  Sees(q2, r2, M2, j - 1, I, s, id)
<1> DEFINE n == Len(q)
<1>0. /\ n \in Nat \ {0} /\ \A m \in 1 .. n - 1 : q2[m] = q[m + 1]
      /\ \A i \in I : r2[i].slot = r[i].slot /\ r2[i].id = r[i].id
      /\ M2[s] = IF Writes(q, 1, s) THEN q[1].id ELSE M[s]
      /\ j \in 2 .. n + 1
  BY DEF ComputeRuns
<1>1. /\ \A m \in 1 .. n - 1 : \A t : Writes(q2, m, t) <=> Writes(q, m + 1, t)
      /\ \A m \in 1 .. n - 1 : \A i \in DOMAIN r : Follows(q2, m, i) <=> Follows(q, m + 1, i)
      /\ \A m \in 1 .. n - 1 : \A i \in DOMAIN r : Waits(r2, m, i) <=> Waits(r, m + 1, i)
      /\ \A i \in DOMAIN r : ~Follows(q, 1, i)
  BY ComputeOrder
<1> HIDE DEF n
<1>2. /\ \A m \in 1 .. (j - 1) - 1 : m \in 1 .. n - 1 /\ m + 1 \in 1 .. j - 1
      /\ \A m \in 2 .. j - 1 : m - 1 \in 1 .. (j - 1) - 1 /\ (m - 1) + 1 = m
      /\ \A m \in 1 .. j - 1 : m = 1 \/ m \in 2 .. j - 1
  BY <1>0
<1>3. \A m \in 2 .. j - 1 : Writes(q, m, s) => Writes(q2, m - 1, s)
  <2> SUFFICES ASSUME NEW m \in 2 .. j - 1, Writes(q, m, s) PROVE Writes(q2, m - 1, s) OBVIOUS
  <2>1. m - 1 \in 1 .. n - 1 /\ (m - 1) + 1 = m BY <1>2
  <2> QED BY <1>1, <2>1
<1>4. ASSUME NEW m \in 1 .. (j - 1) - 1, Writes(q2, m, s)
      PROVE  \/ q2[m].id = id
             \/ \E a \in m + 1 .. (j - 1) - 1 : Writes(q2, a, s)
             \/ \E i \in I : r2[i].slot = s /\ Waits(r2, m, i)
  <2>1. m \in 1 .. n - 1 /\ m + 1 \in 1 .. j - 1 /\ Writes(q, m + 1, s) BY <1>1, <1>2, <1>4
  <2>2. \/ q[m + 1].id = id
        \/ \E a \in (m + 1) + 1 .. j - 1 : Writes(q, a, s)
        \/ \E i \in I : r[i].slot = s /\ Waits(r, m + 1, i)
    BY <2>1 DEF Sees
  <2>3. ASSUME NEW a \in (m + 1) + 1 .. j - 1, Writes(q, a, s)
        PROVE  a - 1 \in m + 1 .. (j - 1) - 1 /\ Writes(q2, a - 1, s)
    <3>1. a \in 2 .. j - 1 /\ a - 1 \in m + 1 .. (j - 1) - 1 BY <1>0, <2>1
    <3> QED BY <1>3, <2>3, <3>1
  <2> QED BY <1>0, <1>1, <2>1, <2>2, <2>3
<1>5. ASSUME NEW i \in I, r2[i].slot = s
      PROVE  \/ r2[i].id = id
             \/ \E h \in I : h > i /\ r2[h].slot = s
             \/ \E a \in 1 .. (j - 1) - 1 : Writes(q2, a, s) /\ Follows(q2, a, i)
  <2>1. \/ r[i].id = id
        \/ \E h \in I : h > i /\ r[h].slot = s
        \/ \E a \in 1 .. j - 1 : Writes(q, a, s) /\ Follows(q, a, i)
    BY <1>0, <1>5 DEF Sees
  <2>2. ASSUME NEW a \in 1 .. j - 1, Writes(q, a, s), Follows(q, a, i)
        PROVE  a - 1 \in 1 .. (j - 1) - 1 /\ Writes(q2, a - 1, s) /\ Follows(q2, a - 1, i)
    <3>1. a \in 2 .. j - 1 BY <1>1, <1>2, <2>2
    <3>2. a - 1 \in 1 .. n - 1 /\ (a - 1) + 1 = a /\ a - 1 \in 1 .. (j - 1) - 1 BY <1>2, <3>1
    <3> QED BY <1>1, <1>3, <2>2, <3>1, <3>2
  <2> QED BY <1>0, <2>1, <2>2
<1>6. \/ \E a \in 1 .. (j - 1) - 1 : Writes(q2, a, s)
      \/ \E i \in I : r2[i].slot = s
      \/ M2[s] = id
  <2>1. CASE \E m \in 2 .. j - 1 : Writes(q, m, s)
    <3>1. PICK m \in 2 .. j - 1 : Writes(q, m, s) BY <2>1
    <3>2. m - 1 \in 1 .. (j - 1) - 1 BY <1>2
    <3> QED BY <1>3, <3>1, <3>2
  <2>2. CASE \E i \in I : r[i].slot = s BY <1>0, <2>2
  <2>3. CASE Writes(q, 1, s)
    <3>1. 1 \in 1 .. j - 1 /\ \A a \in 1 + 1 .. j - 1 : a \in 2 .. j - 1 BY <1>0
    <3>2. \/ q[1].id = id
          \/ \E a \in 1 + 1 .. j - 1 : Writes(q, a, s)
          \/ \E i \in I : r[i].slot = s
      BY <2>3, <3>1 DEF Sees
    <3> QED BY <1>0, <2>1, <2>2, <2>3, <3>1, <3>2
  <2>4. CASE ~Writes(q, 1, s) /\ M[s] = id BY <1>0, <2>4
  <2> QED BY <1>2, <2>1, <2>2, <2>3, <2>4 DEF Sees
<1> QED BY <1>4, <1>5, <1>6 DEF Sees

\* The order and the kernels, when the head of the compute stream runs.
LEMMA ComputeDevice ==
    ASSUME NEW q, NEW q2, NEW r, NEW r2, NEW M, NEW M2, ComputeRuns(q, q2, r, r2, M, M2),
           \A j \in DOMAIN q : q[j].slot \in Slots, Device(q, r, M)
    PROVE  Device(q2, r2, M2)
<1> DEFINE n == Len(q)
<1>0. /\ n \in Nat \ {0} /\ DOMAIN q = 1 .. n /\ DOMAIN q2 = 1 .. n - 1
      /\ \A m \in 1 .. n - 1 : q2[m] = q[m + 1]
      /\ DOMAIN r2 = DOMAIN r /\ \A i \in DOMAIN r : r2[i].slot = r[i].slot
  BY DEF ComputeRuns
<1>1. /\ \A m \in 1 .. n - 1 : \A i \in DOMAIN r : Follows(q2, m, i) <=> Follows(q, m + 1, i)
      /\ \A m \in 1 .. n - 1 : \A i \in DOMAIN r : Waits(r2, m, i) <=> Waits(r, m + 1, i)
  BY ComputeOrder
<1>2. ASSUME NEW j \in 2 .. n + 1, NEW I \in SUBSET DOMAIN r, NEW s \in Slots, NEW id,
             Sees(q, r, M, j, I, s, id)
      PROVE  Sees(q2, r2, M2, j - 1, I, s, id)
  BY <1>2, ComputeSees
<1> HIDE DEF n
<1>3. Ordered(q2, r2)
  <2> SUFFICES ASSUME NEW i \in DOMAIN r, NEW j \in 1 .. n - 1, r2[i].slot = q2[j].slot
               PROVE  Waits(r2, j, i) \/ Follows(q2, j, i)
    BY <1>0 DEF Ordered
  <2>1. j + 1 \in DOMAIN q /\ r[i].slot = q[j + 1].slot BY <1>0
  <2>2. Waits(r, j + 1, i) \/ Follows(q, j + 1, i) BY <2>1 DEF Device, Ordered
  <2> QED BY <1>1, <2>2
<1>4. KernelsSee(q2, r2, M2)
  <2> SUFFICES ASSUME NEW j \in 1 .. n - 1, q2[j].kind = "read"
               PROVE  Sees(q2, r2, M2, j, {i \in DOMAIN r : Follows(q2, j, i)}, q2[j].slot, q2[j].id)
    BY <1>0 DEF KernelsSee
  <2>1. q2[j] = q[j + 1] /\ j + 1 \in DOMAIN q /\ j + 1 \in 2 .. n + 1 /\ (j + 1) - 1 = j BY <1>0
  <2>2. {i \in DOMAIN r : Follows(q, j + 1, i)} = {i \in DOMAIN r : Follows(q2, j, i)} BY <1>1
  <2>3. Sees(q, r, M, j + 1, {i \in DOMAIN r : Follows(q, j + 1, i)}, q[j + 1].slot, q[j + 1].id)
    BY <2>1 DEF Device, KernelsSee
  <2>4. q[j + 1].slot \in Slots BY <2>1
  <2>5. Sees(q2, r2, M2, (j + 1) - 1, {i \in DOMAIN r : Follows(q2, j, i)}, q[j + 1].slot, q[j + 1].id)
    BY <1>2, <2>1, <2>2, <2>3, <2>4
  <2> QED BY <2>1, <2>5
<1> QED BY <1>3, <1>4 DEF Device

\* The head of the copy stream runs.
CopyRuns(q, q2, r, r2, M, M2) ==
    /\ Len(r) \in Nat \ {0} /\ DOMAIN r = 1 .. Len(r) /\ DOMAIN r2 = 1 .. Len(r) - 1
    /\ r[1].fence = 0 /\ r[1].kind = "write" /\ \A i \in 1 .. Len(r) - 1 : r2[i] = r[i + 1]
    /\ Len(q) \in Nat /\ DOMAIN q = 1 .. Len(q) /\ DOMAIN q2 = 1 .. Len(q) /\ Len(q2) = Len(q)
    /\ \A m \in 1 .. Len(q) : /\ q2[m].slot = q[m].slot /\ q2[m].id = q[m].id
                              /\ q2[m].kind = q[m].kind /\ q[m].fence \in Nat
                              /\ q2[m].fence = IF q[m].fence = 0 THEN 0 ELSE q[m].fence - 1
    /\ \A s \in Slots : M2[s] = IF r[1].slot = s THEN r[1].id ELSE M[s]

\* The order of what remains does not change.
LEMMA CopyOrder ==
    ASSUME NEW q, NEW q2, NEW r, NEW r2, NEW M, NEW M2, CopyRuns(q, q2, r, r2, M, M2)
    PROVE  /\ \A m \in DOMAIN q : \A s : Writes(q2, m, s) <=> Writes(q, m, s)
           /\ \A m \in DOMAIN q : \A i \in 1 .. Len(r) - 1 : Follows(q2, m, i) <=> Follows(q, m, i + 1)
           /\ \A m \in DOMAIN q : \A i \in 1 .. Len(r) - 1 : Waits(r2, m, i) <=> Waits(r, m, i + 1)
           /\ \A m \in DOMAIN q : ~Waits(r, m, 1)
           /\ \A i \in 1 .. Len(r) - 1 : Covered(q, i + 1) => Covered(q2, i)
<1> DEFINE n == Len(q)
           k == Len(r)
<1>0. /\ k \in Nat \ {0} /\ r[1].fence = 0 /\ \A i \in 1 .. k - 1 : r2[i] = r[i + 1]
      /\ n \in Nat /\ DOMAIN q = 1 .. n /\ DOMAIN q2 = 1 .. n
      /\ \A m \in 1 .. n : /\ q2[m].slot = q[m].slot /\ q2[m].kind = q[m].kind /\ q[m].fence \in Nat
                           /\ q2[m].fence = IF q[m].fence = 0 THEN 0 ELSE q[m].fence - 1
  BY DEF CopyRuns
<1> HIDE DEF n, k
<1>1. \A m \in 1 .. n : \A s : Writes(q2, m, s) <=> Writes(q, m, s) BY <1>0 DEF Writes
<1>2. ASSUME NEW a \in 1 .. n, NEW i \in 1 .. k - 1 PROVE q2[a].fence >= i <=> q[a].fence >= i + 1
  <2> DEFINE f == q[a].fence
             g == q2[a].fence
  <2>1. f \in Nat /\ g = (IF f = 0 THEN 0 ELSE f - 1) /\ i \in Nat \ {0} BY <1>0
  <2> HIDE DEF f, g
  <2>2. g >= i <=> f >= i + 1 BY <2>1
  <2> QED BY <2>2 DEF f, g
<1>3. ASSUME NEW m \in 1 .. n, NEW i \in 1 .. k - 1 PROVE Follows(q2, m, i) <=> Follows(q, m, i + 1)
  <2>1. \A a \in 1 .. m : a \in 1 .. n BY <1>0
  <2> QED BY <1>2, <2>1 DEF Follows
<1>4. ASSUME NEW m \in 1 .. n, NEW i \in 1 .. k - 1 PROVE Waits(r2, m, i) <=> Waits(r, m, i + 1)
  BY <1>0 DEF Waits
<1>5. ASSUME NEW m \in 1 .. n PROVE ~Waits(r, m, 1) BY <1>0 DEF Waits
<1>6. ASSUME NEW i \in 1 .. k - 1, Covered(q, i + 1) PROVE Covered(q2, i)
  BY <1>0, <1>2, <1>6 DEF Covered
<1> QED BY <1>0, <1>1, <1>3, <1>4, <1>5, <1>6 DEF n, k

\* What a slot will hold after the operations that remain, when the copy was one
\* of those that come before, or to another slot.
LEMMA CopySees ==
    ASSUME NEW q, NEW q2, NEW r, NEW r2, NEW M, NEW M2, CopyRuns(q, q2, r, r2, M, M2),
           NEW j \in 1 .. Len(q) + 1, NEW I \in SUBSET DOMAIN r, NEW J \in SUBSET DOMAIN r2,
           \A i \in DOMAIN r2 : i \in J <=> i + 1 \in I,
           NEW s \in Slots, NEW id, 1 \in I \/ r[1].slot # s, Sees(q, r, M, j, I, s, id)
    PROVE  Sees(q2, r2, M2, j, J, s, id)
<1> DEFINE n == Len(q)
           k == Len(r)
<1>0. /\ n \in Nat /\ DOMAIN q = 1 .. n /\ k \in Nat \ {0} /\ DOMAIN r = 1 .. k /\ DOMAIN r2 = 1 .. k - 1
      /\ \A i \in 1 .. k - 1 : r2[i] = r[i + 1]
      /\ \A m \in 1 .. n : q2[m].id = q[m].id
      /\ M2[s] = IF r[1].slot = s THEN r[1].id ELSE M[s]
      /\ j \in 1 .. n + 1
  BY DEF CopyRuns
<1>1. /\ \A m \in 1 .. n : \A t : Writes(q2, m, t) <=> Writes(q, m, t)
      /\ \A m \in 1 .. n : \A i \in 1 .. k - 1 : Follows(q2, m, i) <=> Follows(q, m, i + 1)
      /\ \A m \in 1 .. n : \A i \in 1 .. k - 1 : Waits(r2, m, i) <=> Waits(r, m, i + 1)
      /\ \A m \in 1 .. n : ~Waits(r, m, 1)
  BY <1>0, CopyOrder
<1> HIDE DEF n, k
<1>2. \A m \in 1 .. j - 1 : m \in 1 .. n BY <1>0
<1>3. ASSUME NEW i \in I, i # 1
      PROVE  i - 1 \in J /\ i - 1 \in 1 .. k - 1 /\ (i - 1) + 1 = i /\ r2[i - 1] = r[i]
  <2>1. i \in 1 .. k BY <1>0
  <2>2. i - 1 \in 1 .. k - 1 /\ (i - 1) + 1 = i BY <1>0, <1>3, <2>1
  <2> QED BY <1>0, <2>2
<1>4. ASSUME NEW m \in 1 .. j - 1, Writes(q2, m, s)
      PROVE  \/ q2[m].id = id
             \/ \E a \in m + 1 .. j - 1 : Writes(q2, a, s)
             \/ \E i \in J : r2[i].slot = s /\ Waits(r2, m, i)
  <2>1. m \in 1 .. n /\ Writes(q, m, s) BY <1>1, <1>2, <1>4
  <2>2. \/ q[m].id = id
        \/ \E a \in m + 1 .. j - 1 : Writes(q, a, s)
        \/ \E i \in I : r[i].slot = s /\ Waits(r, m, i)
    BY <2>1 DEF Sees
  <2>3. \A a \in m + 1 .. j - 1 : a \in 1 .. n BY <1>0
  <2>4. ASSUME NEW i \in I, r[i].slot = s, Waits(r, m, i)
        PROVE  i - 1 \in J /\ r2[i - 1].slot = s /\ Waits(r2, m, i - 1)
    <3>1. i # 1 BY <1>1, <2>1, <2>4
    <3>2. i - 1 \in J /\ i - 1 \in 1 .. k - 1 /\ (i - 1) + 1 = i /\ r2[i - 1] = r[i] BY <1>3, <3>1
    <3>3. Waits(r2, m, i - 1) BY <1>1, <2>1, <2>4, <3>2
    <3> QED BY <2>4, <3>2, <3>3
  <2> QED BY <1>0, <1>1, <2>1, <2>2, <2>3, <2>4
<1>5. ASSUME NEW i \in J, r2[i].slot = s
      PROVE  \/ r2[i].id = id
             \/ \E h \in J : h > i /\ r2[h].slot = s
             \/ \E a \in 1 .. j - 1 : Writes(q2, a, s) /\ Follows(q2, a, i)
  <2>1. i \in 1 .. k - 1 /\ i + 1 \in I /\ r2[i] = r[i + 1] BY <1>0
  <2>2. \/ r[i + 1].id = id
        \/ \E h \in I : h > i + 1 /\ r[h].slot = s
        \/ \E a \in 1 .. j - 1 : Writes(q, a, s) /\ Follows(q, a, i + 1)
    BY <1>5, <2>1 DEF Sees
  <2>3. ASSUME NEW h \in I, h > i + 1, r[h].slot = s
        PROVE  h - 1 \in J /\ h - 1 > i /\ r2[h - 1].slot = s
    <3>1. h \in 1 .. k BY <1>0
    <3>2. h # 1 /\ h - 1 > i BY <2>1, <2>3, <3>1
    <3> QED BY <1>3, <2>3, <3>2
  <2>4. ASSUME NEW a \in 1 .. j - 1, Writes(q, a, s), Follows(q, a, i + 1)
        PROVE  Writes(q2, a, s) /\ Follows(q2, a, i)
    BY <1>1, <1>2, <2>1, <2>4
  <2> QED BY <2>1, <2>2, <2>3, <2>4
<1>6. \/ \E a \in 1 .. j - 1 : Writes(q2, a, s)
      \/ \E i \in J : r2[i].slot = s
      \/ M2[s] = id
  <2>1. CASE \E m \in 1 .. j - 1 : Writes(q, m, s) BY <1>1, <1>2, <2>1
  <2>2. CASE \E i \in I : i # 1 /\ r[i].slot = s
    <3>1. PICK i \in I : i # 1 /\ r[i].slot = s BY <2>2
    <3>2. i - 1 \in J /\ r2[i - 1] = r[i] BY <1>3, <3>1
    <3> QED BY <3>1, <3>2
  <2>3. CASE r[1].slot = s
    <3>1. 1 \in I BY <2>3
    <3>2. \/ r[1].id = id
          \/ \E h \in I : h > 1 /\ r[h].slot = s
          \/ \E a \in 1 .. j - 1 : Writes(q, a, s)
      BY <2>3, <3>1 DEF Sees
    <3> QED BY <1>0, <2>1, <2>2, <2>3, <3>2
  <2>4. CASE r[1].slot # s /\ M[s] = id BY <1>0, <2>4
  <2> QED BY <2>1, <2>2, <2>3, <2>4 DEF Sees
<1> QED BY <1>4, <1>5, <1>6 DEF Sees

\* The order and the kernels, when the head of the copy stream runs.
LEMMA CopyDevice ==
    ASSUME NEW q, NEW q2, NEW r, NEW r2, NEW M, NEW M2, CopyRuns(q, q2, r, r2, M, M2),
           \A j \in DOMAIN q : q[j].slot \in Slots, Device(q, r, M)
    PROVE  Device(q2, r2, M2)
<1> DEFINE n == Len(q)
           k == Len(r)
<1>0. /\ n \in Nat /\ DOMAIN q = 1 .. n /\ DOMAIN q2 = 1 .. n
      /\ k \in Nat \ {0} /\ DOMAIN r = 1 .. k /\ DOMAIN r2 = 1 .. k - 1
      /\ \A i \in 1 .. k - 1 : r2[i] = r[i + 1]
      /\ \A m \in 1 .. n : q2[m].slot = q[m].slot /\ q2[m].id = q[m].id /\ q2[m].kind = q[m].kind
  BY DEF CopyRuns
<1>1. /\ \A m \in 1 .. n : \A i \in 1 .. k - 1 : Follows(q2, m, i) <=> Follows(q, m, i + 1)
      /\ \A m \in 1 .. n : \A i \in 1 .. k - 1 : Waits(r2, m, i) <=> Waits(r, m, i + 1)
      /\ \A m \in 1 .. n : ~Waits(r, m, 1)
  BY <1>0, CopyOrder
<1>2. ASSUME NEW j \in 1 .. n + 1, NEW I \in SUBSET DOMAIN r, NEW J \in SUBSET DOMAIN r2,
             \A i \in DOMAIN r2 : i \in J <=> i + 1 \in I,
             NEW s \in Slots, NEW id, 1 \in I \/ r[1].slot # s, Sees(q, r, M, j, I, s, id)
      PROVE  Sees(q2, r2, M2, j, J, s, id)
  BY <1>2, CopySees
<1> HIDE DEF n, k
<1>3. Ordered(q2, r2)
  <2> SUFFICES ASSUME NEW i \in 1 .. k - 1, NEW j \in 1 .. n, r2[i].slot = q2[j].slot
               PROVE  Waits(r2, j, i) \/ Follows(q2, j, i)
    BY <1>0 DEF Ordered
  <2>1. i + 1 \in DOMAIN r /\ r[i + 1].slot = q[j].slot BY <1>0
  <2>2. Waits(r, j, i + 1) \/ Follows(q, j, i + 1) BY <1>0, <2>1 DEF Device, Ordered
  <2> QED BY <1>1, <2>2
<1>4. KernelsSee(q2, r2, M2)
  <2> SUFFICES ASSUME NEW j \in 1 .. n, q2[j].kind = "read"
               PROVE  Sees(q2, r2, M2, j, {i \in DOMAIN r2 : Follows(q2, j, i)}, q2[j].slot, q2[j].id)
    BY <1>0 DEF KernelsSee
  <2> DEFINE I == {i \in DOMAIN r : Follows(q, j, i)}
             J == {i \in DOMAIN r2 : Follows(q2, j, i)}
             s == q[j].slot
             id == q[j].id
  <2>1. j \in DOMAIN q /\ q[j].kind = "read" /\ s \in Slots /\ q2[j].slot = s /\ q2[j].id = id BY <1>0
  <2>2. Sees(q, r, M, j, I, s, id) BY <2>1 DEF Device, KernelsSee
  <2>3. 1 \in I \/ r[1].slot # s
    <3>1. 1 \in DOMAIN r BY <1>0
    <3>2. r[1].slot = s => Waits(r, j, 1) \/ Follows(q, j, 1) BY <2>1, <3>1 DEF Device, Ordered
    <3> QED BY <1>1, <3>1, <3>2
  <2>4. \A i \in DOMAIN r2 : i \in J <=> i + 1 \in I
    <3> SUFFICES ASSUME NEW i \in 1 .. k - 1 PROVE i \in J <=> i + 1 \in I BY <1>0
    <3>1. i \in DOMAIN r2 /\ i + 1 \in DOMAIN r BY <1>0
    <3> QED BY <1>1, <3>1
  <2>5. I \in SUBSET DOMAIN r /\ J \in SUBSET DOMAIN r2 /\ j \in 1 .. n + 1 BY <1>0
  <2> HIDE DEF I, J, s, id
  <2>6. Sees(q2, r2, M2, j, J, s, id) BY <1>2, <2>1, <2>2, <2>3, <2>4, <2>5
  <2> QED BY <2>1, <2>6 DEF J
<1> QED BY <1>3, <1>4 DEF Device

-----------------------------------------------------------------------------
(* The device runs *)

\* The head of the compute stream ends.
LEMMA RunComputeRuns ==
    ASSUME StreamsOK, mem \in [Slots -> Blocks \cup {NoBlock}], RunCompute
    PROVE  ComputeRuns(compute, compute', copy, copy', mem, mem')
<1>0. compute \in Seq(Ops) /\ copy \in Seq(Ops) BY DEF StreamsOK, Streams
<1>1. /\ compute # <<>> /\ Head(compute).fence = 0 /\ mem' = Effect(Head(compute))
      /\ compute' = Tail(compute) /\ copy' = Landed(copy)
  BY DEF RunCompute
<1>2. /\ Len(compute) \in Nat \ {0} /\ DOMAIN compute = 1 .. Len(compute)
      /\ Head(compute) = compute[1] /\ Head(compute) \in Ops
      /\ Len(compute') = Len(compute) - 1 /\ DOMAIN compute' = 1 .. Len(compute) - 1
      /\ \A m \in 1 .. Len(compute) - 1 : compute'[m] = compute[m + 1]
  <2>1. /\ Len(compute) \in Nat \ {0} /\ Head(compute) = compute[1] /\ Head(compute) \in Ops
        /\ Tail(compute) \in Seq(Ops) /\ Len(Tail(compute)) = Len(compute) - 1
        /\ \A m \in 1 .. Len(compute) - 1 : Tail(compute)[m] = compute[m + 1]
    BY <1>0, <1>1, Ends
  <2>2. DOMAIN Tail(compute) = 1 .. Len(compute) - 1 BY <2>1
  <2>3. DOMAIN compute = 1 .. Len(compute) BY <1>0
  <2> QED BY <1>1, <2>1, <2>2, <2>3
<1>3. /\ Len(copy) \in Nat /\ DOMAIN copy = 1 .. Len(copy) /\ DOMAIN copy' = 1 .. Len(copy)
      /\ \A i \in 1 .. Len(copy) :
            /\ copy'[i].slot = copy[i].slot /\ copy'[i].id = copy[i].id
            /\ copy'[i].fence = IF copy[i].fence = 0 THEN 0 ELSE copy[i].fence - 1
  BY <1>0, <1>1, LandedFacts
<1>4. ASSUME NEW i \in 1 .. Len(copy) PROVE copy[i].fence \in Nat
  <2>1. copy[i] \in Ops BY <1>0
  <2> QED BY <2>1 DEF Ops
<1>5. ASSUME NEW s \in Slots
      PROVE  mem'[s] = IF Writes(compute, 1, s) THEN compute[1].id ELSE mem[s]
  <2> DEFINE o == compute[1]
  <2>1. o \in Ops /\ mem' = Effect(o) BY <1>1, <1>2
  <2>2. Writes(compute, 1, s) <=> o.kind = "write" /\ o.slot = s BY DEF Writes
  <2> HIDE DEF o
  <2>3. o.slot \in Slots BY <2>1 DEF Ops
  <2>4. mem'[s] = IF o.kind = "write" /\ o.slot = s THEN o.id ELSE mem[s]
    BY <2>1, <2>3 DEF Effect
  <2> QED BY <2>2, <2>4 DEF o
<1>6. compute[1].fence = 0 BY <1>1, <1>2
<1> QED BY <1>2, <1>3, <1>4, <1>5, <1>6 DEF ComputeRuns

\* The head of the copy stream ends.
LEMMA RunCopyRuns ==
    ASSUME StreamsOK, mem \in [Slots -> Blocks \cup {NoBlock}], RunCopy
    PROVE  CopyRuns(compute, compute', copy, copy', mem, mem')
<1>0. compute \in Seq(Ops) /\ copy \in Seq(Ops) BY DEF StreamsOK, Streams
<1>1. /\ copy # <<>> /\ Head(copy).fence = 0 /\ mem' = Effect(Head(copy))
      /\ copy' = Tail(copy) /\ compute' = Landed(compute)
  BY DEF RunCopy
<1>2. /\ Len(copy) \in Nat \ {0} /\ DOMAIN copy = 1 .. Len(copy)
      /\ Head(copy) = copy[1] /\ Head(copy) \in Ops /\ DOMAIN copy' = 1 .. Len(copy) - 1
      /\ \A m \in 1 .. Len(copy) - 1 : copy'[m] = copy[m + 1]
  <2>1. /\ Len(copy) \in Nat \ {0} /\ Head(copy) = copy[1] /\ Head(copy) \in Ops
        /\ Tail(copy) \in Seq(Ops) /\ Len(Tail(copy)) = Len(copy) - 1
        /\ \A m \in 1 .. Len(copy) - 1 : Tail(copy)[m] = copy[m + 1]
    BY <1>0, <1>1, Ends
  <2>2. DOMAIN Tail(copy) = 1 .. Len(copy) - 1 BY <2>1
  <2>3. DOMAIN copy = 1 .. Len(copy) BY <1>0
  <2> QED BY <1>1, <2>1, <2>2, <2>3
<1>3. /\ Len(compute) \in Nat /\ DOMAIN compute = 1 .. Len(compute)
      /\ DOMAIN compute' = 1 .. Len(compute) /\ Len(compute') = Len(compute)
      /\ \A i \in 1 .. Len(compute) :
            /\ compute'[i].slot = compute[i].slot /\ compute'[i].id = compute[i].id
            /\ compute'[i].kind = compute[i].kind
            /\ compute'[i].fence = IF compute[i].fence = 0 THEN 0 ELSE compute[i].fence - 1
  BY <1>0, <1>1, LandedFacts
<1>4. ASSUME NEW i \in 1 .. Len(compute) PROVE compute[i].fence \in Nat
  <2>1. compute[i] \in Ops BY <1>0
  <2> QED BY <2>1 DEF Ops
<1>5. copy[1].fence = 0 /\ copy[1].kind = "write"
  <2>1. 1 \in DOMAIN copy BY <1>2
  <2> QED BY <1>1, <1>2, <2>1 DEF StreamsOK, Streams
<1>6. ASSUME NEW s \in Slots
      PROVE  mem'[s] = IF copy[1].slot = s THEN copy[1].id ELSE mem[s]
  <2> DEFINE o == copy[1]
  <2>1. o \in Ops /\ mem' = Effect(o) /\ o.kind = "write" BY <1>1, <1>2, <1>5
  <2> HIDE DEF o
  <2>2. o.slot \in Slots BY <2>1 DEF Ops
  <2>3. mem'[s] = IF o.slot = s THEN o.id ELSE mem[s]
    BY <2>1, <2>2 DEF Effect
  <2> QED BY <2>3 DEF o
<1> QED BY <1>2, <1>3, <1>4, <1>5, <1>6 DEF CopyRuns

\* What the cache says stays true when the head of the compute stream ends.
LEMMA ComputeTruthful ==
    ASSUME NEW q, NEW q2, NEW r, NEW r2, NEW M, NEW M2, ComputeRuns(q, q2, r, r2, M, M2),
           \A j \in DOMAIN q : q[j].slot \in Slots, NEW k, NEW e, Truthful(k, q, r, M, e)
    PROVE  Truthful(k, q2, r2, M2, e) /\ (AllCovered(q, r) => AllCovered(q2, r2))
<1>1. Device(q2, r2, M2) BY ComputeDevice DEF Truthful
<1>2. /\ Len(q) \in Nat \ {0} /\ Len(q2) = Len(q) - 1 /\ DOMAIN r2 = DOMAIN r
      /\ \A i \in DOMAIN r : r2[i].slot = r[i].slot /\ r2[i].id = r[i].id
  BY DEF ComputeRuns
<1>3. HoldersSee(k, q2, r2, M2)
  <2> SUFFICES ASSUME NEW id \in Blocks, NEW s \in Slots, Holds(k, id, s)
               PROVE  Sees(q2, r2, M2, Len(q2) + 1, DOMAIN r2, s, id)
    BY DEF HoldersSee
  <2>1. Sees(q, r, M, Len(q) + 1, DOMAIN r, s, id) BY DEF Truthful, HoldersSee
  <2>2. Len(q) + 1 \in 2 .. Len(q) + 1 /\ (Len(q) + 1) - 1 = Len(q2) + 1 BY <1>2
  <2>3. Sees(q2, r2, M2, (Len(q) + 1) - 1, DOMAIN r, s, id) BY <2>1, <2>2, ComputeSees
  <2> QED BY <1>2, <2>2, <2>3
<1>4. \A i \in DOMAIN r : Covered(q, i) => Covered(q2, i) BY ComputeOrder
<1>5. CopiesWaited(k, q, r) => CopiesWaited(k, q2, r2) BY <1>2, <1>4 DEF CopiesWaited
<1>6. AllCovered(q, r) => AllCovered(q2, r2) BY <1>2, <1>4 DEF AllCovered
<1> QED BY <1>1, <1>3, <1>5, <1>6 DEF Truthful

\* And when the head of the copy stream does.
LEMMA CopyTruthful ==
    ASSUME NEW q, NEW q2, NEW r, NEW r2, NEW M, NEW M2, CopyRuns(q, q2, r, r2, M, M2),
           \A j \in DOMAIN q : q[j].slot \in Slots, NEW k, NEW e, Truthful(k, q, r, M, e)
    PROVE  Truthful(k, q2, r2, M2, e) /\ (AllCovered(q, r) => AllCovered(q2, r2))
<1>1. Device(q2, r2, M2) BY CopyDevice DEF Truthful
<1>2. /\ Len(q) \in Nat /\ Len(q2) = Len(q) /\ Len(r) \in Nat \ {0}
      /\ DOMAIN r = 1 .. Len(r) /\ DOMAIN r2 = 1 .. Len(r) - 1
      /\ \A i \in 1 .. Len(r) - 1 : r2[i] = r[i + 1]
  BY DEF CopyRuns
<1>3. \A i \in 1 .. Len(r) - 1 : i + 1 \in 1 .. Len(r) BY <1>2
<1>4. HoldersSee(k, q2, r2, M2)
  <2> SUFFICES ASSUME NEW id \in Blocks, NEW s \in Slots, Holds(k, id, s)
               PROVE  Sees(q2, r2, M2, Len(q2) + 1, DOMAIN r2, s, id)
    BY DEF HoldersSee
  <2>1. Sees(q, r, M, Len(q) + 1, DOMAIN r, s, id) BY DEF Truthful, HoldersSee
  <2>2. Len(q) + 1 \in 1 .. Len(q) + 1 /\ 1 \in DOMAIN r BY <1>2
  <2>3. \A i \in DOMAIN r2 : i \in DOMAIN r2 <=> i + 1 \in DOMAIN r BY <1>2, <1>3
  <2>4. DOMAIN r \in SUBSET DOMAIN r /\ DOMAIN r2 \in SUBSET DOMAIN r2 OBVIOUS
  <2>5. Sees(q2, r2, M2, Len(q) + 1, DOMAIN r2, s, id) BY <2>1, <2>2, <2>3, <2>4, CopySees
  <2> QED BY <1>2, <2>5
<1>5. \A i \in 1 .. Len(r) - 1 : Covered(q, i + 1) => Covered(q2, i) BY CopyOrder
<1>6. CopiesWaited(k, q, r) => CopiesWaited(k, q2, r2) BY <1>2, <1>3, <1>5 DEF CopiesWaited
<1>7. AllCovered(q, r) => AllCovered(q2, r2) BY <1>2, <1>3, <1>5 DEF AllCovered
<1> QED BY <1>1, <1>4, <1>6, <1>7 DEF Truthful

\* The device running keeps what the cache says true.
LEMMA RunTruthful ==
    ASSUME StreamsOK, mem \in [Slots -> Blocks \cup {NoBlock}], RunCompute \/ RunCopy,
           Truthful(c, compute, copy, mem, lost)
    PROVE  /\ Truthful(c', compute', copy', mem', lost')
           /\ AllCovered(compute, copy) => AllCovered(compute', copy')
<1>1. c' = c /\ lost' = lost BY DEF RunCompute, RunCopy
<1>2. ASSUME NEW j \in DOMAIN compute PROVE compute[j].slot \in Slots
  <2>1. compute[j] \in Ops BY DEF StreamsOK, Streams
  <2> QED BY <2>1 DEF Ops
<1>3. CASE RunCompute
  <2>1. ComputeRuns(compute, compute', copy, copy', mem, mem') BY <1>3, RunComputeRuns
  <2> QED BY <1>1, <1>2, <2>1, ComputeTruthful
<1>4. CASE RunCopy
  <2>1. CopyRuns(compute, compute', copy, copy', mem, mem') BY <1>4, RunCopyRuns
  <2> QED BY <1>1, <1>2, <2>1, CopyTruthful
<1> QED BY <1>3, <1>4

-----------------------------------------------------------------------------
(* The host queues *)

\* The compute stream only gets to wait for more.
LEMMA CoveredMore ==
    ASSUME NEW q \in Seq(Ops), NEW o \in Ops, NEW i, Covered(q, i) \/ o.fence >= i
    PROVE  Covered(Append(q, o), i)
<1> DEFINE p == Append(q, o)
           n == Len(q)
<1>1. /\ n \in Nat /\ DOMAIN q = 1 .. n /\ DOMAIN p = 1 .. n + 1 /\ p[n + 1] = o
      /\ \A m \in 1 .. n : p[m] = q[m]
  BY AppendFacts
<1> HIDE DEF p, n
<1>2. n + 1 \in 1 .. n + 1 /\ \A m \in 1 .. n : m \in 1 .. n + 1 BY <1>1
<1>3. Covered(p, i) BY <1>1, <1>2 DEF Covered
<1> QED BY <1>3 DEF p

\* A kernel on a slot that the cache says has its block.
LEMMA KernelQueued ==
    ASSUME NEW k, NEW q \in Seq(Ops), NEW r, NEW M, NEW id \in Blocks, NEW s \in Slots,
           NEW o \in Ops, o.kind = "read", o.slot = s, o.id = id,
           Device(q, r, M), HoldersSee(k, q, r, M), Holds(k, id, s),
           \A i \in DOMAIN r : r[i].slot = s => Covered(q, i) \/ o.fence >= i
    PROVE  Device(Append(q, o), r, M) /\ HoldersSee(k, Append(q, o), r, M)
<1>1. Sees(q, r, M, Len(q) + 1, DOMAIN r, o.slot, o.id) BY DEF HoldersSee
<1>2. Device(Append(q, o), r, M) BY <1>1, DeviceCompute
<1>3. HoldersSee(k, Append(q, o), r, M)
  <2> SUFFICES ASSUME NEW x \in Blocks, NEW t \in Slots, Holds(k, x, t)
               PROVE  Sees(Append(q, o), r, M, Len(Append(q, o)) + 1, DOMAIN r, t, x)
    BY DEF HoldersSee
  <2>1. Sees(q, r, M, Len(q) + 1, DOMAIN r, t, x) BY DEF HoldersSee
  <2> QED BY <2>1, HeldPast
<1> QED BY <1>2, <1>3

\* What a reserved slot is: nobody holds it, the others hold what they held,
\* and every copy still queued to it is one the compute stream waits for.
LEMMA ReservedSlot ==
    ASSUME CacheOK, StreamsOK, NEW k, NEW s, Reserved(k, s)
    PROVE  /\ k \in Caches /\ Accounted(k) /\ k.pend = c.pend
           /\ \A id \in Blocks : k.table[id] # s /\ k.pend[id] # s
           /\ \A id \in Blocks : \A t \in Slots : Holds(k, id, t) => Holds(c, id, t) /\ t # s
           /\ CopiesWaited(c, compute, copy) =>
                 \A i \in DOMAIN copy : copy[i].slot = s => Covered(compute, i)
<1>1. /\ Accounted(k) /\ k.pend = c.pend /\ s \in Slots /\ s \notin InUse(k)
      /\ \A id \in Blocks : k.table[id] \in {0, c.table[id]}
  BY DEF Reserved, Shrinks
<1>2. \A id \in Blocks : k.table[id] # s /\ k.pend[id] # s BY <1>1, OutOfUse
<1>3. ASSUME NEW t \in Slots PROVE t # 0
  BY CacheAssumption DEF Slots, CacheAssumption
<1>4. ASSUME NEW id \in Blocks, NEW t \in Slots, Holds(k, id, t) PROVE Holds(c, id, t) /\ t # s
  BY <1>1, <1>2, <1>3, <1>4 DEF Holds
<1>5. ASSUME CopiesWaited(c, compute, copy), NEW i \in DOMAIN copy, copy[i].slot = s
      PROVE  Covered(compute, i)
  <2>1. copy[i] \in Ops BY DEF StreamsOK, Streams
  <2>2. copy[i].id \in Blocks BY <2>1 DEF Ops
  <2>3. c.pend[copy[i].id] # s BY <1>1, <1>2, <2>2
  <2> QED BY <1>5, <2>3 DEF CopiesWaited
<1>6. k \in Caches BY <1>1 DEF Accounted
<1> QED BY <1>1, <1>2, <1>4, <1>5, <1>6

\* Blocks that leave the table take nothing from what is true of the others.
LEMMA QuietTruthful ==
    ASSUME Truthful(c, compute, copy, mem, lost), Quiet
    PROVE  Truthful(c', compute', copy', mem', lost')
<1>1. /\ c'.pend = c.pend /\ \A id \in Blocks : c'.table[id] \in {0, c.table[id]}
      /\ compute' = compute /\ copy' = copy /\ mem' = mem /\ (lost' = {} => lost = {})
  BY DEF Quiet, Shrinks
<1>2. ASSUME NEW t \in Slots PROVE t # 0
  BY CacheAssumption DEF Slots, CacheAssumption
<1>3. ASSUME NEW id \in Blocks, NEW t \in Slots, Holds(c', id, t) PROVE Holds(c, id, t)
  BY <1>1, <1>2, <1>3 DEF Holds
<1>4. HoldersSee(c', compute, copy, mem) BY <1>3 DEF Truthful, HoldersSee
<1>5. CopiesWaited(c, compute, copy) => CopiesWaited(c', compute, copy) BY <1>1 DEF CopiesWaited
<1> QED BY <1>1, <1>4, <1>5 DEF Truthful

\* A kernel on a resident block: no copy to its slot is pending.
LEMMA UsesTruthful ==
    ASSUME CacheOK, StreamsOK, Truthful(c, compute, copy, mem, lost), Uses
    PROVE  Truthful(c', compute', copy', mem', lost')
<1>0. /\ lost = {} /\ lost' = lost /\ copy' = copy /\ mem' = mem
      /\ c'.table = c.table /\ c'.pend = c.pend
  BY DEF Uses
<1>1. PICK id \in Blocks : c.table[id] # 0 /\ compute' = Append(compute, Kernel(c.table[id], id))
  BY DEF Uses
<1> DEFINE s == c.table[id]
           o == Kernel(s, id)
<1>2. compute \in Seq(Ops) /\ copy \in Seq(Ops) BY DEF StreamsOK, Streams
<1>3. Accounted(c) BY DEF CacheOK
<1>4. s \in Slots
  <2>1. c.table \in [Blocks -> 0 .. NumSlots] BY <1>3, CacheFields DEF Accounted
  <2> QED BY <1>1, <2>1, CacheAssumption DEF Slots, CacheAssumption
<1>5. s # 0 /\ Holds(c, id, s) /\ s \in Queued(c) BY <1>1, <1>3 DEF Holds, Accounted, Occupied
<1> HIDE DEF s
<1>6. o \in Ops /\ o.kind = "read" /\ o.slot = s /\ o.id = id
  <2>1. 0 \in 0 .. NumBuffers /\ 0 \in Nat BY CacheAssumption DEF CacheAssumption
  <2> QED BY <1>4, <2>1, OpTypes
<1> HIDE DEF o
<1>7. ASSUME NEW i \in DOMAIN copy, copy[i].slot = s PROVE Covered(compute, i)
  <2>1. copy[i] \in Ops BY <1>2
  <2>2. copy[i].id \in Blocks BY <2>1 DEF Ops
  <2>3. c.pend[copy[i].id] # s
    <3>1. SUFFICES ASSUME c.pend[copy[i].id] = s PROVE FALSE OBVIOUS
    <3>2. s \in Pending(c) BY <1>5, <2>2, <3>1 DEF Pending
    <3> QED BY <1>3, <1>5, <3>2 DEF Accounted, Lists
  <2> QED BY <1>0, <1>7, <2>3 DEF Truthful, CopiesWaited
<1>8. Device(Append(compute, o), copy, mem) /\ HoldersSee(c, Append(compute, o), copy, mem)
  BY <1>2, <1>4, <1>5, <1>6, <1>7, KernelQueued DEF Truthful
<1>9. CopiesWaited(c, Append(compute, o), copy)
  BY <1>0, <1>2, <1>6, CoveredMore DEF Truthful, CopiesWaited
<1>10. compute' = Append(compute, o) BY <1>1 DEF o, s
<1>11. HoldersSee(c', Append(compute, o), copy, mem) BY <1>0, <1>8 DEF HoldersSee, Holds
<1>12. CopiesWaited(c', Append(compute, o), copy) BY <1>0, <1>9 DEF CopiesWaited
<1> QED BY <1>0, <1>8, <1>10, <1>11, <1>12 DEF Truthful

\* A kernel on a pending block: it waits for the last copy of the block, and no
\* other block has a copy pending to the slot.
LEMMA TakesTruthful ==
    ASSUME CacheOK, StreamsOK, Truthful(c, compute, copy, mem, lost), Takes
    PROVE  Truthful(c', compute', copy', mem', lost')
<1>0. lost = {} /\ lost' = lost /\ copy' = copy /\ mem' = mem BY DEF Takes
<1>1. PICK id \in Blocks :
        /\ c.table[id] = 0 /\ c.pend[id] # 0
        /\ c' = publish([c EXCEPT !.pend[id] = 0], id, c.pend[id])
        /\ compute' = Append(compute, [Kernel(c.pend[id], id) EXCEPT !.fence = CopyOf(id)])
  BY DEF Takes
<1> DEFINE s == c.pend[id]
           k == [c EXCEPT !.pend[id] = 0]
           o == Op("read", s, id, 0, CopyOf(id))
<1>2. compute \in Seq(Ops) /\ copy \in Seq(Ops) BY DEF StreamsOK, Streams
<1>3. Accounted(c) BY DEF CacheOK
<1>4. /\ c.table \in [Blocks -> 0 .. NumSlots] /\ c.pend \in [Blocks -> 0 .. NumSlots]
  BY <1>3, CacheFields DEF Accounted
<1>5. s \in Slots /\ s # 0 BY <1>1, <1>4, CacheAssumption DEF Slots, CacheAssumption
<1>6. c'.table = [c.table EXCEPT ![id] = s] /\ c'.pend = [c.pend EXCEPT ![id] = 0]
  <2>1. /\ Accounted(k) /\ s \notin InUse(k) /\ k.table = c.table
        /\ k.pend = [c.pend EXCEPT ![id] = 0]
    BY <1>1, <1>3, UnpendKeeps
  <2>2. k.table[id] = 0 /\ c' = publish(k, id, s) BY <1>1, <2>1
  <2> HIDE DEF k, s
  <2>3. c'.table = [k.table EXCEPT ![id] = s] /\ c'.pend = k.pend
    BY <1>5, <2>1, <2>2, PublishKeeps
  <2> QED BY <2>1, <2>3
<1>7. CopyOf(id) \in 0 .. Len(copy) /\ \A i \in DOMAIN copy : copy[i].id = id => i <= CopyOf(id)
  BY <1>2, CopyOfFacts
<1>8. CopyOf(id) \in Nat /\ DOMAIN copy \subseteq Nat BY <1>2, <1>7
<1>9. /\ [Kernel(s, id) EXCEPT !.fence = CopyOf(id)] = o /\ o \in Ops
      /\ o.kind = "read" /\ o.slot = s /\ o.id = id /\ o.fence = CopyOf(id)
  <2>1. 0 \in 0 .. NumBuffers BY CacheAssumption DEF CacheAssumption
  <2> HIDE DEF s
  <2> QED BY <1>5, <1>8, <2>1, OpTypes
<1>10. compute' = Append(compute, o) BY <1>1, <1>9
<1>11. Holds(c, id, s) /\ c.occ[s] = id BY <1>1, <1>3 DEF Holds, Accounted, Occupied
<1> HIDE DEF o, k
<1>12. ASSUME NEW i \in DOMAIN copy, copy[i].id = id PROVE o.fence >= i
  BY <1>7, <1>8, <1>9, <1>12
<1>13. ASSUME NEW i \in DOMAIN copy, copy[i].slot = s PROVE Covered(compute, i) \/ o.fence >= i
  <2>1. copy[i] \in Ops BY <1>2
  <2>2. copy[i].id \in Blocks BY <2>1 DEF Ops
  <2>3. Covered(compute, i) \/ c.pend[copy[i].id] = s BY <1>0, <1>13 DEF Truthful, CopiesWaited
  <2>4. c.pend[copy[i].id] = s => copy[i].id = id
    <3> HIDE DEF s
    <3> QED BY <1>3, <1>5, <1>11, <2>2 DEF Accounted, Occupied
  <2> QED BY <1>12, <2>3, <2>4
<1>14. Device(Append(compute, o), copy, mem) /\ HoldersSee(c, Append(compute, o), copy, mem)
  <2> HIDE DEF s
  <2> QED BY <1>2, <1>5, <1>9, <1>11, <1>13, KernelQueued DEF Truthful
<1>15. HoldersSee(c', Append(compute, o), copy, mem)
  <2>1. ASSUME NEW x \in Blocks, NEW t \in Slots, Holds(c', x, t) PROVE Holds(c, x, t)
    <3>1. t # 0 BY CacheAssumption DEF Slots, CacheAssumption
    <3>2. CASE x = id
      <4>1. c'.table[x] = s /\ c'.pend[x] = 0 BY <1>4, <1>6, <3>2
      <4>2. t = s BY <2>1, <3>1, <4>1 DEF Holds
      <4> QED BY <1>11, <3>2, <4>2
    <3>3. CASE x # id
      <4>1. c'.table[x] = c.table[x] /\ c'.pend[x] = c.pend[x] BY <1>4, <1>6, <3>3
      <4> QED BY <2>1, <4>1 DEF Holds
    <3> QED BY <3>2, <3>3
  <2> QED BY <1>14, <2>1 DEF HoldersSee
<1>16. CopiesWaited(c', Append(compute, o), copy)
  <2> SUFFICES ASSUME NEW i \in DOMAIN copy
               PROVE  Covered(Append(compute, o), i) \/ c'.pend[copy[i].id] = copy[i].slot
    BY DEF CopiesWaited
  <2>1. copy[i] \in Ops BY <1>2
  <2>2. copy[i].id \in Blocks BY <2>1 DEF Ops
  <2>3. CASE Covered(compute, i) BY <1>2, <1>9, <2>3, CoveredMore
  <2>4. CASE copy[i].id = id
    <3>1. o.fence >= i BY <1>12, <2>4
    <3> QED BY <1>2, <1>9, <3>1, CoveredMore
  <2>5. CASE copy[i].id # id /\ c.pend[copy[i].id] = copy[i].slot
    BY <1>4, <1>6, <2>2, <2>5
  <2> QED BY <1>0, <2>3, <2>4, <2>5 DEF Truthful, CopiesWaited
<1> QED BY <1>0, <1>10, <1>14, <1>15, <1>16 DEF Truthful

\* A write behind everything that touches its slot, with or without a kernel.
LEMMA AdmitsTruthful ==
    ASSUME CacheOK, StreamsOK, Truthful(c, compute, copy, mem, lost), Admits
    PROVE  Truthful(c', compute', copy', mem', lost')
<1>0. lost = {} /\ lost' = lost /\ copy' = copy /\ mem' = mem BY DEF Admits
<1>1. PICK k \in Caches, s \in Slots, id \in Blocks, b \in 0 .. NumBuffers :
        /\ Reserved(k, s) /\ k.table[id] = 0 /\ c' = publish(k, id, s)
        /\ \/ compute' = Append(compute, Op("write", s, id, b, 0))
           \/ compute' = Append(Append(compute, Op("write", s, id, b, 0)), Kernel(s, id))
  BY DEF Admits
<1> DEFINE o == Op("write", s, id, b, 0)
           x == Kernel(s, id)
           q == Append(compute, o)
<1>2. compute \in Seq(Ops) /\ copy \in Seq(Ops) BY DEF StreamsOK, Streams
<1>3. /\ o \in Ops /\ o.kind = "write" /\ o.slot = s /\ o.id = id
      /\ x \in Ops /\ x.kind = "read" /\ x.slot = s /\ x.id = id
  BY OpTypes, CacheAssumption DEF CacheAssumption
<1>4. compute' = q \/ compute' = Append(q, x) BY <1>1
<1> HIDE DEF o, x
<1>5. q \in Seq(Ops) BY <1>2, <1>3
<1>6. /\ Accounted(k) /\ k.pend = c.pend
      /\ \A a \in Blocks : k.table[a] # s /\ k.pend[a] # s
      /\ \A a \in Blocks : \A t \in Slots : Holds(k, a, t) => Holds(c, a, t) /\ t # s
      /\ CopiesWaited(c, compute, copy) =>
            \A i \in DOMAIN copy : copy[i].slot = s => Covered(compute, i)
  BY <1>1, ReservedSlot
<1>7. CopiesWaited(c, compute, copy) BY <1>0 DEF Truthful
<1>8. c'.table = [k.table EXCEPT ![id] = s] /\ c'.pend = k.pend
  BY <1>1, <1>6, PublishKeeps DEF Reserved
<1>9. k.table \in [Blocks -> 0 .. NumSlots] BY <1>6, CacheFields DEF Accounted
<1>10. Device(q, copy, mem)
  BY <1>2, <1>3, <1>6, <1>7, DeviceCompute DEF Truthful
<1>11. HoldersSee(c', q, copy, mem)
  <2> SUFFICES ASSUME NEW a \in Blocks, NEW t \in Slots, Holds(c', a, t)
               PROVE  Sees(q, copy, mem, Len(q) + 1, DOMAIN copy, t, a)
    BY DEF HoldersSee
  <2>1. c'.table[a] = (IF a = id THEN s ELSE k.table[a]) /\ c'.pend[a] = k.pend[a] BY <1>8, <1>9
  <2>2. CASE t = s
    <3>1. a = id BY <1>6, <2>1, <2>2 DEF Holds
    <3>2. Sees(q, copy, mem, Len(q) + 1, DOMAIN copy, o.slot, o.id)
      BY <1>2, <1>3, <1>6, <1>7, HeldWritten
    <3> QED BY <1>3, <2>2, <3>1, <3>2
  <2>3. CASE t # s
    <3>1. Holds(k, a, t) BY <2>1, <2>3 DEF Holds
    <3>2. Sees(compute, copy, mem, Len(compute) + 1, DOMAIN copy, t, a)
      BY <1>6, <3>1 DEF Truthful, HoldersSee
    <3> QED BY <1>2, <1>3, <2>3, <3>2, HeldPast
  <2> QED BY <2>2, <2>3
<1>12. \A i : Covered(compute, i) => Covered(q, i) BY <1>2, <1>3, CoveredMore
<1> HIDE DEF q
<1>13. CopiesWaited(c', q, copy) BY <1>6, <1>7, <1>8, <1>12 DEF CopiesWaited
<1>14. Holds(c', id, s) BY <1>8, <1>9 DEF Holds
<1>15. Device(Append(q, x), copy, mem) /\ HoldersSee(c', Append(q, x), copy, mem)
  BY <1>3, <1>5, <1>6, <1>7, <1>10, <1>11, <1>12, <1>14, KernelQueued
<1>16. CopiesWaited(c', Append(q, x), copy)
  BY <1>3, <1>5, <1>13, CoveredMore DEF CopiesWaited
<1> QED BY <1>0, <1>4, <1>10, <1>11, <1>13, <1>15, <1>16 DEF Truthful

\* A copy queued behind everything the compute stream has.
LEMMA CopyQueued ==
    ASSUME CacheOK, StreamsOK, Truthful(c, compute, copy, mem, lost), lost = {},
           NEW k, NEW s, Reserved(k, s), NEW o \in Ops, o.slot = s, o.fence = Len(compute)
    PROVE  /\ Device(compute, Append(copy, o), mem) /\ HoldersSee(k, compute, Append(copy, o), mem)
           /\ Sees(compute, Append(copy, o), mem, Len(compute) + 1, DOMAIN Append(copy, o), s, o.id)
<1>1. compute \in Seq(Ops) /\ copy \in Seq(Ops) /\ \A j \in DOMAIN compute : compute[j].fence <= Len(copy)
  BY DEF StreamsOK, Streams
<1>2. \A a \in Blocks : \A t \in Slots : Holds(k, a, t) => Holds(c, a, t) /\ t # s
  BY ReservedSlot
<1>3. Device(compute, Append(copy, o), mem) BY <1>1, DeviceCopy DEF Truthful
<1>4. HoldersSee(k, compute, Append(copy, o), mem)
  <2> SUFFICES ASSUME NEW a \in Blocks, NEW t \in Slots, Holds(k, a, t)
               PROVE  Sees(compute, Append(copy, o), mem, Len(compute) + 1, DOMAIN Append(copy, o), t, a)
    BY DEF HoldersSee
  <2>1. t # s /\ Sees(compute, copy, mem, Len(compute) + 1, DOMAIN copy, t, a)
    BY <1>2 DEF Truthful, HoldersSee
  <2> QED BY <1>1, <2>1, HeldBeside
<1>5. Sees(compute, Append(copy, o), mem, Len(compute) + 1, DOMAIN Append(copy, o), s, o.id)
  BY <1>1, HeldCopied
<1> QED BY <1>3, <1>4, <1>5

\* A block becomes pending with its copy.
LEMMA PendsTruthful ==
    ASSUME CacheOK, StreamsOK, Truthful(c, compute, copy, mem, lost), Pends
    PROVE  Truthful(c', compute', copy', mem', lost')
<1>0. lost = {} /\ lost' = lost /\ compute' = compute /\ mem' = mem BY DEF Pends
<1>1. PICK k \in Caches, s \in Slots, id \in Blocks, b \in 0 .. NumBuffers :
        /\ Reserved(k, s) /\ k.pend[id] = 0 /\ c' = Pend(k, id, s)
        /\ copy' = Append(copy, Op("write", s, id, b, Len(compute)))
  BY DEF Pends
<1> DEFINE o == Op("write", s, id, b, Len(compute))
           p == Append(copy, o)
           n == Len(copy)
<1>2. compute \in Seq(Ops) /\ copy \in Seq(Ops) /\ Len(compute) \in Nat BY DEF StreamsOK, Streams
<1>3. o \in Ops /\ o.slot = s /\ o.id = id /\ o.fence = Len(compute) BY <1>2, OpTypes
<1>4. copy' = p BY <1>1
<1> HIDE DEF o
<1>5. /\ Accounted(k) /\ k.pend = c.pend
      /\ \A a \in Blocks : k.table[a] # s /\ k.pend[a] # s
  BY <1>1, ReservedSlot
<1>6. c'.table = k.table /\ c'.pend = [k.pend EXCEPT ![id] = s]
  BY <1>1, <1>5, PendKeeps DEF Reserved
<1>7. k.pend \in [Blocks -> 0 .. NumSlots] BY <1>5, CacheFields DEF Accounted
<1>8. /\ Device(compute, p, mem) /\ HoldersSee(k, compute, p, mem)
      /\ Sees(compute, p, mem, Len(compute) + 1, DOMAIN p, s, id)
  BY <1>0, <1>1, <1>3, CopyQueued
<1>9. /\ n \in Nat /\ DOMAIN copy = 1 .. n /\ DOMAIN p = 1 .. n + 1 /\ p[n + 1] = o
      /\ \A i \in 1 .. n : p[i] = copy[i]
  BY <1>2, <1>3, AppendFacts
<1> HIDE DEF p, n
<1>10. HoldersSee(c', compute, p, mem)
  <2> SUFFICES ASSUME NEW a \in Blocks, NEW t \in Slots, Holds(c', a, t)
               PROVE  Sees(compute, p, mem, Len(compute) + 1, DOMAIN p, t, a)
    BY DEF HoldersSee
  <2>1. c'.table[a] = k.table[a] /\ c'.pend[a] = (IF a = id THEN s ELSE k.pend[a]) BY <1>6, <1>7
  <2>2. (a = id /\ t = s) \/ Holds(k, a, t) BY <2>1 DEF Holds
  <2> QED BY <1>8, <2>2 DEF HoldersSee
<1>11. CopiesWaited(c', compute, p)
  <2> SUFFICES ASSUME NEW i \in 1 .. n + 1
               PROVE  Covered(compute, i) \/ c'.pend[p[i].id] = p[i].slot
    BY <1>9 DEF CopiesWaited
  <2>1. CASE i = n + 1 BY <1>3, <1>6, <1>7, <1>9, <2>1
  <2>2. CASE i \in 1 .. n
    <3>1. copy[i] \in Ops /\ p[i] = copy[i] /\ i \in DOMAIN copy BY <1>2, <1>9, <2>2
    <3>2. copy[i].id \in Blocks /\ copy[i].slot \in Slots BY <3>1 DEF Ops
    <3>3. copy[i].slot # 0 BY <3>2, CacheAssumption DEF Slots, CacheAssumption
    <3>4. Covered(compute, i) \/ k.pend[copy[i].id] = copy[i].slot
      BY <1>0, <1>5, <3>1 DEF Truthful, CopiesWaited
    <3>5. k.pend[copy[i].id] = copy[i].slot => c'.pend[copy[i].id] = copy[i].slot
      BY <1>1, <1>6, <1>7, <3>2, <3>3
    <3> QED BY <3>1, <3>4, <3>5
  <2> QED BY <1>9, <2>1, <2>2
<1> QED BY <1>0, <1>4, <1>8, <1>10, <1>11 DEF Truthful

\* A slot given up after a failed synchronize: nobody holds it any more.
LEMMA LosesTruthful ==
    ASSUME CacheOK, StreamsOK, Truthful(c, compute, copy, mem, lost), Loses
    PROVE  Truthful(c', compute', copy', mem', lost')
<1>0. lost = {} /\ lost' # {} /\ mem' = mem BY DEF Loses
<1>1. PICK k \in Caches, s \in Slots, id \in Blocks, b \in 0 .. NumBuffers :
        /\ Reserved(k, s) /\ c' = k
        /\ \/ UNCHANGED <<compute, copy>>
           \/ compute' = Append(compute, Op("write", s, id, b, 0)) /\ UNCHANGED copy
           \/ copy' = Append(copy, Op("write", s, id, b, Len(compute))) /\ UNCHANGED compute
  BY DEF Loses
<1> DEFINE o == Op("write", s, id, b, 0)
           x == Op("write", s, id, b, Len(compute))
<1>2. compute \in Seq(Ops) /\ copy \in Seq(Ops) /\ Len(compute) \in Nat BY DEF StreamsOK, Streams
<1>3. /\ o \in Ops /\ o.kind = "write" /\ o.slot = s
      /\ x \in Ops /\ x.slot = s /\ x.fence = Len(compute)
  BY <1>2, OpTypes
<1>4. \/ compute' = compute /\ copy' = copy
      \/ compute' = Append(compute, o) /\ copy' = copy
      \/ compute' = compute /\ copy' = Append(copy, x)
  BY <1>1
<1> HIDE DEF o, x
<1>5. /\ \A a \in Blocks : \A t \in Slots : Holds(k, a, t) => Holds(c, a, t) /\ t # s
      /\ CopiesWaited(c, compute, copy) =>
            \A i \in DOMAIN copy : copy[i].slot = s => Covered(compute, i)
  BY <1>1, ReservedSlot
<1>6. CopiesWaited(c, compute, copy) BY <1>0 DEF Truthful
<1>7. Device(compute, copy, mem) /\ HoldersSee(k, compute, copy, mem) BY <1>5 DEF Truthful, HoldersSee
<1>8. Device(Append(compute, o), copy, mem) BY <1>2, <1>3, <1>5, <1>6, <1>7, DeviceCompute
<1>9. HoldersSee(k, Append(compute, o), copy, mem)
  <2> SUFFICES ASSUME NEW a \in Blocks, NEW t \in Slots, Holds(k, a, t)
               PROVE  Sees(Append(compute, o), copy, mem, Len(Append(compute, o)) + 1, DOMAIN copy, t, a)
    BY DEF HoldersSee
  <2>1. t # s /\ Sees(compute, copy, mem, Len(compute) + 1, DOMAIN copy, t, a)
    BY <1>5, <1>7 DEF HoldersSee
  <2> QED BY <1>2, <1>3, <2>1, HeldPast
<1>10. Device(compute, Append(copy, x), mem) /\ HoldersSee(k, compute, Append(copy, x), mem)
  BY <1>0, <1>1, <1>3, CopyQueued
<1> QED BY <1>0, <1>1, <1>4, <1>7, <1>8, <1>9, <1>10 DEF Truthful

\* Whatever the host queues, what the cache says stays true.
LEMMA StepTruthful ==
    ASSUME CacheOK, StreamsOK, mem \in [Slots -> Blocks \cup {NoBlock}],
           Truthful(c, compute, copy, mem, lost), DeviceStep \/ RunCompute \/ RunCopy
    PROVE  Truthful(c', compute', copy', mem', lost')
  BY QuietTruthful, UsesTruthful, TakesTruthful, AdmitsTruthful, PendsTruthful, LosesTruthful,
     RunTruthful DEF DeviceStep

-----------------------------------------------------------------------------
(* The drop *)

\* A step of a forward: it releases nothing, and a synchronize that fails leaves
\* a mark for the drop to find.
Marks ==
    /\ at \notin Dropping /\ at' \notin Dropping /\ freed' = freed
    /\ lost' # {} => kept' \/ "compute" \in lost' \/ "copy" \in lost'

\* Every step of a forward is one.
LEMMA ForwardMarks ==
    ASSUME HostOK, DropOK,
           \/ (\E l \in Layers : Begin(l)) \/ Prewarm \/ Warm \/ DeviceForward \/ Route
           \/ Submit \/ PromoteSkips \/ Promote \/ Seed \/ Ahead
           \/ Hit \/ TakePending \/ MissMemory \/ MissBlocking \/ MissSubmit \/ MissRead \/ ForwardFails
    PROVE  Marks
<1>1. at \in Forward \cup {"idle"} /\ freed' = freed
  BY DEF Begin, Prewarm, Warm, DeviceForward, Route, Submit, PromoteSkips, Promote, Seed, Ahead, Hit,
         TakePending, MissMemory, MissBlocking, MissSubmit, MissRead, ForwardFails, Miss, Forward
<1>2. at \notin Dropping BY <1>1 DEF Forward, Dropping
<1>3. at \in Forward => lost = {} BY DEF HostOK
<1>a. ASSUME at' \in Forward \cup {"idle"}, lost' = lost, lost = {} \/ kept' = kept PROVE Marks
  BY <1>1, <1>2, <1>a DEF Marks, DropOK, Forward, Dropping
<1>b. ASSUME at' \in Forward \cup {"idle"}, lost' = {} \/ kept' \/ "compute" \in lost' \/ "copy" \in lost'
      PROVE  Marks
  BY <1>1, <1>2, <1>b DEF Marks, Forward, Dropping
<1>n. NextAt \in {"idle", "ahead"} BY DEF NextAt
<1>c. ASSUME NEW k, NEW id, NEW n, NEW kernels, NEW where, NEW p, Admit(k, id, n, kernels, where, p)
      PROVE  at' \in {"idle", where} /\ (lost' = lost \/ lost' = {"device", "compute"})
  BY <1>c DEF Admit, FailForward, Goto
<1>d. ASSUME NEW b, NEW p, StageRead(b, p) PROVE at' \in {"idle", "ahead"}
  BY <1>d, <1>c, <1>n DEF StageRead, FailForward, Goto
<1>4. CASE \E l \in Layers : Begin(l)
  <2>1. lost' = lost /\ lost = {} /\ at' = "row" BY <1>4 DEF Begin
  <2> QED BY <2>1, <1>a DEF Forward
<1>5. CASE Prewarm
  <2>1. lost' = lost /\ kept' = kept /\ at' \in {"row", "warm"} BY <1>5 DEF Prewarm, Goto, hostVars
  <2> QED BY <2>1, <1>a DEF Forward
<1>6. CASE Warm
  <2>1. at = "warm" BY <1>6 DEF Warm
  <2>2. lost = {} BY <2>1, <1>3 DEF Forward
  <2>3. CASE Goto("row", 1) /\ lost' = lost BY <2>2, <2>3, <1>a DEF Goto, Forward
  <2>4. CASE \E id : Admit(c, id, faults, FALSE, "warm", 1)
    <3>1. at' \in {"idle", "warm"} /\ (lost' = lost \/ lost' = {"device", "compute"}) BY <2>4, <1>c
    <3> QED BY <2>2, <3>1, <1>b DEF Forward
  <2> QED BY <1>6, <2>3, <2>4 DEF Warm
<1>7. CASE DeviceForward
  <2>1. lost' = lost /\ kept' = kept /\ at' = "idle" BY <1>7 DEF DeviceForward, Goto
  <2> QED BY <2>1, <1>a
<1>8. CASE Route
  <2>1. lost' = lost /\ kept' = kept /\ at' \in {"submit", "seed", "ahead"} BY <1>8 DEF Route, LoopStart
  <2> QED BY <2>1, <1>a DEF Forward
<1>9. CASE Submit
  <2>1. lost' = lost /\ kept' = kept /\ at' \in {"submit", "promote"} BY <1>9 DEF Submit, Goto
  <2> QED BY <2>1, <1>a DEF Forward
<1>10. CASE PromoteSkips
  <2>1. lost' = lost /\ kept' = kept /\ at' \in {"promote", "seed", "ahead"}
    BY <1>10 DEF PromoteSkips, PromoteNext, LoopStart, Goto
  <2> QED BY <2>1, <1>a DEF Forward
<1>11. CASE Promote
  <2>1. at = "promote" BY <1>11 DEF Promote
  <2>2. lost = {} BY <2>1, <1>3 DEF Forward
  <2>3. at' \in {"promote", "seed", "ahead", "idle"} /\ (lost' = lost \/ lost' = {"device", "copy"})
    BY <1>11 DEF Promote, PromoteNext, LoopStart, FailForward, Goto
  <2> QED BY <2>2, <2>3, <1>b DEF Forward
<1>12. CASE Ahead
  <2>1. at = "ahead" BY <1>12 DEF Ahead
  <2>2. lost = {} BY <2>1, <1>3 DEF Forward
  <2>3. at' \in {"dispatch", "idle"} /\ (lost' = lost \/ lost' = {"device", "copy"})
    BY <1>12 DEF Ahead, PrefetchBytes, FailForward, Goto
  <2> QED BY <2>2, <2>3, <1>b DEF Forward
<1>13. CASE Hit
  <2>1. lost' = lost /\ kept' = kept /\ at' = NextAt BY <1>13 DEF Hit, Goto
  <2> QED BY <2>1, <1>a, <1>n DEF Forward
<1>14. CASE TakePending
  <2>1. lost' = lost /\ kept' = kept /\ at' \in {"idle", NextAt}
    BY <1>14 DEF TakePending, FailForward, Goto
  <2> QED BY <2>1, <1>a, <1>n DEF Forward
<1>15. CASE MissMemory
  <2>1. at = "dispatch" /\ Admit(c, sel[pos], faults, TRUE, NextAt, NextPos) BY <1>15 DEF MissMemory, Miss
  <2>2. lost = {} BY <2>1, <1>3 DEF Forward
  <2>3. at' \in {"idle", NextAt} /\ (lost' = lost \/ lost' = {"device", "compute"}) BY <2>1, <1>c
  <2> QED BY <2>2, <2>3, <1>b, <1>n DEF Forward
<1>16. CASE MissBlocking
  <2>1. kept' = TRUE /\ ((\E n, p : Fallback(n, p)) \/ \E b, p : StageRead(b, p)) BY <1>16 DEF MissBlocking
  <2>2. at' \in {"idle", "ahead"}
    <3>1. CASE \E n, p : Fallback(n, p) BY <3>1, <1>c, <1>n DEF Fallback
    <3>2. CASE \E b, p : StageRead(b, p) BY <3>2, <1>d
    <3> QED BY <2>1, <3>1, <3>2
  <2> QED BY <2>1, <2>2, <1>b DEF Forward
<1>17. CASE MissSubmit
  <2>1. at = "dispatch" /\ kept' = TRUE /\ (at' = at \/ Fallback(faults, Reaped))
    BY <1>17 DEF MissSubmit, Miss, hostVars
  <2>2. at' \in {"dispatch", "idle", "ahead"} BY <2>1, <1>c, <1>n DEF Fallback
  <2> QED BY <2>1, <2>2, <1>b DEF Forward
<1>18. CASE MissRead
  <2>1. kept' = TRUE /\ ((\E n, p : Fallback(n, p)) \/ \E b, p : StageRead(b, p)) BY <1>18 DEF MissRead
  <2>2. at' \in {"idle", "ahead"}
    <3>1. CASE \E n, p : Fallback(n, p) BY <3>1, <1>c, <1>n DEF Fallback
    <3>2. CASE \E b, p : StageRead(b, p) BY <3>2, <1>d
    <3> QED BY <2>1, <3>1, <3>2
  <2> QED BY <2>1, <2>2, <1>b DEF Forward
<1>19. CASE ForwardFails
  <2>1. lost' = lost /\ kept' = kept /\ at' = "idle" BY <1>19 DEF ForwardFails, FailForward, Goto
  <2> QED BY <2>1, <1>a
<1>20. CASE Seed
  <2>1. lost' = lost /\ kept' = kept /\ at' \in {"seed", "dispatch"} BY <1>20 DEF Seed, Goto
  <2> QED BY <2>1, <1>a DEF Forward
<1> QED BY <1>4, <1>5, <1>6, <1>7, <1>8, <1>9, <1>10, <1>11, <1>12, <1>13, <1>14, <1>15, <1>16,
           <1>17, <1>18, <1>19, <1>20

\* Nothing the drop depends on changes, except for operations that end.
LEMMA DropKept ==
    ASSUME DropOK, UNCHANGED <<at, kept, lost, freed>>,
           AllCovered(compute, copy) => AllCovered(compute', copy')
    PROVE  DropOK'
  BY DEF DropOK

\* The drop protocol, step by step.
LEMMA DropStep ==
    ASSUME HostOK, CacheOK, StreamsOK, mem \in [Slots -> Blocks \cup {NoBlock}], DeviceInv, Next
    PROVE  DropOK'
<1>0. /\ DropOK /\ Truthful(c, compute, copy, mem, lost) /\ Accounted(c)
  BY DEF DeviceInv, CacheOK
<1>1. CASE RunCompute \/ RunCopy
  <2>1. AllCovered(compute, copy) => AllCovered(compute', copy') BY <1>0, <1>1, RunTruthful
  <2>2. UNCHANGED <<at, kept, lost, freed>> BY <1>1 DEF RunCompute, RunCopy, hostVars
  <2> QED BY <1>0, <2>1, <2>2, DropKept
<1>2. CASE (\E b \in Buffers : WorkerReads(b)) \/ Gone
  <2>1. UNCHANGED <<at, kept, lost, freed, compute, copy>>
    BY <1>2 DEF WorkerReads, Gone, vars, hostVars, deviceVars
  <2> QED BY <1>0, <2>1, DropKept
<1>3. CASE Marks
  BY <1>0, <1>3 DEF Marks, DropOK
<1>4. CASE DropCompute
  <2>1. /\ at = "idle" /\ at' = "drop_copy"
        /\ IF kept \/ "compute" \in lost
           THEN Synced(compute) \/ Unsynced ELSE UNCHANGED <<lost, freed, faults>>
    BY <1>4 DEF DropCompute, Goto
  <2>2. freed = {} /\ (lost # {} => kept \/ "compute" \in lost \/ "copy" \in lost)
    BY <1>0, <2>1 DEF DropOK, Dropping
  <2>3. freed' = freed \/ freed' = freed \cup {"leak"} BY <2>1 DEF Synced, Unsynced
  <2>4. lost' # {} => "leak" \in freed' \/ "copy" \in lost' BY <2>1, <2>2 DEF Synced, Unsynced
  <2>5. "slots" \notin freed' BY <2>2, <2>3
  <2> QED BY <2>1, <2>4, <2>5 DEF DropOK, Dropping
<1>5. CASE DropCopy
  <2>1. /\ at = "drop_copy" /\ at' = "drop_pool" /\ UNCHANGED <<compute, copy>>
        /\ IF "copy" \in lost \/ \E id \in Blocks : c.pend[id] # 0
           THEN Synced(copy) \/ Unsynced ELSE UNCHANGED <<lost, freed, faults>>
    BY <1>5 DEF DropCopy, Goto, deviceVars
  <2>2. /\ lost # {} => "leak" \in freed \/ "copy" \in lost
        /\ "slots" \notin freed
    BY <1>0, <2>1 DEF DropOK, Dropping
  <2>3. freed' = freed \/ freed' = freed \cup {"leak"} BY <2>1 DEF Synced, Unsynced
  <2>4. lost' # {} => "leak" \in freed' BY <2>1, <2>2, <2>3 DEF Synced, Unsynced
  <2>5. ASSUME lost' = {} PROVE AllCovered(compute, copy)
    <3>1. CASE \A id \in Blocks : c.pend[id] = 0
      <4> SUFFICES ASSUME NEW i \in DOMAIN copy PROVE Covered(compute, i) BY DEF AllCovered
      <4>1. copy[i] \in Ops BY DEF StreamsOK, Streams
      <4>2. copy[i].id \in Blocks /\ copy[i].slot \in Slots BY <4>1 DEF Ops
      <4>3. copy[i].slot # 0 BY <4>2, CacheAssumption DEF Slots, CacheAssumption
      <4>4. lost = {} BY <2>1, <2>5 DEF Synced, Unsynced
      <4> QED BY <1>0, <3>1, <4>2, <4>3, <4>4 DEF Truthful, CopiesWaited
    <3>2. CASE \E id \in Blocks : c.pend[id] # 0
      <4>1. copy = <<>> BY <2>1, <2>5, <3>2 DEF Synced, Unsynced
      <4> QED BY <4>1 DEF AllCovered
    <3> QED BY <3>1, <3>2
  <2>6. "slots" \notin freed' BY <2>2, <2>3
  <2> QED BY <2>1, <2>4, <2>5, <2>6 DEF DropOK, Dropping
<1>6. CASE DropPool
  <2>1. /\ at = "drop_pool" /\ at' = "drop_slots" /\ UNCHANGED <<compute, copy>>
        /\ \/ freed' = freed \cup {"buffers"} /\ lost' = lost
           \/ freed' = freed \cup {"leak"}
    BY <1>6 DEF DropPool, Goto, Unsynced, deviceVars
  <2>2. /\ lost # {} => "leak" \in freed
        /\ "leak" \in freed \/ AllCovered(compute, copy)
        /\ "slots" \notin freed
    BY <1>0, <2>1 DEF DropOK, Dropping
  <2>3. "slots" \notin freed' /\ ("leak" \in freed => "leak" \in freed') BY <2>1, <2>2
  <2> QED BY <2>1, <2>2, <2>3 DEF DropOK, Dropping
<1>7. CASE DropSlots
  <2>1. /\ at \in {"drop_slots", "drop_pool"} /\ at' = "gone" /\ UNCHANGED <<lost, compute, copy>>
        /\ freed' = IF "leak" \in freed THEN freed ELSE freed \cup {"slots"}
    BY <1>7 DEF DropSlots, Goto, deviceVars
  <2>2. /\ lost # {} => "leak" \in freed
        /\ "leak" \in freed \/ AllCovered(compute, copy)
        /\ "slots" \notin freed
    BY <1>0, <2>1 DEF DropOK, Dropping
  <2>3. /\ "leak" \in freed => "leak" \in freed' /\ "slots" \notin freed'
        /\ "leak" \notin freed => "leak" \notin freed'
    BY <2>1, <2>2
  <2> QED BY <2>1, <2>2, <2>3 DEF DropOK, Dropping
<1> QED BY <1>0, <1>1, <1>2, <1>3, <1>4, <1>5, <1>6, <1>7, ForwardMarks DEF Next

-----------------------------------------------------------------------------
(* The invariant *)

\* Initially both streams are empty and nobody holds a slot.
LEMMA InitDevice == Init => DeviceInv
<1> SUFFICES ASSUME Init PROVE DeviceInv OBVIOUS
<1>1. /\ compute = <<>> /\ copy = <<>> /\ at = "idle" /\ lost = {} /\ freed = {}
      /\ c.table = [id \in Blocks |-> 0] /\ c.pend = [id \in Blocks |-> 0]
  BY DEF Init
<1>2. DOMAIN compute = {} /\ DOMAIN copy = {} BY <1>1
<1>3. Device(compute, copy, mem) BY <1>2 DEF Device, Ordered, KernelsSee
<1>4. HoldersSee(c, compute, copy, mem)
  <2> SUFFICES ASSUME NEW id \in Blocks, NEW s \in Slots PROVE ~Holds(c, id, s) BY DEF HoldersSee
  <2>1. s # 0 BY CacheAssumption DEF Slots, CacheAssumption
  <2> QED BY <1>1, <2>1 DEF Holds
<1>5. CopiesWaited(c, compute, copy) BY <1>2 DEF CopiesWaited
<1>6. DropOK BY <1>1 DEF DropOK, Dropping
<1> QED BY <1>3, <1>4, <1>5, <1>6 DEF DeviceInv, Truthful

\* Every step.
LEMMA NextDevice == ExpertInv /\ DeviceInv /\ [Next]_vars => DeviceInv'
<1> SUFFICES ASSUME ExpertInv, DeviceInv, [Next]_vars PROVE DeviceInv' OBVIOUS
<1>0. /\ HostOK /\ CacheOK /\ StreamsOK /\ PoolInv /\ mem \in [Slots -> Blocks \cup {NoBlock}]
      /\ Truthful(c, compute, copy, mem, lost)
  BY DEF ExpertInv, DeviceInv
<1>1. CASE Next
  <2>1. Accounted(c) /\ PoolOK BY <1>0 DEF CacheOK, PoolInv, Pool, PoolOK
  <2>2. DeviceStep \/ RunCompute \/ RunCopy BY <1>0, <1>1, <2>1, HostSteps
  <2>3. Truthful(c', compute', copy', mem', lost') BY <1>0, <2>2, StepTruthful
  <2>4. DropOK' BY <1>0, <1>1, DropStep
  <2> QED BY <2>3, <2>4 DEF DeviceInv
<1>2. CASE UNCHANGED vars
  <2>1. UNCHANGED <<c, kept, compute, copy, mem, at, lost, freed>>
    BY <1>2 DEF vars, deviceVars, hostVars
  <2> QED BY <2>1 DEF DeviceInv, DropOK
<1> QED BY <1>1, <1>2

\* The invariant holds in every state of every behaviour.
THEOREM DeviceInvariant == Spec => [](ExpertInv /\ DeviceInv)
<1> QED BY InitInv, NextInv, InitDevice, NextDevice, PTL DEF Spec

\* What the kernels see: a kernel that may start finds in its slot the block it
\* was queued for, however the copies, the evictions and the kernels of the two
\* streams overlap; the two streams never work on one slot at once; and once the
\* slots are freed no copy that the compute stream does not wait for is left.
THEOREM KernelsReadTheirBlocks == Spec => []ReadsExact
<1>1. ExpertInv /\ DeviceInv => ReadsExact
  <2> SUFFICES ASSUME ExpertInv, DeviceInv PROVE ReadsExact OBVIOUS
  <2>0. /\ compute \in Seq(Ops) /\ copy \in Seq(Ops) /\ Device(compute, copy, mem) /\ DropOK
    BY DEF ExpertInv, DeviceInv, Truthful, StreamsOK, Streams
  <2>1. ASSUME NEW q \in Seq(Ops), Runnable(q)
        PROVE  1 \in DOMAIN q /\ Head(q) = q[1] /\ q[1].fence = 0
    BY <2>1, Ends DEF Runnable
  <2>2. ASSUME Runnable(compute), NEW i \in DOMAIN copy PROVE ~Follows(compute, 1, i)
    <3>1. compute[1].fence = 0 /\ i \in Nat \ {0} BY <2>0, <2>1, <2>2
    <3> QED BY <3>1 DEF Follows
  <2>3. ASSUME Runnable(compute), Head(compute).kind = "read"
        PROVE  mem[Head(compute).slot] = Head(compute).id
    <3>1. 1 \in DOMAIN compute /\ Head(compute) = compute[1] BY <2>0, <2>1, <2>3
    <3>2. {i \in DOMAIN copy : Follows(compute, 1, i)} = {} BY <2>2, <2>3
    <3>3. Sees(compute, copy, mem, 1, {}, compute[1].slot, compute[1].id)
      BY <2>0, <2>3, <3>1, <3>2 DEF Device, KernelsSee
    <3>4. mem[compute[1].slot] = compute[1].id BY <3>3 DEF Sees
    <3> QED BY <3>1, <3>4
  <2>4. ASSUME Runnable(compute), Runnable(copy) PROVE Head(compute).slot # Head(copy).slot
    <3>1. /\ 1 \in DOMAIN compute /\ Head(compute) = compute[1]
          /\ 1 \in DOMAIN copy /\ Head(copy) = copy[1] /\ copy[1].fence = 0
      BY <2>0, <2>1, <2>4
    <3>2. ~Waits(copy, 1, 1) BY <3>1 DEF Waits
    <3>3. ~Follows(compute, 1, 1) BY <2>2, <2>4, <3>1
    <3> QED BY <2>0, <3>1, <3>2, <3>3 DEF Device, Ordered
  <2>5. ASSUME "slots" \in freed, NEW i \in DOMAIN copy
        PROVE  \E j \in DOMAIN compute : compute[j].fence >= i
    BY <2>0, <2>5 DEF DropOK, Dropping, AllCovered, Covered
  <2> QED BY <2>3, <2>4, <2>5 DEF ReadsExact
<1> QED BY <1>1, DeviceInvariant, PTL

=============================================================================
