--------------------------- MODULE SchedulerProofs ---------------------------
(***************************************************************************)
(* What Scheduler promises, for every set of requests, every lane cap and  *)
(* every bound: one inductive invariant (SchedInv) says where a request is,*)
(* in which order the waiting ones stand, and what each client has been    *)
(* told; the properties follow from it.                                    *)
(*                                                                         *)
(* Most steps of a tick do the same thing to that invariant - some live    *)
(* sessions get a token, some get their end - so each of those actions is  *)
(* shown to be a TickStep, and TickStep to keep the invariant.             *)
(***************************************************************************)
EXTENDS Scheduler, FiniteSetTheorems, WellFoundedInduction, TLAPS

-----------------------------------------------------------------------------
(* The inductive invariant. *)

\* No element occurs twice.
Once(s) == \A i, j \in DOMAIN s : s[i] = s[j] => i = j

\* Every place a request can be in holds it at most once, and no two of them the
\* same one; a parked request is a finished session of this tick.
Places ==
    /\ Once(chan) /\ Once(queue) /\ Once(requeue) /\ Once(requeue_oom) /\ Once(active)
    /\ Range(chan) \cap Range(queue) = {} /\ Range(chan) \cap Range(requeue) = {}
    /\ Range(queue) \cap Range(requeue) = {}
    /\ Waiting \cap Active = {}
    /\ Range(requeue_oom) \subseteq finished
    /\ Waiting \cup Active \subseteq Submitted

\* What each phase has left empty.
Phased ==
    /\ phase # "admit" => requeue = <<>>
    /\ phase \in {"recv", "admit"} => finished = {}
    /\ phase \in {"recv", "admit", "graph", "demote"} => requeue_oom = <<>>
    /\ Range(todo) \subseteq Active
    /\ phase # "burst" => todo = <<>>

InHand == Waiting \cup Range(requeue_oom) \cup Live

\* A client that waits is in the worker's hands, an answered one is not.
Answers ==
    /\ \A r \in Submitted \ closed : ended[r] = 0 => r \in InHand
    /\ \A r \in Requests : ended[r] > 0 => r \in Submitted \ InHand

Retried == {r \in Requests : oom_retries[r] > 0}

\* Every earlier element of s, and every element of s to every one of t, is in
\* the relation R to the later.
Pairwise(s, R) == \A i, j \in DOMAIN s : i < j => <<s[i], s[j]>> \in R
Across(s, t, R) == \A x \in Range(s), y \in Range(t) : <<x, y>> \in R

\* Who may stand before whom: one that was parked before anyone, one that was
\* not before later arrivals that were not either.
Before(s, q, r) == \E i, j \in DOMAIN s : i < j /\ s[i] = q /\ s[j] = r
MayPrecede(W, s) ==
    {p \in Requests \X Requests :
        p[1] \in W \/ (p[2] \notin W /\ Before(s, p[1], p[2]))}

\* What waits is in that order: the deferred requests of this pass, the queue,
\* the channel.
InLine(R) ==
    /\ Pairwise(requeue, R) /\ Pairwise(queue, R) /\ Pairwise(chan, R)
    /\ Across(requeue, queue, R) /\ Across(requeue, chan, R) /\ Across(queue, chan, R)

Lines ==
    /\ Once(arrived)
    /\ Range(requeue_oom) \subseteq Retried
    /\ Retried \subseteq Submitted \ Range(chan)
    /\ InLine(MayPrecede(Retried, arrived))

\* What a pass has put aside it had no room for, or the lane is full: then the
\* pass lets none of that lane through.
Barred ==
    \A q \in Range(requeue) \cap Interactive :
        q \in vram_defers \/ Cardinality(Active \cap Interactive) >= InteractiveCap

\* The tokens of a request that was never parked.
Exact(s) == \A i \in DOMAIN s : s[i] = i
Streams ==
    \A r \in Requests \ Retried :
        /\ Exact(stream[r])
        /\ r \in Live \ closed => Len(stream[r]) = ses[r].gen
        /\ r \notin Active /\ ended[r] = 0 /\ r \notin closed => stream[r] = <<>>

SchedInv ==
    /\ TypeOK /\ Places /\ Phased /\ Answers /\ Lines /\ Barred
    /\ LaneCaps /\ GraphAlone /\ Streams

-----------------------------------------------------------------------------
(* Natural numbers and sequences. *)

\* A set of naturals that is not empty has a least element: the induction of
\* the proofs that follow.
LEMMA LeastNat ==
    ASSUME NEW T, T \subseteq Nat, T # {}
    PROVE  \E x \in T : \A y \in T : x <= y
<1>1. \E x \in T : \A y \in T : ~ (<<y, x>> \in OpToRel(<, Nat))
  BY NatLessThanWellFounded, WFMin
<1>2. \A x, y \in Nat : (<<y, x>> \in OpToRel(<, Nat)) <=> y < x
  BY DEF OpToRel
<1>3. \E x \in T : \A y \in T : ~(y < x)
  BY <1>1, <1>2, Zenon
<1> QED BY <1>3

\* The first j elements of s hold at most one more element of S than the first
\* j - 1, and exactly one more when the j-th is in S.
LEMMA RankStep ==
    ASSUME NEW X, NEW s \in Seq(X), NEW S, NEW j \in 1 .. Len(s)
    PROVE  /\ Rank(s, S, j) \in Nat /\ Rank(s, S, j - 1) \in Nat
           /\ Rank(s, S, 0) = 0
           /\ Rank(s, S, j) = IF s[j] \in S THEN Rank(s, S, j - 1) + 1
                                             ELSE Rank(s, S, j - 1)
<1> DEFINE K(n) == {k \in 1 .. n : s[k] \in S}
<1>1. \A n \in Nat : IsFiniteSet(K(n)) /\ Cardinality(K(n)) \in Nat
  <2> SUFFICES ASSUME NEW n \in Nat
               PROVE  IsFiniteSet(K(n)) /\ Cardinality(K(n)) \in Nat
    OBVIOUS
  <2>1. IsFiniteSet(1 .. n)
    BY FS_Interval
  <2>2. K(n) \in SUBSET (1 .. n)
    OBVIOUS
  <2>3. IsFiniteSet(K(n))
    BY <2>1, <2>2, FS_Subset, Zenon
  <2> QED BY <2>3, FS_CardinalityType
<1>2. j \in Nat /\ j - 1 \in Nat /\ 0 \in Nat
  OBVIOUS
<1>3. K(0) = {}
  OBVIOUS
<1>4. K(j) = IF s[j] \in S THEN K(j - 1) \cup {j} ELSE K(j - 1)
  OBVIOUS
<1>5. j \notin K(j - 1)
  OBVIOUS
<1> HIDE DEF K
<1>6. Cardinality(K(j - 1) \cup {j}) = Cardinality(K(j - 1)) + 1
  BY <1>1, <1>2, <1>5, FS_AddElement
<1>7. /\ Cardinality(K(j)) \in Nat /\ Cardinality(K(j - 1)) \in Nat
      /\ Cardinality(K(0)) = 0
      /\ Cardinality(K(j)) = IF s[j] \in S THEN Cardinality(K(j - 1)) + 1
                                            ELSE Cardinality(K(j - 1))
  BY <1>1, <1>2, <1>3, <1>4, <1>6, FS_EmptySet
<1> QED BY <1>7 DEF Rank, K

\* A later element of S has a higher rank.
LEMMA RankGrows ==
    ASSUME NEW X, NEW s \in Seq(X), NEW S, NEW i \in Nat, NEW j \in 1 .. Len(s),
           i < j, s[j] \in S
    PROVE  Rank(s, S, i) \in Nat /\ Rank(s, S, j) \in Nat /\ Rank(s, S, i) < Rank(s, S, j)
<1> DEFINE I == {k \in 1 .. i : s[k] \in S}
           J == {k \in 1 .. j : s[k] \in S}
<1>1. IsFiniteSet(1 .. j)
  BY FS_Interval
<1>2. J \in SUBSET (1 .. j) /\ I \in SUBSET J /\ j \in J /\ j \notin I
  OBVIOUS
<1> HIDE DEF I, J
<1>3. IsFiniteSet(J)
  BY <1>1, <1>2, FS_Subset, Zenon
<1>4. /\ IsFiniteSet(I) /\ Cardinality(I) <= Cardinality(J)
      /\ Cardinality(J) = Cardinality(I) => J = I
  BY <1>2, <1>3, FS_Subset, Zenon
<1>5. Cardinality(I) \in Nat /\ Cardinality(J) \in Nat
  BY <1>3, <1>4, FS_CardinalityType
<1>6. J # I
  BY <1>2
<1>7. Cardinality(I) < Cardinality(J)
  BY <1>4, <1>5, <1>6
<1> QED BY <1>5, <1>7 DEF Rank, I, J

\* Every rank up to the last is the rank of some element of S.
LEMMA RankReached ==
    ASSUME NEW X, NEW s \in Seq(X), NEW S, NEW i \in 1 .. Rank(s, S, Len(s))
    PROVE  \E j \in DOMAIN s : s[j] \in S /\ Rank(s, S, j) = i
<1> DEFINE T == {n \in 0 .. Len(s) : Rank(s, S, n) >= i}
<1>0. Len(s) \in Nat /\ DOMAIN s = 1 .. Len(s)
  OBVIOUS
<1>1. CASE Len(s) = 0
  <2>1. Rank(s, S, 0) = 0
    <3>1. {k \in 1 .. 0 : s[k] \in S} = {}
      OBVIOUS
    <3> QED BY <3>1, FS_EmptySet DEF Rank
  <2> QED BY <1>1, <2>1
<1>2. CASE Len(s) > 0
  <2>0. Rank(s, S, 0) = 0 /\ \A n \in 0 .. Len(s) : Rank(s, S, n) \in Nat
    <3>1. \A n \in 1 .. Len(s) : Rank(s, S, 0) = 0 /\ Rank(s, S, n) \in Nat
      BY RankStep
    <3> QED BY <1>0, <1>2, <3>1
  <2>1. Len(s) \in T /\ 0 \notin T /\ T \subseteq Nat
    BY <1>0, <1>2, <2>0
  <2>2. PICK j \in T : \A n \in T : j <= n
    BY <2>1, LeastNat
  <2>3. j \in 1 .. Len(s) /\ Rank(s, S, j) >= i
    BY <1>0, <2>1, <2>2
  <2>4. j - 1 \notin T /\ j - 1 \in 0 .. Len(s)
    <3>1. ~(j <= j - 1) /\ j - 1 \in 0 .. Len(s)
      BY <2>3, <1>0
    <3> HIDE DEF T
    <3> QED BY <2>2, <3>1
  <2>5. ~(Rank(s, S, j - 1) >= i)
    BY <2>4
  <2>6. /\ Rank(s, S, j) \in Nat /\ Rank(s, S, j - 1) \in Nat
        /\ Rank(s, S, j) = IF s[j] \in S THEN Rank(s, S, j - 1) + 1
                                          ELSE Rank(s, S, j - 1)
    BY <2>3, RankStep
  <2>7. s[j] \in S /\ Rank(s, S, j) = i
    BY <2>0, <1>0, <2>3, <2>5, <2>6
  <2> QED BY <1>0, <2>3, <2>7
<1> QED BY <1>0, <1>1, <1>2

\* Keep leaves a sequence of exactly the elements in S, and repeats none that
\* was not repeated before: `retain' on the live sessions loses and doubles
\* nobody.
LEMMA KeepProperties ==
    ASSUME NEW X, NEW s \in Seq(X), NEW S
    PROVE  /\ Keep(s, S) \in Seq(X)
           /\ Range(Keep(s, S)) = Range(s) \cap S
           /\ Once(s) => Once(Keep(s, S))
<1> DEFINE n == Rank(s, S, Len(s))
           At(i) == CHOOSE j \in DOMAIN s : s[j] \in S /\ Rank(s, S, j) = i
<1>0. Len(s) \in Nat /\ DOMAIN s = 1 .. Len(s)
  OBVIOUS
<1>1. n \in Nat
  <2>1. CASE Len(s) = 0
    <3>1. {k \in 1 .. 0 : s[k] \in S} = {}
      OBVIOUS
    <3> QED BY <2>1, <3>1, FS_EmptySet DEF Rank
  <2>2. CASE Len(s) > 0
    BY <1>0, <2>2, RankStep
  <2> QED BY <1>0, <2>1, <2>2
<1>2. \A i \in 1 .. n : At(i) \in DOMAIN s /\ s[At(i)] \in S /\ Rank(s, S, At(i)) = i
  BY RankReached
<1>3. \A j \in DOMAIN s : s[j] \in S => Rank(s, S, j) \in 1 .. n
  <2> SUFFICES ASSUME NEW j \in 1 .. Len(s), s[j] \in S PROVE Rank(s, S, j) \in 1 .. n
    BY <1>0
  <2>1. Rank(s, S, j) \in Nat /\ 0 < Rank(s, S, j)
    <3>1. Rank(s, S, 0) \in Nat /\ Rank(s, S, j) \in Nat /\ Rank(s, S, 0) < Rank(s, S, j)
      BY RankGrows
    <3> QED BY <3>1
  <2>2. Rank(s, S, j) <= n
    <3>1. {k \in 1 .. j : s[k] \in S} \in SUBSET {k \in 1 .. Len(s) : s[k] \in S}
      OBVIOUS
    <3>2. IsFiniteSet({k \in 1 .. Len(s) : s[k] \in S})
      <4>1. IsFiniteSet(1 .. Len(s))
        BY <1>0, FS_Interval
      <4>2. {k \in 1 .. Len(s) : s[k] \in S} \in SUBSET (1 .. Len(s))
        OBVIOUS
      <4> QED BY <4>1, <4>2, FS_Subset, Zenon
    <3> QED BY <3>1, <3>2, FS_Subset, Zenon DEF Rank
  <2> QED BY <1>1, <2>1, <2>2
<1>4. \A j, k \in DOMAIN s : s[j] \in S /\ s[k] \in S /\ Rank(s, S, j) = Rank(s, S, k) => j = k
  <2> SUFFICES ASSUME NEW j \in 1 .. Len(s), NEW k \in 1 .. Len(s), s[j] \in S, s[k] \in S,
                      j < k
               PROVE  Rank(s, S, j) # Rank(s, S, k)
    BY <1>0
  <2>1. j \in Nat
    OBVIOUS
  <2>2. Rank(s, S, j) \in Nat /\ Rank(s, S, k) \in Nat /\ Rank(s, S, j) < Rank(s, S, k)
    BY <2>1, RankGrows
  <2> QED BY <2>2
<1>5. Keep(s, S) = [i \in 1 .. n |-> s[At(i)]]
  BY DEF Keep
<1> HIDE DEF n, At
<1>6. Keep(s, S) \in Seq(X) /\ DOMAIN Keep(s, S) = 1 .. n
  <2>1. \A i \in 1 .. n : s[At(i)] \in X
    BY <1>2
  <2> QED BY <1>1, <1>5, <2>1
<1>7. Range(Keep(s, S)) = Range(s) \cap S
  <2>1. \A x \in Range(Keep(s, S)) : x \in Range(s) \cap S
    BY <1>2, <1>5, <1>6, Zenon DEF Range
  <2>2. ASSUME NEW x \in Range(s) \cap S PROVE x \in Range(Keep(s, S))
    <3>1. PICK j \in DOMAIN s : x = s[j]
      BY <2>2 DEF Range
    <3>2. Rank(s, S, j) \in 1 .. n
      BY <1>3, <2>2, <3>1
    <3>3. At(Rank(s, S, j)) = j
      BY <1>2, <1>4, <2>2, <3>1, <3>2
    <3>4. Keep(s, S)[Rank(s, S, j)] = x
      BY <1>5, <3>1, <3>2, <3>3
    <3> QED BY <1>6, <3>2, <3>4 DEF Range
  <2> QED BY <2>1, <2>2
<1>8. ASSUME Once(s) PROVE Once(Keep(s, S))
  <2> SUFFICES ASSUME NEW i \in 1 .. n, NEW j \in 1 .. n, s[At(i)] = s[At(j)]
               PROVE  i = j
    BY <1>5, <1>6 DEF Once
  <2>1. At(i) = At(j)
    BY <1>2, <1>8 DEF Once
  <2> QED BY <1>2, <2>1
<1> QED BY <1>6, <1>7, <1>8

\* Ranges and repetitions, for the ways the loop changes a sequence.
LEMMA AppendFacts ==
    ASSUME NEW X, NEW s \in Seq(X), NEW x \in X
    PROVE  /\ Append(s, x) \in Seq(X)
           /\ Range(Append(s, x)) = Range(s) \cup {x}
           /\ Once(s) /\ x \notin Range(s) => Once(Append(s, x))
<1>1. Append(s, x) \in Seq(X)
  OBVIOUS
<1>2. Range(Append(s, x)) = Range(s) \cup {x}
  <2>1. DOMAIN Append(s, x) = 1 .. Len(s) + 1 /\ DOMAIN s = 1 .. Len(s) /\ Len(s) \in Nat
    OBVIOUS
  <2>2. \A i \in 1 .. Len(s) : Append(s, x)[i] = s[i]
    OBVIOUS
  <2>3. Append(s, x)[Len(s) + 1] = x
    OBVIOUS
  <2> QED BY <2>1, <2>2, <2>3 DEF Range
<1>3. Once(s) /\ x \notin Range(s) => Once(Append(s, x))
  BY DEF Once, Range
<1> QED BY <1>1, <1>2, <1>3

\* Taking the head off.
LEMMA HeadTailFacts ==
    ASSUME NEW X, NEW s \in Seq(X), s # <<>>
    PROVE  /\ Head(s) \in X /\ Tail(s) \in Seq(X)
           /\ Range(s) = {Head(s)} \cup Range(Tail(s))
           /\ Once(s) => Once(Tail(s)) /\ Head(s) \notin Range(Tail(s))
<1>1. Head(s) \in X /\ Tail(s) \in Seq(X)
  OBVIOUS
<1>2. /\ Len(s) \in Nat /\ Len(s) >= 1 /\ DOMAIN s = 1 .. Len(s)
      /\ DOMAIN Tail(s) = 1 .. Len(s) - 1 /\ Head(s) = s[1]
  OBVIOUS
<1>3. \A i \in 1 .. Len(s) - 1 : Tail(s)[i] = s[i + 1]
  OBVIOUS
<1>4. Range(s) = {Head(s)} \cup Range(Tail(s))
  <2>1. \A x \in Range(s) : x \in {Head(s)} \cup Range(Tail(s))
    <3> SUFFICES ASSUME NEW i \in 1 .. Len(s), i # 1 PROVE s[i] \in Range(Tail(s))
      BY <1>2 DEF Range
    <3>1. i - 1 \in 1 .. Len(s) - 1 /\ Tail(s)[i - 1] = s[i]
      BY <1>2, <1>3
    <3> QED BY <1>2, <3>1 DEF Range
  <2>2. \A i \in 1 .. Len(s) - 1 : i + 1 \in DOMAIN s
    BY <1>2
  <2>3. \A x \in {Head(s)} \cup Range(Tail(s)) : x \in Range(s)
    BY <1>2, <1>3, <2>2 DEF Range
  <2> QED BY <2>1, <2>3
<1>5. Once(s) => Once(Tail(s)) /\ Head(s) \notin Range(Tail(s))
  BY <1>2, <1>3 DEF Once, Range
<1> QED BY <1>1, <1>4, <1>5

\* One sequence after another.
LEMMA ConcatFacts ==
    ASSUME NEW X, NEW s \in Seq(X), NEW t \in Seq(X)
    PROVE  /\ s \o t \in Seq(X)
           /\ Range(s \o t) = Range(s) \cup Range(t)
           /\ Once(s) /\ Once(t) /\ Range(s) \cap Range(t) = {} => Once(s \o t)
<1>1. /\ s \o t \in Seq(X) /\ Len(s) \in Nat /\ Len(t) \in Nat
      /\ DOMAIN s = 1 .. Len(s) /\ DOMAIN t = 1 .. Len(t)
      /\ DOMAIN (s \o t) = 1 .. Len(s) + Len(t)
  OBVIOUS
<1>2. \A i \in 1 .. Len(s) + Len(t) :
          (s \o t)[i] = IF i <= Len(s) THEN s[i] ELSE t[i - Len(s)]
  OBVIOUS
<1> DEFINE st == s \o t
<1> HIDE DEF st
<1>3. /\ DOMAIN st = 1 .. Len(s) + Len(t)
      /\ \A i \in 1 .. Len(s) : st[i] = s[i]
      /\ \A i \in 1 .. Len(t) : st[Len(s) + i] = t[i]
      /\ \A i \in 1 .. Len(s) + Len(t) : i \notin 1 .. Len(s) =>
            i - Len(s) \in 1 .. Len(t) /\ st[i] = t[i - Len(s)]
  BY <1>1, <1>2 DEF st
<1>4. Range(st) = Range(s) \cup Range(t)
  <2>1. \A i \in DOMAIN st : st[i] \in Range(s) \cup Range(t)
    BY <1>1, <1>3 DEF Range
  <2>2. \A i \in 1 .. Len(s) : i \in DOMAIN st
    BY <1>1, <1>3
  <2>3. \A i \in 1 .. Len(t) : Len(s) + i \in DOMAIN st
    BY <1>1, <1>3
  <2>4. \A x \in Range(s) \cup Range(t) : x \in Range(st)
    <3>1. ASSUME NEW i \in 1 .. Len(s) PROVE s[i] \in Range(st)
      BY <1>3, <2>2 DEF Range
    <3>2. ASSUME NEW i \in 1 .. Len(t) PROVE t[i] \in Range(st)
      BY <1>3, <2>3 DEF Range
    <3> QED BY <1>1, <3>1, <3>2, Zenon DEF Range
  <2> QED BY <2>1, <2>4 DEF Range
<1>5. ASSUME Once(s), Once(t), Range(s) \cap Range(t) = {} PROVE Once(st)
  <2> SUFFICES ASSUME NEW i \in DOMAIN st, NEW j \in DOMAIN st, st[i] = st[j] PROVE i = j
    BY DEF Once
  <2>1. CASE i \in 1 .. Len(s) /\ j \in 1 .. Len(s)
    BY <1>1, <1>3, <1>5, <2>1 DEF Once
  <2>2. CASE i \notin 1 .. Len(s) /\ j \notin 1 .. Len(s)
    <3>1. i - Len(s) = j - Len(s)
      BY <1>1, <1>3, <1>5, <2>2 DEF Once
    <3> QED BY <1>1, <1>3, <3>1
  <2>3. CASE i \in 1 .. Len(s) /\ j \notin 1 .. Len(s)
    BY <1>1, <1>3, <1>5, <2>3 DEF Range
  <2>4. CASE i \notin 1 .. Len(s) /\ j \in 1 .. Len(s)
    BY <1>1, <1>3, <1>5, <2>4 DEF Range
  <2> QED BY <2>1, <2>2, <2>3, <2>4
<1> QED BY <1>1, <1>4, <1>5 DEF st

-----------------------------------------------------------------------------
(* What the steps of a tick have in common, the parking of a session aside.    *)

Sessions == [mode : {"none", "plain", "spec", "graph"}, pre : 0 .. Chunks, gen : Nat,
             primed : BOOLEAN, hold : 0 .. MaxHold]

\* The clients that get a terminal event are live ones that retire with this
\* tick; a session retires without one only if its client is gone.
EndStep ==
    \E E \in SUBSET Live :
        /\ ended' = [r \in Requests |-> IF r \in E \ closed THEN ended[r] + 1 ELSE ended[r]]
        /\ finished \subseteq finished' /\ finished' \subseteq Active
        /\ E \ closed \subseteq finished'
        /\ finished' \subseteq finished \cup E \cup closed

\* No session joins the spec path.
ModeStep ==
    /\ ses' \in [Requests -> Sessions]
    /\ \A r \in Requests : ses'[r].mode = "spec" => ses[r].mode = "spec"

\* Tokens go to live sessions, in step with their counts.
TokenStep ==
    /\ stream' \in [Requests -> Seq(Nat)]
    /\ \A r \in Requests : r \notin Live \/ r \in closed => stream'[r] = stream[r]
    /\ \A r \in Live \ closed :
          Exact(stream[r]) /\ Len(stream[r]) = ses[r].gen =>
             /\ Exact(stream'[r])
             /\ r \notin finished' => Len(stream'[r]) = ses'[r].gen

TickStep ==
    /\ UNCHANGED <<arrived, closed, chan, queue, requeue, vram_defers, active, requeue_oom,
                   oom_retries>>
    /\ EndStep /\ ModeStep /\ TokenStep

\* The part of the state no property but the type and the phase look at.
RestOK ==
    /\ todo \in Seq(Requests) /\ decoded \in BOOLEAN /\ late \in BOOLEAN
    /\ phase \in Phases

\* A token that follows an exact stream keeps it exact.
LEMMA ExactAppend ==
    ASSUME NEW s \in Seq(Nat), NEW n \in Nat, Exact(s), Len(s) = n
    PROVE  /\ Append(s, n + 1) \in Seq(Nat) /\ Exact(Append(s, n + 1))
           /\ Len(Append(s, n + 1)) = n + 1
  BY DEF Exact

\* So do the tokens of a burst.
LEMMA ExactBurst ==
    ASSUME NEW s \in Seq(Nat), NEW g \in Nat, NEW n \in Nat
    PROVE  LET t == s \o [i \in 1 .. n |-> g + i]
           IN /\ t \in Seq(Nat)
              /\ Exact(s) /\ Len(s) = g => Exact(t) /\ Len(t) = g + n
<1> DEFINE u == [i \in 1 .. n |-> g + i]
<1>1. u \in Seq(Nat) /\ Len(u) = n
  OBVIOUS
<1>2. \A i \in 1 .. n : u[i] = g + i
  OBVIOUS
<1> HIDE DEF u
<1>3. s \o u \in Seq(Nat) /\ Len(s \o u) = Len(s) + n
  BY <1>1
<1>4. ASSUME Exact(s), Len(s) = g PROVE Exact(s \o u)
  <2> SUFFICES ASSUME NEW k \in 1 .. g + n PROVE (s \o u)[k] = k
    BY <1>3, <1>4 DEF Exact
  <2>1. CASE k <= g
    BY <1>1, <1>4, <2>1 DEF Exact
  <2>2. CASE k > g
    <3>1. k - g \in 1 .. n
      BY <2>2
    <3>2. \A i \in 1 .. Len(s) + Len(u) :
              (s \o u)[i] = IF i <= Len(s) THEN s[i] ELSE u[i - Len(s)]
      BY <1>1
    <3>3. (s \o u)[k] = u[k - g]
      BY <1>1, <1>4, <2>2, <3>2
    <3>4. u[k - g] = g + (k - g)
      BY <1>2, <3>1
    <3>5. g + (k - g) = k
      OBVIOUS
    <3> QED BY <3>3, <3>4, <3>5, Zenon
  <2>3. k <= g \/ k > g
    OBVIOUS
  <2> QED BY <2>1, <2>2, <2>3, Zenon
<1> QED BY <1>3, <1>4 DEF u

\* Every session of R samples one token (advance_sample_emit), and the step that
\* feeds it fails for those of F.
LEMMA Sampling ==
    ASSUME TypeOK, SchedulerAssumption, NEW R \in SUBSET Live, NEW o \in [R -> Outcomes],
           NEW F \in SUBSET R,
           \A r \in F : Goes(r, o[r]),
           Emitted(R, o), Stopped(R, o, F),
           \A r \in R : ses'[r].gen = Counted(r),
           \A r \in Requests \ R : ses'[r] = ses[r]
    PROVE  EndStep /\ TokenStep
<1>0. /\ Live \subseteq Requests /\ finished \subseteq Active /\ R \subseteq Requests
      /\ \A r \in Requests : stream[r] \in Seq(Nat) /\ ses[r].gen \in Nat
  BY DEF TypeOK, Live, Active, Range
<1>1. EndStep
  <2> DEFINE E == {r \in R : Spent(r) \/ o[r] # "more"} \cup F
  <2>1. /\ ended' = [r \in Requests |-> IF r \in E \ closed THEN ended[r] + 1 ELSE ended[r]]
        /\ finished' = finished \cup {r \in R : ~Goes(r, o[r])} \cup F
    BY DEF Stopped, EndAll
  <2>2. E \in SUBSET Live
    OBVIOUS
  <2>3. finished \subseteq finished' /\ finished' \subseteq Active
    BY <1>0, <2>1 DEF Live
  <2>4. E \ closed \subseteq finished' /\ finished' \subseteq finished \cup E \cup closed
    BY <2>1 DEF Goes
  <2> HIDE DEF E
  <2> QED BY <2>1, <2>2, <2>3, <2>4 DEF EndStep
<1>2. \A r \in Requests : stream'[r] =
          IF r \in R \ closed /\ ~Spent(r) /\ o[r] \in {"more", "stop"}
          THEN Append(stream[r], ses[r].gen + 1) ELSE stream[r]
  BY DEF Emitted
<1>3. \A r \in Requests : stream'[r] \in Seq(Nat)
  <2> SUFFICES ASSUME NEW r \in Requests PROVE stream'[r] \in Seq(Nat)
    OBVIOUS
  <2>1. stream[r] \in Seq(Nat) /\ ses[r].gen + 1 \in Nat
    BY <1>0
  <2>2. Append(stream[r], ses[r].gen + 1) \in Seq(Nat)
    BY <2>1
  <2> QED BY <1>2, <2>1, <2>2, Zenon
<1>4. stream' \in [Requests -> Seq(Nat)]
  BY <1>3 DEF Emitted
<1>5. \A r \in Requests : r \notin Live \/ r \in closed => stream'[r] = stream[r]
  BY <1>2
<1>6. ASSUME NEW r \in Live \ closed, Exact(stream[r]), Len(stream[r]) = ses[r].gen
      PROVE  Exact(stream'[r]) /\ (r \notin finished' => Len(stream'[r]) = ses'[r].gen)
  <2>0. r \in Requests /\ stream[r] \in Seq(Nat) /\ ses[r].gen \in Nat
    BY <1>0
  <2>1. CASE r \notin R
    BY <1>2, <1>6, <2>0, <2>1
  <2>2. CASE r \in R /\ (Spent(r) \/ o[r] \notin {"more", "stop"})
    <3>1. stream'[r] = stream[r]
      BY <1>2, <2>0, <2>2
    <3>2. r \in finished'
      BY <2>2 DEF Stopped, Goes
    <3> QED BY <1>6, <3>1, <3>2
  <2>3. CASE r \in R /\ ~Spent(r) /\ o[r] \in {"more", "stop"}
    <3>1. stream'[r] = Append(stream[r], ses[r].gen + 1)
      BY <1>2, <1>6, <2>0, <2>3
    <3>2. ses'[r].gen = ses[r].gen + 1
      BY <2>3 DEF Counted
    <3> QED BY <1>6, <2>0, <3>1, <3>2, ExactAppend
  <2> QED BY <2>1, <2>2, <2>3
<1> QED BY <1>1, <1>4, <1>5, <1>6 DEF TokenStep

\* The types a step of the tick needs.
LEMMA TickTypes ==
    ASSUME TypeOK
    PROVE  /\ Active \subseteq Requests /\ finished \subseteq Active /\ Live \subseteq Active
           /\ active \in Seq(Requests) /\ todo \in Seq(Requests)
           /\ ses \in [Requests -> Sessions]
           /\ stream \in [Requests -> Seq(Nat)] /\ ended \in [Requests -> Nat]
           /\ decoded \in BOOLEAN /\ late \in BOOLEAN
  BY DEF TypeOK, Live, Active, Range, Sessions

\* Nobody is told anything, and nobody's session changes its path.
LEMMA QuietStep ==
    ASSUME TypeOK, UNCHANGED <<ended, finished, stream>>, ses' \in [Requests -> Sessions],
           \A r \in Requests : /\ ses'[r].mode = ses[r].mode
                               /\ ses'[r].gen = ses[r].gen
    PROVE  EndStep /\ ModeStep /\ TokenStep
<1>1. EndStep
  <2>1. {} \in SUBSET Live /\ finished' = finished /\ finished \subseteq Active
    BY TickTypes
  <2>2. ended' = [r \in Requests |-> IF r \in {} \ closed THEN ended[r] + 1 ELSE ended[r]]
    BY TickTypes
  <2> QED BY <2>1, <2>2 DEF EndStep
<1>2. ModeStep
  BY DEF ModeStep
<1>3. TokenStep
  BY TickTypes DEF TokenStep
<1> QED BY <1>1, <1>2, <1>3

\* The sessions of F fail: each gets its error and retires.
LEMMA FailStep ==
    ASSUME TypeOK, NEW F \in SUBSET Live, EndAll(F), finished' = finished \cup F,
           UNCHANGED stream, ses' \in [Requests -> Sessions],
           \A r \in Requests : /\ ses'[r].mode = "spec" => ses[r].mode = "spec"
                               /\ ses'[r].gen = ses[r].gen
    PROVE  EndStep /\ ModeStep /\ TokenStep
<1>1. EndStep
  <2>1. finished' \subseteq Active
    BY TickTypes
  <2> QED BY <2>1 DEF EndStep, EndAll
<1>2. ModeStep
  BY DEF ModeStep
<1>3. TokenStep
  BY TickTypes DEF TokenStep
<1> QED BY <1>1, <1>2, <1>3

TickGoal == TickStep /\ RestOK' /\ Phased' /\ GraphAlone'

\* The graph sessions join the batched path.
LEMMA DegradeTick ==
    ASSUME SchedInv, SchedulerAssumption, DegradeGraph PROVE TickGoal
<1> USE DEF SchedInv
<1>0. TypeOK /\ phase = "graph" /\ phase' = "demote"
  BY DEF DegradeGraph
<1>1. PICK o \in [ToDegrade -> Outcomes], F \in SUBSET ToDegrade :
          /\ \A r \in F : Goes(r, o[r])
          /\ Emitted(ToDegrade, o) /\ Stopped(ToDegrade, o, F)
          /\ ses' = [r \in Requests |-> IF r \in ToDegrade
                        THEN [ses[r] EXCEPT !.mode = "plain", !.gen = Counted(r)]
                        ELSE ses[r]]
  BY DEF DegradeGraph
<1>2. ToDegrade \in SUBSET Live /\ ToDegrade \subseteq Requests
  BY <1>0, TickTypes DEF ToDegrade, InMode
<1>3. \A r \in Requests : ses[r] \in Sessions /\ Counted(r) \in Nat
  BY <1>0, TickTypes DEF Counted, Sessions
<1>4. /\ \A r \in ToDegrade : ses'[r] = [ses[r] EXCEPT !.mode = "plain", !.gen = Counted(r)]
      /\ \A r \in Requests \ ToDegrade : ses'[r] = ses[r]
  BY <1>1, <1>2
<1>5. \A r \in ToDegrade : /\ ses'[r].gen = Counted(r) /\ ses'[r].mode = "plain"
                           /\ ses'[r] \in Sessions
  <2> SUFFICES ASSUME NEW r \in ToDegrade
               PROVE  /\ ses'[r].gen = Counted(r) /\ ses'[r].mode = "plain"
                      /\ ses'[r] \in Sessions
    OBVIOUS
  <2>1. /\ ses'[r] = [ses[r] EXCEPT !.mode = "plain", !.gen = Counted(r)]
        /\ ses[r] \in Sessions /\ Counted(r) \in Nat
    BY <1>2, <1>3, <1>4
  <2> QED BY <2>1 DEF Sessions
<1>6. ses' \in [Requests -> Sessions]
  BY <1>1, <1>3, <1>4, <1>5
<1>7. EndStep /\ TokenStep
  BY <1>0, <1>1, <1>2, <1>4, <1>5, Sampling
<1>8. ModeStep
  BY <1>4, <1>5, <1>6 DEF ModeStep
<1>9. TickStep
  BY <1>7, <1>8 DEF TickStep, DegradeGraph, clientVars, waitVars
<1>10. RestOK'
  BY <1>0, TickTypes DEF RestOK, DegradeGraph, Phases
<1>11. Phased'
  BY <1>0 DEF Phased, DegradeGraph, waitVars, Active
<1>12. GraphAlone'
  <2>1. Live' \subseteq Live
    BY <1>7 DEF EndStep, Live, Active, DegradeGraph
  <2>2. \A r \in Live' : ses'[r].mode # "graph"
    <3> SUFFICES ASSUME NEW r \in Live' PROVE ses'[r].mode # "graph"
      OBVIOUS
    <3>1. r \in Live /\ r \in Requests
      BY <2>1, <1>0, TickTypes
    <3>2. CASE r \in ToDegrade
      BY <1>5, <3>2
    <3>3. CASE r \notin ToDegrade
      BY <1>4, <3>1, <3>3 DEF ToDegrade, InMode
    <3> QED BY <3>2, <3>3
  <2> QED BY <2>2 DEF GraphAlone, InMode
<1> QED BY <1>9, <1>10, <1>11, <1>12 DEF TickGoal

\* The lone session is promoted, or steps its graph.
LEMMA GraphTick ==
    ASSUME SchedInv, SchedulerAssumption, NEW r \in Requests, PromoteFails(r) \/ StepGraph(r)
    PROVE  TickGoal
<1> USE DEF SchedInv
<1>0. /\ TypeOK /\ phase = "graph" /\ phase' = "demote" /\ active = <<r>> /\ r \in Live
      /\ active' = active
  <2>1. active = <<r>> /\ r \notin finished
    BY DEF PromoteFails, StepGraph, Lone
  <2>2. r \in Range(active)
    BY <2>1 DEF Range
  <2> QED BY <2>1, <2>2 DEF PromoteFails, StepGraph, Live, Active
<1>1. GraphAlone'
  <2>1. Len(active') = 1
    BY <1>0
  <2> QED BY <2>1 DEF GraphAlone
<1>2. RestOK'
  <2>1. CASE PromoteFails(r)
    BY <1>0, <2>1, TickTypes DEF RestOK, PromoteFails, Phases
  <2>2. CASE StepGraph(r)
    <3>1. late' \in BOOLEAN
      BY <2>2, <1>0, TickTypes, Zenon DEF StepGraph, Stale
    <3> QED BY <1>0, <2>2, <3>1, TickTypes DEF RestOK, StepGraph, Phases
  <2> QED BY <2>1, <2>2
<1>3. Phased'
  BY <1>0 DEF Phased, PromoteFails, StepGraph, waitVars, Active
<1>4. EndStep /\ ModeStep /\ TokenStep
  <2>1. CASE PromoteFails(r)
    <3>1. {r} \in SUBSET Live
      BY <1>0
    <3>2. EndAll({r}) /\ finished' = finished \cup {r} /\ UNCHANGED <<stream, ses>>
      BY <2>1 DEF PromoteFails, End
    <3> QED BY <1>0, <3>1, <3>2, FailStep, TickTypes
  <2>2. CASE StepGraph(r)
    <3>1. PICK o \in [{r} -> Outcomes], F \in SUBSET {r} :
              /\ r \in F => Goes(r, o[r])
              /\ Emitted({r}, o) /\ Stopped({r}, o, F)
      BY <2>2 DEF StepGraph
    <3>2. ses' = [ses EXCEPT ![r].mode = "graph", ![r].gen = Counted(r)]
      BY <2>2 DEF StepGraph
    <3>3. ses[r] \in Sessions /\ Counted(r) \in Nat /\ ses \in [Requests -> Sessions]
      BY <1>0, TickTypes DEF Counted, Sessions
    <3>4. /\ ses'[r].gen = Counted(r) /\ ses'[r].mode = "graph" /\ ses'[r] \in Sessions
          /\ \A q \in Requests \ {r} : ses'[q] = ses[q]
          /\ ses' \in [Requests -> Sessions]
      BY <3>2, <3>3 DEF Sessions
    <3>5. {r} \in SUBSET Live
      BY <1>0
    <3>6. EndStep /\ TokenStep
      BY <1>0, <3>1, <3>4, <3>5, Sampling
    <3>7. ModeStep
      BY <3>4 DEF ModeStep
    <3> QED BY <3>6, <3>7
  <2> QED BY <2>1, <2>2
<1>5. TickStep
  BY <1>4 DEF TickStep, PromoteFails, StepGraph, clientVars, waitVars
<1> QED BY <1>1, <1>2, <1>3, <1>5 DEF TickGoal

\* A step that changes neither the sessions' paths nor who is live keeps a graph
\* session alone.
LEMMA AloneKept ==
    ASSUME TypeOK, GraphAlone, EndStep, active' = active,
           phase \in {"demote", "burst", "prefill", "decode", "dark"},
           \A r \in Requests : ses'[r].mode = "graph" => ses[r].mode = "graph"
    PROVE  GraphAlone'
<1>1. Live' \subseteq Live /\ Live \subseteq Requests
  BY TickTypes DEF EndStep, Live, Active
<1>2. \A r \in InMode("graph") : Len(active) = 1
  BY DEF GraphAlone
<1>3. \A r \in Live' : ses'[r].mode = "graph" => r \in InMode("graph")
  BY <1>1 DEF InMode
<1> QED BY <1>2, <1>3 DEF GraphAlone, InMode

\* Nobody is on the graph path, and nobody is to be.
LEMMA NoGraphTick ==
    ASSUME SchedInv, NoGraph PROVE TickGoal
<1> USE DEF SchedInv
<1>0. TypeOK /\ phase = "graph" /\ phase' = "demote" /\ UNCHANGED <<active, ses, finished>>
  BY DEF NoGraph, tickVars
<1>1. EndStep /\ ModeStep /\ TokenStep
  BY <1>0, QuietStep, TickTypes DEF NoGraph, tickVars, outVars
<1>2. TickStep
  BY <1>1 DEF TickStep, NoGraph, clientVars, waitVars, tickVars
<1>3. RestOK'
  BY <1>0, TickTypes DEF RestOK, NoGraph, Phases, tickVars
<1>4. Phased'
  BY <1>0 DEF Phased, NoGraph, waitVars, Active, tickVars
<1>5. GraphAlone'
  BY <1>0 DEF GraphAlone, NoGraph, InMode, Live, Active
<1> QED BY <1>2, <1>3, <1>4, <1>5 DEF TickGoal

\* Spec sessions join the batched path; the others line up to burst.
LEMMA DemoteTick ==
    ASSUME SchedInv, Demote PROVE TickGoal
<1> USE DEF SchedInv
<1>0. TypeOK /\ phase = "demote" /\ phase' = "burst" /\ active' = active
  BY DEF Demote
<1>1. PICK F \in SUBSET {r \in ToDemote : ses[r].gen > 0} :
          /\ EndAll(F) /\ finished' = finished \cup F
          /\ ses' = [r \in Requests |-> IF r \in ToDemote
                        THEN [ses[r] EXCEPT !.mode = "plain"] ELSE ses[r]]
  BY DEF Demote
<1>2. ToDemote \subseteq Live
  BY DEF ToDemote, InMode
<1>3. /\ ses' \in [Requests -> Sessions]
      /\ \A r \in Requests : /\ ses'[r].mode = "spec" => ses[r].mode = "spec"
                             /\ ses'[r].mode = "graph" => ses[r].mode = "graph"
                             /\ ses'[r].gen = ses[r].gen
  <2>1. ses \in [Requests -> Sessions]
    BY <1>0, TickTypes
  <2> SUFFICES ASSUME NEW r \in Requests
               PROVE  /\ ses'[r] \in Sessions
                      /\ ses'[r].mode = "spec" => ses[r].mode = "spec"
                      /\ ses'[r].mode = "graph" => ses[r].mode = "graph"
                      /\ ses'[r].gen = ses[r].gen
    BY <1>1
  <2>2. ses'[r] = IF r \in ToDemote THEN [ses[r] EXCEPT !.mode = "plain"] ELSE ses[r]
    BY <1>1
  <2>3. ses[r] \in Sessions
    BY <2>1
  <2> QED BY <2>2, <2>3 DEF Sessions
<1>4. EndStep /\ ModeStep /\ TokenStep
  <2>1. F \in SUBSET Live /\ UNCHANGED stream
    BY <1>1, <1>2 DEF Demote
  <2> QED BY <1>0, <1>1, <1>3, <2>1, FailStep
<1>5. TickStep
  BY <1>4 DEF TickStep, Demote, clientVars, waitVars
<1>6. todo' \in Seq(Requests) /\ Range(todo') \subseteq Active
  <2> DEFINE OnSpec == {r \in Active : ses[r].mode = "spec"} \ ToDemote
             Cold == {r \in OnSpec : ses[r].gen = 0}
  <2>1. todo' = Keep(active, Cold) \o Keep(active, OnSpec \ Cold)
    BY DEF Demote
  <2> HIDE DEF OnSpec, Cold
  <2>2. active \in Seq(Requests)
    BY <1>0, TickTypes
  <2>3. /\ Keep(active, Cold) \in Seq(Requests) /\ Keep(active, OnSpec \ Cold) \in Seq(Requests)
        /\ Range(Keep(active, Cold)) \subseteq Active
        /\ Range(Keep(active, OnSpec \ Cold)) \subseteq Active
    BY <2>2, KeepProperties DEF Active
  <2> DEFINE a == Keep(active, Cold)
             b == Keep(active, OnSpec \ Cold)
  <2>4. a \in Seq(Requests) /\ b \in Seq(Requests) /\ todo' = a \o b
    BY <2>1, <2>3
  <2>5. Range(a) \subseteq Active /\ Range(b) \subseteq Active
    BY <2>3
  <2> HIDE DEF a, b
  <2>6. a \o b \in Seq(Requests) /\ Range(a \o b) = Range(a) \cup Range(b)
    BY <2>4, ConcatFacts
  <2> QED BY <2>4, <2>5, <2>6
<1>7. RestOK'
  BY <1>0, <1>6, TickTypes DEF RestOK, Demote, Phases
<1>8. Phased'
  BY <1>0, <1>6 DEF Phased, Demote, waitVars, Active
<1>9. GraphAlone'
  BY <1>0, <1>3, <1>4, AloneKept
<1> QED BY <1>5, <1>7, <1>8, <1>9 DEF TickGoal

\* The session at the head of the burst list.
LEMMA BurstHead ==
    ASSUME SchedInv, NEW r \in Requests, AtBurst(r)
    PROVE  /\ phase = "burst" /\ r \in Active
           /\ todo' \in Seq(Requests) /\ Range(todo') \subseteq Active
<1>1. todo \in Seq(Requests) /\ Range(todo) \subseteq Active /\ todo # <<>> /\ phase = "burst"
      /\ r = Head(todo) /\ todo' = Tail(todo)
  BY DEF SchedInv, TypeOK, Phased, AtBurst
<1>2. Tail(todo) \in Seq(Requests) /\ Range(todo) = {Head(todo)} \cup Range(Tail(todo))
  BY <1>1, HeadTailFacts
<1> QED BY <1>1, <1>2

\* A burst that does not fail.
LEMMA BurstTick ==
    ASSUME SchedInv, SchedulerAssumption, NEW r \in Requests,
           BurstSkip(r) \/ BurstSpent(r) \/ BurstRuns(r)
    PROVE  TickGoal
<1> USE DEF SchedInv
<1>0. /\ TypeOK /\ AtBurst(r)
      /\ UNCHANGED <<arrived, closed, chan, queue, requeue, vram_defers, active, requeue_oom,
                     oom_retries, decoded, late, phase>>
  BY DEF BurstSkip, BurstSpent, BurstRuns, clientVars, waitVars
<1>1. /\ phase = "burst" /\ r \in Active
      /\ todo' \in Seq(Requests) /\ Range(todo') \subseteq Active
  BY <1>0, BurstHead
<1>2. RestOK'
  BY <1>0, <1>1, TickTypes DEF RestOK, Phases
<1>3. Phased'
  BY <1>0, <1>1 DEF Phased, Active
<1>4. /\ EndStep /\ ModeStep /\ TokenStep
      /\ \A q \in Requests : ses'[q].mode = ses[q].mode
  <2>1. CASE BurstSkip(r)
    BY <1>0, <2>1, QuietStep, TickTypes DEF BurstSkip, outVars
  <2>2. CASE BurstSpent(r)
    <3>1. {r} \in SUBSET Live
      BY <1>1, <2>2 DEF BurstSpent, Live
    <3> QED BY <1>0, <2>2, <3>1, FailStep, TickTypes DEF BurstSpent, End
  <2>3. CASE BurstRuns(r)
    <3>1. r \in Live
      BY <1>1, <2>3 DEF BurstRuns, Live
    <3>2. /\ stream \in [Requests -> Seq(Nat)] /\ ses \in [Requests -> Sessions]
          /\ ended \in [Requests -> Nat] /\ finished \subseteq Active
      BY <1>0, TickTypes
    <3>3. ses[r].gen \in Nat /\ Budget(r) \in Nat /\ BurstRoom(r) \in Int /\ Overshoot \in Nat
      BY <3>2 DEF Sessions, SchedulerAssumption, Budget, BurstRoom
    <3>4. PICK n \in 0 .. BurstRoom(r) + Overshoot, o \in {"more", "eos", "stop"} :
          LET seen == IF o = "eos" THEN n - 1 ELSE n
              over == o # "more" \/ ses[r].gen + n >= Budget(r)
          IN /\ n = 0 => o = "more" /\ ses[r].gen > 0
             /\ Flushed(r, seen)
             /\ ses' = [ses EXCEPT ![r].gen = @ + n, ![r].primed = TRUE]
             /\ EndAll(IF over THEN {r} ELSE {})
             /\ finished' = IF over \/ (r \in closed /\ seen > 0)
                            THEN finished \cup {r} ELSE finished
      BY <2>3 DEF BurstRuns
    <3> DEFINE seen == IF o = "eos" THEN n - 1 ELSE n
               over == o # "more" \/ ses[r].gen + n >= Budget(r)
    <3>5. n \in Nat /\ seen \in Nat /\ (o = "more" => seen = n)
      BY <3>3, <3>4
    <3>6. /\ Flushed(r, seen)
          /\ ses' = [ses EXCEPT ![r].gen = @ + n, ![r].primed = TRUE]
          /\ EndAll(IF over THEN {r} ELSE {})
          /\ finished' = IF over \/ (r \in closed /\ seen > 0)
                            THEN finished \cup {r} ELSE finished
          /\ (~over => o = "more")
      BY <3>4
    <3> HIDE DEF seen, over
    <3>7. /\ ses'[r].gen = ses[r].gen + n /\ ses' \in [Requests -> Sessions]
          /\ \A q \in Requests : ses'[q].mode = ses[q].mode
      <4>1. ses'[r].gen = ses[r].gen + n /\ ses'[r] \in Sessions /\ ses'[r].mode = ses[r].mode
        <5>0. ses[r] \in Sessions /\ ses[r].gen + n \in Nat
          BY <3>2, <3>3, <3>5
        <5>1. ses'[r] = [ses[r] EXCEPT !.gen = ses[r].gen + n, !.primed = TRUE]
          BY <3>2, <3>6, <5>0 DEF Sessions
        <5>2. ses'[r].gen = ses[r].gen + n /\ ses'[r].mode = ses[r].mode
          BY <5>0, <5>1 DEF Sessions
        <5> QED BY <5>0, <5>1, <5>2 DEF Sessions
      <4>2. \A q \in Requests \ {r} : ses'[q] = ses[q]
        BY <3>2, <3>6
      <4> QED BY <3>2, <3>6, <4>1, <4>2
    <3>8. EndStep
      <4> DEFINE E == IF over THEN {r} ELSE {}
      <4>1. E \in SUBSET Live /\ (E # {} => r \in E)
        BY <3>1
      <4>2. finished' \subseteq Active /\ finished \subseteq finished'
        BY <1>1, <3>2, <3>6
      <4>3. E \ closed \subseteq finished' /\ finished' \subseteq finished \cup E \cup closed
        BY <3>6
      <4>4. ended' = [q \in Requests |-> IF q \in E \ closed THEN ended[q] + 1 ELSE ended[q]]
        BY <3>6 DEF EndAll
      <4> HIDE DEF E
      <4> QED BY <4>1, <4>2, <4>3, <4>4 DEF EndStep
    <3>9. TokenStep
      <4> DEFINE t == stream[r] \o [i \in 1 .. seen |-> ses[r].gen + i]
      <4>1. /\ t \in Seq(Nat)
            /\ Exact(stream[r]) /\ Len(stream[r]) = ses[r].gen
               => Exact(t) /\ Len(t) = ses[r].gen + seen
        BY <3>2, <3>3, <3>5, ExactBurst
      <4>2. stream' = [stream EXCEPT ![r] = IF r \in closed THEN stream[r] ELSE t]
        BY <3>2, <3>6 DEF Flushed
      <4> HIDE DEF t
      <4>3. /\ stream' \in [Requests -> Seq(Nat)]
            /\ \A q \in Requests \ {r} : stream'[q] = stream[q]
            /\ r \in closed => stream'[r] = stream[r]
            /\ r \notin closed => stream'[r] = t
        BY <3>2, <4>1, <4>2
      <4>4. \A q \in Requests \ {r} : ses'[q] = ses[q]
        BY <3>2, <3>6
      <4>5. ASSUME r \notin closed, Exact(stream[r]), Len(stream[r]) = ses[r].gen
            PROVE  Exact(stream'[r]) /\ (r \notin finished' => Len(stream'[r]) = ses'[r].gen)
        <5>1. r \notin finished' => ~over
          BY <3>6
        <5> QED BY <3>5, <3>6, <3>7, <4>1, <4>3, <4>5, <5>1
      <4>6. \A q \in Live \ closed :
              Exact(stream[q]) /\ Len(stream[q]) = ses[q].gen =>
                 /\ Exact(stream'[q])
                 /\ q \notin finished' => Len(stream'[q]) = ses'[q].gen
        <5>1. Live \subseteq Requests
          BY <1>0, TickTypes
        <5> QED BY <5>1, <4>3, <4>4, <4>5
      <4> QED BY <3>1, <4>3, <4>6 DEF TokenStep
    <3> QED BY <3>7, <3>8, <3>9 DEF ModeStep
  <2> QED BY <2>1, <2>2, <2>3
<1>5. TickStep
  BY <1>0, <1>4 DEF TickStep
<1>6. GraphAlone'
  BY <1>0, <1>1, <1>4, AloneKept
<1> QED BY <1>2, <1>3, <1>5, <1>6 DEF TickGoal

\* A burst that fails for good is the burst of a session that ends.
FailsForGood(r) ==
    /\ AtBurst(r) /\ r \notin finished /\ BurstRoom(r) > 0
    /\ \E n \in 0 .. BurstRoom(r) : Flushed(r, n)
    /\ finished' = finished \cup {r}
    /\ End(r) /\ UNCHANGED <<oom_retries, requeue_oom>>
    /\ UNCHANGED <<clientVars, waitVars, active, ses, decoded, late, phase>>

\* A burst that fails for good: what it flushed is streamed, then the error.
LEMMA FailsTick ==
    ASSUME SchedInv, SchedulerAssumption, NEW r \in Requests, FailsForGood(r)
    PROVE  TickGoal
<1> USE DEF SchedInv
<1>0. /\ TypeOK /\ AtBurst(r)
      /\ UNCHANGED <<arrived, closed, chan, queue, requeue, vram_defers, active, requeue_oom,
                     oom_retries, decoded, late, phase, ses>>
  BY DEF FailsForGood, clientVars, waitVars
<1>1. /\ phase = "burst" /\ r \in Active
      /\ todo' \in Seq(Requests) /\ Range(todo') \subseteq Active
  BY <1>0, BurstHead
<1>2. RestOK'
  BY <1>0, <1>1, TickTypes DEF RestOK, Phases
<1>3. Phased'
  BY <1>0, <1>1 DEF Phased, Active
<1>4. r \in Live /\ Live \subseteq Requests
  BY <1>0, <1>1, TickTypes DEF FailsForGood, Live
<1>5. /\ stream \in [Requests -> Seq(Nat)] /\ ses \in [Requests -> Sessions]
      /\ ended \in [Requests -> Nat] /\ finished \subseteq Active
  BY <1>0, TickTypes
<1>6. EndStep
  <2>1. finished' \subseteq Active /\ finished' = finished \cup {r} /\ {r} \in SUBSET Live
    BY <1>1, <1>4, <1>5 DEF FailsForGood
  <2>2. ended' = [q \in Requests |-> IF q \in {r} \ closed THEN ended[q] + 1 ELSE ended[q]]
    BY DEF FailsForGood, End, EndAll
  <2> QED BY <2>1, <2>2 DEF EndStep
<1>7. ModeStep
  BY <1>0, <1>5 DEF ModeStep
<1>8. TokenStep
  <2>1. ses[r].gen \in Nat /\ BurstRoom(r) \in Int
    BY <1>5 DEF Sessions, SchedulerAssumption, Budget, BurstRoom
  <2>2. PICK n \in 0 .. BurstRoom(r) : Flushed(r, n)
    BY DEF FailsForGood
  <2>3. n \in Nat
    BY <2>1
  <2> DEFINE t == stream[r] \o [i \in 1 .. n |-> ses[r].gen + i]
  <2>4. /\ t \in Seq(Nat)
        /\ Exact(stream[r]) /\ Len(stream[r]) = ses[r].gen => Exact(t)
    BY <1>5, <2>1, <2>3, ExactBurst
  <2>5. stream' = [stream EXCEPT ![r] = IF r \in closed THEN stream[r] ELSE t]
    BY <1>5, <2>2 DEF Flushed
  <2> HIDE DEF t
  <2>6. /\ stream' \in [Requests -> Seq(Nat)]
        /\ \A q \in Requests \ {r} : stream'[q] = stream[q]
        /\ r \in closed => stream'[r] = stream[r]
        /\ r \notin closed => stream'[r] = t
    BY <1>5, <2>4, <2>5
  <2>7. r \in finished'
    BY DEF FailsForGood
  <2> QED BY <1>0, <1>4, <2>4, <2>6, <2>7 DEF TokenStep
<1>9. TickStep
  BY <1>0, <1>6, <1>7, <1>8 DEF TickStep
<1>10. GraphAlone'
  BY <1>0, <1>1, <1>6, AloneKept
<1> QED BY <1>2, <1>3, <1>9, <1>10 DEF TickGoal

\* The steps that only move on.
LEMMA BurstsDoneTick ==
    ASSUME SchedInv, BurstsDone \/ DarkSkip PROVE TickGoal
<1> USE DEF SchedInv
<1>0. /\ TypeOK /\ phase \in {"burst", "dark"} /\ phase' \in {"prefill", "retire"}
      /\ todo = <<>>
      /\ UNCHANGED <<arrived, closed, stream, ended, chan, queue, requeue, vram_defers, active,
                     ses, finished, requeue_oom, oom_retries, todo, decoded, late>>
  BY DEF BurstsDone, DarkSkip, tickVars, outVars, clientVars, waitVars, Phased
<1>1. EndStep /\ ModeStep /\ TokenStep
  BY <1>0, QuietStep, TickTypes
<1>2. TickStep
  BY <1>0, <1>1 DEF TickStep
<1>3. RestOK'
  BY <1>0, TickTypes DEF RestOK, Phases
<1>4. Phased'
  BY <1>0 DEF Phased, Active
<1>5. GraphAlone'
  BY <1>0, <1>1, AloneKept
<1> QED BY <1>2, <1>3, <1>4, <1>5 DEF TickGoal

\* Interactive prompts prime.
LEMMA PrefillTick ==
    ASSUME SchedInv, SchedulerAssumption, PrefillInteractive PROVE TickGoal
<1> USE DEF SchedInv
<1>0. /\ TypeOK /\ phase = "prefill" /\ phase' = "decode" /\ todo = <<>>
      /\ UNCHANGED <<arrived, closed, stream, chan, queue, requeue, vram_defers, active,
                     requeue_oom, oom_retries, todo, decoded, late>>
  BY DEF PrefillInteractive, clientVars, waitVars, Phased
<1>1. PICK H \in SUBSET (Unprimed \cap Interactive) :
       \E g \in [(Unprimed \cap Interactive) \ H -> 0 .. Chunks],
          F \in SUBSET ((Unprimed \cap Interactive) \ H) :
          /\ \A r \in H : ses[r].hold < MaxHold
          /\ ses' = [r \in Requests |-> IF r \in (Unprimed \cap Interactive) \ H
                        THEN [ses[r] EXCEPT !.pre = g[r]]
                        ELSE IF r \in H THEN [ses[r] EXCEPT !.hold = @ + 1]
                        ELSE ses[r]]
          /\ EndAll(F) /\ finished' = finished \cup F
  BY DEF PrefillInteractive
<1> DEFINE P == (Unprimed \cap Interactive) \ H
<1>2. PICK g \in [P -> 0 .. Chunks], F \in SUBSET P :
          /\ \A r \in H : ses[r].hold < MaxHold
          /\ ses' = [r \in Requests |-> IF r \in P THEN [ses[r] EXCEPT !.pre = g[r]]
                        ELSE IF r \in H THEN [ses[r] EXCEPT !.hold = @ + 1]
                        ELSE ses[r]]
          /\ EndAll(F) /\ finished' = finished \cup F
  BY <1>1
<1>3. F \in SUBSET Live
  BY DEF Unprimed, InMode
<1> HIDE DEF P
<1>4. /\ ses' \in [Requests -> Sessions]
      /\ \A r \in Requests : ses'[r].mode = ses[r].mode /\ ses'[r].gen = ses[r].gen
  <2>1. ses \in [Requests -> Sessions] /\ MaxHold \in Nat
    BY <1>0, TickTypes DEF SchedulerAssumption
  <2> SUFFICES ASSUME NEW r \in Requests
               PROVE  /\ ses'[r] \in Sessions
                      /\ ses'[r].mode = ses[r].mode /\ ses'[r].gen = ses[r].gen
    BY <1>2
  <2>2. ses[r] \in Sessions
    BY <2>1
  <2>3. CASE r \in P
    <3>1. ses'[r] = [ses[r] EXCEPT !.pre = g[r]] /\ g[r] \in 0 .. Chunks
      BY <1>2, <2>3
    <3> QED BY <2>2, <3>1 DEF Sessions
  <2>4. CASE r \notin P /\ r \in H
    <3>1. ses'[r] = [ses[r] EXCEPT !.hold = @ + 1]
      BY <1>2, <2>4
    <3>2. ses[r].hold + 1 \in 0 .. MaxHold
      BY <1>2, <2>1, <2>2, <2>4 DEF Sessions
    <3> QED BY <2>2, <3>1, <3>2 DEF Sessions
  <2>5. CASE r \notin P /\ r \notin H
    BY <1>2, <2>2, <2>5
  <2> QED BY <2>3, <2>4, <2>5
<1>5. EndStep /\ ModeStep /\ TokenStep
  BY <1>0, <1>2, <1>3, <1>4, FailStep
<1>6. TickStep
  BY <1>0, <1>5 DEF TickStep
<1>7. RestOK'
  BY <1>0, TickTypes DEF RestOK, Phases
<1>8. Phased'
  BY <1>0 DEF Phased, Active
<1>9. GraphAlone'
  BY <1>0, <1>4, <1>5, AloneKept
<1> QED BY <1>6, <1>7, <1>8, <1>9 DEF TickGoal

\* The batched decode.
LEMMA DecodeTick ==
    ASSUME SchedInv, SchedulerAssumption, Decode PROVE TickGoal
<1> USE DEF SchedInv
<1> DEFINE R == InMode("plain") \ Unprimed
<1>0. /\ TypeOK /\ phase = "decode" /\ phase' = "dark" /\ todo = <<>>
      /\ UNCHANGED <<arrived, closed, chan, queue, requeue, vram_defers, active,
                     requeue_oom, oom_retries, todo>>
  BY DEF Decode, clientVars, waitVars, Phased
<1>1. PICK o \in [R -> Outcomes], F \in SUBSET R :
          /\ \A r \in F : Goes(r, o[r])
          /\ Emitted(R, o) /\ Stopped(R, o, F)
          /\ late' = Stale(R, o) \/ late' = Stale(R \ F, o)
  BY DEF Decode
<1>2. /\ ses' = [r \in Requests |-> IF r \in R
                     THEN [ses[r] EXCEPT !.gen = Counted(r)] ELSE ses[r]]
      /\ decoded' = (R # {})
  BY DEF Decode
<1>3. R \in SUBSET Live /\ R \subseteq Requests
  BY <1>0, TickTypes DEF InMode
<1> HIDE DEF R
<1>4. /\ ses' \in [Requests -> Sessions]
      /\ \A r \in Requests : ses'[r].mode = ses[r].mode
      /\ \A r \in R : ses'[r].gen = Counted(r)
      /\ \A r \in Requests \ R : ses'[r] = ses[r]
  <2>1. ses \in [Requests -> Sessions]
    BY <1>0, TickTypes
  <2>2. ASSUME NEW r \in Requests
        PROVE  /\ ses'[r] \in Sessions /\ ses'[r].mode = ses[r].mode
               /\ r \in R => ses'[r].gen = Counted(r)
               /\ r \notin R => ses'[r] = ses[r]
    <3>1. ses[r] \in Sessions /\ Counted(r) \in Nat
      BY <2>1 DEF Counted, Sessions
    <3>2. ses'[r] = IF r \in R THEN [ses[r] EXCEPT !.gen = Counted(r)] ELSE ses[r]
      BY <1>2
    <3> QED BY <3>1, <3>2 DEF Sessions
  <2> QED BY <1>2, <1>3, <2>2
<1>5. EndStep /\ TokenStep
  BY <1>0, <1>1, <1>3, <1>4, Sampling
<1>6. ModeStep
  BY <1>4 DEF ModeStep
<1>7. TickStep
  BY <1>0, <1>5, <1>6 DEF TickStep
<1>8. RestOK'
  <2>1. late' \in BOOLEAN
    BY <1>0, <1>1, TickTypes, Zenon DEF Stale
  <2>2. decoded' \in BOOLEAN
    BY <1>2, Zenon
  <2> QED BY <1>0, <2>1, <2>2, TickTypes DEF RestOK, Phases
<1>9. Phased'
  BY <1>0 DEF Phased, Active
<1>10. GraphAlone'
  BY <1>0, <1>4, <1>5, AloneKept
<1> QED BY <1>7, <1>8, <1>9, <1>10 DEF TickGoal

\* Dark prompts prime together.
LEMMA DarkBatchTick ==
    ASSUME SchedInv, SchedulerAssumption, DarkBatch PROVE TickGoal
<1> USE DEF SchedInv
<1>0. /\ TypeOK /\ phase = "dark" /\ phase' = "retire" /\ todo = <<>>
      /\ UNCHANGED <<arrived, closed, stream, ended, chan, queue, requeue, vram_defers, active,
                     finished, requeue_oom, oom_retries, todo, decoded, late>>
  BY DEF DarkBatch, clientVars, waitVars, outVars, tickVars, Phased
<1>1. PICK B \in SUBSET DarkUnprimed :
          ses' = [r \in Requests |-> IF r \in B THEN [ses[r] EXCEPT !.pre = 0] ELSE ses[r]]
  BY DEF DarkBatch
<1>2. /\ ses' \in [Requests -> Sessions]
      /\ \A r \in Requests : ses'[r].mode = ses[r].mode /\ ses'[r].gen = ses[r].gen
  <2>1. ses \in [Requests -> Sessions] /\ 0 \in 0 .. Chunks
    BY <1>0, TickTypes DEF SchedulerAssumption
  <2>2. ASSUME NEW r \in Requests
        PROVE  /\ ses'[r] \in Sessions
               /\ ses'[r].mode = ses[r].mode /\ ses'[r].gen = ses[r].gen
    <3>1. ses[r] \in Sessions
      BY <2>1
    <3>2. ses'[r] = IF r \in B THEN [ses[r] EXCEPT !.pre = 0] ELSE ses[r]
      BY <1>1
    <3> QED BY <2>1, <3>1, <3>2 DEF Sessions
  <2> QED BY <1>1, <2>2
<1>3. EndStep /\ ModeStep /\ TokenStep
  BY <1>0, <1>2, QuietStep
<1>4. TickStep
  BY <1>0, <1>3 DEF TickStep
<1>5. RestOK'
  BY <1>0, TickTypes DEF RestOK, Phases
<1>6. Phased'
  BY <1>0 DEF Phased, Active
<1>7. GraphAlone'
  BY <1>0, <1>2, <1>3, AloneKept
<1> QED BY <1>4, <1>5, <1>6, <1>7 DEF TickGoal

\* The first session of a set is one of them.
LEMMA FirstOf ==
    ASSUME TypeOK, NEW R, R \subseteq Active, R # {}
    PROVE  First(R) \in R
<1> DEFINE At(r) == CHOOSE i \in DOMAIN active : active[i] = r
           T == {At(r) : r \in R}
<1>1. \A r \in R : At(r) \in DOMAIN active
  BY DEF Active, Range
<1>2. DOMAIN active \subseteq Nat
  <2>1. active \in Seq(Requests)
    BY DEF TypeOK
  <2> QED BY <2>1
<1>3. T \subseteq Nat /\ T # {}
  <2> HIDE DEF At
  <2> QED BY <1>1, <1>2
<1>4. PICK n \in T : \A m \in T : n <= m
  <2> HIDE DEF T
  <2> QED BY <1>3, LeastNat
<1>5. \E r \in R : \A q \in R : At(r) <= At(q)
  <2> HIDE DEF At
  <2> QED BY <1>4
<1> QED BY <1>5, Zenon DEF First

\* A dark prompt primes by a chunk.
LEMMA DarkChunkTick ==
    ASSUME SchedInv, SchedulerAssumption, DarkChunk PROVE TickGoal
<1> USE DEF SchedInv
<1> DEFINE r == First(DarkUnprimed)
<1>0. /\ TypeOK /\ phase = "dark" /\ phase' = "retire" /\ todo = <<>>
      /\ UNCHANGED <<arrived, closed, stream, chan, queue, requeue, vram_defers, active,
                     requeue_oom, oom_retries, todo, decoded, late>>
  BY DEF DarkChunk, clientVars, waitVars, Phased
<1>1. r \in Live /\ Live \subseteq Requests
  <2>1. DarkUnprimed # {} /\ DarkUnprimed \subseteq Active /\ DarkUnprimed \subseteq Live
    BY <1>0 DEF DarkChunk, DarkUnprimed, Unprimed, InMode, Live
  <2> QED BY <1>0, <2>1, FirstOf, TickTypes
<1>2. \/ /\ \E n \in 0 .. Chunks : n < ses[r].pre /\ ses' = [ses EXCEPT ![r].pre = n]
         /\ UNCHANGED <<ended, finished>>
      \/ End(r) /\ finished' = finished \cup {r} /\ UNCHANGED ses
  BY DEF DarkChunk
<1> HIDE DEF r
<1>3. /\ EndStep /\ ModeStep /\ TokenStep
      /\ \A q \in Requests : ses'[q].mode = ses[q].mode
  <2>0. ses \in [Requests -> Sessions]
    BY <1>0, TickTypes
  <2>1. CASE /\ \E n \in 0 .. Chunks : n < ses[r].pre /\ ses' = [ses EXCEPT ![r].pre = n]
             /\ UNCHANGED <<ended, finished>>
    <3>1. PICK n \in 0 .. Chunks : ses' = [ses EXCEPT ![r].pre = n]
      BY <2>1
    <3>2. ses[r] \in Sessions /\ ses'[r] = [ses[r] EXCEPT !.pre = n]
      BY <1>1, <2>0, <3>1
    <3>3. ses'[r] \in Sessions /\ ses'[r].mode = ses[r].mode /\ ses'[r].gen = ses[r].gen
      BY <3>2 DEF Sessions
    <3>4. \A q \in Requests \ {r} : ses'[q] = ses[q]
      BY <2>0, <3>1
    <3>5. /\ ses' \in [Requests -> Sessions]
          /\ \A q \in Requests : ses'[q].mode = ses[q].mode /\ ses'[q].gen = ses[q].gen
      BY <2>0, <3>1, <3>3, <3>4
    <3> QED BY <1>0, <2>1, <3>5, QuietStep
  <2>2. CASE End(r) /\ finished' = finished \cup {r} /\ UNCHANGED ses
    <3>1. {r} \in SUBSET Live /\ EndAll({r})
      BY <1>1, <2>2 DEF End
    <3> QED BY <1>0, <2>0, <2>2, <3>1, FailStep
  <2> QED BY <1>2, <2>1, <2>2
<1>4. TickStep
  BY <1>0, <1>3 DEF TickStep
<1>5. RestOK'
  BY <1>0, TickTypes DEF RestOK, Phases
<1>6. Phased'
  BY <1>0 DEF Phased, Active
<1>7. GraphAlone'
  BY <1>0, <1>3, AloneKept
<1> QED BY <1>4, <1>5, <1>6, <1>7 DEF TickGoal

\* The number of spec sessions can only shrink when nobody joins.
LEMMA FewerSpec ==
    ASSUME SchedulerAssumption, TypeOK, NEW A, A \subseteq Active,
           Cardinality({r \in Active : ses[r].mode = "spec"}) <= SpecLow,
           \A r \in A : ses'[r].mode = "spec" => ses[r].mode = "spec"
    PROVE  Cardinality({r \in A : ses'[r].mode = "spec"}) <= SpecLow
<1> DEFINE S == {r \in Active : ses[r].mode = "spec"}
           T == {r \in A : ses'[r].mode = "spec"}
<1>1. IsFiniteSet(Requests) /\ Active \in SUBSET Requests
  BY TickTypes DEF SchedulerAssumption
<1>2. S \in SUBSET Requests /\ T \in SUBSET S
  BY <1>1
<1> HIDE DEF S, T
<1>3. IsFiniteSet(S)
  BY <1>1, <1>2, FS_Subset, Zenon
<1>4. IsFiniteSet(T) /\ Cardinality(T) <= Cardinality(S)
  BY <1>2, <1>3, FS_Subset, Zenon
<1>5. Cardinality(S) \in Nat /\ Cardinality(T) \in Nat /\ SpecLow \in Nat
  BY <1>3, <1>4, FS_CardinalityType DEF SchedulerAssumption
<1>6. Cardinality(S) <= SpecLow
  BY DEF S
<1>7. Cardinality(T) <= SpecLow
  BY <1>4, <1>5, <1>6
<1> QED BY <1>7 DEF T

\* A step of the tick that parks nobody keeps the invariant.
LEMMA TickKeeps ==
    ASSUME SchedInv, SchedulerAssumption, TickGoal PROVE SchedInv'
<1> USE DEF SchedInv, TickGoal
<1>1. /\ Waiting' = Waiting /\ Active' = Active /\ Submitted' = Submitted /\ Retried' = Retried
      /\ Range(requeue_oom)' = Range(requeue_oom) /\ closed' = closed
  BY DEF TickStep, Waiting, Active, Submitted, Retried
<1>2. PICK E \in SUBSET Live :
        /\ ended' = [r \in Requests |-> IF r \in E \ closed THEN ended[r] + 1 ELSE ended[r]]
        /\ finished \subseteq finished' /\ finished' \subseteq Active
        /\ E \ closed \subseteq finished'
        /\ finished' \subseteq finished \cup E \cup closed
  BY DEF TickStep, EndStep
<1>3. Live' \subseteq Live /\ Live \subseteq Requests /\ ended \in [Requests -> Nat]
  BY <1>1, <1>2, TickTypes DEF Live
<1>4. TypeOK'
  <2>1. ended' \in [Requests -> Nat]
    BY <1>2, <1>3
  <2>2. finished' \subseteq Active'
    BY <1>1, <1>2
  <2>3. stream' \in [Requests -> Seq(Nat)] /\ ses' \in [Requests -> Sessions]
    BY DEF TickStep, TokenStep, ModeStep
  <2>4. /\ arrived' \in Seq(Requests) /\ chan' \in Seq(Requests)
        /\ queue' \in Seq(Requests) /\ requeue' \in Seq(Requests)
        /\ requeue_oom' \in Seq(Requests) /\ active' \in Seq(Requests)
        /\ closed' \subseteq Requests /\ oom_retries' \in [Requests -> 0 .. OomRetries]
        /\ vram_defers' \subseteq Requests
    BY DEF TypeOK, TickStep
  <2> QED BY <2>1, <2>2, <2>3, <2>4 DEF TypeOK, Sessions, RestOK
<1>5. Places'
  <2>1. Range(requeue_oom) \subseteq finished'
    BY <1>2 DEF Places
  <2> QED BY <1>1, <2>1 DEF Places, TickStep
<1>6. Phased' /\ GraphAlone'
  OBVIOUS
<1>7. Answers'
  <2>0. InHand' = Waiting \cup Range(requeue_oom) \cup Live'
    BY <1>1 DEF InHand
  <2>00. /\ Waiting \cap Live = {} /\ Range(requeue_oom) \cap Live = {}
    BY DEF Places, Live
  <2>1. ASSUME NEW r \in Submitted \ closed, ended'[r] = 0 PROVE r \in InHand'
    <3>0. r \in Requests
      BY DEF TypeOK, Submitted, Range
    <3>1. r \notin E /\ ended[r] = 0
      BY <1>2, <1>3, <2>1, <3>0
    <3>2. r \in InHand
      BY <2>1, <3>1 DEF Answers
    <3>3. r \in Live => r \in Live'
      BY <1>1, <1>2, <2>1, <3>1 DEF Live
    <3> QED BY <2>0, <3>2, <3>3 DEF InHand
  <2>2. ASSUME NEW r \in Requests, ended'[r] > 0 PROVE r \in Submitted \ InHand'
    <3>1. CASE r \in E \ closed
      <4>1. r \notin Waiting /\ r \notin Range(requeue_oom)
        BY <2>00, <3>1
      <4>2. r \notin Live' /\ r \in Submitted
        BY <1>2, <3>1 DEF Live, Places
      <4> QED BY <2>0, <4>1, <4>2
    <3>2. CASE r \notin E \ closed
      <4>1. r \in Submitted \ InHand
        BY <1>2, <2>2, <3>2 DEF Answers
      <4> QED BY <1>3, <2>0, <4>1 DEF InHand
    <3> QED BY <3>1, <3>2
  <2> QED BY <1>1, <2>1, <2>2 DEF Answers
<1>8. Lines'
  <2>1. arrived' = arrived /\ requeue' = requeue /\ queue' = queue /\ chan' = chan
    BY DEF TickStep
  <2> QED BY <1>1, <2>1 DEF Lines, InLine
<1>9. Barred'
  BY <1>1 DEF Barred, TickStep
<1>10. LaneCaps'
  <2>1. \A r \in Active : ses'[r].mode = "spec" => ses[r].mode = "spec"
    BY TickTypes DEF TickStep, ModeStep
  <2>2. Cardinality({r \in Active : ses'[r].mode = "spec"}) <= SpecLow
    BY <2>1, FewerSpec DEF LaneCaps
  <2> QED BY <1>1, <2>2 DEF LaneCaps
<1>11. Streams'
  <2> SUFFICES ASSUME NEW r \in Requests \ Retried
               PROVE  /\ Exact(stream'[r])
                      /\ r \in Live' \ closed => Len(stream'[r]) = ses'[r].gen
                      /\ r \notin Active /\ ended'[r] = 0 /\ r \notin closed
                            => stream'[r] = <<>>
    BY <1>1 DEF Streams
  <2>1. /\ Exact(stream[r])
        /\ r \in Live \ closed => Len(stream[r]) = ses[r].gen
        /\ r \notin Active /\ ended[r] = 0 /\ r \notin closed => stream[r] = <<>>
    BY DEF Streams
  <2>2. CASE r \in Live \ closed
    BY <2>1, <2>2 DEF TickStep, TokenStep, Live
  <2>3. CASE r \notin Live \/ r \in closed
    <3>1. stream'[r] = stream[r]
      BY <2>3 DEF TickStep, TokenStep
    <3>2. r \notin Live' \ closed
      BY <1>3, <2>3
    <3>3. r \notin Active => ended'[r] = ended[r]
      BY <1>2 DEF Live
    <3> QED BY <2>1, <3>1, <3>2, <3>3
  <2> QED BY <2>2, <2>3
<1> QED BY <1>4, <1>5, <1>6, <1>7, <1>8, <1>9, <1>10, <1>11

-----------------------------------------------------------------------------
(* The line: who waits before whom. *)

\* One more at the end.
LEMMA PairAppend ==
    ASSUME NEW X, NEW s \in Seq(X), NEW x \in X, NEW R
    PROVE  Pairwise(Append(s, x), R) <=>
               Pairwise(s, R) /\ \A y \in Range(s) : <<y, x>> \in R
<1>1. /\ DOMAIN Append(s, x) = 1 .. Len(s) + 1 /\ DOMAIN s = 1 .. Len(s) /\ Len(s) \in Nat
      /\ Append(s, x)[Len(s) + 1] = x
      /\ \A i \in 1 .. Len(s) : Append(s, x)[i] = s[i]
  OBVIOUS
<1> DEFINE a == Append(s, x)
           n == Len(s)
<1>2. /\ DOMAIN a = 1 .. n + 1 /\ DOMAIN s = 1 .. n /\ n \in Nat /\ a[n + 1] = x
      /\ \A i \in 1 .. n : a[i] = s[i]
  BY <1>1
<1> HIDE DEF a, n
<1>3. ASSUME Pairwise(a, R) PROVE Pairwise(s, R) /\ \A y \in Range(s) : <<y, x>> \in R
  <2>1. \A i, j \in 1 .. n : i < j => <<s[i], s[j]>> \in R
    <3> SUFFICES ASSUME NEW i \in 1 .. n, NEW j \in 1 .. n, i < j PROVE <<s[i], s[j]>> \in R
      OBVIOUS
    <3>1. i \in DOMAIN a /\ j \in DOMAIN a /\ a[i] = s[i] /\ a[j] = s[j]
      BY <1>2
    <3> QED BY <1>3, <3>1 DEF Pairwise
  <2>2. \A i \in 1 .. n : <<s[i], x>> \in R
    <3> SUFFICES ASSUME NEW i \in 1 .. n PROVE <<s[i], x>> \in R
      OBVIOUS
    <3>1. i \in DOMAIN a /\ n + 1 \in DOMAIN a /\ i < n + 1 /\ a[i] = s[i] /\ a[n + 1] = x
      BY <1>2
    <3> QED BY <1>3, <3>1 DEF Pairwise
  <2> QED BY <1>2, <2>1, <2>2 DEF Pairwise, Range
<1>4. ASSUME Pairwise(s, R), \A y \in Range(s) : <<y, x>> \in R PROVE Pairwise(a, R)
  <2> SUFFICES ASSUME NEW i \in 1 .. n + 1, NEW j \in 1 .. n + 1, i < j
               PROVE  <<a[i], a[j]>> \in R
    BY <1>2 DEF Pairwise
  <2>1. i \in 1 .. n /\ a[i] = s[i] /\ s[i] \in Range(s)
    BY <1>2 DEF Range
  <2>2. CASE j \in 1 .. n
    BY <1>2, <1>4, <2>1, <2>2 DEF Pairwise
  <2>3. CASE j = n + 1
    BY <1>2, <1>4, <2>1, <2>3
  <2> QED BY <1>2, <2>2, <2>3
<1> QED BY <1>3, <1>4 DEF a

\* One less at the front.
LEMMA PairTail ==
    ASSUME NEW X, NEW s \in Seq(X), s # <<>>, NEW R, Pairwise(s, R)
    PROVE  Pairwise(Tail(s), R) /\ \A y \in Range(Tail(s)) : <<Head(s), y>> \in R
<1> DEFINE n == Len(s)
           t == Tail(s)
<1>1. /\ DOMAIN s = 1 .. n /\ n \in Nat /\ n >= 1 /\ DOMAIN t = 1 .. n - 1
      /\ Head(s) = s[1] /\ \A i \in 1 .. n - 1 : t[i] = s[i + 1]
  OBVIOUS
<1> HIDE DEF n, t
<1>2. ASSUME NEW i \in 1 .. n - 1, NEW j \in 1 .. n - 1, i < j PROVE <<t[i], t[j]>> \in R
  <2>1. i + 1 \in DOMAIN s /\ j + 1 \in DOMAIN s /\ i + 1 < j + 1
    BY <1>1, <1>2
  <2> QED BY <1>1, <2>1 DEF Pairwise
<1>3. ASSUME NEW i \in 1 .. n - 1 PROVE <<s[1], t[i]>> \in R
  <2>1. 1 \in DOMAIN s /\ i + 1 \in DOMAIN s /\ 1 < i + 1
    BY <1>1
  <2> QED BY <1>1, <2>1 DEF Pairwise
<1>4. Pairwise(t, R)
  BY <1>1, <1>2, Zenon DEF Pairwise
<1>5. \A y \in Range(t) : <<Head(s), y>> \in R
  BY <1>1, <1>3, Zenon DEF Range
<1> QED BY <1>4, <1>5 DEF t

\* One line after another.
LEMMA PairConcat ==
    ASSUME NEW X, NEW s \in Seq(X), NEW t \in Seq(X), NEW R,
           Pairwise(s, R), Pairwise(t, R), Across(s, t, R)
    PROVE  Pairwise(s \o t, R)
<1> DEFINE m == Len(s)
           n == Len(t)
           st == s \o t
<1>1. /\ DOMAIN s = 1 .. m /\ DOMAIN t = 1 .. n /\ m \in Nat /\ n \in Nat
      /\ DOMAIN st = 1 .. m + n
      /\ \A i \in 1 .. m + n : st[i] = IF i <= m THEN s[i] ELSE t[i - m]
  OBVIOUS
<1> HIDE DEF m, n, st
<1>2. SUFFICES ASSUME NEW i \in 1 .. m + n, NEW j \in 1 .. m + n, i < j
               PROVE  <<st[i], st[j]>> \in R
  BY <1>1 DEF Pairwise, st
<1>3. CASE j <= m
  <2>1. i \in 1 .. m /\ j \in 1 .. m /\ st[i] = s[i] /\ st[j] = s[j]
    BY <1>1, <1>2, <1>3
  <2> QED BY <1>1, <1>2, <2>1 DEF Pairwise
<1>4. CASE i > m
  <2>1. /\ i - m \in 1 .. n /\ j - m \in 1 .. n /\ i - m < j - m
        /\ st[i] = t[i - m] /\ st[j] = t[j - m]
    BY <1>1, <1>2, <1>4
  <2> QED BY <1>1, <2>1 DEF Pairwise
<1>5. CASE i <= m /\ j > m
  <2>1. i \in 1 .. m /\ j - m \in 1 .. n /\ st[i] = s[i] /\ st[j] = t[j - m]
    BY <1>1, <1>5
  <2>2. s[i] \in Range(s) /\ t[j - m] \in Range(t)
    BY <1>1, <2>1 DEF Range
  <2> QED BY <2>1, <2>2 DEF Across
<1> QED BY <1>1, <1>3, <1>4, <1>5

\* What arrives is behind all that came before it.
LEMMA BeforeAppend ==
    ASSUME NEW X, NEW s \in Seq(X), NEW x \in X
    PROVE  /\ \A y \in Range(s) : Before(Append(s, x), y, x)
           /\ \A y, z : Before(s, y, z) => Before(Append(s, x), y, z)
<1> DEFINE a == Append(s, x)
           n == Len(s)
<1>1. /\ DOMAIN a = 1 .. n + 1 /\ DOMAIN s = 1 .. n /\ n \in Nat /\ a[n + 1] = x
      /\ \A i \in 1 .. n : a[i] = s[i]
  OBVIOUS
<1> HIDE DEF a, n
<1>2. ASSUME NEW y \in Range(s) PROVE Before(a, y, x)
  <2>1. PICK i \in 1 .. n : s[i] = y
    BY <1>1 DEF Range
  <2>2. i \in DOMAIN a /\ n + 1 \in DOMAIN a /\ i < n + 1 /\ a[i] = y
    BY <1>1, <2>1
  <2> QED BY <1>1, <2>2 DEF Before
<1>3. ASSUME NEW y, NEW z, Before(s, y, z) PROVE Before(a, y, z)
  <2>1. PICK i \in 1 .. n, j \in 1 .. n : i < j /\ s[i] = y /\ s[j] = z
    BY <1>1, <1>3 DEF Before
  <2>2. i \in DOMAIN a /\ j \in DOMAIN a /\ a[i] = y /\ a[j] = z
    BY <1>1, <2>1
  <2> QED BY <2>1, <2>2 DEF Before
<1> QED BY <1>2, <1>3 DEF a

\* Of two requests that arrived once each, one came first.
LEMMA BeforeOneWay ==
    ASSUME NEW X, NEW s \in Seq(X), Once(s), NEW x, NEW y, Before(s, x, y)
    PROVE  ~Before(s, y, x)
<1>1. DOMAIN s \subseteq Nat
  OBVIOUS
<1> QED BY <1>1 DEF Before, Once

\* The relation may grow on what is in line.
LEMMA LineGrows ==
    ASSUME NEW R, NEW S, InLine(R),
           \A x, y \in Waiting : <<x, y>> \in R => <<x, y>> \in S
    PROVE  InLine(S)
  BY DEF InLine, Pairwise, Across, Waiting, Range

-----------------------------------------------------------------------------
(* The other steps of the worker, and the clients'. *)

\* A burst that ran out of device memory before its first token parks its
\* request.
GetsParked(r) ==
    /\ AtBurst(r) /\ r \notin finished /\ BurstRoom(r) > 0
    /\ \E n \in 0 .. BurstRoom(r) : Flushed(r, n)
    /\ finished' = finished \cup {r}
    /\ MayPark(r) /\ CountRetry(r)
    /\ requeue_oom' = Append(requeue_oom, r)
    /\ UNCHANGED ended
    /\ UNCHANGED <<clientVars, waitVars, active, ses, decoded, late, phase>>

\* A burst fails in one of two ways.
LEMMA BurstFailsCases ==
    ASSUME NEW r, BurstFails(r) PROVE FailsForGood(r) \/ GetsParked(r)
  BY DEF BurstFails, FailsForGood, GetsParked

\* Parking keeps the request in hand: it moves from the live sessions to the
\* parked ones, which stand before everyone.
LEMMA ParkKeeps ==
    ASSUME SchedInv, SchedulerAssumption, NEW r \in Requests, GetsParked(r)
    PROVE  SchedInv'
<1> USE DEF SchedInv
<1>0. /\ TypeOK /\ AtBurst(r) /\ r \notin finished
      /\ finished' = finished \cup {r} /\ requeue_oom' = Append(requeue_oom, r)
      /\ UNCHANGED <<arrived, closed, ended, chan, queue, requeue, vram_defers, active, ses,
                     decoded, late, phase>>
      /\ oom_retries[r] < OomRetries
      /\ oom_retries' = [oom_retries EXCEPT ![r] = @ + 1]
  BY DEF GetsParked, clientVars, waitVars, MayPark, CountRetry
<1>1. /\ phase = "burst" /\ r \in Active
      /\ todo' \in Seq(Requests) /\ Range(todo') \subseteq Active
  BY <1>0, BurstHead
<1>2. /\ requeue_oom \in Seq(Requests) /\ oom_retries \in [Requests -> 0 .. OomRetries]
      /\ stream \in [Requests -> Seq(Nat)] /\ ses \in [Requests -> Sessions]
      /\ OomRetries \in Nat
  BY DEF TypeOK, Sessions, SchedulerAssumption
<1>3. /\ requeue_oom' \in Seq(Requests) /\ Range(requeue_oom') = Range(requeue_oom) \cup {r}
      /\ Once(requeue_oom')
  <2>1. r \notin Range(requeue_oom) /\ Once(requeue_oom)
    BY <1>0 DEF Places
  <2> QED BY <1>0, <1>2, <2>1, AppendFacts
<1>4. /\ oom_retries' \in [Requests -> 0 .. OomRetries]
      /\ \A q \in Requests \ {r} : oom_retries'[q] = oom_retries[q]
      /\ oom_retries'[r] > 0
  BY <1>0, <1>2
<1>5. stream' \in [Requests -> Seq(Nat)] /\ \A q \in Requests \ {r} : stream'[q] = stream[q]
  <2>1. ses[r].gen \in Nat /\ BurstRoom(r) \in Int
    BY <1>2 DEF Sessions, SchedulerAssumption, Budget, BurstRoom
  <2>2. PICK n \in 0 .. BurstRoom(r) : Flushed(r, n)
    BY DEF GetsParked
  <2>3. n \in Nat
    BY <2>1
  <2> DEFINE t == stream[r] \o [i \in 1 .. n |-> ses[r].gen + i]
  <2>4. t \in Seq(Nat)
    BY <1>2, <2>1, <2>3, ExactBurst
  <2>5. stream' = [stream EXCEPT ![r] = IF r \in closed THEN stream[r] ELSE t]
    BY <1>2, <2>2 DEF Flushed
  <2> HIDE DEF t
  <2> QED BY <1>2, <2>4, <2>5
<1>6. /\ Waiting' = Waiting /\ Active' = Active /\ Submitted' = Submitted
      /\ Live' = Live \ {r} /\ Live \subseteq Active /\ Active \subseteq Requests
      /\ Retried' = Retried \cup {r}
  <2>1. Waiting' = Waiting /\ Active' = Active /\ Submitted' = Submitted
    BY <1>0 DEF Waiting, Active, Submitted
  <2>2. Live' = Live \ {r} /\ Live \subseteq Active /\ Active \subseteq Requests
    BY <1>0, <2>1, TickTypes DEF Live
  <2>3. Retried' = Retried \cup {r}
    BY <1>4 DEF Retried
  <2> QED BY <2>1, <2>2, <2>3
<1>7. r \notin Waiting /\ r \in Submitted
  BY <1>1 DEF Places
<1>8. TypeOK'
  <2>1. finished' \subseteq Active'
    BY <1>0, <1>1, <1>6 DEF TypeOK
  <2> QED BY <1>0, <1>1, <1>3, <1>4, <1>5, <2>1 DEF TypeOK
<1>9. Places'
  BY <1>0, <1>3, <1>6 DEF Places
<1>10. Phased'
  BY <1>0, <1>1, <1>6 DEF Phased
<1>11. GraphAlone'
  BY <1>0, <1>6 DEF GraphAlone, InMode
<1>12. Answers'
  <2>1. InHand' = InHand
    <3>1. r \in Live
      BY <1>0, <1>1 DEF Live
    <3> QED BY <1>3, <1>6, <3>1 DEF InHand
  <2> QED BY <1>0, <1>6, <2>1 DEF Answers
<1>13. Lines'
  <2> DEFINE R == MayPrecede(Retried, arrived)
             S == MayPrecede(Retried \cup {r}, arrived)
  <2>1. \A x, y \in Waiting : <<x, y>> \in R => <<x, y>> \in S
    BY <1>7 DEF MayPrecede
  <2>2. InLine(R)
    BY DEF Lines
  <2> HIDE DEF R, S
  <2>3. InLine(S)
    BY <2>1, <2>2, LineGrows
  <2>5. MayPrecede(Retried, arrived)' = S
    BY <1>0, <1>6 DEF S
  <2>6. InLine(MayPrecede(Retried, arrived))'
    BY <1>0, <2>3, <2>5 DEF InLine
  <2>7. Range(requeue_oom') \subseteq Retried' /\ Retried' \subseteq Submitted' \ Range(chan')
    BY <1>0, <1>3, <1>6, <1>7 DEF Lines, Waiting
  <2> QED BY <1>0, <2>6, <2>7 DEF Lines
<1>14. Barred'
  BY <1>0, <1>6 DEF Barred
<1>15. LaneCaps'
  BY <1>0, <1>6 DEF LaneCaps
<1>16. Streams'
  <2> SUFFICES ASSUME NEW q \in Requests \ Retried'
               PROVE  /\ Exact(stream'[q])
                      /\ q \in Live' \ closed => Len(stream'[q]) = ses[q].gen
                      /\ q \notin Active /\ ended[q] = 0 /\ q \notin closed => stream'[q] = <<>>
    BY <1>0, <1>6 DEF Streams
  <2>1. q \in Requests \ Retried /\ q # r
    BY <1>6
  <2> QED BY <1>5, <1>6, <2>1 DEF Streams
<1> QED BY <1>8, <1>9, <1>10, <1>11, <1>12, <1>13, <1>14, <1>15, <1>16

\* A new request goes behind all that wait.
LEMMA SubmitKeeps ==
    ASSUME SchedInv, SchedulerAssumption, NEW r \in Requests, Submit(r)
    PROVE  SchedInv'
<1> USE DEF SchedInv
<1>0. /\ TypeOK /\ r \notin Submitted
      /\ arrived' = Append(arrived, r) /\ chan' = Append(chan, r)
      /\ UNCHANGED <<closed, stream, ended, queue, requeue, vram_defers, active, ses, finished,
                     requeue_oom, oom_retries, todo, decoded, late, phase>>
  BY DEF Submit, outVars, tickVars
<1>1. arrived \in Seq(Requests) /\ chan \in Seq(Requests)
  BY DEF TypeOK
<1>2. r \notin Range(chan) /\ r \notin Waiting /\ r \notin Active /\ r \notin Retried
  BY <1>0 DEF Places, Waiting, Lines
<1>3. /\ arrived' \in Seq(Requests) /\ Submitted' = Submitted \cup {r} /\ Once(arrived')
  <2>1. Once(arrived) /\ r \notin Range(arrived)
    BY <1>0 DEF Lines, Submitted
  <2> QED BY <1>0, <1>1, <2>1, AppendFacts DEF Submitted
<1>4. chan' \in Seq(Requests) /\ Range(chan') = Range(chan) \cup {r} /\ Once(chan')
  BY <1>0, <1>1, <1>2, AppendFacts DEF Places
<1>5. /\ Waiting' = Waiting \cup {r} /\ Active' = Active /\ Live' = Live /\ Retried' = Retried
  BY <1>0, <1>4 DEF Waiting, Active, Live, Retried
<1>6. TypeOK'
  BY <1>0, <1>3, <1>4, <1>5 DEF TypeOK
<1>7. Places'
  BY <1>0, <1>2, <1>3, <1>4, <1>5 DEF Places, Waiting
<1>8. Phased' /\ GraphAlone' /\ Barred' /\ LaneCaps'
  BY <1>0, <1>5 DEF Phased, GraphAlone, InMode, Barred, LaneCaps
<1>9. Answers'
  <2>1. InHand' = InHand \cup {r}
    BY <1>0, <1>5 DEF InHand
  <2>2. ended[r] = 0
    <3>1. ended[r] \in Nat
      BY DEF TypeOK
    <3> QED BY <1>0, <3>1 DEF Answers
  <2> QED BY <1>0, <1>3, <2>1, <2>2 DEF Answers
<1>10. Lines'
  <2> DEFINE R == MayPrecede(Retried, arrived)
             S == MayPrecede(Retried, arrived')
  <2>1. \A x, y \in Waiting : <<x, y>> \in R => <<x, y>> \in S
    <3>1. \A x, y : Before(arrived, x, y) => Before(arrived', x, y)
      BY <1>0, <1>1, BeforeAppend
    <3> QED BY <3>1 DEF MayPrecede
  <2>2. \A x \in Waiting : <<x, r>> \in S
    <3>1. \A x \in Submitted : Before(arrived', x, r)
      BY <1>0, <1>1, BeforeAppend DEF Submitted
    <3>2. Waiting \subseteq Submitted /\ Submitted \subseteq Requests
      BY <1>1 DEF Places, Submitted, Range
    <3> QED BY <1>2, <3>1, <3>2 DEF MayPrecede
  <2>3. InLine(R)
    BY DEF Lines
  <2> HIDE DEF R, S
  <2>4. InLine(S)
    BY <2>1, <2>3, LineGrows
  <2>5. Pairwise(chan', S)
    <3>1. Pairwise(chan, S) /\ \A x \in Range(chan) : <<x, r>> \in S
      BY <2>2, <2>4 DEF InLine, Waiting
    <3> QED BY <1>0, <1>1, <3>1, PairAppend
  <2>6. Across(requeue, chan', S) /\ Across(queue, chan', S)
    BY <1>4, <2>2, <2>4 DEF InLine, Across, Waiting
  <2>7. InLine(MayPrecede(Retried, arrived))'
    <3>1. MayPrecede(Retried, arrived)' = S
      BY <1>5 DEF S
    <3> QED BY <1>0, <2>4, <2>5, <2>6, <3>1 DEF InLine
  <2>8. Range(requeue_oom') \subseteq Retried' /\ Retried' \subseteq Submitted' \ Range(chan')
    BY <1>0, <1>2, <1>3, <1>4, <1>5 DEF Lines
  <2> QED BY <1>3, <2>7, <2>8 DEF Lines
<1>11. Streams'
  BY <1>0, <1>5 DEF Streams
<1> QED BY <1>6, <1>7, <1>8, <1>9, <1>10, <1>11

\* A client that leaves changes what it is owed, not who holds it.
LEMMA DisconnectKeeps ==
    ASSUME SchedInv, NEW r \in Requests, Disconnect(r)
    PROVE  SchedInv'
<1> USE DEF SchedInv
<1>0. /\ TypeOK /\ closed' = closed \cup {r}
      /\ UNCHANGED <<arrived, stream, ended, chan, queue, requeue, vram_defers, active, ses,
                     finished, requeue_oom, oom_retries, todo, decoded, late, phase>>
  BY DEF Disconnect, outVars, tickVars, waitVars
<1>1. /\ Waiting' = Waiting /\ Active' = Active /\ Live' = Live /\ Retried' = Retried
      /\ Submitted' = Submitted /\ InHand' = InHand
  BY <1>0 DEF Waiting, Active, Live, Retried, Submitted, InHand
<1>2. TypeOK'
  BY <1>0, <1>1 DEF TypeOK
<1>3. Places' /\ Phased' /\ GraphAlone' /\ Barred' /\ LaneCaps'
  BY <1>0, <1>1 DEF Places, Phased, GraphAlone, InMode, Barred, LaneCaps
<1>4. Answers'
  BY <1>0, <1>1 DEF Answers
<1>5. Lines'
  BY <1>0, <1>1 DEF Lines, InLine
<1>6. Streams'
  BY <1>0, <1>1 DEF Streams
<1> QED BY <1>2, <1>3, <1>4, <1>5, <1>6

\* Time passes, or the pass begins: nothing moves.
LEMMA SloKeeps ==
    ASSUME SchedInv, SloAgePasses \/ StartAdmission \/ UNCHANGED vars
    PROVE  SchedInv'
<1> USE DEF SchedInv
<1>0. /\ TypeOK /\ late' \in BOOLEAN /\ vram_defers' \subseteq Requests /\ phase' \in Phases
      /\ UNCHANGED <<arrived, closed, stream, ended, chan, queue, requeue, active, ses,
                     finished, requeue_oom, oom_retries, todo, decoded>>
      /\ (UNCHANGED <<phase, vram_defers>> \/ (phase = "recv" /\ phase' = "admit"))
  <2>1. CASE SloAgePasses
    BY <2>1 DEF TypeOK, SloAgePasses, outVars, tickVars, waitVars, clientVars
  <2>2. CASE StartAdmission
    BY <2>2 DEF TypeOK, StartAdmission, outVars, tickVars, clientVars, Phases
  <2>3. CASE UNCHANGED vars
    BY <2>3 DEF TypeOK, vars, outVars, tickVars, waitVars, clientVars
  <2> QED BY <2>1, <2>2, <2>3
<1>1. /\ Waiting' = Waiting /\ Active' = Active /\ Live' = Live /\ Retried' = Retried
      /\ Submitted' = Submitted /\ InHand' = InHand
  BY <1>0 DEF Waiting, Active, Live, Retried, Submitted, InHand
<1>2. TypeOK'
  BY <1>0, <1>1 DEF TypeOK
<1>3. Places' /\ Phased' /\ GraphAlone' /\ LaneCaps'
  BY <1>0, <1>1 DEF Places, Phased, GraphAlone, InMode, LaneCaps
<1>4. Barred'
  <2>1. CASE UNCHANGED <<phase, vram_defers>>
    BY <1>0, <1>1, <2>1 DEF Barred
  <2>2. CASE phase = "recv"
    <3>1. Range(requeue') = {}
      BY <1>0, <2>2 DEF Phased, Range
    <3> QED BY <3>1 DEF Barred
  <2> QED BY <1>0, <2>1, <2>2
<1>5. Answers'
  BY <1>0, <1>1 DEF Answers
<1>6. Lines'
  BY <1>0, <1>1 DEF Lines, InLine
<1>7. Streams'
  BY <1>0, <1>1 DEF Streams
<1> QED BY <1>2, <1>3, <1>4, <1>5, <1>6, <1>7

\* A request that waited is let go: told, or its client is gone.
LEMMA LetGo ==
    ASSUME TypeOK, Places, Answers, Streams, NEW r \in Waiting,
           EndAll({r}) \/ (r \in closed /\ ended' = ended),
           UNCHANGED <<arrived, closed, active, finished, stream, ses, oom_retries>>,
           Waiting' = Waiting \ {r}, Range(requeue_oom') = Range(requeue_oom)
    PROVE  ended' \in [Requests -> Nat] /\ Answers' /\ Streams'
<1>1. /\ Active' = Active /\ Live' = Live /\ Retried' = Retried /\ Submitted' = Submitted
  BY DEF Active, Live, Retried, Submitted
<1>2. /\ r \notin Active /\ r \notin Live /\ r \notin Range(requeue_oom)
      /\ r \in Submitted /\ r \in Requests
  <2>1. r \notin Active /\ r \in Submitted
    BY DEF Places
  <2>2. r \notin Live /\ r \notin Range(requeue_oom)
    BY <2>1 DEF Places, Live, TypeOK
  <2>3. arrived \in Seq(Requests)
    BY DEF TypeOK
  <2> QED BY <2>1, <2>2, <2>3 DEF Submitted, Range
<1>3. InHand' = InHand \ {r}
  BY <1>1, <1>2 DEF InHand
<1>4. ended \in [Requests -> Nat]
  BY DEF TypeOK
<1>5. /\ ended' \in [Requests -> Nat]
      /\ \A q \in Requests \ {r} : ended'[q] = ended[q]
      /\ r \notin closed => ended'[r] = ended[r] + 1
      /\ r \in closed => ended'[r] = ended[r]
  BY <1>2, <1>4 DEF EndAll
<1>6. Answers'
  <2>1. ASSUME NEW q \in Submitted \ closed, ended'[q] = 0 PROVE q \in InHand'
    <3>0. q \in Requests
      BY DEF TypeOK, Submitted, Range
    <3>1. q # r
      BY <1>2, <1>4, <1>5, <2>1
    <3>2. ended[q] = 0
      BY <1>5, <2>1, <3>0, <3>1
    <3> QED BY <1>3, <2>1, <3>1, <3>2 DEF Answers
  <2>2. ASSUME NEW q \in Requests, ended'[q] > 0 PROVE q \in Submitted \ InHand'
    <3>1. CASE q = r
      BY <1>2, <1>3, <3>1
    <3>2. CASE q # r
      <4>1. ended[q] > 0
        BY <1>5, <2>2, <3>2
      <4> QED BY <1>3, <4>1 DEF Answers
    <3> QED BY <3>1, <3>2
  <2> QED BY <1>1, <2>1, <2>2 DEF Answers
<1>7. Streams'
  <2> SUFFICES ASSUME NEW q \in Requests \ Retried
               PROVE  /\ Exact(stream[q])
                      /\ q \in Live \ closed => Len(stream[q]) = ses[q].gen
                      /\ q \notin Active /\ ended'[q] = 0 /\ q \notin closed => stream[q] = <<>>
    BY <1>1 DEF Streams
  <2>1. ended'[q] = 0 => ended[q] = 0
    BY <1>4, <1>5
  <2> QED BY <2>1 DEF Streams
<1> QED BY <1>5, <1>6, <1>7

\* A command leaves the channel for the queue, or is refused.
LEMMA HandleKeeps ==
    ASSUME SchedInv, SchedulerAssumption, HandleCmd PROVE SchedInv'
<1> USE DEF SchedInv
<1> DEFINE h == Head(chan)
           R == MayPrecede(Retried, arrived)
<1>0. /\ TypeOK /\ phase = "recv" /\ chan # <<>> /\ chan' = Tail(chan)
      /\ UNCHANGED <<arrived, closed, stream, requeue, vram_defers, active, ses, finished,
                     requeue_oom, oom_retries, todo, decoded, late, phase>>
      /\ \/ End(h) /\ UNCHANGED queue
         \/ queue' = Append(queue, h) /\ UNCHANGED ended
  BY DEF HandleCmd, clientVars, tickVars
<1>1. chan \in Seq(Requests) /\ queue \in Seq(Requests) /\ Once(chan) /\ Once(queue)
  BY DEF TypeOK, Places
<1>2. /\ h \in Requests /\ Tail(chan) \in Seq(Requests)
      /\ Range(chan) = {h} \cup Range(Tail(chan))
      /\ Once(Tail(chan)) /\ h \notin Range(Tail(chan))
  BY <1>0, <1>1, HeadTailFacts
<1>3. InLine(R) /\ Pairwise(chan, R)
  BY DEF Lines, InLine
<1>4. Pairwise(Tail(chan), R) /\ \A y \in Range(Tail(chan)) : <<h, y>> \in R
  <2> HIDE DEF R
  <2> QED BY <1>0, <1>1, <1>3, PairTail
<1>5. /\ Active' = Active /\ Live' = Live /\ Retried' = Retried /\ Submitted' = Submitted
      /\ Range(requeue_oom') = Range(requeue_oom) /\ R' = R
  BY <1>0 DEF Active, Live, Retried, Submitted
<1>6. h \in Waiting /\ h \notin Range(queue) /\ h \notin Range(requeue) /\ h \notin Active
  BY <1>2 DEF Places, Waiting
<1>7. Phased' /\ GraphAlone' /\ LaneCaps' /\ Barred'
  BY <1>0, <1>5 DEF Phased, GraphAlone, InMode, LaneCaps, Barred
<1> HIDE DEF h, R
<1>8. CASE End(h) /\ UNCHANGED queue
  <2>1. Waiting' = Waiting \ {h}
    BY <1>0, <1>2, <1>6, <1>8 DEF Waiting
  <2>2. ended' \in [Requests -> Nat] /\ Answers' /\ Streams'
    BY <1>0, <1>5, <1>6, <1>8, <2>1, LetGo DEF End
  <2>3. TypeOK'
    BY <1>0, <1>2, <1>5, <1>8, <2>2 DEF TypeOK
  <2>4. Places'
    BY <1>0, <1>2, <1>5, <1>8, <2>1 DEF Places
  <2>5. InLine(R)'
    BY <1>0, <1>2, <1>3, <1>4, <1>5, <1>8 DEF InLine, Across
  <2>6. Lines'
    <3>1. Retried' \subseteq Submitted' \ Range(chan')
      BY <1>0, <1>2, <1>5 DEF Lines
    <3> QED BY <1>0, <1>5, <2>5, <3>1 DEF Lines, R
  <2> QED BY <1>7, <2>2, <2>3, <2>4, <2>6
<1>9. CASE queue' = Append(queue, h) /\ UNCHANGED ended
  <2>0. /\ queue' \in Seq(Requests) /\ Range(queue') = Range(queue) \cup {h} /\ Once(queue')
    BY <1>1, <1>2, <1>6, <1>9, AppendFacts
  <2>1. Waiting' = Waiting
    BY <1>0, <1>2, <2>0 DEF Waiting
  <2>2. InHand' = InHand
    BY <1>5, <2>1 DEF InHand
  <2>3. Answers' /\ Streams'
    BY <1>0, <1>5, <1>9, <2>2 DEF Answers, Streams
  <2>4. TypeOK'
    BY <1>0, <1>2, <1>5, <1>9, <2>0 DEF TypeOK
  <2>5. Places'
    BY <1>0, <1>2, <1>5, <1>6, <2>0, <2>1 DEF Places
  <2>6. InLine(R)'
    <3>1. Pairwise(queue', R)
      <4>1. Pairwise(queue, R) /\ \A x \in Range(queue) : <<x, h>> \in R
        BY <1>2, <1>3 DEF InLine, Across
      <4> QED BY <1>1, <1>2, <1>9, <4>1, PairAppend
    <3>2. Across(requeue, queue', R) /\ Across(requeue, chan', R) /\ Across(queue', chan', R)
      BY <1>0, <1>2, <1>3, <1>4, <2>0 DEF InLine, Across
    <3> QED BY <1>0, <1>3, <1>4, <1>5, <3>1, <3>2 DEF InLine
  <2>7. Lines'
    <3>1. Retried' \subseteq Submitted' \ Range(chan')
      BY <1>0, <1>2, <1>5 DEF Lines
    <3> QED BY <1>0, <1>5, <2>6, <3>1 DEF Lines, R
  <2> QED BY <1>7, <2>3, <2>4, <2>5, <2>7
<1> QED BY <1>0, <1>8, <1>9

\* The head of the queue, in an admission pass.
LEMMA PopFacts ==
    ASSUME SchedInv, NEW r \in Requests, Pop(r)
    PROVE  /\ phase = "admit" /\ queue' \in Seq(Requests) /\ Once(queue')
           /\ Range(queue) = {r} \cup Range(queue') /\ r \notin Range(queue')
           /\ r \in Waiting /\ r \notin Range(chan) /\ r \notin Range(requeue)
           /\ r \notin Active /\ r \in Submitted
           /\ finished = {} /\ requeue_oom = <<>>
           /\ Pairwise(queue', MayPrecede(Retried, arrived))
           /\ \A y \in Range(queue') : <<r, y>> \in MayPrecede(Retried, arrived)
<1> USE DEF SchedInv
<1>1. /\ phase = "admit" /\ queue # <<>> /\ r = Head(queue) /\ queue' = Tail(queue)
      /\ queue \in Seq(Requests) /\ Once(queue)
      /\ Pairwise(queue, MayPrecede(Retried, arrived))
  BY DEF Pop, TypeOK, Places, Lines, InLine
<1>2. /\ queue' \in Seq(Requests) /\ Once(queue')
      /\ Range(queue) = {r} \cup Range(queue') /\ r \notin Range(queue')
  BY <1>1, HeadTailFacts
<1>3. /\ r \in Waiting /\ r \notin Range(chan) /\ r \notin Range(requeue)
      /\ r \notin Active /\ r \in Submitted
  BY <1>2 DEF Places, Waiting
<1>4. finished = {} /\ requeue_oom = <<>>
  BY <1>1 DEF Phased
<1>5. /\ Pairwise(queue', MayPrecede(Retried, arrived))
      /\ \A y \in Range(queue') : <<r, y>> \in MayPrecede(Retried, arrived)
  BY <1>1, PairTail
<1> QED BY <1>1, <1>2, <1>3, <1>4, <1>5

\* A queued request is dropped, shed or refused.
LEMMA DropKeeps ==
    ASSUME SchedInv, NEW r \in Requests, DropClosed(r) \/ Shed(r) \/ Refuse(r)
    PROVE  SchedInv'
<1> USE DEF SchedInv
<1> DEFINE R == MayPrecede(Retried, arrived)
<1>0. /\ TypeOK /\ Pop(r)
      /\ UNCHANGED <<arrived, closed, stream, chan, requeue, vram_defers, active, ses, finished,
                     requeue_oom, oom_retries, todo, decoded, late, phase>>
      /\ EndAll({r}) \/ (r \in closed /\ ended' = ended)
  BY DEF DropClosed, Shed, Refuse, PassesGates, End, clientVars, outVars, tickVars
<1>1. /\ queue' \in Seq(Requests) /\ Once(queue')
      /\ Range(queue) = {r} \cup Range(queue') /\ r \notin Range(queue')
      /\ r \in Waiting /\ r \notin Range(chan) /\ r \notin Range(requeue)
      /\ Pairwise(queue', R)
  BY <1>0, PopFacts
<1>2. /\ Active' = Active /\ Live' = Live /\ Retried' = Retried /\ Submitted' = Submitted
      /\ Range(requeue_oom') = Range(requeue_oom) /\ R' = R
  BY <1>0 DEF Active, Live, Retried, Submitted
<1>3. InLine(R)
  BY DEF Lines
<1> HIDE DEF R
<1>4. Waiting' = Waiting \ {r}
  BY <1>0, <1>1 DEF Waiting
<1>5. ended' \in [Requests -> Nat] /\ Answers' /\ Streams'
  BY <1>0, <1>1, <1>2, <1>4, LetGo
<1>6. TypeOK'
  BY <1>0, <1>1, <1>2, <1>5 DEF TypeOK
<1>7. Places'
  BY <1>0, <1>1, <1>2, <1>4 DEF Places
<1>8. Phased' /\ GraphAlone' /\ LaneCaps' /\ Barred'
  BY <1>0, <1>2 DEF Phased, GraphAlone, InMode, LaneCaps, Barred
<1>9. InLine(R)'
  BY <1>0, <1>1, <1>2, <1>3 DEF InLine, Across
<1>10. Lines'
  BY <1>0, <1>2, <1>9 DEF Lines, R
<1> QED BY <1>5, <1>6, <1>7, <1>8, <1>10

\* A lane is a finite set.
LEMMA FiniteLane ==
    ASSUME SchedulerAssumption, NEW A, A \subseteq Requests, NEW L
    PROVE  IsFiniteSet(A \cap L) /\ Cardinality(A \cap L) \in Nat
<1>1. IsFiniteSet(Requests) /\ A \cap L \in SUBSET Requests
  BY DEF SchedulerAssumption
<1>2. IsFiniteSet(A \cap L)
  BY <1>1, FS_Subset, Zenon
<1> QED BY <1>2, FS_CardinalityType

\* What the lane cap counts.
LEMMA LaneCounts ==
    ASSUME TypeOK, NEW r \in Requests
    PROVE  /\ r \in Interactive => LaneCount(r) = Cardinality(Active \cap Interactive)
           /\ r \in Dark => LaneCount(r) = Cardinality(Active \cap Dark)
<1>1. Active \subseteq Requests
  BY TickTypes
<1>2. ASSUME r \in Interactive
      PROVE  {a \in Active : (a \in Interactive) = (r \in Interactive)} = Active \cap Interactive
  BY <1>2
<1>3. ASSUME r \in Dark
      PROVE  {a \in Active : (a \in Interactive) = (r \in Interactive)} = Active \cap Dark
  BY <1>1, <1>3 DEF Dark
<1> QED BY <1>2, <1>3, Zenon DEF LaneCount

\* A deferred request keeps its place in line, and bars the later ones.
LEMMA DeferKeeps ==
    ASSUME SchedInv, SchedulerAssumption, NEW r \in Requests, Defer(r)
    PROVE  SchedInv'
<1> USE DEF SchedInv
<1> DEFINE R == MayPrecede(Retried, arrived)
<1>0. /\ TypeOK /\ Pop(r) /\ requeue' = Append(requeue, r)
      /\ UNCHANGED <<arrived, closed, stream, ended, chan, active, ses, finished,
                     requeue_oom, oom_retries, todo, decoded, late, phase>>
      /\ \/ r \in Interactive /\ AtLaneCap(r) /\ UNCHANGED vram_defers
         \/ ~AtLaneCap(r) /\ vram_defers' = vram_defers \cup {r}
  BY DEF Defer, Deferred, MayLackRoom, clientVars, outVars, tickVars
<1>1. /\ queue' \in Seq(Requests) /\ Once(queue')
      /\ Range(queue) = {r} \cup Range(queue') /\ r \notin Range(queue')
      /\ r \notin Range(chan) /\ r \notin Range(requeue)
      /\ r \in Waiting /\ r \notin Active /\ phase = "admit"
      /\ Pairwise(queue', R) /\ \A y \in Range(queue') : <<r, y>> \in R
  BY <1>0, PopFacts
<1>2. /\ Active' = Active /\ Live' = Live /\ Retried' = Retried /\ Submitted' = Submitted
      /\ Range(requeue_oom') = Range(requeue_oom) /\ R' = R
  BY <1>0 DEF Active, Live, Retried, Submitted
<1>3. InLine(R)
  BY DEF Lines
<1> HIDE DEF R
<1>4. requeue \in Seq(Requests) /\ Once(requeue)
  BY DEF TypeOK, Places
<1>5. requeue' \in Seq(Requests) /\ Range(requeue') = Range(requeue) \cup {r} /\ Once(requeue')
  BY <1>0, <1>1, <1>4, AppendFacts
<1>6. Waiting' = Waiting
  BY <1>0, <1>1, <1>5 DEF Waiting
<1>7. TypeOK'
  <2>1. vram_defers' \subseteq Requests
    BY <1>0 DEF TypeOK
  <2> QED BY <1>0, <1>1, <1>2, <1>5, <2>1 DEF TypeOK
<1>8. Places'
  BY <1>0, <1>1, <1>2, <1>5, <1>6 DEF Places
<1>9. Phased' /\ GraphAlone' /\ LaneCaps'
  BY <1>0, <1>1, <1>2 DEF Phased, GraphAlone, InMode, LaneCaps
<1>10. Answers' /\ Streams'
  <2>1. InHand' = InHand
    BY <1>2, <1>6 DEF InHand
  <2> QED BY <1>0, <1>2, <2>1 DEF Answers, Streams
<1>11. InLine(R)'
  <2>1. Pairwise(requeue', R)
    <3>1. Pairwise(requeue, R) /\ \A x \in Range(requeue) : <<x, r>> \in R
      BY <1>1, <1>3 DEF InLine, Across
    <3> QED BY <1>0, <1>4, <3>1, PairAppend
  <2>2. Across(requeue', queue', R) /\ Across(requeue', chan, R) /\ Across(queue', chan, R)
    BY <1>1, <1>3, <1>5 DEF InLine, Across
  <2> QED BY <1>0, <1>1, <1>2, <1>3, <2>1, <2>2 DEF InLine
<1>12. Lines'
  BY <1>0, <1>2, <1>11 DEF Lines, R
<1>13. Barred'
  <2>1. CASE r \in Interactive /\ AtLaneCap(r)
    <3>1. Cardinality(Active \cap Interactive) >= InteractiveCap
      BY <1>0, <2>1, LaneCounts DEF AtLaneCap, LaneCap
    <3> QED BY <1>2, <3>1 DEF Barred
  <2>2. CASE vram_defers' = vram_defers \cup {r}
    BY <1>2, <1>5, <2>2 DEF Barred
  <2> QED BY <1>0, <2>1, <2>2
<1> QED BY <1>7, <1>8, <1>9, <1>10, <1>12, <1>13

\* A sequence has no more elements than places.
LEMMA RangeSmall ==
    ASSUME NEW X, NEW s \in Seq(X)
    PROVE  IsFiniteSet(Range(s)) /\ Cardinality(Range(s)) <= Len(s)
<1>1. Len(s) \in Nat /\ s \in [1 .. Len(s) -> Range(s)]
  BY DEF Range
<1>2. s \in Surjection(1 .. Len(s), Range(s))
  BY <1>1 DEF Surjection, Range
<1>3. IsFiniteSet(1 .. Len(s)) /\ Cardinality(1 .. Len(s)) = Len(s)
  BY <1>1, FS_Interval
<1> QED BY <1>2, <1>3, FS_Surjection

\* A request goes live.
LEMMA AdmitKeeps ==
    ASSUME SchedInv, SchedulerAssumption, NEW r \in Requests, Admit(r)
    PROVE  SchedInv'
<1> USE DEF SchedInv
<1> DEFINE R == MayPrecede(Retried, arrived)
<1>0. /\ TypeOK /\ Pop(r) /\ active' = Append(active, r) /\ r \notin closed
      /\ ~AtLaneCap(r)
      /\ UNCHANGED <<arrived, closed, stream, ended, chan, requeue, vram_defers, finished,
                     requeue_oom, oom_retries, todo, decoded, late, phase>>
  BY DEF Admit, PassesGates, clientVars, outVars, tickVars
<1>1. /\ queue' \in Seq(Requests) /\ Once(queue')
      /\ Range(queue) = {r} \cup Range(queue') /\ r \notin Range(queue')
      /\ r \notin Range(chan) /\ r \notin Range(requeue)
      /\ r \in Waiting /\ r \in Submitted /\ r \notin Active /\ phase = "admit"
      /\ finished = {} /\ requeue_oom = <<>>
      /\ Pairwise(queue', R) /\ \A y \in Range(queue') : <<r, y>> \in R
  BY <1>0, PopFacts
<1>2. active \in Seq(Requests) /\ Once(active)
  BY DEF TypeOK, Places
<1>3. active' \in Seq(Requests) /\ Active' = Active \cup {r} /\ Once(active') /\ active' # <<>>
  <2>1. active' # <<>>
    BY <1>0, <1>2
  <2> QED BY <1>0, <1>1, <1>2, <2>1, AppendFacts DEF Active
<1>4. /\ Retried' = Retried /\ Submitted' = Submitted /\ Live' = Live \cup {r}
      /\ Range(requeue_oom') = Range(requeue_oom) /\ R' = R
  BY <1>0, <1>1, <1>3 DEF Live, Retried, Submitted
<1>5. InLine(R)
  BY DEF Lines
<1> HIDE DEF R
<1>6. Waiting' = Waiting \ {r}
  BY <1>0, <1>1 DEF Waiting
<1>7. PICK s \in NewSession(r) : ses' = [ses EXCEPT ![r] = s]
  BY DEF Admit
<1>8. /\ s \in Sessions /\ s.gen = 0 /\ s.mode \in {"plain", "spec"}
      /\ s.mode = "spec" => SpecGateOk
  <2>1. 0 \in 0 .. Chunks /\ 0 \in 0 .. MaxHold
    BY DEF SchedulerAssumption
  <2>2. CASE s \in {[mode |-> "plain", pre |-> n, gen |-> 0, primed |-> FALSE, hold |-> 0] :
                       n \in 0 .. Chunks}
    <3>1. PICK n \in 0 .. Chunks :
              s = [mode |-> "plain", pre |-> n, gen |-> 0, primed |-> FALSE, hold |-> 0]
      BY <2>2
    <3> QED BY <2>1, <3>1 DEF Sessions
  <2>3. CASE /\ SpecGateOk
             /\ s \in {[mode |-> "spec", pre |-> 0, gen |-> 0, primed |-> b, hold |-> 0] :
                          b \in BOOLEAN}
    BY <2>1, <2>3 DEF Sessions
  <2> QED BY <2>2, <2>3 DEF NewSession
<1>9. /\ ses \in [Requests -> Sessions] /\ ses' \in [Requests -> Sessions] /\ ses'[r] = s
      /\ \A q \in Requests \ {r} : ses'[q] = ses[q]
  <2>1. ses \in [Requests -> Sessions]
    BY <1>0, TickTypes
  <2> QED BY <1>7, <1>8, <2>1
<1>10. TypeOK'
  <2>1. finished' \subseteq Active'
    BY <1>0, <1>1
  <2> QED BY <1>0, <1>1, <1>3, <1>9, <2>1 DEF TypeOK, Sessions
<1>11. Places'
  BY <1>0, <1>1, <1>3, <1>4, <1>6 DEF Places
<1>12. Phased' /\ GraphAlone'
  BY <1>0, <1>1, <1>3 DEF Phased, GraphAlone
<1>13. Answers'
  <2>1. InHand' = InHand
    BY <1>1, <1>4, <1>6 DEF InHand
  <2> QED BY <1>0, <1>4, <2>1 DEF Answers
<1>14. InLine(R)'
  BY <1>0, <1>1, <1>4, <1>5 DEF InLine, Across
<1>15. Lines'
  BY <1>0, <1>4, <1>14 DEF Lines, R
<1>16. Active \subseteq Requests /\ IsFiniteSet(Requests)
  BY <1>0, TickTypes DEF SchedulerAssumption
<1>17. /\ Cardinality(Active' \cap Interactive) \in Nat
       /\ Cardinality(Active \cap Interactive) \in Nat
       /\ Cardinality(Active' \cap Interactive) >= Cardinality(Active \cap Interactive)
       /\ Cardinality(Active' \cap Interactive) <= InteractiveCap
       /\ Cardinality(Active' \cap Dark) <= DarkCap
  <2>0. InteractiveCap \in Nat /\ DarkCap \in Nat
    BY DEF SchedulerAssumption
  <2>1. /\ IsFiniteSet(Active \cap Interactive) /\ Cardinality(Active \cap Interactive) \in Nat
        /\ IsFiniteSet(Active \cap Dark) /\ Cardinality(Active \cap Dark) \in Nat
    BY <1>16, FiniteLane
  <2>2. CASE r \in Interactive
    <3>1. /\ Active' \cap Interactive = (Active \cap Interactive) \cup {r}
          /\ Active' \cap Dark = Active \cap Dark /\ r \notin Active \cap Interactive
      BY <1>1, <1>3, <2>2 DEF Dark
    <3>2. Cardinality(Active' \cap Interactive) = Cardinality(Active \cap Interactive) + 1
      BY <2>1, <3>1, FS_AddElement
    <3>3. ~(Cardinality(Active \cap Interactive) >= InteractiveCap)
      BY <1>0, <2>2, LaneCounts DEF AtLaneCap, LaneCap
    <3>4. Cardinality(Active \cap Dark) <= DarkCap
      BY DEF LaneCaps
    <3> DEFINE c == Cardinality(Active \cap Interactive)
               d == Cardinality(Active' \cap Interactive)
    <3>5. c \in Nat /\ d = c + 1 /\ ~(c >= InteractiveCap)
      BY <2>1, <3>2, <3>3
    <3> HIDE DEF c, d
    <3>6. d \in Nat /\ d >= c /\ d <= InteractiveCap
      BY <2>0, <3>5
    <3> QED BY <3>1, <3>4, <3>5, <3>6, Zenon DEF c, d
  <2>3. CASE r \in Dark
    <3>1. /\ Active' \cap Dark = (Active \cap Dark) \cup {r}
          /\ Active' \cap Interactive = Active \cap Interactive /\ r \notin Active \cap Dark
      BY <1>1, <1>3, <2>3 DEF Dark
    <3>2. Cardinality(Active' \cap Dark) = Cardinality(Active \cap Dark) + 1
      BY <2>1, <3>1, FS_AddElement
    <3>3. ~(Cardinality(Active \cap Dark) >= DarkCap)
      BY <1>0, <2>3, LaneCounts DEF AtLaneCap, LaneCap, Dark
    <3>4. Cardinality(Active \cap Interactive) <= InteractiveCap
      BY DEF LaneCaps
    <3> QED BY <2>0, <2>1, <3>1, <3>2, <3>3, <3>4
  <2> QED BY <2>2, <2>3 DEF Dark
<1>18. LaneCaps'
  <2>1. Cardinality({q \in Active' : ses'[q].mode = "spec"}) <= SpecLow
    <3>1. CASE s.mode = "spec"
      <4> DEFINE T == {q \in Active' : ses'[q].mode = "spec"}
      <4>1. T \in SUBSET Active' /\ Active' = Range(active')
        BY DEF Active
      <4>2. IsFiniteSet(Active') /\ Cardinality(Active') <= Len(active')
        BY <1>3, <4>1, RangeSmall
      <4> HIDE DEF T
      <4>3. IsFiniteSet(T) /\ Cardinality(T) <= Cardinality(Active')
        BY <4>1, <4>2, FS_Subset, Zenon
      <4>4. Len(active') = Len(active) + 1 /\ Len(active) + 1 <= SpecLow /\ Len(active) \in Nat
        BY <1>0, <1>2, <1>8, <3>1 DEF SpecGateOk
      <4>5. Cardinality(T) \in Nat /\ Cardinality(Active') \in Nat /\ SpecLow \in Nat
        BY <4>2, <4>3, FS_CardinalityType DEF SchedulerAssumption
      <4>6. Cardinality(T) <= SpecLow
        BY <4>2, <4>3, <4>4, <4>5
      <4> QED BY <4>6 DEF T
    <3>2. CASE s.mode # "spec"
      <4>1. \A q \in Active : ses'[q].mode = "spec" => ses[q].mode = "spec"
        BY <1>1, <1>9, <1>16
      <4>2. Cardinality({q \in Active : ses'[q].mode = "spec"}) <= SpecLow
        BY <1>0, <4>1, FewerSpec DEF LaneCaps
      <4>3. {q \in Active' : ses'[q].mode = "spec"} = {q \in Active : ses'[q].mode = "spec"}
        BY <1>3, <1>9, <3>2
      <4> QED BY <4>2, <4>3
    <3> QED BY <3>1, <3>2
  <2> QED BY <1>17, <2>1 DEF LaneCaps
<1>19. Barred'
  <2>1. CASE Cardinality(Active \cap Interactive) >= InteractiveCap
    <3>1. InteractiveCap \in Nat
      BY DEF SchedulerAssumption
    <3>2. Cardinality(Active' \cap Interactive) >= InteractiveCap
      BY <1>17, <2>1, <3>1
    <3> QED BY <3>2 DEF Barred
  <2>2. CASE Range(requeue) \cap Interactive \subseteq vram_defers
    BY <1>0, <2>2 DEF Barred
  <2> QED BY <2>1, <2>2 DEF Barred
<1>20. Streams'
  <2> SUFFICES ASSUME NEW q \in Requests \ Retried
               PROVE  /\ Exact(stream[q])
                      /\ q \in (Live \cup {r}) \ closed => Len(stream[q]) = ses'[q].gen
                      /\ q \notin Active' /\ ended[q] = 0 /\ q \notin closed
                            => stream[q] = <<>>
    BY <1>0, <1>4 DEF Streams
  <2>1. /\ Exact(stream[q])
        /\ q \in Live \ closed => Len(stream[q]) = ses[q].gen
        /\ q \notin Active /\ ended[q] = 0 /\ q \notin closed => stream[q] = <<>>
    BY DEF Streams
  <2>2. CASE q = r
    <3>1. ended[r] = 0
      <4>1. r \in InHand /\ ended[r] \in Nat
        BY <1>1 DEF InHand, TypeOK
      <4> QED BY <4>1 DEF Answers
    <3>2. stream[r] = <<>>
      BY <1>0, <1>1, <2>1, <2>2, <3>1
    <3>3. Len(stream[r]) = ses'[r].gen
      BY <1>8, <1>9, <3>2
    <3> QED BY <1>3, <2>1, <2>2, <3>3
  <2>3. CASE q # r
    BY <1>3, <1>9, <2>1, <2>3
  <2> QED BY <2>2, <2>3
<1> QED BY <1>10, <1>11, <1>12, <1>13, <1>15, <1>18, <1>19, <1>20

\* The deferred requests become the queue; sessions without a client finish.
LEMMA StartTickKeeps ==
    ASSUME SchedInv, StartTick PROVE SchedInv'
<1> USE DEF SchedInv
<1> DEFINE R == MayPrecede(Retried, arrived)
<1>0. /\ TypeOK /\ phase = "admit" /\ phase' = "graph" /\ queue = <<>>
      /\ queue' = requeue /\ requeue' = <<>>
      /\ finished = {} /\ requeue_oom = <<>> /\ todo = <<>>
      /\ finished' = Active \cap closed /\ decoded' = FALSE
      /\ UNCHANGED <<arrived, closed, stream, ended, chan, vram_defers, active, ses,
                     requeue_oom, oom_retries, todo, late>>
  BY DEF StartTick, clientVars, outVars, Phased
<1>1. /\ Range(queue) = {} /\ Range(requeue') = {} /\ Range(queue') = Range(requeue)
      /\ requeue' \in Seq(Requests) /\ Once(requeue') /\ Range(requeue_oom) = {}
  BY <1>0 DEF Range, Once
<1>2. /\ Active' = Active /\ Live = Active /\ Live' = Active \ closed /\ Retried' = Retried
      /\ Submitted' = Submitted /\ Waiting' = Waiting /\ R' = R
  BY <1>0, <1>1 DEF Active, Live, Retried, Submitted, Waiting
<1>3. InLine(R)
  BY DEF Lines
<1> HIDE DEF R
<1>4. TypeOK'
  BY <1>0, <1>1, <1>2 DEF TypeOK, Phases
<1>5. Places'
  BY <1>0, <1>1, <1>2 DEF Places
<1>6. Phased' /\ GraphAlone' /\ LaneCaps' /\ Barred'
  BY <1>0, <1>1, <1>2 DEF Phased, GraphAlone, LaneCaps, Barred
<1>7. Answers'
  BY <1>0, <1>1, <1>2 DEF Answers, InHand
<1>8. InLine(R)'
  BY <1>0, <1>1, <1>2, <1>3 DEF InLine, Across, Pairwise
<1>9. Lines'
  BY <1>0, <1>2, <1>8 DEF Lines, R
<1>10. Streams'
  BY <1>0, <1>2 DEF Streams
<1> QED BY <1>4, <1>5, <1>6, <1>7, <1>9, <1>10

\* The finished sessions leave; the parked requests go to the front.
LEMMA RetireKeeps ==
    ASSUME SchedInv, SchedulerAssumption, Retire PROVE SchedInv'
<1> USE DEF SchedInv
<1> DEFINE R == MayPrecede(Retried, arrived)
<1>0. /\ TypeOK /\ phase = "retire" /\ phase' = "recv" /\ requeue = <<>> /\ todo = <<>>
      /\ active' = Keep(active, Live)
      /\ ses' = [r \in Requests |-> IF r \in finished THEN NoSession ELSE ses[r]]
      /\ finished' = {} /\ queue' = requeue_oom \o queue /\ requeue_oom' = <<>>
      /\ UNCHANGED <<arrived, closed, stream, ended, chan, requeue, vram_defers,
                     oom_retries, todo, decoded, late>>
  BY DEF Retire, Requeued, clientVars, outVars, Phased
<1>1. /\ active \in Seq(Requests) /\ queue \in Seq(Requests) /\ requeue_oom \in Seq(Requests)
      /\ Once(active) /\ Once(queue) /\ Once(requeue_oom)
      /\ Range(requeue_oom) \cap Range(queue) = {}
      /\ Range(requeue) = {} /\ Range(requeue_oom') = {} /\ Once(requeue_oom')
      /\ requeue_oom' \in Seq(Requests)
  <2>1. /\ active \in Seq(Requests) /\ queue \in Seq(Requests) /\ requeue_oom \in Seq(Requests)
        /\ Once(active) /\ Once(queue) /\ Once(requeue_oom) /\ finished \subseteq Active
    BY DEF TypeOK, Places
  <2>2. Range(requeue_oom) \cap Range(queue) = {}
    BY <2>1 DEF Places, Waiting
  <2>3. Range(requeue) = {} /\ Range(requeue_oom') = {} /\ Once(requeue_oom')
        /\ requeue_oom' \in Seq(Requests)
    BY <1>0 DEF Range, Once
  <2> QED BY <2>1, <2>2, <2>3
<1>2. /\ active' \in Seq(Requests) /\ Active' = Live /\ Once(active')
  <2>1. Range(active) \cap Live = Live
    BY DEF Live, Active
  <2>2. /\ Keep(active, Live) \in Seq(Requests) /\ Once(Keep(active, Live))
        /\ Range(Keep(active, Live)) = Range(active) \cap Live
    BY <1>1, KeepProperties, Zenon
  <2>3. Active' = Range(Keep(active, Live))
    BY <1>0 DEF Active
  <2> QED BY <1>0, <2>1, <2>2, <2>3, Zenon
<1>3. /\ queue' \in Seq(Requests) /\ Range(queue') = Range(requeue_oom) \cup Range(queue)
      /\ Once(queue')
  BY <1>0, <1>1, ConcatFacts
<1>4. /\ Live' = Live /\ Retried' = Retried /\ Submitted' = Submitted /\ R' = R
      /\ Waiting' = Waiting \cup Range(requeue_oom)
  BY <1>0, <1>2, <1>3 DEF Live, Retried, Submitted, Waiting
<1>5. InLine(R) /\ Range(requeue_oom) \subseteq Retried /\ Retried \subseteq Requests
  BY DEF Lines, Retried
<1>6. /\ Range(requeue_oom) \subseteq Active /\ Active \subseteq Submitted
      /\ Range(requeue_oom) \cap Live = {} /\ Waiting \cap Active = {}
      /\ Active \subseteq Requests /\ Live \subseteq Active
      /\ Waiting \subseteq Submitted /\ Submitted \subseteq Requests
  <2>1. Range(requeue_oom) \subseteq finished /\ finished \subseteq Active
    BY DEF Places, TypeOK
  <2>2. Active \subseteq Requests /\ Live \subseteq Active
    BY <1>0, TickTypes
  <2>3. Submitted \subseteq Requests
    <3>1. arrived \in Seq(Requests)
      BY DEF TypeOK
    <3> QED BY <3>1 DEF Submitted, Range
  <2> QED BY <2>1, <2>2, <2>3 DEF Places, Live
<1>7. \A x \in Range(requeue_oom), y \in Requests : <<x, y>> \in R
  BY <1>5, <1>6 DEF R, MayPrecede
<1> HIDE DEF R
<1>8. /\ ses' \in [Requests -> Sessions] /\ \A r \in Live : ses'[r] = ses[r]
  <2>1. ses \in [Requests -> Sessions] /\ NoSession \in Sessions
    BY <1>0, TickTypes DEF NoSession, Sessions, SchedulerAssumption
  <2> QED BY <1>0, <1>6, <2>1 DEF Live
<1>9. TypeOK'
  BY <1>0, <1>1, <1>2, <1>3, <1>8 DEF TypeOK, Phases, Sessions
<1>10. Places'
  <2>1. Range(chan) \cap Range(queue') = {}
    BY <1>3, <1>6 DEF Places, Waiting
  <2>2. Waiting' \cap Active' = {} /\ Waiting' \cup Active' \subseteq Submitted'
    BY <1>2, <1>4, <1>6
  <2> QED BY <1>0, <1>1, <1>2, <1>3, <2>1, <2>2 DEF Places
<1>11. Phased' /\ GraphAlone' /\ Barred'
  BY <1>0, <1>1 DEF Phased, GraphAlone, Barred, Range
<1>12. LaneCaps'
  <2>1. Cardinality({r \in Live : ses'[r].mode = "spec"}) <= SpecLow
    BY <1>0, <1>6, <1>8, FewerSpec DEF LaneCaps
  <2>2. /\ Cardinality(Live \cap Interactive) <= Cardinality(Active \cap Interactive)
        /\ Cardinality(Live \cap Dark) <= Cardinality(Active \cap Dark)
    <3>1. IsFiniteSet(Active \cap Interactive) /\ IsFiniteSet(Active \cap Dark)
      BY <1>6, FiniteLane
    <3>2. /\ Live \cap Interactive \in SUBSET (Active \cap Interactive)
          /\ Live \cap Dark \in SUBSET (Active \cap Dark)
      BY <1>6
    <3> QED BY <3>1, <3>2, FS_Subset, Zenon
  <2>3. /\ Cardinality(Live \cap Interactive) \in Nat /\ Cardinality(Active \cap Interactive) \in Nat
        /\ Cardinality(Live \cap Dark) \in Nat /\ Cardinality(Active \cap Dark) \in Nat
        /\ InteractiveCap \in Nat /\ DarkCap \in Nat
    BY <1>6, FiniteLane DEF SchedulerAssumption
  <2>4. /\ Cardinality(Active \cap Interactive) <= InteractiveCap
        /\ Cardinality(Active \cap Dark) <= DarkCap
    BY DEF LaneCaps
  <2>5. Cardinality(Live \cap Interactive) <= InteractiveCap
    BY <2>2, <2>3, <2>4
  <2>6. Cardinality(Live \cap Dark) <= DarkCap
    BY <2>2, <2>3, <2>4
  <2> QED BY <1>2, <2>1, <2>5, <2>6 DEF LaneCaps
<1>13. Answers'
  <2>1. InHand' = InHand
    BY <1>1, <1>4 DEF InHand
  <2> QED BY <1>0, <1>4, <2>1 DEF Answers
<1>14. InLine(R)'
  <2>1. Pairwise(requeue_oom, R)
    <3> SUFFICES ASSUME NEW i \in DOMAIN requeue_oom, NEW j \in DOMAIN requeue_oom
                 PROVE  <<requeue_oom[i], requeue_oom[j]>> \in R
      BY DEF Pairwise
    <3>1. requeue_oom[i] \in Range(requeue_oom) /\ requeue_oom[j] \in Range(requeue_oom)
      BY DEF Range
    <3> QED BY <1>6, <1>7, <3>1
  <2>2. Across(requeue_oom, queue, R) /\ Across(requeue_oom, chan, R)
    BY <1>6, <1>7 DEF Across, Waiting
  <2>3. Pairwise(queue, R) /\ Across(queue, chan, R) /\ Pairwise(chan, R)
    BY <1>5 DEF InLine
  <2>4. Pairwise(queue', R)
    BY <1>0, <1>1, <2>1, <2>2, <2>3, PairConcat
  <2>5. Across(queue', chan, R)
    BY <1>3, <2>2, <2>3 DEF Across
  <2>6. Pairwise(requeue, R) /\ Across(requeue, queue', R) /\ Across(requeue, chan, R)
    BY <1>0, <1>1 DEF Pairwise, Across
  <2> QED BY <1>0, <1>4, <2>3, <2>4, <2>5, <2>6 DEF InLine
<1>15. Lines'
  <2>1. Range(requeue_oom') \subseteq Retried'
    BY <1>1
  <2> QED BY <1>0, <1>4, <1>14, <2>1 DEF Lines, R
<1>16. Streams'
  <2> SUFFICES ASSUME NEW q \in Requests \ Retried
               PROVE  /\ Exact(stream[q])
                      /\ q \in Live \ closed => Len(stream[q]) = ses'[q].gen
                      /\ q \notin Live /\ ended[q] = 0 /\ q \notin closed => stream[q] = <<>>
    BY <1>0, <1>2, <1>4 DEF Streams
  <2>1. /\ Exact(stream[q])
        /\ q \in Live \ closed => Len(stream[q]) = ses[q].gen
        /\ q \notin Active /\ ended[q] = 0 /\ q \notin closed => stream[q] = <<>>
    BY DEF Streams
  <2>2. q \notin Live /\ ended[q] = 0 /\ q \notin closed => q \notin Active
    <3> SUFFICES ASSUME q \in Active, q \notin Live, ended[q] = 0, q \notin closed PROVE FALSE
      OBVIOUS
    <3>1. q \in InHand
      BY <1>6 DEF Answers
    <3>2. q \in Range(requeue_oom)
      BY <1>6, <3>1 DEF InHand
    <3> QED BY <1>5, <3>2
  <2> QED BY <1>8, <2>1, <2>2
<1> QED BY <1>9, <1>10, <1>11, <1>12, <1>13, <1>15, <1>16

-----------------------------------------------------------------------------
(* The theorems. *)

\* The invariant holds before anything happens.
LEMMA InitInv ==
    ASSUME SchedulerAssumption, Init PROVE SchedInv
<1>1. /\ Range(<<>>) = {} /\ Once(<<>>) /\ \A r \in Requests : <<>> \in Seq(Requests)
      /\ <<>> \in Seq(Requests) /\ <<>> \in Seq(Nat) /\ Exact(<<>>)
  BY DEF Range, Once, Exact
<1>2. /\ Waiting = {} /\ Active = {} /\ Live = {} /\ Submitted = {} /\ Retried = {}
      /\ Range(requeue_oom) = {} /\ InHand = {} /\ Range(todo) = {} /\ Range(chan) = {}
      /\ Range(queue) = {} /\ Range(requeue) = {}
  BY <1>1 DEF Init, Waiting, Active, Live, Submitted, Retried, InHand
<1>3. TypeOK
  <2>1. NoSession \in Sessions
    BY DEF NoSession, Sessions, SchedulerAssumption
  <2>2. 0 \in 0 .. OomRetries
    BY DEF SchedulerAssumption
  <2>3. /\ ses \in [Requests -> Sessions] /\ stream \in [Requests -> Seq(Nat)]
        /\ ended \in [Requests -> Nat] /\ oom_retries \in [Requests -> 0 .. OomRetries]
    BY <1>1, <2>1, <2>2 DEF Init
  <2> QED BY <1>1, <1>2, <2>3 DEF Init, TypeOK, Sessions, Phases
<1>4. Places
  BY <1>1, <1>2 DEF Init, Places
<1>5. Phased /\ GraphAlone /\ Barred
  BY <1>2 DEF Init, Phased, GraphAlone, Barred
<1>6. Answers
  BY <1>2 DEF Init, Answers
<1>7. Lines
  BY <1>1, <1>2 DEF Init, Lines, InLine, Pairwise, Across
<1>8. LaneCaps
  <2>1. Cardinality({}) = 0
    BY FS_EmptySet
  <2>2. /\ Active \cap Interactive = {} /\ Active \cap Dark = {}
        /\ {r \in Active : ses[r].mode = "spec"} = {}
    BY <1>2
  <2>3. 0 <= InteractiveCap /\ 0 <= DarkCap /\ 0 <= SpecLow
    BY DEF SchedulerAssumption
  <2> QED BY <2>1, <2>2, <2>3, Zenon DEF LaneCaps
<1>9. Streams
  <2>1. \A r \in Requests : stream[r] = <<>>
    BY DEF Init
  <2> QED BY <1>1, <1>2, <2>1 DEF Streams
<1> QED BY <1>3, <1>4, <1>5, <1>6, <1>7, <1>8, <1>9 DEF SchedInv

\* Every step keeps it.
LEMMA NextInv ==
    ASSUME SchedulerAssumption, SchedInv, [Next]_vars PROVE SchedInv'
<1>1. CASE HandleCmd
  BY <1>1, HandleKeeps
<1>2. CASE StartAdmission \/ SloAgePasses \/ UNCHANGED vars
  BY <1>2, SloKeeps
<1>3. CASE Admission
  <2>1. PICK r \in Requests : DropClosed(r) \/ Defer(r) \/ Shed(r) \/ Refuse(r) \/ Admit(r)
    BY <1>3 DEF Admission
  <2> QED BY <2>1, DropKeeps, DeferKeeps, AdmitKeeps
<1>4. CASE StartTick
  BY <1>4, StartTickKeeps
<1>5. CASE GraphStep
  <2>1. TickGoal
    BY <1>5, DegradeTick, NoGraphTick, GraphTick DEF GraphStep
  <2> QED BY <2>1, TickKeeps
<1>6. CASE Bursts
  <2>1. PICK r \in Requests : BurstSkip(r) \/ BurstSpent(r) \/ BurstRuns(r) \/ BurstFails(r)
    BY <1>6 DEF Bursts
  <2>2. CASE BurstSkip(r) \/ BurstSpent(r) \/ BurstRuns(r)
    BY <2>2, BurstTick, TickKeeps
  <2>3. CASE BurstFails(r)
    <3>1. CASE FailsForGood(r)
      BY <3>1, FailsTick, TickKeeps
    <3>2. CASE GetsParked(r)
      BY <3>2, ParkKeeps
    <3> QED BY <2>3, <3>1, <3>2, BurstFailsCases
  <2> QED BY <2>1, <2>2, <2>3
<1>7. CASE \/ Demote \/ BurstsDone \/ PrefillInteractive \/ Decode
           \/ DarkSkip \/ DarkBatch \/ DarkChunk
  <2>1. TickGoal
    BY <1>7, DemoteTick, BurstsDoneTick, PrefillTick, DecodeTick, DarkBatchTick, DarkChunkTick
  <2> QED BY <2>1, TickKeeps
<1>8. CASE Retire
  BY <1>8, RetireKeeps
<1>9. CASE \E r \in Requests : Submit(r) \/ Disconnect(r)
  BY <1>9, SubmitKeeps, DisconnectKeeps
<1> QED BY <1>1, <1>2, <1>3, <1>4, <1>5, <1>6, <1>7, <1>8, <1>9
        DEF Next, Worker, Clients

\* The inductive invariant of the scheduler loop.
THEOREM SchedulerInvariant == Spec => []SchedInv
<1>1. SchedulerAssumption
  BY SchedulerAssumption
<1>2. Init => SchedInv
  BY <1>1, InitInv
<1>3. SchedInv /\ [Next]_vars => SchedInv'
  BY <1>1, NextInv
<1> QED BY <1>2, <1>3, PTL DEF Spec

\* The type invariant.
THEOREM SchedulerTypeCorrect == Spec => []TypeOK
<1>1. SchedInv => TypeOK
  BY DEF SchedInv
<1> QED BY <1>1, SchedulerInvariant, PTL

\* Lane caps and the cap on the spec path hold at every step, whichever way a
\* session came in.
THEOREM LaneCapsCorrect == Spec => []LaneCaps
<1>1. SchedInv => LaneCaps
  BY DEF SchedInv
<1> QED BY <1>1, SchedulerInvariant, PTL

\* The batched phases never meet a graph session that has company.
THEOREM GraphAloneCorrect == Spec => []GraphAlone
<1>1. SchedInv => GraphAlone
  BY DEF SchedInv
<1> QED BY <1>1, SchedulerInvariant, PTL

\* What the worker owes is what is in its hands, each once.
LEMMA OwedOnce ==
    ASSUME SchedInv
    PROVE  Owed \in Seq(Requests) /\ Once(Owed) /\ Range(Owed) = InHand
<1> USE DEF SchedInv
<1> DEFINE k == Keep(active, Live)
<1>1. /\ chan \in Seq(Requests) /\ queue \in Seq(Requests) /\ requeue \in Seq(Requests)
      /\ requeue_oom \in Seq(Requests) /\ active \in Seq(Requests)
      /\ Once(chan) /\ Once(queue) /\ Once(requeue) /\ Once(requeue_oom) /\ Once(active)
  BY DEF TypeOK, Places
<1>2. k \in Seq(Requests) /\ Once(k) /\ Range(k) = Live
  <2>1. Range(active) \cap Live = Live
    BY DEF Live, Active
  <2>2. /\ k \in Seq(Requests) /\ Once(k) /\ Range(k) = Range(active) \cap Live
    BY <1>1, KeepProperties, Zenon
  <2> QED BY <2>1, <2>2
<1> HIDE DEF k
<1>3. /\ Range(chan) \cap Range(queue) = {} /\ Range(chan) \cap Range(requeue) = {}
      /\ Range(queue) \cap Range(requeue) = {}
      /\ (Range(chan) \cup Range(queue) \cup Range(requeue)) \cap Range(requeue_oom) = {}
      /\ (Range(chan) \cup Range(queue) \cup Range(requeue) \cup Range(requeue_oom))
            \cap Range(k) = {}
  <2>1. /\ Range(requeue_oom) \subseteq finished /\ finished \subseteq Active
        /\ Live = Active \ finished
    BY DEF Places, TypeOK, Live
  <2> QED BY <1>2, <2>1 DEF Places, Waiting
<1> DEFINE a == chan \o queue
           b == a \o requeue
           c == b \o requeue_oom
<1>4. a \in Seq(Requests) /\ Once(a) /\ Range(a) = Range(chan) \cup Range(queue)
  BY <1>1, <1>3, ConcatFacts
<1> HIDE DEF a
<1>5. b \in Seq(Requests) /\ Once(b) /\ Range(b) = Range(a) \cup Range(requeue)
  <2>1. Range(a) \cap Range(requeue) = {}
    BY <1>3, <1>4
  <2> QED BY <1>1, <1>4, <2>1, ConcatFacts
<1> HIDE DEF b
<1>6. c \in Seq(Requests) /\ Once(c) /\ Range(c) = Range(b) \cup Range(requeue_oom)
  <2>1. Range(b) \cap Range(requeue_oom) = {}
    BY <1>3, <1>4, <1>5
  <2> QED BY <1>1, <1>5, <2>1, ConcatFacts
<1> HIDE DEF c
<1>7. c \o k \in Seq(Requests) /\ Once(c \o k) /\ Range(c \o k) = Range(c) \cup Range(k)
  <2>1. Range(c) \cap Range(k) = {}
    BY <1>3, <1>4, <1>5, <1>6
  <2> QED BY <1>2, <1>6, <2>1, ConcatFacts
<1>8. Owed = c \o k
  BY DEF Owed, a, b, c, k
<1>9. Range(c) \cup Range(k) = InHand
  BY <1>2, <1>4, <1>5, <1>6 DEF InHand, Waiting
<1> QED BY <1>7, <1>8, <1>9

\* A request whose client waits is in the worker's hands exactly once, and one
\* that was answered is not in them: no deferral, park, retry or retire loses a
\* request or runs it twice.
THEOREM HeldOnceCorrect == Spec => []HeldOnce
<1>1. ASSUME SchedInv PROVE HeldOnce
  <2> SUFFICES ASSUME NEW r \in Submitted
               PROVE  /\ Copies(r) <= 1
                      /\ ended[r] = 0 /\ r \notin closed => Copies(r) = 1
                      /\ ended[r] > 0 => Copies(r) = 0
    BY DEF HeldOnce
  <2> DEFINE I == {i \in DOMAIN Owed : Owed[i] = r}
  <2>1. Once(Owed) /\ Range(Owed) = InHand
    BY <1>1, OwedOnce
  <2>2. r \in Requests /\ ended[r] \in Nat
    <3>1. arrived \in Seq(Requests) /\ ended \in [Requests -> Nat]
      BY <1>1 DEF SchedInv, TypeOK
    <3> QED BY <3>1 DEF Submitted, Range
  <2>3. CASE r \in InHand
    <3>1. PICK i \in DOMAIN Owed : Owed[i] = r
      BY <2>1, <2>3 DEF Range
    <3>2. I = {i}
      BY <2>1, <3>1 DEF Once
    <3>3. Cardinality(I) = 1
      BY <3>2, FS_Singleton
    <3>4. ~(ended[r] > 0)
      BY <1>1, <2>2, <2>3 DEF SchedInv, Answers
    <3> QED BY <3>3, <3>4 DEF Copies
  <2>4. CASE r \notin InHand
    <3>1. I = {}
      BY <2>1, <2>4 DEF Range
    <3>2. Cardinality(I) = 0
      BY <3>1, FS_EmptySet
    <3>3. ~(ended[r] = 0 /\ r \notin closed)
      BY <1>1, <2>2, <2>4 DEF SchedInv, Answers
    <3> QED BY <3>2, <3>3 DEF Copies
  <2> QED BY <2>3, <2>4
<1> QED BY <1>1, SchedulerInvariant, PTL

\* Parked requests stand before all that never ran, in the order in which the
\* next admission pass pops them.
THEOREM ParkedAheadCorrect == Spec => []ParkedAhead
<1>1. ASSUME SchedInv PROVE ParkedAhead
  <2> USE <1>1 DEF SchedInv
  <2> DEFINE R == MayPrecede(Retried, arrived)
  <2>1. /\ requeue_oom \in Seq(Requests) /\ requeue \in Seq(Requests)
        /\ queue \in Seq(Requests) /\ arrived \in Seq(Requests)
    BY DEF TypeOK
  <2>2. \A x \in Range(requeue_oom), y \in Requests : <<x, y>> \in R
    BY DEF Lines, Retried, MayPrecede
  <2>3. InLine(R)
    BY DEF Lines
  <2>4. \A x, y : <<x, y>> \in R /\ y \in Retried => x \in Retried
    BY DEF MayPrecede
  <2> HIDE DEF R
  <2>5. Pairwise(requeue_oom, R) /\ Across(requeue_oom, requeue, R) /\ Across(requeue_oom, queue, R)
    <3>1. /\ \A i \in DOMAIN requeue_oom : requeue_oom[i] \in Range(requeue_oom)
          /\ Range(requeue_oom) \subseteq Requests /\ Range(requeue) \subseteq Requests
          /\ Range(queue) \subseteq Requests
      BY <2>1 DEF Range
    <3> QED BY <2>2, <3>1 DEF Pairwise, Across
  <2>6. /\ Pairwise(requeue, R) /\ Pairwise(queue, R) /\ Across(requeue, queue, R)
    BY <2>3 DEF InLine
  <2> DEFINE a == requeue_oom \o requeue
             line == a \o queue
  <2>7. Pairwise(a, R) /\ a \in Seq(Requests) /\ Range(a) = Range(requeue_oom) \cup Range(requeue)
    BY <2>1, <2>5, <2>6, PairConcat, ConcatFacts
  <2> HIDE DEF a
  <2>8. Across(a, queue, R)
    BY <2>5, <2>6, <2>7 DEF Across
  <2>9. Pairwise(line, R) /\ line \in Seq(Requests)
    BY <2>1, <2>6, <2>7, <2>8, PairConcat, ConcatFacts
  <2>10. \A i \in DOMAIN line : line[i] \in Requests
    <3> HIDE DEF line
    <3> QED BY <2>9
  <2>11. \A i, j \in DOMAIN line :
            i < j /\ oom_retries[line[j]] > 0 => oom_retries[line[i]] > 0
    <3> HIDE DEF line
    <3> QED BY <2>4, <2>9, <2>10 DEF Pairwise, Retried
  <2> QED BY <2>11 DEF ParkedAhead, a
<1> QED BY <1>1, SchedulerInvariant, PTL

\* A client that was told the end hears nothing more, in any step.
LEMMA EndedStays ==
    ASSUME SchedulerAssumption, SchedInv, Next, NEW r \in Requests, ended[r] > 0
    PROVE  ended'[r] = ended[r] /\ stream'[r] = stream[r]
<1> USE DEF SchedInv
<1>0. /\ r \notin Waiting /\ r \notin Live /\ TypeOK
      /\ ended \in [Requests -> Nat] /\ stream \in [Requests -> Seq(Nat)]
  BY DEF Answers, InHand, TypeOK
<1>1. ASSUME TickGoal PROVE ended'[r] = ended[r] /\ stream'[r] = stream[r]
  <2>1. stream'[r] = stream[r]
    BY <1>0, <1>1 DEF TickGoal, TickStep, TokenStep
  <2>2. ended'[r] = ended[r]
    BY <1>0, <1>1 DEF TickGoal, TickStep, EndStep
  <2> QED BY <2>1, <2>2
<1>2. ASSUME NEW q \in Requests, q # r, EndAll({q}) PROVE ended'[r] = ended[r]
  BY <1>0, <1>2 DEF EndAll
<1>3. CASE HandleCmd
  <2>1. chan \in Seq(Requests) /\ chan # <<>>
    BY <1>3 DEF TypeOK, HandleCmd
  <2>2. Head(chan) \in Range(chan) /\ Head(chan) \in Requests
    BY <2>1, HeadTailFacts
  <2>3. Head(chan) # r
    BY <1>0, <2>2 DEF Waiting
  <2> QED BY <1>2, <1>3, <2>2, <2>3 DEF HandleCmd, End
<1>4. CASE Admission
  <2>1. PICK q \in Requests : DropClosed(q) \/ Defer(q) \/ Shed(q) \/ Refuse(q) \/ Admit(q)
    BY <1>4 DEF Admission
  <2>2. Pop(q) /\ stream' = stream /\ (ended' = ended \/ EndAll({q}))
    BY <2>1 DEF DropClosed, Defer, Shed, Refuse, Admit, PassesGates, End, outVars
  <2>3. q # r
    BY <1>0, <2>2, PopFacts
  <2> QED BY <1>2, <2>2, <2>3
<1>5. CASE GraphStep
  <2>1. TickGoal
    BY <1>5, DegradeTick, NoGraphTick, GraphTick DEF GraphStep
  <2> QED BY <1>1, <2>1
<1>6. CASE Bursts
  <2>1. PICK q \in Requests : BurstSkip(q) \/ BurstSpent(q) \/ BurstRuns(q) \/ BurstFails(q)
    BY <1>6 DEF Bursts
  <2>2. CASE BurstSkip(q) \/ BurstSpent(q) \/ BurstRuns(q)
    BY <1>1, <2>2, BurstTick
  <2>3. CASE BurstFails(q)
    <3>1. CASE FailsForGood(q)
      BY <1>1, <3>1, FailsTick
    <3>2. CASE GetsParked(q)
      <4>1. q \in Active /\ q \notin finished
        BY <3>2, BurstHead DEF GetsParked
      <4>2. q # r
        BY <1>0, <4>1 DEF Live
      <4>3. PICK n : Flushed(q, n)
        BY <3>2 DEF GetsParked
      <4> QED BY <1>0, <3>2, <4>2, <4>3 DEF GetsParked, Flushed
    <3> QED BY <2>3, <3>1, <3>2, BurstFailsCases
  <2> QED BY <2>1, <2>2, <2>3
<1>7. CASE \/ Demote \/ BurstsDone \/ PrefillInteractive \/ Decode
           \/ DarkSkip \/ DarkBatch \/ DarkChunk
  <2>1. TickGoal
    BY <1>7, DemoteTick, BurstsDoneTick, PrefillTick, DecodeTick, DarkBatchTick, DarkChunkTick
  <2> QED BY <1>1, <2>1
<1>8. CASE \/ StartAdmission \/ StartTick \/ Retire \/ SloAgePasses
           \/ \E q \in Requests : Submit(q) \/ Disconnect(q)
  BY <1>8 DEF StartAdmission, StartTick, Retire, SloAgePasses, Submit, Disconnect, outVars
<1> QED BY <1>3, <1>4, <1>5, <1>6, <1>7, <1>8 DEF Next, Worker, Clients

\* After Done or Error a client gets neither tokens nor another end.
THEOREM NothingAfterEndCorrect == Spec => NothingAfterEnd
<1>1. SchedulerAssumption
  BY SchedulerAssumption
<1>2. SchedInv /\ [Next]_vars =>
        [\A r \in Requests : ended[r] > 0 => /\ ended'[r] = ended[r]
                                             /\ stream'[r] = stream[r]]_vars
  BY <1>1, EndedStays
<1> QED BY <1>2, SchedulerInvariant, PTL DEF Spec, NothingAfterEnd

\* Only admission adds to the live sessions.
LEMMA GoesLive ==
    ASSUME SchedulerAssumption, SchedInv, Next, NEW r \in Range(active'), r \notin Active
    PROVE  Admit(r)
<1> USE DEF SchedInv
<1>1. CASE Retire
  <2>1. active \in Seq(Requests) /\ active' = Keep(active, Live)
    BY <1>1 DEF TypeOK, Retire
  <2>2. Range(Keep(active, Live)) = Range(active) \cap Live
    BY <2>1, KeepProperties, Zenon
  <2> QED BY <2>1, <2>2 DEF Active
<1>2. CASE Admission
  <2>1. PICK q \in Requests : DropClosed(q) \/ Defer(q) \/ Shed(q) \/ Refuse(q) \/ Admit(q)
    BY <1>2 DEF Admission
  <2>2. CASE Admit(q)
    <3>1. active \in Seq(Requests) /\ active' = Append(active, q)
      BY <2>2 DEF TypeOK, Admit
    <3>2. Range(active') = Active \cup {q}
      BY <3>1, AppendFacts DEF Active
    <3> QED BY <2>2, <3>2
  <2>3. CASE active' = active
    BY <2>3 DEF Active
  <2> QED BY <2>1, <2>2, <2>3 DEF DropClosed, Defer, Shed, Refuse
<1>3. CASE active' = active
  BY <1>3 DEF Active
<1>4. Admission \/ Retire \/ active' = active
  BY DEF Next, Worker, Clients, HandleCmd, StartAdmission, StartTick, GraphStep,
         DegradeGraph, NoGraph, PromoteFails, StepGraph, Demote, Bursts, BurstSkip, BurstSpent,
         BurstRuns, BurstFails, BurstsDone, PrefillInteractive, Decode, DarkSkip, DarkBatch,
         DarkChunk, Submit, Disconnect, SloAgePasses
<1> QED BY <1>1, <1>2, <1>3, <1>4

\* Who came before an interactive request that goes live and is left waiting was
\* put aside by the VRAM gate in this pass.
LEMMA FirstInLine ==
    ASSUME SchedulerAssumption, SchedInv, NEW r \in Requests, Admit(r), r \in Interactive,
           oom_retries[r] = 0, NEW q \in Interactive, q \in Waiting, ArrivedBefore(q, r)
    PROVE  q \in vram_defers
<1> USE DEF SchedInv
<1> DEFINE R == MayPrecede(Retried, arrived)
<1>0. TypeOK /\ Pop(r) /\ ~AtLaneCap(r)
  BY DEF Admit, PassesGates
<1>1. /\ Range(queue) = {r} \cup Range(queue') /\ phase = "admit"
      /\ \A y \in Range(queue') : <<r, y>> \in R
  BY <1>0, PopFacts
<1>2. arrived \in Seq(Requests) /\ Once(arrived) /\ r \notin Retried /\ InLine(R)
  BY DEF TypeOK, Lines, Retried
<1>3. ArrivedBefore(q, r) <=> Before(arrived, q, r)
  BY DEF ArrivedBefore, Before
<1>4. CASE q = r
  BY <1>2, <1>3, <1>4, BeforeOneWay
<1>5. CASE q \in Range(requeue)
  <2>1. ~(Cardinality(Active \cap Interactive) >= InteractiveCap)
    BY <1>0, LaneCounts DEF AtLaneCap, LaneCap
  <2> QED BY <1>5, <2>1 DEF Barred
<1>6. CASE q \in Range(queue') \/ q \in Range(chan)
  <2>1. <<r, q>> \in R
    BY <1>1, <1>2, <1>6 DEF InLine, Across
  <2>2. Before(arrived, r, q)
    BY <1>2, <2>1 DEF MayPrecede
  <2> QED BY <1>2, <1>3, <2>2, BeforeOneWay
<1> QED BY <1>1, <1>4, <1>5, <1>6 DEF Waiting

\* "waits (FIFO), never shed", for every set of requests and every cap: nobody is
\* overtaken but by the VRAM gate, and then for the rest of one pass.
THEOREM InteractiveFifoCorrect == Spec => InteractiveFifo
<1>1. SchedulerAssumption
  BY SchedulerAssumption
<1>2. SchedInv /\ [Next]_vars =>
        [\A r \in Interactive : FirstLive(r) =>
          \A q \in (Interactive \cap Waiting) \ closed :
             ArrivedBefore(q, r) => q \in vram_defers]_vars
  <2> SUFFICES ASSUME SchedInv, Next, NEW r \in Interactive \ Active,
                      r \in Range(active'), oom_retries[r] = 0,
                      NEW q \in (Interactive \cap Waiting) \ closed, ArrivedBefore(q, r)
               PROVE  q \in vram_defers
    BY DEF FirstLive
  <2>1. r \in Requests
    BY <1>1 DEF SchedulerAssumption
  <2>2. Admit(r)
    BY <1>1, GoesLive
  <2> QED BY <1>1, <2>1, <2>2, FirstInLine
<1> QED BY <1>2, SchedulerInvariant, PTL DEF Spec, InteractiveFifo

\* A request that was never parked streams the tokens of one generation.
UnparkedExact ==
    \A r \in Requests : oom_retries[r] = 0 =>
        \A i \in DOMAIN stream[r] : stream[r][i] = i

\* Whatever runs beside it, a request that has not been parked sees 1, 2, 3, ...
\* without a gap or a repetition.
THEOREM UnparkedExactCorrect == Spec => []UnparkedExact
<1>1. ASSUME SchedInv PROVE UnparkedExact
  BY <1>1 DEF SchedInv, Streams, Exact, Retried, UnparkedExact
<1> QED BY <1>1, SchedulerInvariant, PTL

\* With no retries (MEMRA_STEP_OOM_RETRIES = 0) every client does.  The
\* hypothesis is needed: run oom_resend refutes ExactStream with one retry.
THEOREM ExactStreamCorrect == OomRetries = 0 => (Spec => []ExactStream)
<1> SUFFICES ASSUME OomRetries = 0 PROVE Spec => []ExactStream
  OBVIOUS
<1>1. ASSUME SchedInv PROVE ExactStream
  <2>1. \A r \in Requests : oom_retries[r] \in 0 .. 0
    BY <1>1 DEF SchedInv, TypeOK
  <2>2. Requests \ Retried = Requests
    BY <2>1 DEF Retried
  <2> QED BY <1>1, <2>2 DEF SchedInv, Streams, Exact, ExactStream
<1> QED BY <1>1, SchedulerInvariant, PTL

=============================================================================
