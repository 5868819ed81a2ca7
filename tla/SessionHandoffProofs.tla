------------------------ MODULE SessionHandoffProofs ------------------------
(***************************************************************************)
(* Proofs about SessionHandoff, for any prompts, budgets, burst lengths    *)
(* and start-up configurations: what holds whatever the flags are, what    *)
(* holds when the pools are off, or on with neither demotion, graphs,      *)
(* yields nor engine failures, and what needs only some of these off.      *)
(***************************************************************************)
EXTENDS SessionHandoff, SequenceTheorems, TLAPS

-----------------------------------------------------------------------------
(* Sequences. *)

\* The first n elements.
LEMMA FrontPart ==
    ASSUME NEW S, NEW s \in Seq(S), NEW n \in 0 .. Len(s)
    PROVE  SubSeq(s, 1, n) \in Seq(S) /\ Len(SubSeq(s, 1, n)) = n
  <1>1. \A i \in 1 .. n : s[i] \in S
    BY ElementOfSeq
  <1>2. n \in Int /\ 1 \in Int /\ n \in Nat
    OBVIOUS
  <1>3. /\ SubSeq(s, 1, n) \in Seq(S)
        /\ Len(SubSeq(s, 1, n)) = IF 1 <= n THEN n - 1 + 1 ELSE 0
    BY <1>1, <1>2, SubSeqProperties
  <1> QED
    BY <1>2, <1>3

\* The elements past the n-th.
LEMMA BackPart ==
    ASSUME NEW S, NEW s \in Seq(S), NEW n \in Nat
    PROVE  /\ After(s, n) \in Seq(S)
           /\ Len(After(s, n)) = IF n < Len(s) THEN Len(s) - n ELSE 0
           /\ n >= Len(s) => After(s, n) = <<>>
  <1>1. Len(s) \in Nat
    BY LenProperties
  <1>2. \A i \in n + 1 .. Len(s) : s[i] \in S
    BY <1>1, ElementOfSeq
  <1>3. /\ SubSeq(s, n + 1, Len(s)) \in Seq(S)
        /\ Len(SubSeq(s, n + 1, Len(s))) = IF n + 1 <= Len(s) THEN Len(s) - (n + 1) + 1 ELSE 0
    BY <1>1, <1>2, SubSeqProperties
  <1>4. n >= Len(s) => SubSeq(s, n + 1, Len(s)) = <<>>
    BY <1>1, SubSeqEmpty
  <1> QED
    BY <1>1, <1>3, <1>4 DEF After

\* Both parts make up the whole.
LEMMA Parts ==
    ASSUME NEW S, NEW s \in Seq(S), NEW n \in 0 .. Len(s)
    PROVE  SubSeq(s, 1, n) \o After(s, n) = s
  <1>1. Len(s) \in Nat
    BY LenProperties
  <1>2. 1 \in 1 .. Len(s) + 1 /\ n \in 1 - 1 .. Len(s) /\ Len(s) \in n .. Len(s)
    BY <1>1
  <1>3. SubSeq(s, 1, n) \o SubSeq(s, n + 1, Len(s)) = SubSeq(s, 1, Len(s))
    BY <1>2, ConcatAdjacentSubSeq
  <1> QED
    BY <1>3, SubSeqFull DEF After

\* A prompt that starts with q is q and a suffix.
LEMMA Prefixed ==
    ASSUME NEW S, NEW p \in Seq(S), NEW q \in Seq(S), StartsWith(p, q)
    PROVE  /\ q \o After(p, Len(q)) = p
           /\ Len(p) = Len(q) => p = q
           /\ After(p, Len(q)) \in Seq(S)
  <1>1. Len(p) \in Nat /\ Len(q) \in Nat /\ Len(q) \in 0 .. Len(p)
    BY LenProperties DEF StartsWith
  <1>2. SubSeq(p, 1, Len(q)) \o After(p, Len(q)) = p
    BY <1>1, Parts
  <1>3. Len(p) = Len(q) => SubSeq(p, 1, Len(q)) = p
    BY SubSeqFull
  <1> QED
    BY <1>1, <1>2, <1>3, BackPart DEF StartsWith

\* remove(i).
LEMMA RemoveAtType ==
    ASSUME NEW S, NEW s \in Seq(S), NEW i \in DOMAIN s
    PROVE  RemoveAt(s, i) \in Seq(S) /\ Len(RemoveAt(s, i)) = Len(s) - 1
  <1>1. Len(s) \in Nat /\ i \in 1 .. Len(s)
    BY LenProperties
  <1>2. i - 1 \in 0 .. Len(s) /\ i \in Nat
    BY <1>1
  <1>3. SubSeq(s, 1, i - 1) \in Seq(S) /\ Len(SubSeq(s, 1, i - 1)) = i - 1
    BY <1>2, FrontPart
  <1>4. /\ After(s, i) \in Seq(S)
        /\ Len(After(s, i)) = IF i < Len(s) THEN Len(s) - i ELSE 0
    BY <1>2, BackPart
  <1>5. /\ RemoveAt(s, i) \in Seq(S)
        /\ Len(RemoveAt(s, i)) = Len(SubSeq(s, 1, i - 1)) + Len(After(s, i))
    BY <1>3, <1>4, ConcatProperties DEF RemoveAt
  <1> QED
    BY <1>1, <1>3, <1>4, <1>5

\* The trim and the push: what a pool holds stays of its kind, and within the cap.
LEMMA PushType ==
    ASSUME NEW S, NEW pool \in Seq(S), NEW e \in S, env.pool \in Nat
    PROVE  Push(pool, e) \in Seq(S) /\ Len(Push(pool, e)) <= env.pool
  <1>1. Len(pool) \in Nat
    BY LenProperties
  <1>2. CASE env.pool = 0
    BY <1>2, EmptySeq DEF Push
  <1>3. CASE env.pool # 0 /\ Len(pool) < env.pool
    <2>1. Push(pool, e) = Append(pool, e)
      BY <1>1, <1>3 DEF Push
    <2> QED
      BY <2>1, <1>1, <1>3, AppendProperties
  <1>4. CASE env.pool # 0 /\ Len(pool) >= env.pool
    <2> DEFINE n == Len(pool) - env.pool + 1
               q == After(pool, n)
    <2>1. Push(pool, e) = Append(q, e)
      BY <1>1, <1>4 DEF Push
    <2>2. n \in Nat
      BY <1>1, <1>4
    <2> HIDE DEF n
    <2>3. /\ q \in Seq(S)
          /\ Len(q) = IF n < Len(pool) THEN Len(pool) - n ELSE 0
      BY <2>2, BackPart
    <2> HIDE DEF q
    <2>4. Append(q, e) \in Seq(S) /\ Len(Append(q, e)) = Len(q) + 1
      BY <2>3, AppendProperties
    <2> QED
      BY <2>1, <2>3, <2>4, <1>1, <1>4 DEF n
  <1> QED
    BY <1>1, <1>2, <1>3, <1>4

-----------------------------------------------------------------------------
(* Type correctness, and what a burst may count on.                        *)

PlainEntry == [rows : Seq(Nat), fed : Seq(Nat), logits : Seq(Nat)]
SpecEntry == [rows : Seq(Nat), committed : Seq(Nat), pred : Seq(Nat), ckpt : Nat]

\* The cache reaches as far as the boundary it can be rewound to, and a parked
\* spec session has a prediction to go on from.
Sessions == {s \in Session : s.ckpt <= Len(s.rows)}
SpecEntries == {e \in SpecEntry : e.ckpt <= Len(e.rows) /\ e.pred # None}

\* TypeOK with these.
Typed ==
    /\ env \in Config
    /\ slot \in Sessions \cup {Free}
    /\ reuse \in Seq(PlainEntry) /\ Len(reuse) <= env.pool
    /\ spec_reuse \in Seq(SpecEntries) /\ Len(spec_reuse) <= env.pool
    /\ honest \in BOOLEAN /\ turns \in Nat

\* A session with room for a token and something to start from (CanBurst).
Able(s) ==
    s.kind = "spec" /\ ~s.fin =>
        /\ Len(s.gen) < Budget
        /\ s.queue # <<>> \/ s.pred # None \/ s.pending # <<>>

\* The prompts are non-empty sequences of tokens.
LEMMA PromptType ==
    ASSUME NEW p \in Prompts
    PROVE  p \in Seq(Nat) /\ p # <<>> /\ Len(p) \in Nat /\ Len(p) > 0
  <1>1. p \in Seq(Nat) /\ p # <<>>
    BY HandoffAssumption DEF HandoffAssumption
  <1> QED
    BY <1>1, EmptySeq, LenProperties

\* A slot in use holds a session.
LEMMA SlotUsed ==
    ASSUME Typed, slot # Free
    PROVE  slot \in Sessions /\ slot \in Session
  BY DEF Typed, Sessions

\* Running sessions are sessions.
LEMMA RunningSession ==
    ASSUME Typed, NEW k \in Kinds, Running(k)
    PROVE  slot \in Sessions /\ slot \in Session /\ slot.kind = k /\ slot.fin = FALSE
  <1>1. slot # Free
    BY DEF Running, Kinds, Free
  <1>2. slot \in Sessions /\ slot \in Session
    BY <1>1, SlotUsed
  <1>3. slot.fin \in BOOLEAN
    BY <1>2 DEF Session
  <1>4. slot.kind = k /\ ~slot.fin
    BY DEF Running
  <1>5. slot.fin = FALSE
    BY <1>3, <1>4, Zenon
  <1> QED
    BY <1>2, <1>4, <1>5, Zenon

\* A session before anything is resumed.
LEMMA ColdType ==
    ASSUME NEW p \in Prompts, NEW k \in Kinds
    PROVE  /\ [Cold(p) EXCEPT !.kind = k] \in Sessions
           /\ Cold(p) \in Sessions
           /\ Able([Cold(p) EXCEPT !.kind = k]) /\ Able(Cold(p))
  <1>1. p \in Seq(Nat) /\ p # <<>>
    BY PromptType
  <1>2. <<>> \in Seq(Nat) /\ Len(<<>>) = 0
    BY EmptySeq
  <1>3. [Cold(p) EXCEPT !.kind = k] \in Session /\ Cold(p) \in Session
    BY <1>1, <1>2 DEF Cold, Session, Kinds, None
  <1>4. /\ [Cold(p) EXCEPT !.kind = k].ckpt = 0 /\ Cold(p).ckpt = 0
        /\ [Cold(p) EXCEPT !.kind = k].rows = <<>> /\ Cold(p).rows = <<>>
        /\ [Cold(p) EXCEPT !.kind = k].queue = p /\ Cold(p).queue = p
        /\ [Cold(p) EXCEPT !.kind = k].gen = <<>> /\ Cold(p).gen = <<>>
    BY DEF Cold
  <1>5. Budget \in Nat \ {0}
    BY HandoffAssumption DEF HandoffAssumption
  <1>6. ASSUME NEW c \in Session, c.ckpt = 0, c.rows = <<>>, c.queue = p, c.gen = <<>>
        PROVE  c \in Sessions /\ Able(c)
    BY <1>1, <1>2, <1>5, <1>6 DEF Sessions, Able
  <1> QED
    BY <1>3, <1>4, <1>6

\* A resumed spec session, with a suffix to prime or a prediction to go on from.
LEMMA ResumedType ==
    ASSUME NEW p \in Prompts, NEW e \in SpecEntry, e.ckpt <= Len(e.rows),
           StartsWith(p, e.committed), e.pred # None \/ Len(e.committed) < Len(p)
    PROVE  Resumed(p, e) \in Sessions /\ Able(Resumed(p, e))
  <1> DEFINE t == Resumed(p, e)
  <1>1. p \in Seq(Nat) /\ Len(p) \in Nat
    BY PromptType
  <1>2. /\ e.rows \in Seq(Nat) /\ e.committed \in Seq(Nat) /\ e.pred \in Seq(Nat)
        /\ e.ckpt \in Nat /\ Len(e.committed) \in Nat
    BY LenProperties DEF SpecEntry
  <1>3. /\ After(p, Len(e.committed)) \in Seq(Nat)
        /\ Len(After(p, Len(e.committed))) =
               IF Len(e.committed) < Len(p) THEN Len(p) - Len(e.committed) ELSE 0
    BY <1>1, <1>2, BackPart
  <1>4. Cold(p) \in Session
    BY ColdType DEF Sessions, Kinds
  <1>5. t \in Session
    BY <1>2, <1>3, <1>4 DEF Resumed, Session, Kinds
  <1>6. /\ t.ckpt = e.ckpt /\ t.rows = e.rows /\ t.pred = e.pred /\ t.gen = <<>>
        /\ t.queue = After(p, Len(e.committed))
    BY DEF Resumed, Cold
  <1>7. e.pred # None \/ t.queue # <<>>
    BY <1>1, <1>2, <1>3, <1>6, EmptySeq
  <1>8. Len(<<>>) = 0 /\ Budget \in Nat \ {0}
    BY EmptySeq, HandoffAssumption DEF HandoffAssumption
  <1> HIDE DEF t
  <1> QED
    <2>1. t \in Sessions
      BY <1>5, <1>6 DEF Sessions
    <2>2. Able(t)
      BY <1>6, <1>7, <1>8 DEF Able
    <2> QED
      BY <2>1, <2>2 DEF t

\* A rewound session: everything past the boundary is gone.
LEMMA RewoundType ==
    ASSUME NEW e \in SpecEntries, e.ckpt <= Len(e.committed)
    PROVE  /\ Rewound(e) \in SpecEntry
           /\ Rewound(e).ckpt = 0 /\ Rewound(e).pred = None
           /\ Rewound(e).rows = SubSeq(e.rows, 1, e.ckpt)
           /\ Rewound(e).committed = SubSeq(e.committed, 1, e.ckpt)
           /\ Len(Rewound(e).committed) = e.ckpt
  <1>1. /\ e.rows \in Seq(Nat) /\ e.committed \in Seq(Nat) /\ e.pred \in Seq(Nat)
        /\ e.ckpt \in Nat /\ e.ckpt <= Len(e.rows) /\ e \in SpecEntry
        /\ Len(e.rows) \in Nat /\ Len(e.committed) \in Nat
    BY LenProperties DEF SpecEntries, SpecEntry
  <1>2. e.ckpt \in 0 .. Len(e.rows) /\ e.ckpt \in 0 .. Len(e.committed)
    BY <1>1
  <1>3. SubSeq(e.rows, 1, e.ckpt) \in Seq(Nat)
    BY <1>1, <1>2, FrontPart
  <1>4. SubSeq(e.committed, 1, e.ckpt) \in Seq(Nat) /\ Len(SubSeq(e.committed, 1, e.ckpt)) = e.ckpt
    BY <1>1, <1>2, FrontPart
  <1>5. None \in Seq(Nat)
    BY EmptySeq DEF None
  <1> QED
    BY <1>1, <1>3, <1>4, <1>5 DEF Rewound, SpecEntry

\* What the state is after any step of the session in the slot.
Stepped ==
    /\ slot' \in Sessions \cup {Free}
    /\ Able(slot')

\* admit: whatever is resumed, the new session is whole and can go on, and the
\* pools keep their kind.
LEMMA ReuseTyped ==
    ASSUME Typed, NEW p \in Prompts, AdmitReuse(p)
    PROVE  Stepped /\ reuse' \in Seq(PlainEntry) /\ Len(reuse') <= env.pool
  <1>1. PICK i \in DOMAIN reuse :
            LET e == reuse[i]
            IN  /\ IsLast(i, ReuseHits(p))
                /\ slot' = [Cold(p) EXCEPT !.fed = e.fed, !.rows = e.rows,
                              !.logits = e.logits, !.queue = After(p, Len(e.fed)),
                              !.done = (Len(p) = Len(e.fed))]
                /\ reuse' = RemoveAt(reuse, i)
    BY DEF AdmitReuse
  <1>2. reuse[i] \in PlainEntry
    BY LenProperties, ElementOfSeq DEF Typed
  <1>3. /\ reuse[i].rows \in Seq(Nat) /\ reuse[i].fed \in Seq(Nat)
        /\ reuse[i].logits \in Seq(Nat) /\ Len(reuse[i].fed) \in Nat
        /\ Len(reuse[i].rows) \in Nat
    BY <1>2, LenProperties DEF PlainEntry
  <1>4. After(p, Len(reuse[i].fed)) \in Seq(Nat)
    BY <1>3, BackPart, PromptType
  <1>5. (Len(p) = Len(reuse[i].fed)) \in BOOLEAN
    OBVIOUS
  <1>6. Cold(p) \in Session
    BY ColdType DEF Sessions, Kinds
  <1>7. slot' \in Session
    BY <1>1, <1>3, <1>4, <1>5, <1>6 DEF Session
  <1>8. slot'.ckpt = 0 /\ slot'.kind = "plain" /\ slot'.rows = reuse[i].rows
    BY <1>1 DEF Cold
  <1>9. slot' \in Sessions
    BY <1>3, <1>7, <1>8 DEF Sessions
  <1>10. Able(slot')
    BY <1>8 DEF Able
  <1>11. /\ RemoveAt(reuse, i) \in Seq(PlainEntry)
         /\ Len(RemoveAt(reuse, i)) = Len(reuse) - 1
    BY RemoveAtType DEF Typed
  <1>12. Len(reuse) \in Nat /\ env.pool \in Nat
    BY LenProperties DEF Typed, Config
  <1> QED
    BY <1>1, <1>9, <1>10, <1>11, <1>12 DEF Stepped, Typed

\* Taking a spec session out of its pool.
LEMMA SpecTaken ==
    ASSUME Typed, NEW i \in DOMAIN spec_reuse
    PROVE  /\ spec_reuse[i] \in SpecEntries
           /\ RemoveAt(spec_reuse, i) \in Seq(SpecEntries)
           /\ Len(RemoveAt(spec_reuse, i)) <= env.pool
  <1>1. spec_reuse[i] \in SpecEntries
    BY LenProperties, ElementOfSeq DEF Typed
  <1>2. /\ RemoveAt(spec_reuse, i) \in Seq(SpecEntries)
        /\ Len(RemoveAt(spec_reuse, i)) = Len(spec_reuse) - 1
    BY RemoveAtType DEF Typed
  <1>3. Len(spec_reuse) \in Nat /\ env.pool \in Nat
    BY LenProperties DEF Typed, Config
  <1> QED
    BY <1>1, <1>2, <1>3 DEF Typed

\* Admission through the spec pool, or cold.
LEMMA SpecTyped ==
    ASSUME Typed, NEW p \in Prompts, AdmitSpecExact(p) \/ AdmitRewind(p) \/ AdmitCold(p)
    PROVE  Stepped /\ spec_reuse' \in Seq(SpecEntries) /\ Len(spec_reuse') <= env.pool
  <1>1. CASE AdmitSpecExact(p)
    <2>1. PICK i \in DOMAIN spec_reuse :
              /\ IsLast(i, SpecHits(p))
              /\ slot' = Resumed(p, spec_reuse[i])
              /\ spec_reuse' = RemoveAt(spec_reuse, i)
      BY <1>1 DEF AdmitSpecExact
    <2>2. spec_reuse[i] \in SpecEntries
      BY SpecTaken
    <2>3. StartsWith(p, spec_reuse[i].committed)
      BY <2>1 DEF IsLast, SpecHits
    <2>4. slot' \in Sessions /\ Able(slot')
      BY <2>1, <2>2, <2>3, ResumedType DEF SpecEntries
    <2> QED
      BY <2>1, <2>4, SpecTaken DEF Stepped
  <1>2. CASE AdmitRewind(p)
    <2>1. PICK i \in Rewindable(p) :
              /\ slot' \in {Resumed(p, Rewound(spec_reuse[i]))}
                            \cup IfErrs({[Cold(p) EXCEPT !.kind = "spec"]})
              /\ spec_reuse' = RemoveAt(spec_reuse, i)
      BY <1>2 DEF AdmitRewind
    <2>2. /\ i \in DOMAIN spec_reuse
          /\ spec_reuse[i].ckpt < Len(p) /\ spec_reuse[i].ckpt <= Len(spec_reuse[i].committed)
          /\ StartsWith(p, SubSeq(spec_reuse[i].committed, 1, spec_reuse[i].ckpt))
      BY <2>1 DEF Rewindable
    <2>3. spec_reuse[i] \in SpecEntries
      BY <2>2, SpecTaken
    <2> DEFINE w == Rewound(spec_reuse[i])
    <2>4. /\ w \in SpecEntry /\ w.ckpt = 0 /\ w.rows \in Seq(Nat) /\ Len(w.rows) \in Nat
          /\ StartsWith(p, w.committed) /\ Len(w.committed) < Len(p)
      BY <2>2, <2>3, RewoundType, LenProperties DEF SpecEntry
    <2> HIDE DEF w
    <2>5. Resumed(p, w) \in Sessions /\ Able(Resumed(p, w))
      BY <2>4, ResumedType
    <2>6. [Cold(p) EXCEPT !.kind = "spec"] \in Sessions /\ Able([Cold(p) EXCEPT !.kind = "spec"])
      BY ColdType DEF Kinds
    <2>7. slot' \in {Resumed(p, w), [Cold(p) EXCEPT !.kind = "spec"]}
      BY <2>1 DEF w, IfErrs
    <2> QED
      BY <2>1, <2>2, <2>5, <2>6, <2>7, SpecTaken DEF Stepped
  <1>3. CASE AdmitCold(p)
    <2>1. slot' \in {Cold(p), [Cold(p) EXCEPT !.kind = "spec"]}
      BY <1>3 DEF AdmitCold
    <2>2. spec_reuse' \in {spec_reuse, <<>>}
      BY <1>3 DEF AdmitCold
    <2>3. <<>> \in Seq(SpecEntries) /\ Len(<<>>) = 0 /\ env.pool \in Nat
      BY EmptySeq DEF Typed, Config
    <2>4. "spec" \in Kinds
      BY DEF Kinds
    <2>5. slot' \in Sessions /\ Able(slot')
      BY <2>1, <2>4, ColdType
    <2>6. spec_reuse' \in Seq(SpecEntries) /\ Len(spec_reuse') <= env.pool
      <3>1. CASE spec_reuse' = spec_reuse
        BY <3>1 DEF Typed
      <3>2. CASE spec_reuse' = <<>>
        BY <3>2, <2>3
      <3> QED
        BY <2>2, <3>1, <3>2
    <2> QED
      BY <2>5, <2>6 DEF Stepped
  <1> QED
    BY <1>1, <1>2, <1>3

\* A chunk of the prompt is fed.
LEMMA PrefillTyped ==
    ASSUME Typed, Prefill
    PROVE  Stepped
  <1>1. slot \in Session /\ slot.kind = "plain" /\ slot.ckpt <= Len(slot.rows)
    BY RunningSession DEF Prefill, Kinds, Sessions
  <1>2. slot.queue \in Seq(Nat) /\ slot.rows \in Seq(Nat) /\ slot.fed \in Seq(Nat) /\ slot.ckpt \in Nat
    BY <1>1 DEF Session
  <1>3. PICK n \in 1 .. Len(slot.queue) :
            LET rows == slot.rows \o SubSeq(slot.queue, 1, n)
            IN  slot' \in
                  {[slot EXCEPT !.rows = rows, !.logits = rows,
                       !.fed = @ \o SubSeq(slot.queue, 1, n),
                       !.queue = After(@, n), !.done = (n = Len(slot.queue))]}
                  \cup IfErrs({[slot EXCEPT !.rows = rows, !.fin = TRUE]})
    BY DEF Prefill
  <1> DEFINE rows == slot.rows \o SubSeq(slot.queue, 1, n)
             fed == slot.fed \o SubSeq(slot.queue, 1, n)
             rest == After(slot.queue, n)
             done == (n = Len(slot.queue))
             t == [slot EXCEPT !.rows = rows, !.logits = rows, !.fed = fed,
                               !.queue = rest, !.done = done]
             u == [slot EXCEPT !.rows = rows, !.fin = TRUE]
  <1>4. slot' \in {t, u}
    BY <1>3 DEF IfErrs
  <1>5. SubSeq(slot.queue, 1, n) \in Seq(Nat) /\ n \in Nat
    BY <1>2, LenProperties, FrontPart
  <1>6. rows \in Seq(Nat) /\ Len(rows) = Len(slot.rows) + Len(SubSeq(slot.queue, 1, n))
    BY <1>2, <1>5, ConcatProperties
  <1>7. fed \in Seq(Nat) /\ rest \in Seq(Nat) /\ done \in BOOLEAN
    BY <1>2, <1>5, ConcatProperties, BackPart
  <1>8. Len(slot.rows) \in Nat /\ Len(SubSeq(slot.queue, 1, n)) \in Nat
    BY <1>2, <1>5, LenProperties
  <1> HIDE DEF rows, fed, rest, done
  <1>9. t \in Session /\ u \in Session
    BY <1>1, <1>6, <1>7 DEF Session
  <1>10. /\ t.ckpt = slot.ckpt /\ t.rows = rows /\ t.kind = "plain"
         /\ u.ckpt = slot.ckpt /\ u.rows = rows /\ u.kind = "plain"
    BY <1>1 DEF Session
  <1> HIDE DEF t, u
  <1>11. slot' \in Session /\ slot'.ckpt = slot.ckpt /\ slot'.rows = rows /\ slot'.kind = "plain"
    BY <1>4, <1>9, <1>10
  <1>12. slot' \in Sessions
    BY <1>1, <1>2, <1>6, <1>8, <1>11 DEF Sessions
  <1> QED
    BY <1>11, <1>12 DEF Stepped, Able

\* The fields an emitted token changes.
LEMMA EmitTyped ==
    ASSUME NEW s \in Sessions, NEW ctx, NEW going, Emit(s, ctx, going),
           s.kind # "spec", \A t \in going : t \in Sessions /\ t.kind # "spec"
    PROVE  Stepped
  <1> DEFINE t == [s EXCEPT !.gen = Append(@, Gen), !.fin = TRUE]
  <1>1. Gen \in Nat
    BY HandoffAssumption DEF HandoffAssumption
  <1>2. s \in Session /\ s.gen \in Seq(Nat) /\ s.ckpt <= Len(s.rows)
    BY DEF Sessions, Session
  <1>3. Append(s.gen, Gen) \in Seq(Nat)
    BY <1>1, <1>2, AppendProperties
  <1>4. t \in Session /\ t.ckpt = s.ckpt /\ t.rows = s.rows /\ t.kind = s.kind
    BY <1>2, <1>3 DEF Session
  <1>5. slot' = t \/ slot' \in going
    BY DEF Emit
  <1> HIDE DEF t
  <1>6. t \in Sessions
    BY <1>2, <1>4 DEF Sessions
  <1> QED
    BY <1>4, <1>5, <1>6 DEF Stepped, Able

\* The sessions that a fed token leads to.
LEMMA FedTyped ==
    ASSUME NEW s \in Sessions, NEW t \in Fed(s)
    PROVE  t \in Sessions /\ t.kind = s.kind
  <1> DEFINE rows == Append(s.rows, Gen)
             gen == Append(s.gen, Gen)
             fed == Append(s.fed, Gen)
             a == [s EXCEPT !.gen = gen, !.next = None]
             t1 == [a EXCEPT !.rows = rows, !.fed = fed, !.logits = rows]
             t2 == [a EXCEPT !.fin = TRUE]
             t3 == [a EXCEPT !.rows = rows, !.fin = TRUE]
  <1>1. Gen \in Nat /\ None \in Seq(Nat)
    BY EmptySeq, HandoffAssumption DEF HandoffAssumption, None
  <1>2. /\ s \in Session /\ s.gen \in Seq(Nat) /\ s.fed \in Seq(Nat) /\ s.rows \in Seq(Nat)
        /\ s.ckpt \in Nat /\ s.ckpt <= Len(s.rows) /\ Len(s.rows) \in Nat
    BY LenProperties DEF Sessions, Session
  <1>3. /\ rows \in Seq(Nat) /\ gen \in Seq(Nat) /\ fed \in Seq(Nat)
        /\ Len(rows) = Len(s.rows) + 1
    BY <1>1, <1>2, AppendProperties
  <1>4. a \in Session /\ a.ckpt = s.ckpt /\ a.rows = s.rows /\ a.kind = s.kind /\ a.fed = s.fed
    BY <1>1, <1>2, <1>3 DEF Session
  <1>5. t \in {t1, t2, t3}
    <2>1. Fed(s) = LET r == Append(s.rows, Gen)
                       b == [s EXCEPT !.gen = Append(@, Gen), !.next = None]
                   IN  {[b EXCEPT !.rows = r, !.fed = Append(@, Gen), !.logits = r]}
                       \cup IfErrs({[b EXCEPT !.fin = TRUE], [b EXCEPT !.rows = r, !.fin = TRUE]})
      BY DEF Fed
    <2> QED
      BY <2>1, <1>4 DEF IfErrs
  <1> HIDE DEF rows, gen, fed, a
  <1>6. /\ t1 \in Session /\ t1.ckpt = s.ckpt /\ t1.rows = rows /\ t1.kind = s.kind
        /\ t2 \in Session /\ t2.ckpt = s.ckpt /\ t2.rows = s.rows /\ t2.kind = s.kind
        /\ t3 \in Session /\ t3.ckpt = s.ckpt /\ t3.rows = rows /\ t3.kind = s.kind
    BY <1>3, <1>4 DEF Session
  <1> HIDE DEF t1, t2, t3
  <1> QED
    BY <1>2, <1>3, <1>5, <1>6 DEF Sessions

\* A session that ends keeps everything else.
LEMMA EndTyped ==
    ASSUME NEW s \in Sessions, slot' = [s EXCEPT !.fin = TRUE]
    PROVE  Stepped
  <1>1. s \in Session /\ s.ckpt <= Len(s.rows)
    BY DEF Sessions
  <1>2. slot' \in Session /\ slot'.ckpt = s.ckpt /\ slot'.rows = s.rows /\ slot'.fin
    BY <1>1 DEF Session
  <1>3. slot' \in Sessions
    BY <1>1, <1>2 DEF Sessions
  <1>4. Able(slot')
    BY <1>2 DEF Able
  <1> QED
    BY <1>3, <1>4 DEF Stepped

\* A batched decode step.
LEMMA DecodeTyped ==
    ASSUME Typed, Decode
    PROVE  Stepped
  <1>1. slot \in Sessions /\ slot.kind = "plain"
    BY RunningSession DEF Decode, Kinds
  <1>2. CASE Len(slot.gen) >= Budget
    <2>1. slot' = [slot EXCEPT !.fin = TRUE]
      BY <1>2 DEF Decode, Finished
    <2> QED
      BY <1>1, <2>1, EndTyped
  <1>3. CASE ~(Len(slot.gen) >= Budget)
    <2>1. PICK ctx : Emit(slot, ctx, Fed(slot))
      BY <1>3 DEF Decode
    <2> QED
      BY <1>1, <2>1, FedTyped, EmitTyped
  <1> QED
    BY <1>2, <1>3

\* The graph's step, from a session whose prediction is in place.
LEMMA StepGraphTyped ==
    ASSUME NEW s \in Sessions, s.kind = "graph", StepGraph(s)
    PROVE  Stepped
  <1> DEFINE rows == Append(s.rows, Gen)
             gen == Append(s.gen, Gen)
             fed == Append(s.fed, Gen)
             a == [s EXCEPT !.gen = gen, !.fed = fed]
             t1 == [a EXCEPT !.rows = rows, !.next = rows]
             t2 == [a EXCEPT !.fin = TRUE]
  <1>1. Gen \in Nat
    BY HandoffAssumption DEF HandoffAssumption
  <1>2. /\ s \in Session /\ s.gen \in Seq(Nat) /\ s.fed \in Seq(Nat) /\ s.rows \in Seq(Nat)
        /\ s.ckpt \in Nat /\ s.ckpt <= Len(s.rows) /\ Len(s.rows) \in Nat
    BY LenProperties DEF Sessions, Session
  <1>3. /\ rows \in Seq(Nat) /\ gen \in Seq(Nat) /\ fed \in Seq(Nat)
        /\ Len(rows) = Len(s.rows) + 1
    BY <1>1, <1>2, AppendProperties
  <1>4. Emit(s, s.next, {t1} \cup IfErrs({t2}))
    BY DEF StepGraph
  <1> HIDE DEF rows, gen, fed
  <1>5. a \in Session /\ a.ckpt = s.ckpt /\ a.rows = s.rows /\ a.kind = s.kind
    BY <1>1, <1>2, <1>3 DEF Session
  <1> HIDE DEF a
  <1>6. /\ t1 \in Session /\ t1.ckpt = s.ckpt /\ t1.rows = rows /\ t1.kind = s.kind
        /\ t2 \in Session /\ t2.ckpt = s.ckpt /\ t2.rows = s.rows /\ t2.kind = s.kind
    BY <1>3, <1>5 DEF Session
  <1> HIDE DEF t1, t2
  <1>7. \A t \in {t1} \cup IfErrs({t2}) : t \in Sessions /\ t.kind # "spec"
    BY <1>2, <1>3, <1>6 DEF Sessions, IfErrs
  <1> QED
    BY <1>4, <1>7, EmitTyped

\* Promotion, the steps of the graph and the way back.
LEMMA GraphTyped ==
    ASSUME Typed, PromoteGraph \/ GraphDecode \/ DegradeGraph
    PROVE  Stepped
  <1>1. CASE PromoteGraph
    <2>1. slot \in Sessions /\ slot \in Session
      BY <1>1, RunningSession DEF PromoteGraph, Kinds
    <2> DEFINE s == [slot EXCEPT !.kind = "graph", !.next = slot.logits]
    <2>2. s \in Session /\ s.kind = "graph" /\ s.ckpt = slot.ckpt /\ s.rows = slot.rows
      BY <2>1 DEF Session, Kinds
    <2>3. StepGraph(s) \/ slot' = [s EXCEPT !.fin = TRUE]
      BY <1>1 DEF PromoteGraph
    <2> HIDE DEF s
    <2>4. s \in Sessions
      BY <2>1, <2>2 DEF Sessions
    <2> QED
      BY <2>2, <2>3, <2>4, StepGraphTyped, EndTyped
  <1>2. CASE GraphDecode
    <2>1. slot \in Sessions /\ slot.kind = "graph"
      BY <1>2, RunningSession DEF GraphDecode, Kinds
    <2>2. StepGraph(slot) \/ slot' = [slot EXCEPT !.fin = TRUE]
      BY <1>2 DEF GraphDecode, Finished
    <2> QED
      BY <2>1, <2>2, StepGraphTyped, EndTyped
  <1>3. CASE DegradeGraph
    <2>1. slot \in Sessions /\ slot \in Session
      BY <1>3, RunningSession DEF DegradeGraph, Kinds
    <2> DEFINE s == [slot EXCEPT !.kind = "plain"]
    <2>2. s \in Session /\ s.kind = "plain" /\ s.ckpt = slot.ckpt /\ s.rows = slot.rows
      BY <2>1 DEF Session, Kinds
    <2>3. Emit(s, s.next, Fed(s)) \/ slot' = [s EXCEPT !.fin = TRUE]
      BY <1>3 DEF DegradeGraph
    <2> HIDE DEF s
    <2>4. s \in Sessions
      BY <2>1, <2>2 DEF Sessions
    <2> QED
      BY <2>2, <2>3, <2>4, FedTyped, EmitTyped, EndTyped
  <1> QED
    BY <1>1, <1>2, <1>3

\* A boundary stays inside a cache that grows.
LEMMA StaysInside ==
    ASSUME NEW a \in Nat, NEW b \in Nat, NEW c \in Nat, a <= b
    PROVE  a <= b + c
  OBVIOUS

\* The flush of a carried token.
LEMMA FlushedType ==
    ASSUME NEW s \in Sessions
    PROVE  /\ Flushed(s) \in Sessions /\ Flushed(s).kind = s.kind
           /\ Flushed(s).pred # None \/ (s.pred = None /\ s.pending = <<>>)
  <1> DEFINE rows == s.rows \o s.pending
             committed == s.committed \o s.pending
             pred == IF s.pending = <<>> THEN s.pred ELSE rows
             t == [s EXCEPT !.rows = rows, !.committed = committed, !.pending = <<>>,
                            !.pred = pred]
  <1>1. /\ s \in Session /\ s.rows \in Seq(Nat) /\ s.pending \in Seq(Nat)
        /\ s.committed \in Seq(Nat) /\ s.pred \in Seq(Nat)
        /\ s.ckpt \in Nat /\ s.ckpt <= Len(s.rows)
    BY DEF Sessions, Session
  <1>2. /\ rows \in Seq(Nat) /\ committed \in Seq(Nat)
        /\ Len(rows) = Len(s.rows) + Len(s.pending)
    BY <1>1, ConcatProperties
  <1>3. pred \in Seq(Nat) /\ <<>> \in Seq(Nat)
    BY <1>1, <1>2, EmptySeq
  <1>4. Flushed(s) = t
    BY DEF Flushed
  <1>5. s.pending # <<>> => rows # <<>>
    BY <1>1, ConcatEqualIffEmpty
  <1>6. Len(s.rows) \in Nat /\ Len(s.pending) \in Nat
    BY <1>1, LenProperties
  <1> HIDE DEF rows
  <1>7. pred # None \/ (s.pred = None /\ s.pending = <<>>)
    BY <1>5 DEF None
  <1> HIDE DEF committed, pred
  <1>8. t \in Session /\ t.kind = s.kind /\ t.rows = rows /\ t.ckpt = s.ckpt /\ t.pred = pred
    BY <1>1, <1>2, <1>3 DEF Session
  <1> HIDE DEF t
  <1>9. t.ckpt <= Len(t.rows)
    <2>1. s.ckpt <= Len(s.rows) + Len(s.pending)
      BY <1>1, <1>6, StaysInside
    <2>2. s.ckpt <= Len(rows)
      BY <1>2, <2>1
    <2> QED
      BY <2>2, <1>8
  <1>10. t \in Sessions
    BY <1>8, <1>9 DEF Sessions
  <1> QED
    BY <1>4, <1>7, <1>8, <1>10

-----------------------------------------------------------------------------
(* A burst, piece by piece: what it starts from, how many tokens come out, *)
(* which of them is held back, what the cache and the record become.       *)

Started(s) == IF s.queue = <<>> THEN s ELSE Flushed(s)
Tokens(f, m) == IF f.pending = <<>> THEN m + 1 ELSE m
Output(n) == [i \in 1 .. n |-> Gen]
HeldBack(f, m) == IF m = 0 THEN f.pending ELSE <<Gen>>
Given(f, m) == SubSeq(Output(Tokens(f, m)), 1, Tokens(f, m) - Len(HeldBack(f, m)))
Primed(f) == f.rows \o f.queue
RowsAfter(f, m) == (Primed(f) \o (IF m = 0 THEN <<>> ELSE f.pending)) \o Given(f, m)
RecordAfter(f, m) == ((f.committed \o f.queue) \o f.pending) \o Given(f, m)
Bursted(f, m, ends, ckpt) ==
    [f EXCEPT !.queue = <<>>, !.done = TRUE,
              !.fed = (f.fed \o f.queue) \o Output(Tokens(f, m)),
              !.gen = f.gen \o Output(Tokens(f, m)),
              !.rows = RowsAfter(f, m), !.pending = HeldBack(f, m),
              !.pred = IF HeldBack(f, m) = <<>> THEN RowsAfter(f, m) ELSE None,
              !.committed = RecordAfter(f, m),
              !.ckpt = ckpt, !.fin = ends]

BurstResult(m) ==
    LET f == Started(slot)
        n == Tokens(f, m)
    IN  /\ n >= BurstRoom \/ env.yield
        /\ honest' = (/\ honest
                      /\ f.pending = <<>> =>
                            (IF f.queue = <<>> THEN f.pred ELSE Primed(f)) = Seen(slot)
                      /\ m >= 1 => Primed(f) \o f.pending = Seen(slot))
        /\ \E ends \in BOOLEAN, ckpt \in {f.ckpt, 0, Len(Primed(f))} :
              /\ Len(slot.gen) + n >= Budget => ends
              /\ slot' = Bursted(f, m, ends, ckpt)

\* Burst in these terms.
LEMMA BurstRead ==
    ASSUME Burst
    PROVE  \E m \in 0 .. BurstT + K : BurstResult(m)
  <1>1. PICK m \in 0 .. BurstT + K : BurstRuns(m)
    BY DEF Burst
  <1> DEFINE f == IF slot.queue = <<>> THEN slot ELSE Flushed(slot)
             carry == f.pending
             primed == f.rows \o f.queue
             n == IF carry = <<>> THEN m + 1 ELSE m
             out == [i \in 1 .. n |-> Gen]
             held == IF m = 0 THEN carry ELSE <<Gen>>
             kept == SubSeq(out, 1, n - Len(held))
             rows == primed \o (IF m = 0 THEN <<>> ELSE carry) \o kept
             committed == f.committed \o f.queue \o carry \o kept
  <1>2. /\ f = Started(slot) /\ n = Tokens(f, m) /\ out = Output(n) /\ held = HeldBack(f, m)
        /\ primed = Primed(f)
    BY DEF Started, Tokens, Output, HeldBack, Primed
  <1>3. kept = Given(f, m)
    BY DEF Given, Tokens, Output, HeldBack
  <1>4. rows = RowsAfter(f, m) /\ committed = RecordAfter(f, m)
    BY <1>2, <1>3 DEF RowsAfter, RecordAfter
  <1>5. /\ m >= 1 => (carry # <<>> \/ BurstRoom > 1)
        /\ n <= BurstRoom + K
        /\ n >= BurstRoom \/ env.yield
        /\ honest' = (/\ honest
                      /\ carry = <<>> =>
                            (IF f.queue = <<>> THEN f.pred ELSE primed) = Seen(slot)
                      /\ m >= 1 => primed \o carry = Seen(slot))
        /\ \E ends \in BOOLEAN, ckpt \in {f.ckpt, 0, Len(primed)} :
              /\ (Len(slot.gen) + n >= Budget \/ Len(committed) + K + 3 >= MaxCtx) => ends
              /\ IF f.queue = <<>> THEN ckpt = f.ckpt ELSE ckpt \in {0, Len(primed)}
              /\ slot' = [f EXCEPT !.queue = <<>>, !.done = TRUE,
                            !.fed = @ \o f.queue \o out, !.gen = @ \o out,
                            !.rows = rows, !.pending = held,
                            !.pred = IF held = <<>> THEN rows ELSE None,
                            !.committed = committed,
                            !.ckpt = ckpt, !.fin = ends]
    BY <1>1 DEF BurstRuns
  <1> HIDE DEF f, carry, primed, n, out, held, kept, rows, committed
  <1>6. PICK ends \in BOOLEAN, ckpt \in {f.ckpt, 0, Len(primed)} :
              /\ Len(slot.gen) + n >= Budget => ends
              /\ slot' = [f EXCEPT !.queue = <<>>, !.done = TRUE,
                            !.fed = @ \o f.queue \o out, !.gen = @ \o out,
                            !.rows = rows, !.pending = held,
                            !.pred = IF held = <<>> THEN rows ELSE None,
                            !.committed = committed,
                            !.ckpt = ckpt, !.fin = ends]
    BY <1>5
  <1>7. slot' = Bursted(f, m, ends, ckpt)
    BY <1>2, <1>4, <1>6 DEF Bursted
  <1>8. BurstResult(m)
    BY <1>2, <1>5, <1>6, <1>7 DEF BurstResult, carry
  <1> QED
    BY <1>8

\* The pieces of the output: all of it but what is held back.
LEMMA BurstPieces ==
    ASSUME NEW f \in Session, NEW m \in Nat
    PROVE  /\ Tokens(f, m) \in Nat
           /\ Output(Tokens(f, m)) \in Seq(Nat) /\ Len(Output(Tokens(f, m))) = Tokens(f, m)
           /\ HeldBack(f, m) \in Seq(Nat) /\ Given(f, m) \in Seq(Nat)
           /\ m = 0 /\ f.pending = <<>> => Given(f, m) = Output(Tokens(f, m)) /\ Given(f, m) # <<>>
           /\ m = 0 /\ f.pending # <<>> => Given(f, m) = <<>> /\ Output(Tokens(f, m)) = <<>>
           /\ m # 0 => Given(f, m) \o HeldBack(f, m) = Output(Tokens(f, m))
  <1> DEFINE n == Tokens(f, m)
             out == Output(n)
             held == HeldBack(f, m)
             k == n - Len(held)
  <1>1. n \in Nat /\ (m # 0 => n >= 1) /\ (m = 0 => n = IF f.pending = <<>> THEN 1 ELSE 0)
    BY DEF Tokens
  <1> HIDE DEF n
  <1>2. Gen \in Nat
    BY HandoffAssumption DEF HandoffAssumption
  <1>3. out \in [1 .. n -> Nat]
    BY <1>2 DEF Output
  <1>4. out \in Seq(Nat) /\ Len(out) = n
    BY <1>1, <1>3 DEF Output
  <1>5. f.pending \in Seq(Nat)
    BY DEF Session
  <1>6. held \in Seq(Nat) /\ (m # 0 => held = <<Gen>>) /\ (m = 0 => held = f.pending)
    BY <1>2, <1>5 DEF HeldBack
  <1>7. Len(held) \in Nat /\ (held # <<>> => Len(held) > 0) /\ (held = <<>> => Len(held) = 0)
    BY <1>6, EmptySeq, LenProperties
  <1>8. m # 0 => Len(held) = 1
    BY <1>6
  <1>9. k \in Int /\ k <= n
    BY <1>1, <1>7
  <1>10. \A i \in 1 .. k : out[i] \in Nat
    BY <1>1, <1>3, <1>9
  <1>11. Given(f, m) = SubSeq(out, 1, k)
    BY DEF Given, n
  <1> HIDE DEF out, held
  <1>12. Given(f, m) \in Seq(Nat)
    BY <1>9, <1>10, <1>11, SubSeqProperties
  <1>13. ASSUME m = 0, f.pending = <<>> PROVE Given(f, m) = out /\ Given(f, m) # <<>>
    <2>1. k = n /\ n = 1
      BY <1>1, <1>6, <1>7, <1>13
    <2>2. SubSeq(out, 1, n) = out
      BY <1>4, SubSeqFull
    <2>3. out # <<>>
      BY <2>1, <1>4, EmptySeq
    <2> QED
      BY <2>1, <2>2, <2>3, <1>11
  <1>14. ASSUME m = 0, f.pending # <<>> PROVE Given(f, m) = <<>> /\ out = <<>>
    <2>1. k < 1 /\ n = 0
      BY <1>1, <1>6, <1>7, <1>14
    <2>2. SubSeq(out, 1, k) = <<>>
      BY <2>1, <1>9, SubSeqEmpty
    <2>3. out = <<>>
      BY <2>1, <1>4, EmptySeq
    <2> QED
      BY <2>2, <2>3, <1>11
  <1>15. ASSUME m # 0 PROVE Given(f, m) \o held = out
    <2>0. n \in Nat /\ n >= 1 /\ Len(held) = 1 /\ Len(out) = n
      BY <1>1, <1>4, <1>8, <1>15
    <2>1. k = n - 1 /\ k \in 0 .. Len(out) /\ n \in Nat /\ n >= 1
      BY <2>0
    <2>2. SubSeq(out, 1, k) \o SubSeq(out, k + 1, Len(out)) = out
      BY <2>1, <1>4, Parts DEF After
    <2>3. SubSeq(out, n, n) = <<out[n]>>
      <3>1. n \in 1 .. Len(out) /\ n \in n .. Len(out) /\ n + 1 \in Int /\ n \in Int /\ n < n + 1
        BY <2>0
      <3>2. SubSeq(out, n, n) = <<out[n]>> \o SubSeq(out, n + 1, n)
        BY <3>1, <1>4, SubSeqRecursiveFirst
      <3>3. SubSeq(out, n + 1, n) = <<>>
        BY <3>1, SubSeqEmpty
      <3>4. out[n] \in Nat
        BY <3>1, <1>4, ElementOfSeq
      <3>5. <<out[n]>> \in Seq(Nat)
        BY <3>4
      <3> HIDE DEF k
      <3> QED
        BY <3>2, <3>3, <3>5, ConcatEmptySeq
    <2>4. out[n] = Gen
      BY <2>1 DEF out, Output
    <2>5. k + 1 = n /\ Len(out) = n
      BY <2>1, <1>4
    <2> QED
      BY <2>2, <2>3, <2>4, <2>5, <1>6, <1>11, <1>15
  <1> QED
    BY <1>1, <1>4, <1>6, <1>12, <1>13, <1>14, <1>15 DEF n, out, held

\* The session a burst starts from.
LEMMA StartedType ==
    ASSUME NEW s \in Sessions
    PROVE  /\ Started(s) \in Sessions /\ Started(s).kind = s.kind
           /\ Started(s).gen = s.gen
  <1>1. s \in Session
    BY DEF Sessions
  <1>2. Flushed(s).gen = s.gen
    BY <1>1 DEF Flushed, Session
  <1> QED
    BY <1>2, FlushedType DEF Started

\* What a burst makes of a session: the cache still covers the boundary, and
\* unless it ends there is a carried token or a prediction for the next one.
LEMMA BurstedType ==
    ASSUME NEW f \in Sessions, NEW m \in Nat, NEW ends \in BOOLEAN,
           NEW ckpt \in {f.ckpt, 0, Len(Primed(f))},
           Len(f.gen) + Tokens(f, m) >= Budget => ends
    PROVE  Bursted(f, m, ends, ckpt) \in Sessions /\ Able(Bursted(f, m, ends, ckpt))
  <1> DEFINE t == Bursted(f, m, ends, ckpt)
             n == Tokens(f, m)
             x == IF m = 0 THEN <<>> ELSE f.pending
             fed == (f.fed \o f.queue) \o Output(n)
             gen == f.gen \o Output(n)
             pred == IF HeldBack(f, m) = <<>> THEN RowsAfter(f, m) ELSE None
  <1>1. /\ f \in Session /\ f.rows \in Seq(Nat) /\ f.queue \in Seq(Nat) /\ f.pending \in Seq(Nat)
        /\ f.committed \in Seq(Nat) /\ f.fed \in Seq(Nat) /\ f.gen \in Seq(Nat)
        /\ f.ckpt \in Nat /\ f.ckpt <= Len(f.rows)
    BY DEF Sessions, Session
  <1>2. /\ n \in Nat /\ Output(n) \in Seq(Nat) /\ Len(Output(n)) = n
        /\ HeldBack(f, m) \in Seq(Nat) /\ Given(f, m) \in Seq(Nat)
        /\ m = 0 /\ f.pending = <<>> => Given(f, m) # <<>>
    BY <1>1, BurstPieces
  <1>3. Primed(f) \in Seq(Nat) /\ Len(Primed(f)) = Len(f.rows) + Len(f.queue)
    BY <1>1, ConcatProperties DEF Primed
  <1>4. x \in Seq(Nat) /\ <<>> \in Seq(Nat)
    BY <1>1, EmptySeq
  <1> HIDE DEF x, n
  <1>5. /\ Primed(f) \o x \in Seq(Nat)
        /\ Len(Primed(f) \o x) = Len(Primed(f)) + Len(x)
    BY <1>3, <1>4, ConcatProperties
  <1>6. /\ RowsAfter(f, m) \in Seq(Nat)
        /\ Len(RowsAfter(f, m)) = Len(Primed(f) \o x) + Len(Given(f, m))
        /\ Given(f, m) # <<>> => RowsAfter(f, m) # <<>>
    BY <1>2, <1>5, ConcatProperties, ConcatEqualIffEmpty DEF RowsAfter, x
  <1>7. RecordAfter(f, m) \in Seq(Nat)
    BY <1>1, <1>2, ConcatProperties DEF RecordAfter
  <1>8. fed \in Seq(Nat) /\ gen \in Seq(Nat) /\ Len(gen) = Len(f.gen) + n
    <2>1. f.fed \o f.queue \in Seq(Nat)
      BY <1>1, ConcatProperties
    <2>2. fed \in Seq(Nat)
      BY <2>1, <1>2, ConcatProperties
    <2>3. gen \in Seq(Nat) /\ Len(gen) = Len(f.gen) + Len(Output(n))
      <3>1. f.gen \in Seq(Nat) /\ Output(n) \in Seq(Nat)
        BY <1>1, <1>2
      <3> QED
        BY <3>1, ConcatProperties
    <2> QED
      BY <2>2, <2>3, <1>2
  <1>9. pred \in Seq(Nat)
    BY <1>4, <1>6 DEF None
  <1>10. pred # None \/ HeldBack(f, m) # <<>>
    BY <1>2, <1>6 DEF HeldBack, None
  <1>11. /\ Len(f.rows) \in Nat /\ Len(f.queue) \in Nat /\ Len(x) \in Nat /\ Len(Primed(f)) \in Nat
         /\ Len(Given(f, m)) \in Nat /\ Len(Primed(f) \o x) \in Nat
    BY <1>1, <1>2, <1>3, <1>4, <1>5, LenProperties
  <1>12. ckpt \in Nat /\ ckpt <= Len(RowsAfter(f, m))
    <2>1. f.ckpt <= Len(Primed(f)) /\ 0 <= Len(Primed(f)) /\ Len(Primed(f)) <= Len(Primed(f))
      <3>1. f.ckpt <= Len(f.rows) + Len(f.queue)
        BY <1>1, <1>11, StaysInside
      <3>2. f.ckpt <= Len(Primed(f)) /\ Len(Primed(f)) \in Nat
        BY <3>1, <1>3, <1>11
      <3> QED
        BY <3>2
    <2>2. ckpt \in Nat /\ ckpt <= Len(Primed(f))
      BY <2>1, <1>1, <1>11
    <2>3. ckpt <= Len(Primed(f) \o x)
      BY <2>2, <1>5, <1>11, StaysInside
    <2> QED
      BY <2>2, <2>3, <1>6, <1>11, StaysInside
  <1> HIDE DEF fed, gen, pred
  <1>13. t = [f EXCEPT !.queue = <<>>, !.done = TRUE, !.fed = fed, !.gen = gen,
                       !.rows = RowsAfter(f, m), !.pending = HeldBack(f, m), !.pred = pred,
                       !.committed = RecordAfter(f, m), !.ckpt = ckpt, !.fin = ends]
    BY DEF Bursted, fed, gen, pred, n
  <1> HIDE DEF t
  <1>14. t \in Session
    BY <1>1, <1>2, <1>4, <1>6, <1>7, <1>8, <1>9, <1>12, <1>13 DEF Session
  <1>15. /\ t.rows = RowsAfter(f, m) /\ t.ckpt = ckpt /\ t.pred = pred /\ t.gen = gen
         /\ t.pending = HeldBack(f, m) /\ t.fin = ends
    BY <1>1, <1>13 DEF Session
  <1>16. t \in Sessions
    BY <1>12, <1>14, <1>15 DEF Sessions
  <1>17. Able(t)
    <2>1. Len(f.gen) \in Nat /\ Budget \in Nat
      BY <1>1, LenProperties, HandoffAssumption DEF HandoffAssumption
    <2>2. ~ends => Len(gen) < Budget
      BY <2>1, <1>2, <1>8 DEF n
    <2> QED
      BY <2>2, <1>10, <1>15 DEF Able
  <1> QED
    BY <1>16, <1>17 DEF t

\* A burst.
LEMMA BurstTyped ==
    ASSUME Typed, Burst
    PROVE  Stepped
  <1>1. slot \in Sessions
    BY RunningSession DEF Burst, Kinds
  <1>2. PICK m \in 0 .. BurstT + K : BurstResult(m)
    BY BurstRead
  <1>3. m \in Nat
    OBVIOUS
  <1> DEFINE f == Started(slot)
  <1>4. PICK ends \in BOOLEAN, ckpt \in {f.ckpt, 0, Len(Primed(f))} :
              /\ Len(slot.gen) + Tokens(f, m) >= Budget => ends
              /\ slot' = Bursted(f, m, ends, ckpt)
    BY <1>2 DEF BurstResult
  <1>5. f \in Sessions /\ f.gen = slot.gen
    BY <1>1, StartedType
  <1> HIDE DEF f
  <1> QED
    BY <1>3, <1>4, <1>5, BurstedType DEF Stepped

\* A burst that fails.
LEMMA BurstFailsTyped ==
    ASSUME Typed, BurstFails
    PROVE  Stepped
  <1>1. slot \in Sessions /\ slot \in Session
    BY RunningSession DEF BurstFails, Kinds
  <1> DEFINE todo == slot.queue \o slot.pending \o <<Gen>>
  <1>2. PICK n \in 0 .. Len(todo) :
            slot' = [slot EXCEPT !.rows = @ \o SubSeq(todo, 1, n), !.queue = <<>>,
                       !.pending = <<>>, !.done = TRUE, !.fin = TRUE,
                       !.ckpt = IF slot.queue # <<>> /\ n >= Len(slot.queue)
                                THEN Len(slot.rows \o slot.queue) ELSE @]
    BY DEF BurstFails
  <1>3. /\ slot.rows \in Seq(Nat) /\ slot.queue \in Seq(Nat) /\ slot.pending \in Seq(Nat)
        /\ slot.ckpt \in Nat /\ slot.ckpt <= Len(slot.rows) /\ <<>> \in Seq(Nat)
    BY <1>1, EmptySeq DEF Session, Sessions
  <1>4. Gen \in Nat /\ <<Gen>> \in Seq(Nat)
    BY HandoffAssumption DEF HandoffAssumption
  <1>5. todo \in Seq(Nat)
    BY <1>3, <1>4, ConcatProperties
  <1> HIDE DEF todo
  <1> DEFINE part == SubSeq(todo, 1, n)
             rows == slot.rows \o part
             mark == IF slot.queue # <<>> /\ n >= Len(slot.queue)
                     THEN Len(slot.rows \o slot.queue) ELSE slot.ckpt
  <1>6. part \in Seq(Nat) /\ Len(part) = n
    BY <1>5, FrontPart
  <1> HIDE DEF part
  <1>7. rows \in Seq(Nat) /\ Len(rows) = Len(slot.rows) + n
    BY <1>3, <1>6, ConcatProperties
  <1>8. Len(slot.rows \o slot.queue) = Len(slot.rows) + Len(slot.queue)
    BY <1>3, ConcatProperties
  <1>9. Len(slot.rows) \in Nat /\ Len(slot.queue) \in Nat /\ n \in Nat
    BY <1>3, <1>5, LenProperties
  <1>10. mark \in Nat /\ mark <= Len(slot.rows) + n
    <2>1. slot.ckpt <= Len(slot.rows) + n
      BY <1>3, <1>9, StaysInside
    <2>2. CASE slot.queue # <<>> /\ n >= Len(slot.queue)
      <3>1. mark = Len(slot.rows) + Len(slot.queue)
        BY <2>2, <1>8
      <3>2. n >= Len(slot.queue)
        BY <2>2
      <3> HIDE DEF mark
      <3>3. ASSUME NEW a \in Nat, NEW b \in Nat, NEW d \in Nat, d >= b
            PROVE  a + b \in Nat /\ a + b <= a + d
        BY <3>3
      <3> QED
        BY <3>1, <3>2, <3>3, <1>9
    <2>3. CASE ~(slot.queue # <<>> /\ n >= Len(slot.queue))
      <3>1. mark = slot.ckpt /\ slot.ckpt \in Nat
        BY <2>3, <1>3
      <3> QED
        BY <2>1, <3>1
    <2> QED
      BY <2>2, <2>3
  <1>11. slot' = [slot EXCEPT !.rows = rows, !.queue = <<>>, !.pending = <<>>, !.done = TRUE,
                              !.fin = TRUE, !.ckpt = mark]
    BY <1>2 DEF part
  <1> HIDE DEF rows, mark
  <1>12. slot' \in Session /\ slot'.rows = rows /\ slot'.ckpt = mark /\ slot'.fin
    BY <1>1, <1>3, <1>7, <1>10, <1>11 DEF Session
  <1>13. slot' \in Sessions
    BY <1>7, <1>10, <1>12 DEF Sessions
  <1>14. Able(slot')
    BY <1>12 DEF Able
  <1> QED
    BY <1>13, <1>14 DEF Stepped

\* The empty slot.
LEMMA FreeAble == Free \in Sessions \cup {Free} /\ Able(Free)
  BY DEF Free, Able

\* Demotion.
LEMMA DemoteTyped ==
    ASSUME Typed, Demote
    PROVE  Stepped
  <1>1. slot \in Sessions
    BY RunningSession DEF Demote, Kinds
  <1> DEFINE g == Flushed(slot)
             h == [g EXCEPT !.kind = "plain", !.next = g.pred, !.done = TRUE, !.logits = None]
  <1>2. slot' \in {h, Free}
    BY DEF Demote, Handover, IfErrs
  <1>3. g \in Sessions
    BY <1>1, FlushedType
  <1> HIDE DEF g
  <1>4. g \in Session /\ g.ckpt <= Len(g.rows) /\ None \in Seq(Nat) /\ g.pred \in Seq(Nat)
    BY <1>3, EmptySeq DEF Sessions, Session, None
  <1>5. h \in Session /\ h.ckpt = g.ckpt /\ h.rows = g.rows /\ h.kind = "plain"
    BY <1>4 DEF Session, Kinds
  <1> HIDE DEF h
  <1>6. h \in Sessions /\ Able(h)
    BY <1>4, <1>5 DEF Sessions, Able
  <1> QED
    BY <1>2, <1>6, FreeAble DEF Stepped

\* What is parked: sessions with a record of some length and a prediction.
LEMMA ParkSpecType ==
    ASSUME Typed, NEW s \in Sessions
    PROVE  ParkSpec(s) \in Seq(SpecEntries) /\ Len(ParkSpec(s)) <= env.pool
  <1> DEFINE e == [rows |-> s.rows, committed |-> s.committed, pred |-> s.pred, ckpt |-> s.ckpt]
  <1>1. CASE Len(s.committed) >= MinPrefix /\ s.pred # None
    <2>1. e \in SpecEntry
      BY DEF Sessions, Session, SpecEntry
    <2>2. e \in SpecEntries
      BY <2>1, <1>1 DEF Sessions, SpecEntries
    <2>3. ParkSpec(s) = Push(spec_reuse, e)
      BY <1>1 DEF ParkSpec
    <2>4. env.pool \in Nat /\ spec_reuse \in Seq(SpecEntries)
      BY DEF Typed, Config
    <2> HIDE DEF e
    <2> QED
      BY <2>2, <2>3, <2>4, PushType
  <1>2. CASE ~(Len(s.committed) >= MinPrefix /\ s.pred # None)
    BY <1>2 DEF ParkSpec, Typed
  <1> QED
    BY <1>1, <1>2

\* The same for the pool of plain sessions.
LEMMA ParkPlainType ==
    ASSUME Typed, NEW s \in Sessions
    PROVE  ParkPlain(s) \in Seq(PlainEntry) /\ Len(ParkPlain(s)) <= env.pool
  <1> DEFINE e == [rows |-> s.rows, fed |-> s.fed, logits |-> s.logits]
  <1>1. CASE Len(s.fed) >= MinPrefix /\ s.done /\ s.logits # None
    <2>1. e \in PlainEntry
      BY DEF Sessions, Session, PlainEntry
    <2>2. ParkPlain(s) = Push(reuse, e)
      BY <1>1 DEF ParkPlain
    <2>3. env.pool \in Nat /\ reuse \in Seq(PlainEntry)
      BY DEF Typed, Config
    <2> HIDE DEF e
    <2> QED
      BY <2>1, <2>2, <2>3, PushType
  <1>2. CASE ~(Len(s.fed) >= MinPrefix /\ s.done /\ s.logits # None)
    BY <1>2 DEF ParkPlain, Typed
  <1> QED
    BY <1>1, <1>2

\* The end of a session.
LEMMA RetireTyped ==
    ASSUME Typed, Retire
    PROVE  /\ Stepped
           /\ reuse' \in Seq(PlainEntry) /\ Len(reuse') <= env.pool
           /\ spec_reuse' \in Seq(SpecEntries) /\ Len(spec_reuse') <= env.pool
  <1>1. slot \in Sessions /\ slot' = Free
    BY SlotUsed DEF Retire
  <1>2. Flushed(slot) \in Sessions
    BY <1>1, FlushedType
  <1>3. Stepped
    BY <1>1, FreeAble DEF Stepped
  <1>4. reuse' \in {reuse, ParkPlain(slot)} /\ spec_reuse' \in {spec_reuse, ParkSpec(Flushed(slot))}
    BY DEF Retire
  <1>5. reuse' \in Seq(PlainEntry) /\ Len(reuse') <= env.pool
    BY <1>1, <1>4, ParkPlainType DEF Typed
  <1>6. spec_reuse' \in Seq(SpecEntries) /\ Len(spec_reuse') <= env.pool
    BY <1>2, <1>4, ParkSpecType DEF Typed
  <1> QED
    BY <1>3, <1>5, <1>6

\* What every step leaves of the state.
Whole == Typed /\ Able(slot)

\* honest stays a truth value.
LEMMA HonestType ==
    ASSUME honest \in BOOLEAN, Decode \/ PromoteGraph \/ GraphDecode \/ DegradeGraph \/ Burst
    PROVE  honest' \in BOOLEAN
  <1>1. ASSUME NEW s, NEW ctx, NEW going, Emit(s, ctx, going)
        PROVE  honest' \in BOOLEAN
    BY <1>1, Zenon DEF Emit
  <1>2. CASE Decode
    <2>1. (\E ctx : Emit(slot, ctx, Fed(slot))) \/ honest' = honest
      BY <1>2 DEF Decode, Finished
    <2> QED
      BY <1>1, <2>1, Zenon
  <1>3. CASE PromoteGraph
    <2>1. (\E s, ctx, going : Emit(s, ctx, going)) \/ honest' = honest
      BY <1>3, Zenon DEF PromoteGraph, StepGraph
    <2> QED
      BY <1>1, <2>1, Zenon
  <1>4. CASE GraphDecode
    <2>1. (\E s, ctx, going : Emit(s, ctx, going)) \/ honest' = honest
      BY <1>4, Zenon DEF GraphDecode, Finished, StepGraph
    <2> QED
      BY <1>1, <2>1, Zenon
  <1>5. CASE DegradeGraph
    <2>1. (\E s, ctx, going : Emit(s, ctx, going)) \/ honest' = honest
      BY <1>5, Zenon DEF DegradeGraph
    <2> QED
      BY <1>1, <2>1, Zenon
  <1>6. CASE Burst
    <2>1. PICK m \in 0 .. BurstT + K : BurstResult(m)
      BY <1>6, BurstRead
    <2> QED
      BY <2>1, Zenon DEF BurstResult
  <1> QED
    BY <1>2, <1>3, <1>4, <1>5, <1>6

\* Init and every step keep it.
LEMMA WholeInit == Init => Whole
  <1> SUFFICES ASSUME Init PROVE Whole
    OBVIOUS
  <1>1. env \in Config /\ env.pool \in Nat
    BY HandoffAssumption DEF Init, HandoffAssumption, Config
  <1>2. <<>> \in Seq(PlainEntry) /\ <<>> \in Seq(SpecEntries) /\ Len(<<>>) = 0
    BY EmptySeq
  <1>3. Able(slot) /\ slot \in Sessions \cup {Free}
    BY FreeAble DEF Init
  <1> QED
    BY <1>1, <1>2, <1>3 DEF Init, Whole, Typed

\* Every step keeps the types, and leaves a running spec session able to burst.
LEMMA WholeStep ==
    ASSUME Whole, [Next]_vars
    PROVE  Whole'
  <1> USE DEF Whole
  <1>1. CASE \E p \in Prompts : Admit(p)
    <2>1. PICK p \in Prompts : Admit(p)
      BY <1>1
    <2>2. env' = env /\ honest' = honest /\ turns' = turns + 1
      BY <2>1 DEF Admit
    <2>3. turns' \in Nat
      BY <2>2 DEF Typed
    <2>4. CASE AdmitReuse(p)
      <3>1. spec_reuse' = spec_reuse
        BY <2>4 DEF AdmitReuse
      <3> QED
        BY <2>2, <2>3, <2>4, <3>1, ReuseTyped DEF Stepped, Typed
    <2>5. CASE AdmitSpecExact(p) \/ AdmitRewind(p) \/ AdmitCold(p)
      <3>1. reuse' = reuse
        BY <2>5 DEF AdmitSpecExact, AdmitRewind, AdmitCold
      <3> QED
        BY <2>2, <2>3, <2>5, <3>1, SpecTyped DEF Stepped, Typed
    <2> QED
      BY <2>1, <2>4, <2>5 DEF Admit
  <1>2. CASE Prefill \/ Decode \/ PromoteGraph \/ GraphDecode \/ DegradeGraph \/ Burst
                \/ BurstFails \/ Demote \/ Disconnect
    <2>1. env' = env /\ reuse' = reuse /\ spec_reuse' = spec_reuse /\ turns' = turns
      BY <1>2 DEF Prefill, Decode, PromoteGraph, GraphDecode, DegradeGraph, Burst, BurstFails,
                  Demote, Disconnect
    <2>2. honest' \in BOOLEAN
      <3>1. CASE Prefill \/ BurstFails \/ Demote \/ Disconnect
        <4>1. honest' = honest
          BY <3>1 DEF Prefill, BurstFails, Demote, Disconnect
        <4>2. honest \in BOOLEAN
          BY DEF Typed
        <4> QED
          BY <4>1, <4>2, Zenon
      <3>2. CASE Decode \/ PromoteGraph \/ GraphDecode \/ DegradeGraph \/ Burst
        BY <3>2, HonestType DEF Typed
      <3> QED
        BY <1>2, <3>1, <3>2
    <2>3. Stepped
      <3>1. CASE Disconnect
        <4>1. slot \in Sessions /\ slot' = [slot EXCEPT !.fin = TRUE]
          BY <3>1, SlotUsed DEF Disconnect
        <4> QED
          BY <4>1, EndTyped
      <3> QED
        BY <1>2, <3>1, PrefillTyped, DecodeTyped, GraphTyped, BurstTyped, BurstFailsTyped,
           DemoteTyped
    <2> QED
      BY <2>1, <2>2, <2>3 DEF Stepped, Typed
  <1>3. CASE Retire
    <2>1. env' = env /\ honest' = honest /\ turns' = turns
      BY <1>3 DEF Retire
    <2> QED
      BY <1>3, <2>1, RetireTyped DEF Stepped, Typed
  <1>4. CASE UNCHANGED vars
    BY <1>4 DEF vars, Typed, Able
  <1> QED
    BY <1>1, <1>2, <1>3, <1>4 DEF Next

-----------------------------------------------------------------------------
(* What a session has told its client, and what its caches hold.           *)

\* The configurations in which everything agrees: neither demotion, graphs,
\* yields nor failing passes, or nothing is ever parked.
Quiet == ~env.gate /\ ~env.gs /\ ~env.yield /\ ~env.errs
SoundEnv == env.pool = 0 \/ Quiet

\* A plain session before and after its prompt is through.
TellsPlain(s) ==
    /\ ~s.done => /\ s.gen = <<>> /\ s.next = None
                  /\ s.rows = s.fed /\ s.fed \o s.queue = s.prompt
    /\ s.done => /\ s.rows = Seen(s) /\ s.fed = s.rows
                 /\ s.logits # None => s.logits = s.rows
                 /\ s.next # None => s.next = s.rows
                 /\ s.next = None => s.logits = s.rows

TellsGraph(s) == s.done /\ s.rows = Seen(s) /\ s.fed = s.rows /\ s.next = s.rows

\* A spec session: the cache, what is still to prime and the carried token.
TellsSpec(s) ==
    /\ (s.rows \o s.queue) \o s.pending = Seen(s)
    /\ s.done => s.queue = <<>>
    /\ ~s.done => s.gen = <<>> /\ s.pending = <<>>
    /\ s.pred # None => s.pred = s.rows /\ s.pending = <<>>

\* One that resumed nothing has fed what its client has seen.
Fresh(s) ==
    /\ s.done => s.fed = Seen(s)
    /\ ~s.done => s.fed = <<>> /\ s.rows = <<>> /\ s.committed = <<>>

Told(s) ==
    ~s.fin =>
        /\ s.kind = "plain" => TellsPlain(s)
        /\ s.kind = "graph" => TellsGraph(s)
        /\ s.kind = "spec" => TellsSpec(s) /\ (env.pool = 0 => Fresh(s))

\* What retire may find, finished or not.
ParksPlain(s) == s.rows = s.fed /\ s.next = None /\ (s.done => s.logits = s.rows)
ParksSpec(s) == s.rows = s.committed /\ (s.pred # None => s.pred = s.rows)
Parkable(s) ==
    /\ s.kind # "graph"
    /\ s.kind = "plain" => ParksPlain(s)
    /\ s.kind = "spec" => ParksSpec(s)

PlainExact == {e \in PlainEntry : e.rows = e.fed /\ e.logits = e.fed}
SpecExact == {e \in SpecEntries : e.rows = e.committed /\ e.pred = e.committed}

\* The inductive invariant.
HandoffInv ==
    /\ Whole
    /\ SoundEnv => honest /\ Told(slot)
    /\ Quiet => Parkable(slot) /\ reuse \in Seq(PlainExact) /\ spec_reuse \in Seq(SpecExact)

\* What a step of the session in the slot has to show.
Kept ==
    /\ SoundEnv => honest' /\ Told(slot')
    /\ Quiet => Parkable(slot')

\* A session that ends has nothing more to tell, and parks what it parked.
LEMMA EndTold ==
    ASSUME NEW s \in Session, NEW g
    PROVE  /\ Told([s EXCEPT !.fin = TRUE]) /\ Told([s EXCEPT !.gen = g, !.fin = TRUE])
           /\ Parkable(s) => /\ Parkable([s EXCEPT !.fin = TRUE])
                             /\ Parkable([s EXCEPT !.gen = g, !.fin = TRUE])
  <1> DEFINE t == [s EXCEPT !.fin = TRUE]
             u == [s EXCEPT !.gen = g, !.fin = TRUE]
  <1>1. t.fin /\ u.fin
    BY DEF Session
  <1>2. /\ t.kind = s.kind /\ t.rows = s.rows /\ t.fed = s.fed /\ t.next = s.next
        /\ t.done = s.done /\ t.logits = s.logits /\ t.committed = s.committed
        /\ t.pred = s.pred
    BY DEF Session
  <1>3. /\ u.kind = s.kind /\ u.rows = s.rows /\ u.fed = s.fed /\ u.next = s.next
        /\ u.done = s.done /\ u.logits = s.logits /\ u.committed = s.committed
        /\ u.pred = s.pred
    BY DEF Session
  <1> HIDE DEF t, u
  <1>4. Told(t) /\ Told(u)
    BY <1>1 DEF Told
  <1>5. Parkable(s) => Parkable(t) /\ Parkable(u)
    BY <1>2, <1>3 DEF Parkable, ParksPlain, ParksSpec
  <1> QED
    BY <1>4, <1>5 DEF t, u

\* The empty slot tells and parks nothing.
LEMMA FreeTold == Told(Free) /\ Parkable(Free)
  BY DEF Free, Told, Parkable

\* How sequences of tokens are put together does not matter.
LEMMA Joined ==
    ASSUME NEW a \in Seq(Nat), NEW b \in Seq(Nat), NEW d \in Seq(Nat)
    PROVE  (a \o b) \o d = a \o (b \o d)
  BY ConcatAssociative

\* One token more in the cache and for the client.
LEMMA OneMore ==
    ASSUME NEW s \in Session, s.rows = Seen(s), s.fed = s.rows
    PROVE  /\ Append(s.rows, Gen) = s.prompt \o Append(s.gen, Gen)
           /\ Append(s.fed, Gen) = Append(s.rows, Gen)
           /\ Append(s.rows, Gen) # None
  <1>1. s.prompt \in Seq(Nat) /\ s.gen \in Seq(Nat) /\ s.rows \in Seq(Nat) /\ Gen \in Nat
    BY PromptType, HandoffAssumption DEF Session, HandoffAssumption
  <1> DEFINE one == <<Gen>>
  <1>2. one \in Seq(Nat)
    BY <1>1
  <1>3. Append(s.rows, Gen) = s.rows \o one /\ Append(s.gen, Gen) = s.gen \o one
    BY <1>1, AppendIsConcat
  <1> HIDE DEF one
  <1>4. (s.prompt \o s.gen) \o one = s.prompt \o (s.gen \o one)
    <2>1. s.prompt \in Seq(Nat) /\ s.gen \in Seq(Nat)
      BY <1>1
    <2> QED
      BY <2>1, <1>2, Joined
  <1>5. Append(s.rows, Gen) # <<>>
    BY <1>1, AppendProperties
  <1> QED
    BY <1>3, <1>4, <1>5 DEF Seen, None

\* Feeding the emitted token keeps cache, record and client in step.
LEMMA FedTold ==
    ASSUME NEW s \in Session, s.kind = "plain", s.done, s.rows = Seen(s), s.fed = s.rows,
           NEW t \in Fed(s)
    PROVE  Told(t) /\ (Quiet => Parkable(t))
  <1> DEFINE rows == Append(s.rows, Gen)
             gen == Append(s.gen, Gen)
             fed == Append(s.fed, Gen)
             a == [s EXCEPT !.gen = gen, !.next = None]
             t1 == [a EXCEPT !.rows = rows, !.fed = fed, !.logits = rows]
             t2 == [a EXCEPT !.fin = TRUE]
             t3 == [a EXCEPT !.rows = rows, !.fin = TRUE]
  <1>1. rows = s.prompt \o gen /\ fed = rows
    BY OneMore
  <1>2. a.fed = s.fed
    BY DEF Session
  <1>3. t = t1 \/ (~Quiet /\ t \in {t2, t3})
    <2>1. Fed(s) = LET r == Append(s.rows, Gen)
                       b == [s EXCEPT !.gen = Append(@, Gen), !.next = None]
                   IN  {[b EXCEPT !.rows = r, !.fed = Append(@, Gen), !.logits = r]}
                       \cup IfErrs({[b EXCEPT !.fin = TRUE], [b EXCEPT !.rows = r, !.fin = TRUE]})
      BY DEF Fed
    <2> QED
      BY <2>1, <1>2 DEF IfErrs, Quiet
  <1> HIDE DEF rows, gen, fed
  <1>4. /\ t1.kind = "plain" /\ t1.done /\ t1.rows = rows /\ t1.fed = fed /\ t1.logits = rows
        /\ t1.next = None /\ t1.gen = gen /\ t1.prompt = s.prompt
    BY DEF Session
  <1>5. t2.fin /\ t3.fin
    BY DEF Session
  <1> HIDE DEF t1, t2, t3
  <1>6. Told(t1) /\ Parkable(t1)
    BY <1>1, <1>4 DEF Told, TellsPlain, Seen, Parkable, ParksPlain
  <1>7. Told(t2) /\ Told(t3)
    BY <1>5 DEF Told
  <1> QED
    BY <1>3, <1>6, <1>7

\* A token that was predicted from what its client has seen.
LEMMA EmitTold ==
    ASSUME NEW s \in Session, NEW ctx, NEW going, Emit(s, ctx, going),
           ctx = Seen(s), honest, Quiet => Parkable(s),
           \A t \in going : Told(t) /\ (Quiet => Parkable(t))
    PROVE  honest' /\ Told(slot') /\ (Quiet => Parkable(slot'))
  <1>1. honest'
    BY Zenon DEF Emit
  <1>2. slot' = [s EXCEPT !.gen = Append(s.gen, Gen), !.fin = TRUE] \/ slot' \in going
    BY DEF Emit
  <1> QED
    BY <1>1, <1>2, EndTold

\* A cold session, plain or spec.
LEMMA ColdTold ==
    ASSUME NEW p \in Prompts, NEW c, c = Cold(p) \/ c = [Cold(p) EXCEPT !.kind = "spec"]
    PROVE  Told(c) /\ Parkable(c)
  <1>1. p \in Seq(Nat)
    BY PromptType
  <1>2. /\ c.kind \in {"plain", "spec"} /\ c.prompt = p /\ c.queue = p /\ c.fed = <<>>
        /\ c.gen = <<>> /\ c.rows = <<>> /\ c.next = None /\ c.committed = <<>>
        /\ c.pred = None /\ c.pending = <<>> /\ ~c.done
    BY DEF Cold
  <1>3. p \o <<>> = p /\ <<>> \o p = p
    BY <1>1, ConcatEmptySeq
  <1>4. TellsPlain(c) /\ ParksPlain(c)
    BY <1>2, <1>3 DEF TellsPlain, ParksPlain
  <1>5. TellsSpec(c) /\ ParksSpec(c) /\ Fresh(c)
    BY <1>2, <1>3 DEF TellsSpec, ParksSpec, Fresh, Seen
  <1> QED
    BY <1>2, <1>4, <1>5 DEF Told, Parkable

\* A resumed spec session whose cache, record and prediction agree.
LEMMA ResumedTold ==
    ASSUME NEW p \in Prompts, NEW e \in SpecEntry, e.rows = e.committed,
           e.pred = None \/ e.pred = e.rows, StartsWith(p, e.committed), env.pool # 0
    PROVE  Told(Resumed(p, e)) /\ Parkable(Resumed(p, e))
  <1> DEFINE t == Resumed(p, e)
             rest == After(p, Len(e.committed))
  <1>1. p \in Seq(Nat) /\ e.committed \in Seq(Nat)
    BY PromptType DEF SpecEntry
  <1>2. e.committed \o rest = p
    BY <1>1, Prefixed
  <1>3. p \o <<>> = p
    BY <1>1, ConcatEmptySeq
  <1>4. /\ t.kind = "spec" /\ t.prompt = p /\ t.queue = rest /\ t.gen = <<>>
        /\ t.rows = e.rows /\ t.committed = e.committed /\ t.pred = e.pred
        /\ t.pending = <<>> /\ ~t.done
    BY DEF Resumed, Cold
  <1> HIDE DEF t, rest
  <1>5. TellsSpec(t)
    BY <1>2, <1>3, <1>4 DEF TellsSpec, Seen
  <1>6. ParksSpec(t)
    BY <1>4 DEF ParksSpec
  <1> QED
    BY <1>4, <1>5, <1>6 DEF Told, Parkable, t

\* A pool that holds something is in use, and then the configuration is quiet.
LEMMA PoolUsed ==
    ASSUME Typed, NEW i, i \in DOMAIN reuse \/ i \in DOMAIN spec_reuse
    PROVE  env.pool # 0 /\ (SoundEnv => Quiet)
  <1>1. /\ Len(reuse) \in Nat /\ DOMAIN reuse = 1 .. Len(reuse)
        /\ Len(spec_reuse) \in Nat /\ DOMAIN spec_reuse = 1 .. Len(spec_reuse)
        /\ env.pool \in Nat
    BY LenProperties DEF Typed, Config
  <1>2. Len(reuse) <= env.pool /\ Len(spec_reuse) <= env.pool
    BY DEF Typed
  <1>3. env.pool # 0
    BY <1>1, <1>2
  <1> QED
    BY <1>3 DEF SoundEnv

\* admit keeps all of it.
LEMMA ReuseTold ==
    ASSUME HandoffInv, NEW p \in Prompts, AdmitReuse(p), honest' = honest
    PROVE  Kept /\ (Quiet => reuse' \in Seq(PlainExact))
  <1>1. PICK i \in DOMAIN reuse :
            LET e == reuse[i]
            IN  /\ IsLast(i, ReuseHits(p))
                /\ slot' = [Cold(p) EXCEPT !.fed = e.fed, !.rows = e.rows,
                              !.logits = e.logits, !.queue = After(p, Len(e.fed)),
                              !.done = (Len(p) = Len(e.fed))]
                /\ reuse' = RemoveAt(reuse, i)
    BY DEF AdmitReuse
  <1>2. SoundEnv => Quiet
    BY PoolUsed DEF HandoffInv, Whole
  <1> SUFFICES ASSUME Quiet
               PROVE  honest' /\ Told(slot') /\ Parkable(slot') /\ reuse' \in Seq(PlainExact)
    BY <1>2 DEF Kept
  <1>3. reuse \in Seq(PlainExact) /\ honest
    BY DEF HandoffInv, SoundEnv
  <1>4. reuse[i] \in PlainExact
    BY <1>3, LenProperties, ElementOfSeq
  <1> DEFINE e == reuse[i]
             rest == After(p, Len(e.fed))
  <1>5. e.fed \in Seq(Nat) /\ e.rows = e.fed /\ e.logits = e.fed
    BY <1>4 DEF PlainExact, PlainEntry
  <1>6. StartsWith(p, e.fed)
    BY <1>1 DEF IsLast, ReuseHits
  <1>7. p \in Seq(Nat)
    BY PromptType
  <1>8. e.fed \o rest = p /\ (Len(p) = Len(e.fed) => p = e.fed)
    BY <1>5, <1>6, <1>7, Prefixed
  <1>9. p \o <<>> = p
    BY <1>7, ConcatEmptySeq
  <1>10. /\ slot'.kind = "plain" /\ slot'.prompt = p /\ slot'.queue = rest /\ slot'.gen = <<>>
         /\ slot'.fed = e.fed /\ slot'.rows = e.rows /\ slot'.logits = e.logits
         /\ slot'.next = None /\ slot'.done = (Len(p) = Len(e.fed))
    BY <1>1 DEF Cold
  <1> HIDE DEF e, rest
  <1>11. TellsPlain(slot')
    <2>1. CASE Len(p) = Len(e.fed)
      <3>1. slot'.rows = Seen(slot') /\ slot'.fed = slot'.rows /\ slot'.logits = slot'.rows
        BY <2>1, <1>5, <1>8, <1>9, <1>10 DEF Seen
      <3>2. slot'.done /\ slot'.next = None
        BY <2>1, <1>10
      <3> QED
        BY <3>1, <3>2 DEF TellsPlain
    <2>2. CASE Len(p) # Len(e.fed)
      <3>1. ~slot'.done
        BY <2>2, <1>10
      <3> QED
        BY <3>1, <1>5, <1>8, <1>10 DEF TellsPlain
    <2> QED
      BY <2>1, <2>2
  <1>12. ParksPlain(slot')
    BY <1>5, <1>10 DEF ParksPlain
  <1>13. Told(slot') /\ Parkable(slot')
    BY <1>10, <1>11, <1>12 DEF Told, Parkable
  <1>14. reuse' \in Seq(PlainExact)
    BY <1>1, <1>3, RemoveAtType
  <1> QED
    BY <1>3, <1>13, <1>14

\* Admission through the spec pool: what is resumed or rewound was exact.
LEMMA SpecTold ==
    ASSUME HandoffInv, NEW p \in Prompts, honest' = honest,
           AdmitSpecExact(p) \/ AdmitRewind(p) \/ AdmitCold(p)
    PROVE  Kept /\ (Quiet => spec_reuse' \in Seq(SpecExact))
  <1>1. Typed
    BY DEF HandoffInv, Whole
  <1>2. ASSUME NEW i \in DOMAIN spec_reuse, Quiet
        PROVE  /\ spec_reuse[i] \in SpecExact /\ spec_reuse[i] \in SpecEntries
               /\ RemoveAt(spec_reuse, i) \in Seq(SpecExact)
    <2>1. spec_reuse \in Seq(SpecExact)
      BY <1>2 DEF HandoffInv
    <2>2. spec_reuse[i] \in SpecExact
      BY <2>1, LenProperties, ElementOfSeq
    <2> QED
      BY <2>1, <2>2, RemoveAtType DEF SpecExact
  <1>3. SoundEnv => honest
    BY DEF HandoffInv
  <1>4. CASE AdmitSpecExact(p)
    <2>1. PICK i \in DOMAIN spec_reuse :
              /\ IsLast(i, SpecHits(p))
              /\ slot' = Resumed(p, spec_reuse[i])
              /\ spec_reuse' = RemoveAt(spec_reuse, i)
      BY <1>4 DEF AdmitSpecExact
    <2>2. env.pool # 0 /\ (SoundEnv => Quiet)
      BY <1>1, PoolUsed
    <2>3. StartsWith(p, spec_reuse[i].committed)
      BY <2>1 DEF IsLast, SpecHits
    <2>4. ASSUME Quiet PROVE Told(slot') /\ Parkable(slot')
      <3>1. /\ spec_reuse[i] \in SpecEntry /\ spec_reuse[i].rows = spec_reuse[i].committed
            /\ spec_reuse[i].pred = spec_reuse[i].rows
        BY <1>2, <2>4 DEF SpecExact, SpecEntries
      <3> QED
        BY <2>1, <2>2, <2>3, <3>1, ResumedTold
    <2> QED
      BY <1>2, <1>3, <2>1, <2>2, <2>4 DEF Kept
  <1>5. CASE AdmitRewind(p)
    <2>1. PICK i \in Rewindable(p) :
              /\ slot' \in {Resumed(p, Rewound(spec_reuse[i]))}
                            \cup IfErrs({[Cold(p) EXCEPT !.kind = "spec"]})
              /\ spec_reuse' = RemoveAt(spec_reuse, i)
      BY <1>5 DEF AdmitRewind
    <2>2. /\ i \in DOMAIN spec_reuse /\ spec_reuse[i].ckpt <= Len(spec_reuse[i].committed)
          /\ StartsWith(p, SubSeq(spec_reuse[i].committed, 1, spec_reuse[i].ckpt))
      BY <2>1 DEF Rewindable
    <2>3. env.pool # 0 /\ (SoundEnv => Quiet)
      BY <1>1, <2>2, PoolUsed
    <2>4. ASSUME Quiet PROVE Told(slot') /\ Parkable(slot')
      <3> DEFINE w == Rewound(spec_reuse[i])
      <3>1. spec_reuse[i] \in SpecEntries /\ spec_reuse[i].rows = spec_reuse[i].committed
        BY <1>2, <2>2, <2>4 DEF SpecExact
      <3>2. /\ w \in SpecEntry /\ w.pred = None /\ w.rows = w.committed
            /\ StartsWith(p, w.committed)
        BY <2>2, <3>1, RewoundType
      <3>3. slot' = Resumed(p, w)
        BY <2>1, <2>4 DEF IfErrs, Quiet
      <3> HIDE DEF w
      <3> QED
        BY <2>3, <3>2, <3>3, ResumedTold
    <2> QED
      BY <1>2, <1>3, <2>1, <2>2, <2>3, <2>4 DEF Kept
  <1>6. CASE AdmitCold(p)
    <2>1. slot' = Cold(p) \/ slot' = [Cold(p) EXCEPT !.kind = "spec"]
      BY <1>6 DEF AdmitCold
    <2>2. spec_reuse' \in {spec_reuse, <<>>}
      BY <1>6 DEF AdmitCold
    <2>3. <<>> \in Seq(SpecExact)
      BY EmptySeq
    <2>4. Told(slot') /\ Parkable(slot')
      BY <2>1, ColdTold
    <2>5. Quiet => spec_reuse' \in Seq(SpecExact)
      BY <2>2, <2>3 DEF HandoffInv
    <2> QED
      BY <1>3, <2>4, <2>5 DEF Kept
  <1> QED
    BY <1>4, <1>5, <1>6

\* A running session of a sound configuration has told the truth.
LEMMA RunningTold ==
    ASSUME HandoffInv, SoundEnv, NEW k \in Kinds, Running(k)
    PROVE  /\ slot \in Sessions /\ slot \in Session /\ slot.kind = k /\ honest
           /\ k = "plain" => TellsPlain(slot)
           /\ k = "graph" => TellsGraph(slot) /\ ~Quiet
           /\ k = "spec" => TellsSpec(slot) /\ (env.pool = 0 => Fresh(slot))
           /\ Quiet => Parkable(slot)
  <1>1. slot \in Sessions /\ slot \in Session /\ slot.kind = k /\ slot.fin = FALSE
    BY RunningSession DEF HandoffInv, Whole
  <1>2. honest /\ Told(slot) /\ (Quiet => Parkable(slot))
    BY DEF HandoffInv
  <1>3. ~slot.fin
    BY <1>1
  <1> QED
    BY <1>1, <1>2, <1>3 DEF Told, Parkable

\* A quiet configuration is a sound one: a step shows its part for both at once.
LEMMA ShowKept ==
    ASSUME SoundEnv => honest' /\ Told(slot') /\ (Quiet => Parkable(slot'))
    PROVE  Kept
  BY DEF Kept, SoundEnv

\* A chunk of the prompt: cache and record grow alike.
LEMMA PrefillTold ==
    ASSUME HandoffInv, Prefill
    PROVE  Kept
  <1> SUFFICES ASSUME SoundEnv
               PROVE  honest' /\ Told(slot') /\ (Quiet => Parkable(slot'))
    BY ShowKept
  <1>1. slot \in Session /\ slot.kind = "plain" /\ TellsPlain(slot) /\ honest
    BY RunningTold DEF Prefill, Kinds
  <1>2. honest'
    BY <1>1 DEF Prefill
  <1>3. PICK n \in 1 .. Len(slot.queue) :
            LET rows == slot.rows \o SubSeq(slot.queue, 1, n)
            IN  slot' \in
                  {[slot EXCEPT !.rows = rows, !.logits = rows,
                       !.fed = @ \o SubSeq(slot.queue, 1, n),
                       !.queue = After(@, n), !.done = (n = Len(slot.queue))]}
                  \cup IfErrs({[slot EXCEPT !.rows = rows, !.fin = TRUE]})
    BY DEF Prefill
  <1>4. /\ slot.queue \in Seq(Nat) /\ slot.rows \in Seq(Nat) /\ slot.prompt \in Seq(Nat)
        /\ Len(slot.queue) \in Nat
    BY <1>1, PromptType, LenProperties DEF Session
  <1>5. ~slot.done
    BY DEF Prefill
  <1>6. /\ slot.gen = <<>> /\ slot.next = None /\ slot.rows = slot.fed
        /\ slot.fed \o slot.queue = slot.prompt
    BY <1>1, <1>5 DEF TellsPlain
  <1> DEFINE q1 == SubSeq(slot.queue, 1, n)
             q2 == After(slot.queue, n)
             rows == slot.rows \o q1
             fed == slot.fed \o q1
             done == (n = Len(slot.queue))
             t == [slot EXCEPT !.rows = rows, !.logits = rows, !.fed = fed,
                               !.queue = q2, !.done = done]
             u == [slot EXCEPT !.rows = rows, !.fin = TRUE]
  <1>7. slot' = t \/ (~Quiet /\ slot' = u)
    BY <1>3 DEF IfErrs, Quiet
  <1>8. n \in 0 .. Len(slot.queue) /\ n \in Nat
    BY <1>4
  <1>9. q1 \in Seq(Nat) /\ q2 \in Seq(Nat) /\ q1 \o q2 = slot.queue
    BY <1>4, <1>8, FrontPart, BackPart, Parts
  <1>10. done => q2 = <<>>
    BY <1>4, <1>8, BackPart
  <1> HIDE DEF q1, q2, done
  <1>11. fed \o q2 = slot.prompt /\ rows = fed /\ fed \in Seq(Nat)
    <2>1. slot.fed \in Seq(Nat)
      BY <1>4, <1>6
    <2>2. (slot.fed \o q1) \o q2 = slot.fed \o (q1 \o q2)
      BY <2>1, <1>9, Joined
    <2>3. fed \in Seq(Nat)
      BY <2>1, <1>9, ConcatProperties
    <2> QED
      BY <2>2, <2>3, <1>6, <1>9
  <1> HIDE DEF rows, fed
  <1>12. done => fed = slot.prompt /\ slot.prompt \o <<>> = slot.prompt
    BY <1>4, <1>10, <1>11, ConcatEmptySeq
  <1>13. /\ t.kind = "plain" /\ t.prompt = slot.prompt /\ t.rows = rows /\ t.logits = rows
         /\ t.fed = fed /\ t.queue = q2 /\ t.done = done /\ t.gen = slot.gen /\ t.next = slot.next
    BY <1>1 DEF Session
  <1>14. u.fin
    BY <1>1 DEF Session
  <1> HIDE DEF t, u
  <1>15. TellsPlain(t) /\ ParksPlain(t)
    <2>1. CASE done
      BY <2>1, <1>6, <1>11, <1>12, <1>13 DEF TellsPlain, ParksPlain, Seen
    <2>2. CASE ~done
      BY <2>2, <1>6, <1>11, <1>13 DEF TellsPlain, ParksPlain
    <2> QED
      BY <2>1, <2>2
  <1>16. Told(t) /\ Parkable(t)
    BY <1>13, <1>15 DEF Told, Parkable
  <1>17. Told(u)
    BY <1>14 DEF Told
  <1> QED
    BY <1>2, <1>7, <1>16, <1>17

\* A decode step emits what the cache predicts.
LEMMA DecodeTold ==
    ASSUME HandoffInv, Decode
    PROVE  Kept
  <1> SUFFICES ASSUME SoundEnv
               PROVE  honest' /\ Told(slot') /\ (Quiet => Parkable(slot'))
    BY ShowKept
  <1>1. /\ slot \in Session /\ slot.kind = "plain" /\ TellsPlain(slot) /\ honest
        /\ Quiet => Parkable(slot)
    BY RunningTold DEF Decode, Kinds
  <1>2. slot.done /\ slot.rows = Seen(slot) /\ slot.fed = slot.rows
    BY <1>1 DEF Decode, TellsPlain
  <1>3. CASE Len(slot.gen) >= Budget
    <2>1. slot' = [slot EXCEPT !.fin = TRUE] /\ honest' = honest
      BY <1>3 DEF Decode, Finished
    <2> QED
      BY <1>1, <2>1, EndTold
  <1>4. CASE ~(Len(slot.gen) >= Budget)
    <2> DEFINE ctx == IF slot.next # None THEN slot.next ELSE slot.logits
    <2>1. Emit(slot, ctx, Fed(slot))
      BY <1>4 DEF Decode
    <2>2. ctx = Seen(slot)
      BY <1>1, <1>2 DEF TellsPlain
    <2>3. \A t \in Fed(slot) : Told(t) /\ (Quiet => Parkable(t))
      BY <1>1, <1>2, FedTold
    <2> HIDE DEF ctx
    <2> QED
      BY <1>1, <2>1, <2>2, <2>3, EmitTold
  <1> QED
    BY <1>3, <1>4

\* A step of the graph.
LEMMA StepGraphTold ==
    ASSUME NEW s \in Session, s.kind = "graph", TellsGraph(s), honest, ~Quiet, StepGraph(s)
    PROVE  honest' /\ Told(slot')
  <1> DEFINE rows == Append(s.rows, Gen)
             gen == Append(s.gen, Gen)
             fed == Append(s.fed, Gen)
             a == [s EXCEPT !.gen = gen, !.fed = fed]
             t1 == [a EXCEPT !.rows = rows, !.next = rows]
             t2 == [a EXCEPT !.fin = TRUE]
  <1>1. s.done /\ s.rows = Seen(s) /\ s.fed = s.rows /\ s.next = Seen(s)
    BY DEF TellsGraph
  <1>2. rows = s.prompt \o gen /\ fed = rows
    BY <1>1, OneMore
  <1>3. Emit(s, s.next, {t1} \cup IfErrs({t2}))
    BY DEF StepGraph
  <1> HIDE DEF rows, gen, fed
  <1>4. /\ t1.kind = "graph" /\ t1.rows = rows /\ t1.next = rows /\ t1.fed = fed /\ t1.gen = gen
        /\ t1.prompt = s.prompt /\ t1.done /\ t2.fin
    BY <1>1 DEF Session
  <1> HIDE DEF t1, t2
  <1>5. Told(t1) /\ Told(t2)
    BY <1>2, <1>4 DEF Told, TellsGraph, Seen
  <1>6. \A t \in {t1} \cup IfErrs({t2}) : Told(t) /\ (Quiet => Parkable(t))
    BY <1>5 DEF IfErrs
  <1> QED
    BY <1>1, <1>3, <1>6, EmitTold

\* Promotion, graph steps, degradation.
LEMMA GraphTold ==
    ASSUME HandoffInv, PromoteGraph \/ GraphDecode \/ DegradeGraph
    PROVE  Kept
  <1> SUFFICES ASSUME SoundEnv
               PROVE  honest' /\ Told(slot') /\ (Quiet => Parkable(slot'))
    BY ShowKept
  <1>1. CASE PromoteGraph
    <2>1. slot \in Session /\ slot.kind = "plain" /\ TellsPlain(slot) /\ honest
      BY <1>1, RunningTold DEF PromoteGraph, Kinds
    <2>2. ~Quiet
      BY <1>1 DEF PromoteGraph, Quiet
    <2>3. slot.done /\ slot.logits # None
      BY <1>1 DEF PromoteGraph
    <2>4. slot.rows = Seen(slot) /\ slot.fed = slot.rows /\ slot.logits = slot.rows
      BY <2>1, <2>3 DEF TellsPlain
    <2> DEFINE s == [slot EXCEPT !.kind = "graph", !.next = slot.logits]
    <2>5. /\ s \in Session /\ s.kind = "graph" /\ s.rows = slot.rows /\ s.fed = slot.fed
          /\ s.next = slot.logits /\ s.prompt = slot.prompt /\ s.gen = slot.gen /\ s.done
      BY <2>1, <2>3 DEF Session, Kinds
    <2>6. StepGraph(s) \/ (slot' = [s EXCEPT !.fin = TRUE] /\ honest' = honest)
      BY <1>1 DEF PromoteGraph
    <2> HIDE DEF s
    <2>7. TellsGraph(s)
      BY <2>4, <2>5 DEF TellsGraph, Seen
    <2>8. CASE StepGraph(s)
      BY <2>1, <2>2, <2>5, <2>7, <2>8, StepGraphTold
    <2>9. CASE slot' = [s EXCEPT !.fin = TRUE] /\ honest' = honest
      BY <2>1, <2>2, <2>5, <2>9, EndTold
    <2> QED
      BY <2>6, <2>8, <2>9
  <1>2. CASE GraphDecode
    <2>1. slot \in Session /\ slot.kind = "graph" /\ TellsGraph(slot) /\ honest /\ ~Quiet
      BY <1>2, RunningTold DEF GraphDecode, Kinds
    <2>2. StepGraph(slot) \/ (slot' = [slot EXCEPT !.fin = TRUE] /\ honest' = honest)
      BY <1>2 DEF GraphDecode, Finished
    <2>3. CASE StepGraph(slot)
      BY <2>1, <2>3, StepGraphTold
    <2>4. CASE slot' = [slot EXCEPT !.fin = TRUE] /\ honest' = honest
      BY <2>1, <2>4, EndTold
    <2> QED
      BY <2>2, <2>3, <2>4
  <1>3. CASE DegradeGraph
    <2>1. slot \in Session /\ slot.kind = "graph" /\ TellsGraph(slot) /\ honest /\ ~Quiet
      BY <1>3, RunningTold DEF DegradeGraph, Kinds
    <2> DEFINE s == [slot EXCEPT !.kind = "plain"]
    <2>2. /\ s \in Session /\ s.kind = "plain" /\ s.rows = slot.rows /\ s.fed = slot.fed
          /\ s.next = slot.next /\ s.prompt = slot.prompt /\ s.gen = slot.gen
          /\ s.done = slot.done
      BY <2>1 DEF Session, Kinds
    <2>3. Emit(s, s.next, Fed(s)) \/ (slot' = [s EXCEPT !.fin = TRUE] /\ honest' = honest)
      BY <1>3 DEF DegradeGraph
    <2> HIDE DEF s
    <2>4. s.done /\ s.rows = Seen(s) /\ s.fed = s.rows /\ s.next = Seen(s)
      BY <2>1, <2>2 DEF TellsGraph, Seen
    <2>5. \A t \in Fed(s) : Told(t)
      BY <2>2, <2>4, FedTold
    <2>6. CASE Emit(s, s.next, Fed(s))
      BY <2>1, <2>2, <2>4, <2>5, <2>6, EmitTold
    <2>7. CASE slot' = [s EXCEPT !.fin = TRUE] /\ honest' = honest
      BY <2>1, <2>2, <2>7, EndTold
    <2> QED
      BY <2>3, <2>6, <2>7
  <1> QED
    BY <1>1, <1>2, <1>3

\* Under the invariant nothing is carried into a prime, so the session a burst
\* starts from is the session in the slot.
LEMMA StartedSame ==
    ASSUME NEW s \in Sessions, s.kind = "spec", TellsSpec(s)
    PROVE  LET f == Started(s) IN
           /\ f.kind = s.kind /\ f.prompt = s.prompt /\ f.queue = s.queue /\ f.fed = s.fed
           /\ f.gen = s.gen /\ f.rows = s.rows /\ f.committed = s.committed
           /\ f.pred = s.pred /\ f.pending = s.pending /\ f.done = s.done /\ f.ckpt = s.ckpt
  <1>1. s \in Session /\ s.rows \in Seq(Nat) /\ s.committed \in Seq(Nat)
    BY DEF Sessions, Session
  <1>2. CASE s.queue = <<>>
    BY <1>2 DEF Started
  <1>3. CASE s.queue # <<>>
    <2>1. s.pending = <<>>
      BY <1>3 DEF TellsSpec
    <2>2. s.rows \o <<>> = s.rows /\ s.committed \o <<>> = s.committed
      BY <1>1, ConcatEmptySeq
    <2>3. Started(s) = [s EXCEPT !.rows = s.rows, !.committed = s.committed, !.pending = <<>>,
                                 !.pred = s.pred]
      BY <1>3, <2>1, <2>2 DEF Started, Flushed
    <2> QED
      BY <1>1, <2>1, <2>3 DEF Session
  <1> QED
    BY <1>2, <1>3

\* What is in the cache and what is held back make up what the client has seen,
\* before a burst and after it.
LEMMA BurstRows ==
    ASSUME NEW f \in Session, NEW m \in Nat, TellsSpec(f)
    PROVE  /\ RowsAfter(f, m) \in Seq(Nat)
           /\ RowsAfter(f, m) \o HeldBack(f, m) = f.prompt \o (f.gen \o Output(Tokens(f, m)))
           /\ Primed(f) \o f.pending = Seen(f)
  <1> DEFINE out == Output(Tokens(f, m))
             given == Given(f, m)
             held == HeldBack(f, m)
             seen == f.prompt \o f.gen
             p == Primed(f)
  <1>1. /\ f.rows \in Seq(Nat) /\ f.queue \in Seq(Nat) /\ f.pending \in Seq(Nat)
        /\ f.prompt \in Seq(Nat) /\ f.gen \in Seq(Nat)
    BY PromptType DEF Session
  <1>2. /\ out \in Seq(Nat) /\ held \in Seq(Nat) /\ given \in Seq(Nat)
        /\ m = 0 /\ f.pending = <<>> => given = out
        /\ m = 0 /\ f.pending # <<>> => given = <<>> /\ out = <<>>
        /\ m # 0 => given \o held = out
    BY BurstPieces
  <1>3. p \in Seq(Nat) /\ seen \in Seq(Nat)
    BY <1>1, ConcatProperties DEF Primed
  <1>4. p \o f.pending = seen
    BY DEF TellsSpec, Primed, Seen
  <1>5. seen \o out = f.prompt \o (f.gen \o out)
    <2>1. f.prompt \in Seq(Nat) /\ f.gen \in Seq(Nat) /\ out \in Seq(Nat)
      BY <1>1, <1>2
    <2> HIDE DEF out
    <2> QED
      BY <2>1, Joined
  <1>6. RowsAfter(f, m) = (p \o (IF m = 0 THEN <<>> ELSE f.pending)) \o given
    BY DEF RowsAfter
  <1>7. held = IF m = 0 THEN f.pending ELSE <<Gen>>
    BY DEF HeldBack
  <1> HIDE DEF out, given, held, seen, p
  <1>8. CASE m = 0 /\ f.pending = <<>>
    <2>1. p = seen
      BY <1>3, <1>4, <1>8, ConcatEmptySeq
    <2>2. p \o <<>> = p
      BY <1>3, ConcatEmptySeq
    <2>3. RowsAfter(f, m) = seen \o out /\ held = <<>>
      BY <1>2, <1>6, <1>7, <1>8, <2>1, <2>2
    <2>4. seen \o out \in Seq(Nat)
      BY <1>2, <1>3, ConcatProperties
    <2>5. (seen \o out) \o <<>> = seen \o out
      BY <2>4, ConcatEmptySeq
    <2> QED
      BY <1>4, <1>5, <2>3, <2>4, <2>5 DEF seen, Seen, p, out, held
  <1>9. CASE m = 0 /\ f.pending # <<>>
    <2>1. p \o <<>> = p /\ seen \o <<>> = seen
      BY <1>3, ConcatEmptySeq
    <2>2. RowsAfter(f, m) = p /\ held = f.pending /\ out = <<>>
      BY <1>2, <1>6, <1>7, <1>9, <2>1
    <2>3. RowsAfter(f, m) \o held = seen \o out
      BY <1>4, <2>1, <2>2
    <2> QED
      BY <1>3, <1>4, <1>5, <2>2, <2>3 DEF seen, Seen, p, out, held
  <1>10. CASE m # 0
    <2>1. RowsAfter(f, m) = seen \o given
      BY <1>4, <1>6, <1>10
    <2>2. (seen \o given) \o held = seen \o (given \o held)
      BY <1>2, <1>3, Joined
    <2>3. seen \o given \in Seq(Nat)
      BY <1>2, <1>3, ConcatProperties
    <2>4. RowsAfter(f, m) \o held = seen \o out
      BY <1>2, <1>10, <2>1, <2>2
    <2> QED
      BY <1>4, <1>5, <2>1, <2>3, <2>4 DEF seen, Seen, p, out, held
  <1> QED
    BY <1>8, <1>9, <1>10

\* So a bursted session tells the truth again; one that resumed nothing has fed
\* what its client has seen, and unless a yield left the carried token where it
\* was the record is the cache.
LEMMA BurstedTold ==
    ASSUME NEW f \in Sessions, NEW m \in Nat, NEW ends \in BOOLEAN, NEW ckpt,
           f.kind = "spec", TellsSpec(f), env.pool = 0 => Fresh(f)
    PROVE  /\ Told(Bursted(f, m, ends, ckpt))
           /\ ParksSpec(f) /\ ~(m = 0 /\ f.pending # <<>>) => Parkable(Bursted(f, m, ends, ckpt))
  <1> DEFINE t == Bursted(f, m, ends, ckpt)
             out == Output(Tokens(f, m))
             held == HeldBack(f, m)
             rows == RowsAfter(f, m)
             fed == (f.fed \o f.queue) \o out
             gen == f.gen \o out
             record == RecordAfter(f, m)
             pred == IF held = <<>> THEN rows ELSE None
  <1>1. /\ f \in Session /\ f.rows \in Seq(Nat) /\ f.queue \in Seq(Nat) /\ f.fed \in Seq(Nat)
        /\ f.prompt \in Seq(Nat) /\ f.gen \in Seq(Nat) /\ f.pending \in Seq(Nat)
    BY PromptType DEF Sessions, Session
  <1>2. rows \in Seq(Nat) /\ rows \o held = f.prompt \o gen
    BY <1>1, BurstRows
  <1>3. out \in Seq(Nat)
    BY <1>1, BurstPieces
  <1>4. rows \o <<>> = rows
    BY <1>2, ConcatEmptySeq
  <1>5. env.pool = 0 => fed = f.prompt \o gen
    <2> SUFFICES ASSUME env.pool = 0 PROVE fed = f.prompt \o gen
      OBVIOUS
    <2>1. (f.prompt \o f.gen) \o out = f.prompt \o (f.gen \o out)
      <3>1. f.prompt \in Seq(Nat) /\ f.gen \in Seq(Nat)
        BY <1>1
      <3> HIDE DEF out
      <3> QED
        BY <3>1, <1>3, Joined
    <2>2. f.fed \o f.queue = f.prompt \o f.gen
      <3>1. CASE f.done
        <4>1. f.queue = <<>> /\ f.fed = f.prompt \o f.gen
          BY <3>1 DEF Fresh, TellsSpec, Seen
        <4>2. f.fed \o <<>> = f.fed
          BY <1>1, ConcatEmptySeq
        <4> QED
          BY <4>1, <4>2
      <3>2. CASE ~f.done
        <4>1. f.fed = <<>> /\ f.rows = <<>> /\ f.pending = <<>>
          BY <3>2 DEF Fresh, TellsSpec
        <4>2. <<>> \o f.queue = f.queue /\ f.queue \o <<>> = f.queue
          BY <1>1, ConcatEmptySeq
        <4>3. (f.rows \o f.queue) \o f.pending = f.prompt \o f.gen
          BY DEF TellsSpec, Seen
        <4> QED
          BY <4>1, <4>2, <4>3
      <3> QED
        BY <3>1, <3>2
    <2> QED
      BY <2>1, <2>2
  <1>6. ParksSpec(f) /\ ~(m = 0 /\ f.pending # <<>>) => rows = record
    BY DEF ParksSpec, RowsAfter, RecordAfter, Primed
  <1>7. t = [f EXCEPT !.queue = <<>>, !.done = TRUE, !.fed = fed, !.gen = gen, !.rows = rows,
                      !.pending = held, !.pred = pred, !.committed = record, !.ckpt = ckpt,
                      !.fin = ends]
    BY DEF Bursted
  <1> HIDE DEF t, out, held, rows, fed, gen, record
  <1>8. /\ t.kind = "spec" /\ t.prompt = f.prompt /\ t.queue = <<>> /\ t.done /\ t.fed = fed
        /\ t.gen = gen /\ t.rows = rows /\ t.pending = held /\ t.pred = pred
        /\ t.committed = record
    BY <1>1, <1>7 DEF Session
  <1>9. TellsSpec(t)
    BY <1>2, <1>4, <1>8 DEF TellsSpec, Seen
  <1>10. env.pool = 0 => Fresh(t)
    BY <1>5, <1>8 DEF Fresh, Seen
  <1>11. rows = record => ParksSpec(t)
    BY <1>8 DEF ParksSpec
  <1>12. Told(t) /\ (rows = record => Parkable(t))
    BY <1>8, <1>9, <1>10, <1>11 DEF Told, Parkable
  <1> QED
    BY <1>6, <1>12 DEF t

\* A burst emits what cache and carried token predict, and tells the truth after it.
LEMMA BurstTold ==
    ASSUME HandoffInv, Burst
    PROVE  Kept
  <1> SUFFICES ASSUME SoundEnv
               PROVE  honest' /\ Told(slot') /\ (Quiet => Parkable(slot'))
    BY ShowKept
  <1>1. /\ slot \in Sessions /\ slot.kind = "spec" /\ TellsSpec(slot) /\ honest
        /\ env.pool = 0 => Fresh(slot)
        /\ Quiet => Parkable(slot)
    BY RunningTold DEF Burst, Kinds
  <1>2. Able(slot) /\ ~slot.fin
    BY DEF HandoffInv, Whole, Burst, Running
  <1>3. PICK m \in 0 .. BurstT + K : BurstResult(m)
    BY BurstRead
  <1>4. m \in Nat
    OBVIOUS
  <1> DEFINE f == Started(slot)
  <1>5. /\ f.kind = slot.kind /\ f.prompt = slot.prompt /\ f.queue = slot.queue /\ f.fed = slot.fed
        /\ f.gen = slot.gen /\ f.rows = slot.rows /\ f.committed = slot.committed
        /\ f.pred = slot.pred /\ f.pending = slot.pending /\ f.done = slot.done
    BY <1>1, StartedSame
  <1>6. f \in Sessions
    BY <1>1, StartedType
  <1>7. PICK ends \in BOOLEAN, ckpt \in {f.ckpt, 0, Len(Primed(f))} :
            slot' = Bursted(f, m, ends, ckpt)
    BY <1>3 DEF BurstResult
  <1>8. /\ Tokens(f, m) >= BurstRoom \/ env.yield
        /\ honest' = (/\ honest
                      /\ f.pending = <<>> =>
                            (IF f.queue = <<>> THEN f.pred ELSE Primed(f)) = Seen(slot)
                      /\ m >= 1 => Primed(f) \o f.pending = Seen(slot))
    BY <1>3 DEF BurstResult
  <1> HIDE DEF f
  <1>9. TellsSpec(f) /\ (env.pool = 0 => Fresh(f)) /\ Seen(f) = Seen(slot)
    BY <1>1, <1>5 DEF TellsSpec, Fresh, Seen
  <1>10. Primed(f) \o f.pending = Seen(slot)
    BY <1>4, <1>6, <1>9, BurstRows DEF Sessions
  <1>11. f.pending = <<>> => (IF f.queue = <<>> THEN f.pred ELSE Primed(f)) = Seen(slot)
    <2> SUFFICES ASSUME f.pending = <<>>
                 PROVE  (IF f.queue = <<>> THEN f.pred ELSE Primed(f)) = Seen(slot)
      OBVIOUS
    <2>1. f.rows \in Seq(Nat) /\ f.queue \in Seq(Nat)
      BY <1>6 DEF Sessions, Session
    <2>2. Primed(f) \in Seq(Nat)
      BY <2>1, ConcatProperties DEF Primed
    <2>3. Primed(f) = Seen(slot)
      BY <1>10, <2>2, ConcatEmptySeq
    <2>4. CASE f.queue = <<>>
      <3>1. f.pred # None
        BY <1>1, <1>2, <1>5, <2>4 DEF Able
      <3>2. f.pred = f.rows
        BY <1>9, <3>1 DEF TellsSpec
      <3>3. Primed(f) = f.rows
        BY <2>1, <2>4, ConcatEmptySeq DEF Primed
      <3> QED
        BY <2>3, <2>4, <3>2, <3>3
    <2> QED
      BY <2>3, <2>4
  <1>12. honest'
    BY <1>1, <1>8, <1>10, <1>11, Zenon
  <1>13. Told(slot')
    BY <1>1, <1>4, <1>5, <1>6, <1>7, <1>9, BurstedTold
  <1>14. Quiet => Parkable(slot')
    <2> SUFFICES ASSUME Quiet PROVE Parkable(slot')
      OBVIOUS
    <2>1. ParksSpec(f)
      BY <1>1, <1>5 DEF Parkable, ParksSpec
    <2>2. Tokens(f, m) >= BurstRoom
      BY <1>8 DEF Quiet
    <2>3. BurstRoom > 0 /\ BurstRoom \in Int
      <3>1. slot.gen \in Seq(Nat)
        BY <1>1 DEF Sessions, Session
      <3>2. Len(slot.gen) \in Nat /\ Budget \in Nat /\ BurstT \in Nat \ {0}
        BY <3>1, LenProperties, HandoffAssumption DEF HandoffAssumption
      <3>3. Len(slot.gen) < Budget
        BY <1>1, <1>2 DEF Able
      <3> QED
        BY <3>2, <3>3 DEF BurstRoom, Least
    <2>4. ~(m = 0 /\ f.pending # <<>>)
      BY <2>2, <2>3 DEF Tokens
    <2> QED
      BY <1>1, <1>4, <1>5, <1>6, <1>7, <1>9, <2>1, <2>4, BurstedTold
  <1> QED
    BY <1>12, <1>13, <1>14

\* A failed burst ends the session, and the configuration lets passes fail.
LEMMA BurstFailsTold ==
    ASSUME HandoffInv, BurstFails
    PROVE  Kept
  <1>1. ~Quiet /\ honest' = honest
    BY DEF BurstFails, Quiet
  <1>2. slot \in Session
    BY RunningSession DEF HandoffInv, Whole, BurstFails, Kinds
  <1>3. \E r, c : slot' = [slot EXCEPT !.rows = r, !.queue = <<>>, !.pending = <<>>,
                                       !.done = TRUE, !.fin = TRUE, !.ckpt = c]
    BY DEF BurstFails
  <1>4. slot'.fin
    BY <1>2, <1>3 DEF Session
  <1>5. Told(slot')
    BY <1>4 DEF Told
  <1> QED
    BY <1>1, <1>5 DEF Kept, HandoffInv

\* The flush puts the carried token where the client has it.
LEMMA FlushedTells ==
    ASSUME NEW s \in Session, TellsSpec(s), s.done, s.pred # None \/ s.pending # <<>>
    PROVE  Flushed(s).rows = Seen(s) /\ Flushed(s).pred = Seen(s)
  <1>1. /\ s.rows \in Seq(Nat) /\ s.pending \in Seq(Nat)
        /\ s.queue = <<>> /\ (s.rows \o s.queue) \o s.pending = Seen(s)
        /\ s.pred # None => s.pred = s.rows /\ s.pending = <<>>
    BY DEF Session, TellsSpec
  <1>2. s.rows \o s.queue = s.rows
    BY <1>1, ConcatEmptySeq
  <1>3. s.rows \o s.pending = Seen(s)
    BY <1>1, <1>2
  <1>4. s.pending = <<>> => s.rows = Seen(s)
    BY <1>1, <1>3, ConcatEmptySeq
  <1>5. /\ Flushed(s).rows = s.rows \o s.pending
        /\ Flushed(s).pred = IF s.pending = <<>> THEN s.pred ELSE s.rows \o s.pending
    BY DEF Flushed, Session
  <1> QED
    BY <1>1, <1>3, <1>4, <1>5

\* Demotion: only a session that resumed nothing is handed over with its fed
\* complete, so a sound configuration that demotes has no pool.
LEMMA DemoteTold ==
    ASSUME HandoffInv, Demote
    PROVE  Kept
  <1> SUFFICES ASSUME SoundEnv
               PROVE  honest' /\ Told(slot') /\ (Quiet => Parkable(slot'))
    BY ShowKept
  <1>1. ~Quiet /\ env.pool = 0
    BY DEF Demote, Quiet, SoundEnv
  <1>2. /\ slot \in Sessions /\ slot \in Session /\ TellsSpec(slot) /\ Fresh(slot) /\ honest
    BY <1>1, RunningTold DEF Demote, Kinds
  <1>3. slot.committed # <<>> /\ (slot.pred # None \/ slot.pending # <<>>) /\ honest' = honest
    BY DEF Demote
  <1>4. slot.done /\ slot.fed = Seen(slot)
    BY <1>2, <1>3 DEF Fresh
  <1> DEFINE g == Flushed(slot)
             h == [g EXCEPT !.kind = "plain", !.next = g.pred, !.done = TRUE, !.logits = None]
  <1>5. slot' \in {h, Free}
    BY DEF Demote, Handover, IfErrs
  <1>6. /\ g \in Session /\ g.rows = Seen(slot) /\ g.pred = Seen(slot) /\ g.pred # None
    BY <1>2, <1>3, <1>4, FlushedType, FlushedTells DEF Sessions
  <1>7. g.prompt = slot.prompt /\ g.gen = slot.gen /\ g.fed = slot.fed
    BY <1>2 DEF Flushed, Session
  <1> HIDE DEF g
  <1>8. /\ h.kind = "plain" /\ h.done /\ h.rows = g.rows /\ h.fed = g.fed /\ h.next = g.pred
        /\ h.logits = None /\ h.prompt = g.prompt /\ h.gen = g.gen
    BY <1>6 DEF Session
  <1> HIDE DEF h
  <1>9. Seen(h) = Seen(slot)
    BY <1>7, <1>8 DEF Seen
  <1>10. TellsPlain(h)
    BY <1>4, <1>6, <1>7, <1>8, <1>9 DEF TellsPlain
  <1>11. Told(h)
    BY <1>8, <1>10 DEF Told
  <1> QED
    BY <1>1, <1>2, <1>3, <1>5, <1>11, FreeTold

\* A client that goes away.
LEMMA DisconnectTold ==
    ASSUME HandoffInv, Disconnect
    PROVE  Kept
  <1>1. slot \in Session /\ slot' = [slot EXCEPT !.fin = TRUE] /\ honest' = honest
    BY SlotUsed DEF Disconnect, HandoffInv, Whole
  <1>2. Told(slot') /\ (Parkable(slot) => Parkable(slot'))
    BY <1>1, EndTold
  <1> QED
    BY <1>1, <1>2 DEF Kept, HandoffInv

\* A flush leaves cache, record and prediction in agreement.
LEMMA FlushedParks ==
    ASSUME NEW s \in Session, ParksSpec(s)
    PROVE  ParksSpec(Flushed(s))
  <1> DEFINE g == Flushed(s)
  <1>1. s.rows = s.committed /\ (s.pred # None => s.pred = s.rows)
    BY DEF ParksSpec
  <1>2. s.rows \in Seq(Nat) /\ s.rows \o <<>> = s.rows
    BY ConcatEmptySeq DEF Session
  <1>3. /\ g.rows = s.rows \o s.pending /\ g.committed = s.committed \o s.pending
        /\ g.pred = IF s.pending = <<>> THEN s.pred ELSE s.rows \o s.pending
    BY DEF Flushed, Session
  <1> HIDE DEF g
  <1>4. ParksSpec(g)
    BY <1>1, <1>2, <1>3 DEF ParksSpec
  <1> QED
    BY <1>4 DEF g

\* What a session with such a cache adds to the pool can be resumed.
LEMMA ParkedRecord ==
    ASSUME Typed, spec_reuse \in Seq(SpecExact), NEW g \in Sessions, ParksSpec(g)
    PROVE  ParkSpec(g) \in Seq(SpecExact)
  <1> DEFINE e == [rows |-> g.rows, committed |-> g.committed, pred |-> g.pred, ckpt |-> g.ckpt]
  <1>1. CASE Len(g.committed) >= MinPrefix /\ g.pred # None
    <2>1. e \in SpecEntry
      BY DEF Sessions, Session, SpecEntry
    <2>2. e \in SpecEntries
      BY <1>1, <2>1 DEF Sessions, SpecEntries
    <2>3. e \in SpecExact
      BY <1>1, <2>2 DEF SpecExact, ParksSpec
    <2>4. ParkSpec(g) = Push(spec_reuse, e) /\ env.pool \in Nat
      BY <1>1 DEF ParkSpec, Typed, Config
    <2> HIDE DEF e
    <2> QED
      BY <2>3, <2>4, PushType
  <1>2. CASE ~(Len(g.committed) >= MinPrefix /\ g.pred # None)
    BY <1>2 DEF ParkSpec
  <1> QED
    BY <1>1, <1>2

\* In a quiet configuration what is parked can be resumed.
LEMMA RetireTold ==
    ASSUME HandoffInv, Retire
    PROVE  /\ Kept
           /\ Quiet => reuse' \in Seq(PlainExact) /\ spec_reuse' \in Seq(SpecExact)
  <1>1. Typed
    BY DEF HandoffInv, Whole
  <1>2. slot \in Sessions /\ slot \in Session /\ slot' = Free /\ honest' = honest
    BY <1>1, SlotUsed DEF Retire
  <1>3. Kept
    BY <1>2, FreeTold DEF Kept, HandoffInv
  <1> SUFFICES ASSUME Quiet
               PROVE  reuse' \in Seq(PlainExact) /\ spec_reuse' \in Seq(SpecExact)
    BY <1>3
  <1>4. Parkable(slot) /\ reuse \in Seq(PlainExact) /\ spec_reuse \in Seq(SpecExact)
    BY DEF HandoffInv
  <1>5. env.pool \in Nat
    BY <1>1 DEF Typed, Config
  <1>6. CASE slot.kind = "spec"
    <2>1. reuse' = reuse /\ spec_reuse' = ParkSpec(Flushed(slot))
      BY <1>6 DEF Retire, Quiet
    <2>2. Flushed(slot) \in Sessions /\ ParksSpec(Flushed(slot))
      BY <1>2, <1>4, <1>6, FlushedType, FlushedParks DEF Parkable
    <2> QED
      BY <1>1, <1>4, <2>1, <2>2, ParkedRecord
  <1>7. CASE slot.kind = "plain"
    <2>1. reuse' = ParkPlain(slot) /\ spec_reuse' = spec_reuse
      BY <1>7 DEF Retire
    <2> DEFINE e == [rows |-> slot.rows, fed |-> slot.fed, logits |-> slot.logits]
    <2>2. slot.rows = slot.fed /\ (slot.done => slot.logits = slot.rows)
      BY <1>4, <1>7 DEF Parkable, ParksPlain
    <2>3. CASE Len(slot.fed) >= MinPrefix /\ slot.done /\ slot.logits # None
      <3>1. e \in PlainEntry
        BY <1>2 DEF Session, PlainEntry
      <3>2. e \in PlainExact
        BY <3>1, <2>2, <2>3 DEF PlainExact
      <3>3. reuse' = Push(reuse, e)
        BY <2>1, <2>3 DEF ParkPlain
      <3> HIDE DEF e
      <3> QED
        BY <1>4, <1>5, <2>1, <3>2, <3>3, PushType
    <2>4. CASE ~(Len(slot.fed) >= MinPrefix /\ slot.done /\ slot.logits # None)
      BY <1>4, <2>1, <2>4 DEF ParkPlain
    <2> QED
      BY <2>3, <2>4
  <1>8. slot.kind # "graph"
    BY <1>4 DEF Parkable
  <1>9. slot.kind \in Kinds
    BY <1>2 DEF Session
  <1> QED
    BY <1>6, <1>7, <1>8, <1>9 DEF Kinds

-----------------------------------------------------------------------------
(* The invariant of the specification, and what follows from it.           *)

\* It holds when the worker starts ...
LEMMA HandoffInit == Init => HandoffInv
  <1> SUFFICES ASSUME Init PROVE HandoffInv
    OBVIOUS
  <1>1. <<>> \in Seq(PlainExact) /\ <<>> \in Seq(SpecExact)
    BY EmptySeq
  <1>2. honest /\ Told(slot) /\ Parkable(slot)
    BY FreeTold DEF Init
  <1> QED
    BY <1>1, <1>2, WholeInit DEF Init, HandoffInv

\* ... and every action keeps it.
LEMMA HandoffStep ==
    ASSUME HandoffInv, [Next]_vars
    PROVE  HandoffInv'
  <1>1. Whole'
    BY WholeStep DEF HandoffInv
  <1>2. env' = env
    BY DEF Next, vars, Admit, Prefill, Decode, PromoteGraph, GraphDecode, DegradeGraph, Burst,
           BurstFails, Demote, Disconnect, Retire
  <1>3. Kept /\ (Quiet => reuse' \in Seq(PlainExact) /\ spec_reuse' \in Seq(SpecExact))
    <2>1. Quiet => reuse \in Seq(PlainExact) /\ spec_reuse \in Seq(SpecExact)
      BY DEF HandoffInv
    <2>2. CASE \E p \in Prompts : Admit(p)
      <3>1. PICK p \in Prompts : Admit(p)
        BY <2>2
      <3>2. honest' = honest
        BY <3>1 DEF Admit
      <3>3. CASE AdmitReuse(p)
        <4>1. spec_reuse' = spec_reuse
          BY <3>3 DEF AdmitReuse
        <4> QED
          BY <2>1, <3>2, <3>3, <4>1, ReuseTold
      <3>4. CASE AdmitSpecExact(p) \/ AdmitRewind(p) \/ AdmitCold(p)
        <4>1. reuse' = reuse
          BY <3>4 DEF AdmitSpecExact, AdmitRewind, AdmitCold
        <4> QED
          BY <2>1, <3>2, <3>4, <4>1, SpecTold
      <3> QED
        BY <3>1, <3>3, <3>4 DEF Admit
    <2>3. CASE Prefill \/ Decode \/ PromoteGraph \/ GraphDecode \/ DegradeGraph \/ Burst
                  \/ BurstFails \/ Demote \/ Disconnect
      <3>1. reuse' = reuse /\ spec_reuse' = spec_reuse
        BY <2>3 DEF Prefill, Decode, PromoteGraph, GraphDecode, DegradeGraph, Burst, BurstFails,
                    Demote, Disconnect
      <3>2. Kept
        BY <2>3, PrefillTold, DecodeTold, GraphTold, BurstTold, BurstFailsTold, DemoteTold,
           DisconnectTold
      <3> QED
        BY <2>1, <3>1, <3>2
    <2>4. CASE Retire
      BY <2>4, RetireTold
    <2>5. CASE UNCHANGED vars
      <3>1. slot' = slot /\ reuse' = reuse /\ spec_reuse' = spec_reuse /\ honest' = honest
        BY <2>5 DEF vars
      <3> QED
        BY <2>1, <3>1 DEF Kept, HandoffInv
    <2> QED
      BY <2>2, <2>3, <2>4, <2>5 DEF Next
  <1>4. (SoundEnv' <=> SoundEnv) /\ (Quiet' <=> Quiet)
    BY <1>2 DEF SoundEnv, Quiet
  <1>5. Told(slot)' <=> Told(slot')
    BY <1>2 DEF Told, TellsPlain, TellsGraph, TellsSpec, Fresh, Seen
  <1>6. Parkable(slot)' <=> Parkable(slot')
    BY DEF Parkable, ParksPlain, ParksSpec
  <1>7. (SoundEnv' => honest' /\ Told(slot)') /\ (Quiet' => Parkable(slot)')
    BY <1>3, <1>4, <1>5, <1>6 DEF Kept
  <1>8. Quiet' => reuse' \in Seq(PlainExact) /\ spec_reuse' \in Seq(SpecExact)
    BY <1>3, <1>4
  <1> QED
    BY <1>1, <1>7, <1>8 DEF HandoffInv, PlainExact, PlainEntry, SpecExact, SpecEntries, SpecEntry

\* The inductive invariant holds in every state of every configuration.
THEOREM HandoffInvariant == Spec => []HandoffInv
  <1>1. HandoffInv /\ [Next]_vars => HandoffInv'
    BY HandoffStep
  <1> QED
    BY <1>1, HandoffInit, PTL DEF Spec

\* The variables have the shape of the structs, and retire's trim keeps both
\* pools within MEMRA_REUSE_POOL, whatever the configuration.
THEOREM HandoffTypeCorrect == Spec => []TypeOK
  <1>1. HandoffInv => TypeOK
    <2> SUFFICES ASSUME HandoffInv PROVE TypeOK
      OBVIOUS
    <2>1. Typed
      BY DEF HandoffInv, Whole
    <2>2. spec_reuse \in Seq(SpecEntry)
      <3>1. spec_reuse \in Seq(SpecEntries)
        BY <2>1 DEF Typed
      <3> QED
        BY <3>1, SeqMonotonic DEF SpecEntries
    <2>3. slot \in Session \cup {Free}
      BY <2>1 DEF Typed, Sessions
    <2> QED
      BY <2>1, <2>2, <2>3 DEF Typed, TypeOK, PlainEntry, SpecEntry
  <1> QED
    BY <1>1, HandoffInvariant, PTL

\* step_session always finds room and something to start a burst from, whatever
\* was resumed, rewound, yielded or failed before.
THEOREM CanBurstCorrect == Spec => []CanBurst
  <1>1. HandoffInv => CanBurst
    <2> SUFFICES ASSUME HandoffInv, Running("spec")
                 PROVE  /\ BurstRoom > 0
                        /\ slot.queue # <<>> \/ slot.pred # None \/ slot.pending # <<>>
      BY DEF CanBurst
    <2>1. slot \in Session /\ slot.kind = "spec" /\ ~slot.fin
      BY RunningSession DEF HandoffInv, Whole, Kinds
    <2>2. /\ Len(slot.gen) < Budget
          /\ slot.queue # <<>> \/ slot.pred # None \/ slot.pending # <<>>
      BY <2>1 DEF HandoffInv, Whole, Able
    <2>3. slot.gen \in Seq(Nat)
      BY <2>1 DEF Session
    <2>4. Len(slot.gen) \in Nat /\ Budget \in Nat /\ BurstT \in Nat \ {0}
      BY <2>3, LenProperties, HandoffAssumption DEF HandoffAssumption
    <2>5. BurstRoom > 0
      BY <2>2, <2>4 DEF BurstRoom, Least
    <2> QED
      BY <2>2, <2>5
  <1> QED
    BY <1>1, HandoffInvariant, PTL

\* Without a pool, or without demotion, graphs, yields and failing passes, every
\* token a client receives was predicted from exactly what it had seen.
THEOREM EmitCorrect == Spec => [](SoundEnv => EmitExact)
  <1>1. HandoffInv => (SoundEnv => EmitExact)
    BY DEF HandoffInv, EmitExact
  <1> QED
    BY <1>1, HandoffInvariant, PTL

\* In those configurations what retire parks can be resumed: rows, record and
\* prediction agree, and a rewind boundary is inside the record.
THEOREM ParkedCorrect == Spec => [](SoundEnv => ParkedExact)
  <1>1. HandoffInv => (SoundEnv => ParkedExact)
    <2> SUFFICES ASSUME HandoffInv, SoundEnv PROVE ParkedExact
      OBVIOUS
    <2>1. Typed
      BY DEF HandoffInv, Whole
    <2>2. ASSUME NEW i \in DOMAIN reuse
          PROVE  reuse[i].rows = reuse[i].fed /\ reuse[i].logits = reuse[i].fed
      <3>1. reuse \in Seq(PlainExact)
        BY <2>1, <2>2, PoolUsed DEF HandoffInv
      <3>2. reuse[i] \in PlainExact
        BY <3>1, LenProperties, ElementOfSeq
      <3> QED
        BY <3>2 DEF PlainExact
    <2>3. ASSUME NEW i \in DOMAIN spec_reuse
          PROVE  /\ spec_reuse[i].rows = spec_reuse[i].committed
                 /\ spec_reuse[i].pred = spec_reuse[i].committed
                 /\ spec_reuse[i].ckpt <= Len(spec_reuse[i].committed)
      <3>1. spec_reuse \in Seq(SpecExact)
        BY <2>1, <2>3, PoolUsed DEF HandoffInv
      <3>2. spec_reuse[i] \in SpecExact
        BY <3>1, LenProperties, ElementOfSeq
      <3> QED
        BY <3>2 DEF SpecExact, SpecEntries
    <2> QED
      BY <2>2, <2>3 DEF ParkedExact
  <1> QED
    BY <1>1, HandoffInvariant, PTL

-----------------------------------------------------------------------------
(* The record of a spec session needs less: no yield, and no failing pass  *)
(* whose session could be parked.                                          *)

Steady == ~env.yield /\ (env.pool = 0 \/ ~env.errs)
Recorded(s) == s.kind = "spec" /\ (~s.fin \/ ~env.errs) => ParksSpec(s)
RecordInv == Steady => Recorded(slot) /\ spec_reuse \in Seq(SpecExact)

\* The other paths never make a spec session.
LEMMA OtherPaths ==
    ASSUME Typed, Prefill \/ Decode \/ PromoteGraph \/ GraphDecode \/ DegradeGraph \/ Demote
    PROVE  slot'.kind # "spec"
  <1>1. ASSUME NEW s \in Session, NEW ctx, NEW going, Emit(s, ctx, going), s.kind # "spec",
               \A t \in going : t.kind = s.kind
        PROVE  slot'.kind # "spec"
    <2>1. slot' = [s EXCEPT !.gen = Append(s.gen, Gen), !.fin = TRUE] \/ slot' \in going
      BY <1>1 DEF Emit
    <2> QED
      BY <1>1, <2>1 DEF Session
  <1>2. ASSUME NEW s \in Session PROVE \A t \in Fed(s) : t.kind = s.kind
    BY DEF Fed, IfErrs, Session
  <1>3. ASSUME NEW s \in Session, s.kind = "graph", StepGraph(s) PROVE slot'.kind # "spec"
    <2> DEFINE rows == Append(s.rows, Gen)
               t == [s EXCEPT !.gen = Append(@, Gen), !.fed = Append(@, Gen)]
               going == {[t EXCEPT !.rows = rows, !.next = rows]}
                           \cup IfErrs({[t EXCEPT !.fin = TRUE]})
    <2>1. Emit(s, s.next, going)
      BY <1>3 DEF StepGraph
    <2>2. \A u \in going : u.kind = s.kind
      BY DEF IfErrs, Session
    <2> HIDE DEF going
    <2> QED
      BY <1>1, <1>3, <2>1, <2>2
  <1>4. CASE Prefill
    <2>1. slot \in Session /\ slot.kind = "plain"
      BY <1>4, RunningSession DEF Prefill, Kinds
    <2>2. PICK n \in 1 .. Len(slot.queue) :
            LET rows == slot.rows \o SubSeq(slot.queue, 1, n)
            IN  slot' \in
                  {[slot EXCEPT !.rows = rows, !.logits = rows,
                       !.fed = @ \o SubSeq(slot.queue, 1, n),
                       !.queue = After(@, n), !.done = (n = Len(slot.queue))]}
                  \cup IfErrs({[slot EXCEPT !.rows = rows, !.fin = TRUE]})
      BY <1>4 DEF Prefill
    <2> DEFINE r == slot.rows \o SubSeq(slot.queue, 1, n)
               f == slot.fed \o SubSeq(slot.queue, 1, n)
               q == After(slot.queue, n)
               d == (n = Len(slot.queue))
    <2>3. \/ slot' = [slot EXCEPT !.rows = r, !.logits = r, !.fed = f, !.queue = q, !.done = d]
          \/ slot' = [slot EXCEPT !.rows = r, !.fin = TRUE]
      BY <2>2 DEF IfErrs
    <2> HIDE DEF r, f, q, d
    <2> QED
      BY <2>1, <2>3 DEF Session
  <1>5. CASE Decode
    <2>1. slot \in Session /\ slot.kind = "plain"
      BY <1>5, RunningSession DEF Decode, Kinds
    <2>2. slot' = [slot EXCEPT !.fin = TRUE] \/ (\E ctx : Emit(slot, ctx, Fed(slot)))
      BY <1>5 DEF Decode, Finished
    <2>3. slot' = [slot EXCEPT !.fin = TRUE] => slot'.kind # "spec"
      BY <2>1 DEF Session
    <2> QED
      BY <1>1, <1>2, <2>1, <2>2, <2>3
  <1>6. CASE PromoteGraph
    <2> DEFINE s == [slot EXCEPT !.kind = "graph", !.next = slot.logits]
    <2>1. slot \in Session
      BY <1>6, RunningSession DEF PromoteGraph, Kinds
    <2>2. s \in Session /\ s.kind = "graph"
      BY <2>1 DEF Session, Kinds
    <2>3. StepGraph(s) \/ slot' = [s EXCEPT !.fin = TRUE]
      BY <1>6 DEF PromoteGraph
    <2> HIDE DEF s
    <2>4. slot' = [s EXCEPT !.fin = TRUE] => slot'.kind # "spec"
      BY <2>2 DEF Session
    <2> QED
      BY <1>3, <2>2, <2>3, <2>4
  <1>7. CASE GraphDecode
    <2>1. slot \in Session /\ slot.kind = "graph"
      BY <1>7, RunningSession DEF GraphDecode, Kinds
    <2>2. StepGraph(slot) \/ slot' = [slot EXCEPT !.fin = TRUE]
      BY <1>7 DEF GraphDecode, Finished
    <2>3. slot' = [slot EXCEPT !.fin = TRUE] => slot'.kind # "spec"
      BY <2>1 DEF Session
    <2> QED
      BY <1>3, <2>1, <2>2, <2>3
  <1>8. CASE DegradeGraph
    <2> DEFINE s == [slot EXCEPT !.kind = "plain"]
    <2>1. slot \in Session
      BY <1>8, RunningSession DEF DegradeGraph, Kinds
    <2>2. s \in Session /\ s.kind = "plain"
      BY <2>1 DEF Session, Kinds
    <2>3. Emit(s, s.next, Fed(s)) \/ slot' = [s EXCEPT !.fin = TRUE]
      BY <1>8 DEF DegradeGraph
    <2> HIDE DEF s
    <2>4. slot' = [s EXCEPT !.fin = TRUE] => slot'.kind # "spec"
      BY <2>2 DEF Session
    <2> QED
      BY <1>1, <1>2, <2>2, <2>3, <2>4
  <1>9. CASE Demote
    <2> DEFINE g == Flushed(slot)
               h == [g EXCEPT !.kind = "plain", !.next = g.pred, !.done = TRUE, !.logits = None]
    <2>1. slot' \in {h, Free}
      BY <1>9 DEF Demote, Handover, IfErrs
    <2>2. slot \in Sessions
      BY <1>9, RunningSession DEF Demote, Kinds
    <2>3. g \in Session
      BY <2>2, FlushedType DEF Sessions
    <2> HIDE DEF g
    <2>4. h.kind = "plain"
      BY <2>3 DEF Session
    <2> HIDE DEF h
    <2> QED
      BY <2>1, <2>4 DEF Free
  <1> QED
    BY <1>4, <1>5, <1>6, <1>7, <1>8, <1>9

\* A burst that is not cut short before its first round records what it feeds.
LEMMA BurstedRecord ==
    ASSUME NEW f \in Session, NEW m, NEW ends, NEW ckpt, ParksSpec(f),
           ~(m = 0 /\ f.pending # <<>>)
    PROVE  ParksSpec(Bursted(f, m, ends, ckpt))
  <1> DEFINE t == Bursted(f, m, ends, ckpt)
             rows == RowsAfter(f, m)
             record == RecordAfter(f, m)
             held == HeldBack(f, m)
             fed == (f.fed \o f.queue) \o Output(Tokens(f, m))
             gen == f.gen \o Output(Tokens(f, m))
             pred == IF held = <<>> THEN rows ELSE None
  <1>1. rows = record
    BY DEF ParksSpec, RowsAfter, RecordAfter, Primed
  <1>2. t = [f EXCEPT !.queue = <<>>, !.done = TRUE, !.fed = fed, !.gen = gen, !.rows = rows,
                      !.pending = held, !.pred = pred, !.committed = record, !.ckpt = ckpt,
                      !.fin = ends]
    BY DEF Bursted
  <1> HIDE DEF t, held, rows, fed, gen, record
  <1>3. t.rows = rows /\ t.committed = record /\ t.pred = pred
    BY <1>2 DEF Session
  <1> QED
    BY <1>1, <1>3 DEF ParksSpec, t

\* The burst of a steady configuration.
LEMMA BurstRecord ==
    ASSUME Whole, Steady, Recorded(slot), Burst
    PROVE  ParksSpec(slot')
  <1>1. slot \in Sessions /\ slot.kind = "spec" /\ ~slot.fin
    BY RunningSession DEF Whole, Burst, Kinds
  <1>2. ParksSpec(slot)
    BY <1>1 DEF Recorded
  <1> DEFINE f == Started(slot)
  <1>3. f \in Session /\ ParksSpec(f)
    <2>1. Flushed(slot) \in Session /\ ParksSpec(Flushed(slot))
      BY <1>1, <1>2, FlushedType, FlushedParks DEF Sessions
    <2> QED
      BY <1>1, <1>2, <2>1 DEF Started, Sessions
  <1>4. PICK m \in 0 .. BurstT + K : BurstResult(m)
    BY BurstRead
  <1>5. PICK ends \in BOOLEAN, ckpt \in {f.ckpt, 0, Len(Primed(f))} :
            slot' = Bursted(f, m, ends, ckpt)
    BY <1>4 DEF BurstResult
  <1>6. Tokens(f, m) >= BurstRoom
    BY <1>4 DEF BurstResult, Steady
  <1>7. BurstRoom > 0 /\ BurstRoom \in Int
    <2>1. slot.gen \in Seq(Nat)
      BY <1>1 DEF Sessions, Session
    <2>2. Len(slot.gen) \in Nat /\ Budget \in Nat /\ BurstT \in Nat \ {0}
      BY <2>1, LenProperties, HandoffAssumption DEF HandoffAssumption
    <2>3. Len(slot.gen) < Budget
      BY <1>1 DEF Able, Whole
    <2> QED
      BY <2>2, <2>3 DEF BurstRoom, Least
  <1> HIDE DEF f
  <1>8. ~(m = 0 /\ f.pending # <<>>)
    BY <1>6, <1>7 DEF Tokens
  <1> QED
    BY <1>3, <1>5, <1>8, BurstedRecord

\* admit starts a spec session from nothing, or from what was parked.
LEMMA AdmitRecord ==
    ASSUME Typed, NEW p \in Prompts, spec_reuse \in Seq(SpecExact),
           AdmitSpecExact(p) \/ AdmitRewind(p) \/ AdmitCold(p)
    PROVE  Recorded(slot') /\ spec_reuse' \in Seq(SpecExact)
  <1>1. ASSUME NEW i \in DOMAIN spec_reuse
        PROVE  /\ spec_reuse[i] \in SpecEntries
               /\ spec_reuse[i].rows = spec_reuse[i].committed
               /\ spec_reuse[i].pred = spec_reuse[i].committed
               /\ RemoveAt(spec_reuse, i) \in Seq(SpecExact)
    <2>1. spec_reuse[i] \in SpecExact
      BY LenProperties, ElementOfSeq
    <2> QED
      BY <2>1, RemoveAtType DEF SpecExact
  <1>2. ASSUME NEW e, e.rows = e.committed, e.pred = None \/ e.pred = e.rows
        PROVE  ParksSpec(Resumed(p, e))
    BY <1>2 DEF Resumed, Cold, ParksSpec
  <1>3. CASE AdmitSpecExact(p)
    <2>1. PICK i \in DOMAIN spec_reuse :
              slot' = Resumed(p, spec_reuse[i]) /\ spec_reuse' = RemoveAt(spec_reuse, i)
      BY <1>3 DEF AdmitSpecExact
    <2> QED
      BY <1>1, <1>2, <2>1 DEF Recorded
  <1>4. CASE AdmitRewind(p)
    <2>1. PICK i \in Rewindable(p) :
              /\ slot' \in {Resumed(p, Rewound(spec_reuse[i]))}
                            \cup IfErrs({[Cold(p) EXCEPT !.kind = "spec"]})
              /\ spec_reuse' = RemoveAt(spec_reuse, i)
      BY <1>4 DEF AdmitRewind
    <2>2. i \in DOMAIN spec_reuse /\ spec_reuse[i].ckpt <= Len(spec_reuse[i].committed)
      BY <2>1 DEF Rewindable
    <2> DEFINE w == Rewound(spec_reuse[i])
               c == [Cold(p) EXCEPT !.kind = "spec"]
    <2>3. w.pred = None /\ w.rows = w.committed
      BY <1>1, <2>2, RewoundType
    <2>4. slot' \in {Resumed(p, w), c}
      BY <2>1 DEF IfErrs
    <2>5. Parkable(c) /\ c.kind = "spec"
      BY ColdTold DEF Cold
    <2>6. ParksSpec(c)
      BY <2>5 DEF Parkable
    <2> HIDE DEF w, c
    <2> QED
      BY <1>1, <1>2, <2>1, <2>2, <2>3, <2>4, <2>6 DEF Recorded
  <1>5. CASE AdmitCold(p)
    <2>1. slot' = Cold(p) \/ slot' = [Cold(p) EXCEPT !.kind = "spec"]
      BY <1>5 DEF AdmitCold
    <2>2. spec_reuse' \in {spec_reuse, <<>>}
      BY <1>5 DEF AdmitCold
    <2>3. <<>> \in Seq(SpecExact)
      BY EmptySeq
    <2>4. Parkable(slot')
      BY <2>1, ColdTold
    <2> QED
      BY <2>2, <2>3, <2>4 DEF Recorded, Parkable
  <1> QED
    BY <1>3, <1>4, <1>5

\* Every step keeps the records.
LEMMA RecordStep ==
    ASSUME Whole, RecordInv, [Next]_vars
    PROVE  RecordInv'
  <1>1. env' = env
    BY DEF Next, vars, Admit, Prefill, Decode, PromoteGraph, GraphDecode, DegradeGraph, Burst,
           BurstFails, Demote, Disconnect, Retire
  <1>2. Typed
    BY DEF Whole
  <1> SUFFICES ASSUME Steady
               PROVE  Recorded(slot') /\ spec_reuse' \in Seq(SpecExact)
    <2>1. Steady' <=> Steady
      BY <1>1 DEF Steady
    <2>2. Recorded(slot)' <=> Recorded(slot')
      BY <1>1 DEF Recorded, ParksSpec
    <2> QED
      BY <2>1, <2>2 DEF RecordInv, SpecExact, SpecEntries, SpecEntry
  <1>3. Recorded(slot) /\ spec_reuse \in Seq(SpecExact)
    BY DEF RecordInv
  <1>4. CASE \E p \in Prompts : Admit(p)
    <2>1. PICK p \in Prompts : Admit(p)
      BY <1>4
    <2>2. CASE AdmitReuse(p)
      <3>1. spec_reuse' = spec_reuse
        BY <2>2 DEF AdmitReuse
      <3>2. slot'.kind = "plain"
        BY <2>2 DEF AdmitReuse, Cold
      <3> QED
        BY <1>3, <3>1, <3>2 DEF Recorded
    <2>3. CASE AdmitSpecExact(p) \/ AdmitRewind(p) \/ AdmitCold(p)
      BY <1>2, <1>3, <2>3, AdmitRecord
    <2> QED
      BY <2>1, <2>2, <2>3 DEF Admit
  <1>5. CASE Prefill \/ Decode \/ PromoteGraph \/ GraphDecode \/ DegradeGraph \/ Demote
    <2>1. spec_reuse' = spec_reuse
      BY <1>5 DEF Prefill, Decode, PromoteGraph, GraphDecode, DegradeGraph, Demote
    <2>2. slot'.kind # "spec"
      BY <1>2, <1>5, OtherPaths
    <2> QED
      BY <1>3, <2>1, <2>2 DEF Recorded
  <1>6. CASE Burst
    <2>1. spec_reuse' = spec_reuse
      BY <1>6 DEF Burst
    <2>2. ParksSpec(slot')
      BY <1>3, <1>6, BurstRecord
    <2> QED
      BY <1>3, <2>1, <2>2 DEF Recorded
  <1>7. CASE BurstFails
    <2>1. spec_reuse' = spec_reuse /\ env.errs
      BY <1>7 DEF BurstFails
    <2>2. slot \in Session
      BY <1>2, <1>7, RunningSession DEF BurstFails, Kinds
    <2>3. \E r, c : slot' = [slot EXCEPT !.rows = r, !.queue = <<>>, !.pending = <<>>,
                                         !.done = TRUE, !.fin = TRUE, !.ckpt = c]
      BY <1>7, Zenon DEF BurstFails
    <2>4. slot'.fin
      BY <2>2, <2>3 DEF Session
    <2> QED
      BY <1>3, <2>1, <2>4 DEF Recorded
  <1>8. CASE Disconnect
    <2>1. /\ spec_reuse' = spec_reuse /\ slot \in Session /\ ~slot.fin
          /\ slot' = [slot EXCEPT !.fin = TRUE]
      BY <1>2, <1>8, SlotUsed DEF Disconnect
    <2>2. /\ slot'.kind = slot.kind /\ slot'.rows = slot.rows /\ slot'.pred = slot.pred
          /\ slot'.committed = slot.committed
      BY <2>1 DEF Session
    <2>3. Recorded(slot')
      BY <1>3, <2>1, <2>2 DEF Recorded, ParksSpec
    <2> QED
      BY <1>3, <2>1, <2>3
  <1>9. CASE Retire
    <2>1. slot \in Sessions /\ slot' = Free
      BY <1>2, <1>9, SlotUsed DEF Retire
    <2>2. Recorded(slot')
      BY <2>1 DEF Recorded, Free
    <2> DEFINE g == Flushed(slot)
    <2>3. spec_reuse' = spec_reuse \/ (slot.kind = "spec" /\ spec_reuse' = ParkSpec(g))
      BY <1>9 DEF Retire
    <2>4. CASE slot.kind = "spec" /\ spec_reuse' = ParkSpec(g)
      <3>1. CASE env.errs
        <4>1. env.pool = 0 /\ <<>> \in Seq(SpecExact)
          BY <3>1, EmptySeq DEF Steady
        <4>2. ParkSpec(g) \in {<<>>, spec_reuse}
          BY <4>1 DEF ParkSpec, Push
        <4> QED
          BY <1>3, <2>2, <2>4, <4>1, <4>2
      <3>2. CASE ~env.errs
        <4>1. ParksSpec(slot)
          BY <1>3, <2>4, <3>2 DEF Recorded
        <4>2. g \in Sessions /\ ParksSpec(g)
          BY <2>1, <4>1, FlushedType, FlushedParks DEF Sessions
        <4> QED
          BY <1>2, <1>3, <2>2, <2>4, <4>2, ParkedRecord
      <3> QED
        BY <3>1, <3>2
    <2> QED
      BY <1>3, <2>2, <2>3, <2>4
  <1>10. CASE UNCHANGED vars
    BY <1>3, <1>10 DEF vars
  <1> QED
    BY <1>4, <1>5, <1>6, <1>7, <1>8, <1>9, <1>10 DEF Next

\* The assertion at the end of generate_spec_inner2 ("session invariant: cache
\* rows == committed tokens") holds between bursts, demotion and graphs or not,
\* when no poll yields and no failing pass leaves a session to be parked.
THEOREM CommittedCorrect == Spec => [](Steady => CommittedExact)
  <1>1. Init => RecordInv
    <2>1. <<>> \in Seq(SpecExact)
      BY EmptySeq
    <2> QED
      BY <2>1 DEF Init, RecordInv, Recorded, Free
  <1>2. HandoffInv /\ RecordInv /\ [Next]_vars => RecordInv'
    BY RecordStep DEF HandoffInv
  <1>3. RecordInv => (Steady => CommittedExact)
    BY DEF RecordInv, Recorded, ParksSpec, CommittedExact, Running
  <1> QED
    BY <1>1, <1>2, <1>3, HandoffInvariant, PTL DEF Spec

-----------------------------------------------------------------------------
(* The rows of a plain session need less as well: nothing is handed over   *)
(* to the plain path and no pass fails.  Yields and graphs may come.       *)

Undemoted == ~env.gate /\ ~env.errs
OwnRows(s) ==
    /\ s.rows = s.fed
    /\ s.kind = "graph" => s.done
    /\ ~s.fin => /\ s.done => s.rows = Seen(s)
                 /\ ~s.done => s.gen = <<>> /\ s.fed \o s.queue = s.prompt
Owned(s) == s.kind \in {"plain", "graph"} => OwnRows(s)
OwnEntries == {e \in PlainEntry : e.rows = e.fed}
OwnInv == Undemoted => Owned(slot) /\ reuse \in Seq(OwnEntries)

\* A session that ends keeps its rows.
LEMMA OwnEnd ==
    ASSUME NEW s \in Session, NEW g, s.rows = s.fed, s.kind = "graph" => s.done
    PROVE  OwnRows([s EXCEPT !.fin = TRUE]) /\ OwnRows([s EXCEPT !.gen = g, !.fin = TRUE])
  <1> DEFINE t == [s EXCEPT !.fin = TRUE]
             u == [s EXCEPT !.gen = g, !.fin = TRUE]
  <1>1. /\ t.fin /\ t.rows = s.rows /\ t.fed = s.fed /\ t.kind = s.kind /\ t.done = s.done
        /\ u.fin /\ u.rows = s.rows /\ u.fed = s.fed /\ u.kind = s.kind /\ u.done = s.done
    BY DEF Session
  <1> HIDE DEF t, u
  <1>2. OwnRows(t) /\ OwnRows(u)
    BY <1>1 DEF OwnRows
  <1> QED
    BY <1>2 DEF t, u

\* The emitted token ends the session or becomes a row, a fed and a seen token.
LEMMA OwnEmit ==
    ASSUME NEW s \in Session, ~env.errs, s.done, s.rows = Seen(s), s.fed = s.rows,
           (\E ctx : Emit(s, ctx, Fed(s))) \/ StepGraph(s)
    PROVE  OwnRows(slot')
  <1> DEFINE rows == Append(s.rows, Gen)
             gen == Append(s.gen, Gen)
             fed == Append(s.fed, Gen)
             e == [s EXCEPT !.gen = gen, !.fin = TRUE]
             a == [s EXCEPT !.gen = gen, !.next = None]
             b == [s EXCEPT !.gen = gen, !.fed = fed]
             t == [a EXCEPT !.rows = rows, !.fed = fed, !.logits = rows]
             u == [b EXCEPT !.rows = rows, !.next = rows]
  <1>1. rows = s.prompt \o gen /\ fed = rows
    BY OneMore
  <1>2. a.fed = s.fed
    BY DEF Session
  <1>3. slot' \in {e, t, u}
    <2>1. Fed(s) = LET r == Append(s.rows, Gen)
                       c == [s EXCEPT !.gen = Append(@, Gen), !.next = None]
                   IN  {[c EXCEPT !.rows = r, !.fed = Append(@, Gen), !.logits = r]}
      BY DEF Fed, IfErrs
    <2>2. Fed(s) = {t}
      BY <2>1, <1>2
    <2>3. StepGraph(s) => Emit(s, s.next, {u})
      BY DEF StepGraph, IfErrs
    <2>4. ASSUME NEW ctx, NEW going, Emit(s, ctx, going) PROVE slot' = e \/ slot' \in going
      BY <2>4 DEF Emit
    <2> HIDE DEF t, u, e
    <2> QED
      BY <2>2, <2>3, <2>4
  <1> HIDE DEF rows, gen, fed
  <1>4. /\ t.done /\ t.rows = rows /\ t.fed = fed /\ t.gen = gen /\ t.prompt = s.prompt
        /\ u.done /\ u.rows = rows /\ u.fed = fed /\ u.gen = gen /\ u.prompt = s.prompt
    BY DEF Session
  <1>5. OwnRows(e)
    BY OwnEnd
  <1> HIDE DEF t, u, e
  <1>6. OwnRows(t) /\ OwnRows(u)
    BY <1>1, <1>4 DEF OwnRows, Seen
  <1> QED
    BY <1>3, <1>5, <1>6

\* A session that resumes a parked one, or starts from nothing.
LEMMA OwnAdmit ==
    ASSUME NEW p \in Prompts, reuse \in Seq(OwnEntries),
           \/ AdmitReuse(p)
           \/ (AdmitSpecExact(p) \/ AdmitRewind(p) \/ AdmitCold(p)) /\ reuse' = reuse
    PROVE  Owned(slot') /\ reuse' \in Seq(OwnEntries)
  <1>1. p \in Seq(Nat)
    BY PromptType
  <1>2. p \o <<>> = p /\ <<>> \o p = p
    BY <1>1, ConcatEmptySeq
  <1>3. CASE AdmitReuse(p)
    <2>1. PICK i \in DOMAIN reuse :
              LET e == reuse[i]
              IN  /\ IsLast(i, ReuseHits(p))
                  /\ slot' = [Cold(p) EXCEPT !.fed = e.fed, !.rows = e.rows,
                                !.logits = e.logits, !.queue = After(p, Len(e.fed)),
                                !.done = (Len(p) = Len(e.fed))]
                  /\ reuse' = RemoveAt(reuse, i)
      BY <1>3 DEF AdmitReuse
    <2> DEFINE e == reuse[i]
               rest == After(p, Len(e.fed))
    <2>2. reuse[i] \in OwnEntries
      BY LenProperties, ElementOfSeq
    <2>3. e.fed \in Seq(Nat) /\ e.rows = e.fed
      BY <2>2 DEF OwnEntries, PlainEntry
    <2>4. StartsWith(p, e.fed)
      BY <2>1 DEF IsLast, ReuseHits
    <2>5. e.fed \o rest = p /\ (Len(p) = Len(e.fed) => p = e.fed)
      BY <1>1, <2>3, <2>4, Prefixed
    <2>6. /\ slot'.kind = "plain" /\ slot'.prompt = p /\ slot'.queue = rest /\ slot'.gen = <<>>
          /\ slot'.fed = e.fed /\ slot'.rows = e.rows /\ slot'.done = (Len(p) = Len(e.fed))
      BY <2>1 DEF Cold
    <2>7. reuse' \in Seq(OwnEntries)
      BY <2>1, RemoveAtType
    <2> HIDE DEF e, rest
    <2>8. OwnRows(slot')
      BY <1>2, <2>3, <2>5, <2>6 DEF OwnRows, Seen
    <2> QED
      BY <2>7, <2>8 DEF Owned
  <1>4. CASE (AdmitSpecExact(p) \/ AdmitRewind(p) \/ AdmitCold(p)) /\ reuse' = reuse
    <2>1. slot' = Cold(p) \/ slot'.kind = "spec"
      BY <1>4 DEF AdmitSpecExact, AdmitRewind, AdmitCold, Resumed, IfErrs, Cold
    <2>2. OwnRows(Cold(p))
      BY <1>2 DEF Cold, OwnRows
    <2> QED
      BY <1>4, <2>1, <2>2 DEF Owned
  <1> QED
    BY <1>3, <1>4

\* A chunk of the prompt goes to the cache and to fed.
LEMMA OwnPrefill ==
    ASSUME Typed, Owned(slot), ~env.errs, Prefill
    PROVE  Owned(slot')
  <1>1. slot \in Session /\ slot.kind = "plain" /\ ~slot.fin
    BY RunningSession DEF Prefill, Kinds
  <1>2. PICK n \in 1 .. Len(slot.queue) :
            LET rows == slot.rows \o SubSeq(slot.queue, 1, n)
            IN  slot' \in
                  {[slot EXCEPT !.rows = rows, !.logits = rows,
                       !.fed = @ \o SubSeq(slot.queue, 1, n),
                       !.queue = After(@, n), !.done = (n = Len(slot.queue))]}
                  \cup IfErrs({[slot EXCEPT !.rows = rows, !.fin = TRUE]})
    BY DEF Prefill
  <1>3. /\ slot.queue \in Seq(Nat) /\ slot.fed \in Seq(Nat) /\ slot.prompt \in Seq(Nat)
        /\ Len(slot.queue) \in Nat
    BY <1>1, PromptType, LenProperties DEF Session
  <1>4. ~slot.done
    BY DEF Prefill
  <1>5. slot.gen = <<>> /\ slot.rows = slot.fed /\ slot.fed \o slot.queue = slot.prompt
    BY <1>1, <1>4 DEF Owned, OwnRows
  <1> DEFINE q1 == SubSeq(slot.queue, 1, n)
             q2 == After(slot.queue, n)
             rows == slot.rows \o q1
             fed == slot.fed \o q1
             done == (n = Len(slot.queue))
             t == [slot EXCEPT !.rows = rows, !.logits = rows, !.fed = fed,
                               !.queue = q2, !.done = done]
  <1>6. slot' = t
    BY <1>2 DEF IfErrs
  <1>7. n \in 0 .. Len(slot.queue) /\ n \in Nat
    BY <1>3
  <1>8. q1 \in Seq(Nat) /\ q2 \in Seq(Nat) /\ q1 \o q2 = slot.queue
    BY <1>3, <1>7, FrontPart, BackPart, Parts
  <1>9. done => q2 = <<>>
    BY <1>3, <1>7, BackPart
  <1> HIDE DEF q1, q2, done
  <1>10. fed \o q2 = slot.prompt /\ rows = fed /\ fed \in Seq(Nat)
    <2>1. slot.fed \in Seq(Nat)
      BY <1>3
    <2>2. (slot.fed \o q1) \o q2 = slot.fed \o (q1 \o q2)
      BY <2>1, <1>8, Joined
    <2>3. fed \in Seq(Nat)
      BY <2>1, <1>8, ConcatProperties
    <2> QED
      BY <2>2, <2>3, <1>5, <1>8
  <1> HIDE DEF rows, fed
  <1>11. done => fed = slot.prompt /\ slot.prompt \o <<>> = slot.prompt
    BY <1>3, <1>9, <1>10, ConcatEmptySeq
  <1>12. /\ t.kind = "plain" /\ t.prompt = slot.prompt /\ t.rows = rows /\ t.fed = fed
         /\ t.queue = q2 /\ t.done = done /\ t.gen = slot.gen
    BY <1>1 DEF Session
  <1> HIDE DEF t
  <1>13. OwnRows(t)
    BY <1>5, <1>10, <1>11, <1>12 DEF OwnRows, Seen
  <1> QED
    BY <1>6, <1>13 DEF Owned

\* Decode steps, on the batched path and in the graph, and the ways between.
LEMMA OwnDecode ==
    ASSUME Typed, Owned(slot), ~env.errs,
           Decode \/ PromoteGraph \/ GraphDecode \/ DegradeGraph
    PROVE  Owned(slot')
  <1>1. slot \in Session /\ slot.kind \in {"plain", "graph"} /\ ~slot.fin
    BY RunningSession DEF Decode, PromoteGraph, GraphDecode, DegradeGraph, Kinds
  <1>2. slot.done
    BY <1>1 DEF Decode, PromoteGraph, GraphDecode, DegradeGraph, Owned, OwnRows, Running
  <1>3. slot.rows = Seen(slot) /\ slot.fed = slot.rows
    BY <1>1, <1>2 DEF Owned, OwnRows
  <1> DEFINE g == [slot EXCEPT !.kind = "graph", !.next = slot.logits]
             d == [slot EXCEPT !.kind = "plain"]
  <1>4. \E s \in {slot, g, d} : \/ slot' = [s EXCEPT !.fin = TRUE]
                               \/ (\E ctx : Emit(s, ctx, Fed(s))) \/ StepGraph(s)
    BY DEF Decode, PromoteGraph, GraphDecode, DegradeGraph, Finished
  <1>5. ASSUME NEW s \in {slot, g, d}
        PROVE  s \in Session /\ s.done /\ s.rows = Seen(s) /\ s.fed = s.rows
    BY <1>1, <1>2, <1>3 DEF Session, Kinds, Seen
  <1> HIDE DEF g, d
  <1>6. ASSUME NEW s \in {slot, g, d} PROVE OwnRows([s EXCEPT !.fin = TRUE])
    BY <1>5, OwnEnd
  <1>7. OwnRows(slot')
    BY <1>4, <1>5, <1>6, OwnEmit
  <1> QED
    BY <1>7 DEF Owned

\* Every step keeps the rows and their record together.
LEMMA OwnStep ==
    ASSUME Typed, OwnInv, [Next]_vars
    PROVE  OwnInv'
  <1>1. env' = env
    BY DEF Next, vars, Admit, Prefill, Decode, PromoteGraph, GraphDecode, DegradeGraph, Burst,
           BurstFails, Demote, Disconnect, Retire
  <1> SUFFICES ASSUME Undemoted
               PROVE  Owned(slot') /\ reuse' \in Seq(OwnEntries)
    <2>1. Undemoted' <=> Undemoted
      BY <1>1 DEF Undemoted
    <2>2. Owned(slot)' <=> Owned(slot')
      BY DEF Owned, OwnRows, Seen
    <2> QED
      BY <2>1, <2>2 DEF OwnInv, OwnEntries, PlainEntry
  <1>2. Owned(slot) /\ reuse \in Seq(OwnEntries) /\ ~env.errs /\ ~env.gate
    BY DEF OwnInv, Undemoted
  <1>3. CASE \E p \in Prompts : Admit(p)
    <2>1. PICK p \in Prompts : Admit(p)
      BY <1>3
    <2>2. \/ AdmitReuse(p)
          \/ (AdmitSpecExact(p) \/ AdmitRewind(p) \/ AdmitCold(p)) /\ reuse' = reuse
      BY <2>1 DEF Admit, AdmitSpecExact, AdmitRewind, AdmitCold
    <2> QED
      BY <1>2, <2>2, OwnAdmit
  <1>4. CASE Prefill \/ Decode \/ PromoteGraph \/ GraphDecode \/ DegradeGraph
    <2>1. reuse' = reuse
      BY <1>4 DEF Prefill, Decode, PromoteGraph, GraphDecode, DegradeGraph
    <2> QED
      BY <1>2, <1>4, <2>1, OwnPrefill, OwnDecode
  <1>5. CASE Burst
    <2>1. slot \in Sessions /\ slot.kind = "spec" /\ reuse' = reuse
      BY <1>5, RunningSession DEF Burst, Kinds
    <2> DEFINE f == Started(slot)
    <2>2. f \in Session /\ f.kind = "spec"
      BY <2>1, FlushedType DEF Started, Sessions
    <2>3. \E m \in 0 .. BurstT + K : BurstResult(m)
      BY <1>5, BurstRead
    <2>4. PICK m, ends, ckpt : slot' = Bursted(f, m, ends, ckpt)
      BY <2>3 DEF BurstResult
    <2> HIDE DEF f
    <2>5. slot'.kind = "spec"
      BY <2>2, <2>4 DEF Bursted, Session
    <2> QED
      BY <1>2, <2>1, <2>5 DEF Owned
  <1>6. CASE BurstFails \/ Demote
    BY <1>2, <1>6 DEF BurstFails, Demote
  <1>7. CASE Disconnect
    <2>1. reuse' = reuse /\ slot \in Session /\ slot' = [slot EXCEPT !.fin = TRUE]
      BY <1>7, SlotUsed DEF Disconnect
    <2>2. slot'.kind = slot.kind
      BY <2>1 DEF Session
    <2>3. slot.kind \in {"plain", "graph"} => OwnRows(slot')
      BY <1>2, <2>1, OwnEnd DEF Owned, OwnRows
    <2> QED
      BY <1>2, <2>1, <2>2, <2>3 DEF Owned
  <1>8. CASE Retire
    <2>1. slot \in Session /\ slot' = Free
      BY <1>8, SlotUsed DEF Retire
    <2>2. Owned(slot')
      BY <2>1 DEF Owned, Free
    <2>3. reuse' = reuse \/ (slot.kind = "plain" /\ reuse' = ParkPlain(slot))
      BY <1>8 DEF Retire
    <2> DEFINE e == [rows |-> slot.rows, fed |-> slot.fed, logits |-> slot.logits]
    <2>4. ParkPlain(slot) \in {reuse, Push(reuse, e)}
      BY DEF ParkPlain
    <2>5. e \in PlainEntry
      BY <2>1 DEF Session, PlainEntry
    <2>6. slot.kind = "plain" => e \in OwnEntries
      BY <1>2, <2>5 DEF OwnEntries, Owned, OwnRows
    <2> HIDE DEF e
    <2>7. env.pool \in Nat
      BY DEF Typed, Config
    <2>8. slot.kind = "plain" => Push(reuse, e) \in Seq(OwnEntries)
      BY <1>2, <2>6, <2>7, PushType
    <2> QED
      BY <1>2, <2>2, <2>3, <2>4, <2>8
  <1>9. CASE UNCHANGED vars
    BY <1>2, <1>9 DEF vars
  <1> QED
    BY <1>3, <1>4, <1>5, <1>6, <1>7, <1>8, <1>9 DEF Next

\* A session on the plain path holds the rows of what its client has seen, and
\* fed is their record (run's "demote handoff: cache rows != fed tokens"): with
\* demotion and failing passes as long as nothing is parked, and with pools,
\* graphs and yields as long as there is neither.
THEOREM HandoffCorrect == Spec => []((env.pool = 0 \/ Undemoted) => HandoffExact)
  <1>1. Init => OwnInv
    <2>1. <<>> \in Seq(OwnEntries)
      BY EmptySeq
    <2> QED
      BY <2>1 DEF Init, OwnInv, Owned, Free
  <1>2. HandoffInv /\ OwnInv /\ [Next]_vars => OwnInv'
    BY OwnStep DEF HandoffInv, Whole
  <1>3. HandoffInv /\ OwnInv => ((env.pool = 0 \/ Undemoted) => HandoffExact)
    <2> SUFFICES ASSUME HandoffInv, OwnInv, env.pool = 0 \/ Undemoted,
                        Running("plain"), slot.done
                 PROVE  slot.rows = Seen(slot) /\ slot.fed = slot.rows
      BY DEF HandoffExact
    <2>1. CASE env.pool = 0
      <3>1. TellsPlain(slot)
        BY <2>1, RunningTold DEF Kinds, SoundEnv
      <3> QED
        BY <3>1 DEF TellsPlain
    <2>2. CASE Undemoted
      BY <2>2 DEF OwnInv, Owned, OwnRows, Running
    <2> QED
      BY <2>1, <2>2
  <1> QED
    BY <1>1, <1>2, <1>3, HandoffInvariant, PTL DEF Spec

=============================================================================
