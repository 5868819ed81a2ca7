--------------------------- MODULE SessionHandoff ---------------------------
(***************************************************************************)
(* The token bookkeeping of one session slot of the worker across the      *)
(* paths that may serve it: plain batched decode, the captured graph and   *)
(* speculative bursts, with the two pools that keep a retired session's    *)
(* caches for a later request (crates/memra-server/src/worker.rs: admit,   *)
(* run, step_session; crates/memra-engine/src/spec.rs: SpecSession).       *)
(*                                                                         *)
(* A device cache is the sequence of the tokens whose rows it holds, and a *)
(* prediction (a logits row, an argmax read back from the device) is the   *)
(* context it was computed from, so "is this the right next token?" is an  *)
(* equality of sequences.  The model generates one token value only; the   *)
(* other sessions, the client and the allocator are nondeterminism.        *)
(* Greedy, unconstrained requests on one (model, namespace) pool, batching *)
(* on; the text-prefix resume and the prefix cache are left out.           *)
(***************************************************************************)
EXTENDS Integers, Sequences

CONSTANTS
    Prompts,    \* tokenized prompts the requests may carry
    Gen,        \* the token the model generates
    MinPrefix,  \* REUSE_MIN_PREFIX
    Budget,     \* max_tokens of a request, at least one
    BurstT,     \* MEMRA_SPEC_BURST
    K,          \* MEMRA_SPEC_K
    MaxCtx,     \* max_ctx of a spec session's cache
    Configs,    \* the start-up configurations to explore, see Config
    MaxTurns    \* bound: requests admitted

\* What is fixed when the server starts: MEMRA_SPEC_GATE, MEMRA_SERVE_GS,
\* MEMRA_ADMIT_YIELD, MEMRA_REUSE_POOL, and whether the engine may fail.
Config == [gate : BOOLEAN, gs : BOOLEAN, yield : BOOLEAN, errs : BOOLEAN, pool : Nat]

ASSUME HandoffAssumption ==
    /\ Prompts \subseteq Seq(Nat) \ {<<>>}
    /\ Gen \in Nat
    /\ MinPrefix \in Nat \ {0} /\ Budget \in Nat \ {0} /\ BurstT \in Nat \ {0}
    /\ K \in Nat \ {0} /\ MaxCtx \in Nat
    /\ Configs \subseteq Config
    /\ MaxTurns \in Nat

VARIABLES
    env,         \* the configuration
    slot,        \* the session
    reuse,       \* pool of retired plain sessions, oldest first
    spec_reuse,  \* pool of retired spec sessions, oldest first
    honest,      \* every token so far was predicted from what its client had seen
    turns

vars == <<env, slot, reuse, spec_reuse, honest, turns>>

None == <<>>    \* no prediction: a context is never empty
Free == [kind |-> "free"]

Kinds == {"plain", "graph", "spec"}
Session == [kind : Kinds, prompt : Prompts, queue : Seq(Nat), fed : Seq(Nat),
            gen : Seq(Nat), rows : Seq(Nat), logits : Seq(Nat), next : Seq(Nat),
            committed : Seq(Nat), pred : Seq(Nat), pending : Seq(Nat),
            ckpt : Nat, done : BOOLEAN, fin : BOOLEAN]

\* The session that admit builds when nothing is resumed.  `next' is
\* device_next, or graph_pending; rows is the cache of the path in use.
Cold(p) ==
    [kind |-> "plain", prompt |-> p, queue |-> p, fed |-> <<>>, gen |-> <<>>,
     rows |-> <<>>, logits |-> None, next |-> None, committed |-> <<>>,
     pred |-> None, pending |-> <<>>, ckpt |-> 0, done |-> FALSE, fin |-> FALSE]

Init ==
    /\ env \in Configs
    /\ slot = Free
    /\ reuse = <<>> /\ spec_reuse = <<>>
    /\ honest = TRUE
    /\ turns = 0

StartsWith(p, q) == Len(q) <= Len(p) /\ SubSeq(p, 1, Len(q)) = q
After(p, n) == SubSeq(p, n + 1, Len(p))
RemoveAt(s, i) == SubSeq(s, 1, i - 1) \o After(s, i)
IsLast(i, S) == i \in S /\ \A j \in S : j <= i

\* What the client of the session has sent and received.
Seen(s) == s.prompt \o s.gen

Running(kind) == slot.kind = kind /\ ~slot.fin

\* An outcome that only a failing engine produces.
IfErrs(S) == IF env.errs THEN S ELSE {}

-----------------------------------------------------------------------------
(* admit: the reuse pool, then the spec pool, then a cold session. *)

ReuseHits(p) ==
    {i \in DOMAIN reuse : Len(reuse[i].fed) >= MinPrefix /\ StartsWith(p, reuse[i].fed)}

\* A plain session resumes: only the suffix is left to prime.
AdmitReuse(p) ==
    \E i \in DOMAIN reuse :
        LET e == reuse[i]
        IN  /\ IsLast(i, ReuseHits(p))
            /\ slot' = [Cold(p) EXCEPT !.fed = e.fed, !.rows = e.rows,
                          !.logits = e.logits, !.queue = After(p, Len(e.fed)),
                          !.done = (Len(p) = Len(e.fed))]
            /\ reuse' = RemoveAt(reuse, i)
    /\ UNCHANGED spec_reuse

SpecHits(p) == {i \in DOMAIN spec_reuse : StartsWith(p, spec_reuse[i].committed)}

\* Session.fed stays empty, whatever the SpecSession already holds.
Resumed(p, e) ==
    [Cold(p) EXCEPT !.kind = "spec", !.rows = e.rows, !.committed = e.committed,
        !.pred = e.pred, !.ckpt = e.ckpt, !.queue = After(p, Len(e.committed))]

AdmitSpecExact(p) ==
    /\ \E i \in DOMAIN spec_reuse :
          /\ IsLast(i, SpecHits(p))
          /\ slot' = Resumed(p, spec_reuse[i])
          /\ spec_reuse' = RemoveAt(spec_reuse, i)
    /\ UNCHANGED reuse

\* Mutant: a prompt that ends at the boundary may rewind to it.
RewindableWhole(p) ==
    {i \in DOMAIN spec_reuse :
        LET e == spec_reuse[i]
        IN  e.ckpt # 0 /\ StartsWith(p, SubSeq(e.committed, 1, e.ckpt))}

\* Parked sessions of the same conversation that can rewind to a prompt end
\* this prompt reproduces, with something left to prime.  (A boundary past the
\* record, which a failed burst may leave, panics in the slice of committed.)
Rewindable(p) ==
    {i \in DOMAIN spec_reuse :
        LET e == spec_reuse[i]
        IN  /\ e.ckpt # 0 /\ e.ckpt < Len(p) /\ e.ckpt <= Len(e.committed)
            /\ StartsWith(p, SubSeq(e.committed, 1, e.ckpt))}

\* Mutant: the rewind keeps the prediction made past the boundary.
RewoundKeepingPred(e) ==
    [e EXCEPT !.rows = SubSeq(@, 1, e.ckpt), !.committed = SubSeq(@, 1, e.ckpt),
              !.ckpt = 0]
Rewound(e) ==
    [e EXCEPT !.rows = SubSeq(@, 1, e.ckpt), !.committed = SubSeq(@, 1, e.ckpt),
              !.pred = None, !.ckpt = 0]

\* Session affinity: the request's identity nominates one of them.  A rewind
\* that fails drops the session and admission goes on cold.
AdmitRewind(p) ==
    /\ SpecHits(p) = {}
    /\ \E i \in Rewindable(p) :
          /\ slot' \in {Resumed(p, Rewound(spec_reuse[i]))}
                        \cup IfErrs({[Cold(p) EXCEPT !.kind = "spec"]})
          /\ spec_reuse' = RemoveAt(spec_reuse, i)
    /\ UNCHANGED reuse

\* No parked session fits: a new SpecSession, after a flush of the pool when
\* VRAM is or was short; without room for one, or when the request is not
\* eligible for speculation, a plain cold session.
AdmitCold(p) ==
    /\ \/ /\ SpecHits(p) = {}
          /\ slot' = [Cold(p) EXCEPT !.kind = "spec"]
          /\ spec_reuse' \in {spec_reuse, <<>>}
       \/ /\ slot' = Cold(p)
          /\ spec_reuse' \in IF SpecHits(p) = {} THEN {spec_reuse, <<>>} ELSE {spec_reuse}
    /\ UNCHANGED reuse

Admit(p) ==
    /\ slot = Free /\ turns < MaxTurns
    /\ turns' = turns + 1
    /\ \/ AdmitReuse(p)
       \/ ReuseHits(p) = {} /\ (AdmitSpecExact(p) \/ AdmitRewind(p) \/ AdmitCold(p))
    /\ UNCHANGED <<env, honest>>

-----------------------------------------------------------------------------
(* Plain sessions. *)

\* prefill_tick and the batched prime: a chunk of the queue is fed.
Prefill ==
    /\ Running("plain") /\ ~slot.done
    /\ \E n \in 1 .. Len(slot.queue) :
          LET rows == slot.rows \o SubSeq(slot.queue, 1, n)
          IN  slot' \in
                {[slot EXCEPT !.rows = rows, !.logits = rows,
                     !.fed = @ \o SubSeq(slot.queue, 1, n),
                     !.queue = After(@, n), !.done = (n = Len(slot.queue))]}
                \cup IfErrs({[slot EXCEPT !.rows = rows, !.fin = TRUE]})
    /\ UNCHANGED <<env, reuse, spec_reuse, honest, turns>>

Finished == slot' = [slot EXCEPT !.fin = TRUE] /\ UNCHANGED honest

\* advance_sample_emit, advance_token_emit: the token predicted from ctx goes
\* to the client and ends the session (EOS, a stop string, a closed channel, a
\* full context) or is left to the caller to feed: `going'.
Emit(s, ctx, going) ==
    /\ honest' = (honest /\ ctx = Seen(s))
    /\ \/ slot' = [s EXCEPT !.gen = Append(@, Gen), !.fin = TRUE]
       \/ slot' \in going

\* The emitted token is fed: one row more and a new prediction.  A failed pass
\* may have advanced the cache; fed and the old logits stay.
\* Mutant: the row is there, the token is not in fed.
FedUncounted(s) ==
    LET rows == Append(s.rows, Gen)
        t == [s EXCEPT !.gen = Append(@, Gen), !.next = None]
    IN  {[t EXCEPT !.rows = rows, !.logits = rows]}
Fed(s) ==
    LET rows == Append(s.rows, Gen)
        t == [s EXCEPT !.gen = Append(@, Gen), !.next = None]
    IN  {[t EXCEPT !.rows = rows, !.fed = Append(@, Gen), !.logits = rows]}
          \cup IfErrs({[t EXCEPT !.fin = TRUE], [t EXCEPT !.rows = rows, !.fin = TRUE]})

\* One batched decode step.  device_next, when present, wins over the logits
\* (rows sampled on the device carry both, from the same context).
Decode ==
    /\ Running("plain") /\ slot.done
    /\ IF Len(slot.gen) >= Budget THEN Finished
       ELSE Emit(slot, IF slot.next # None THEN slot.next ELSE slot.logits, Fed(slot))
    /\ UNCHANGED <<env, reuse, spec_reuse, turns>>

-----------------------------------------------------------------------------
(* The graph of a lone session. *)

\* The pending token goes out and is replayed into the graph's cache.
StepGraph(s) ==
    LET rows == Append(s.rows, Gen)
        t == [s EXCEPT !.gen = Append(@, Gen), !.fed = Append(@, Gen)]
    IN  Emit(s, s.next, {[t EXCEPT !.rows = rows, !.next = rows]}
                           \cup IfErrs({[t EXCEPT !.fin = TRUE]}))

\* Promotion hands the cache to the graph and steps it in the same tick; a
\* failed capture has consumed the cache.
PromoteGraph ==
    /\ env.gs /\ Running("plain")
    /\ slot.done /\ slot.gen = <<>> /\ slot.logits # None
    /\ LET s == [slot EXCEPT !.kind = "graph", !.next = slot.logits]
       IN  \/ StepGraph(s)
           \/ env.errs /\ slot' = [s EXCEPT !.fin = TRUE] /\ UNCHANGED honest
    /\ UNCHANGED <<env, reuse, spec_reuse, turns>>

GraphDecode ==
    /\ Running("graph")
    /\ IF Len(slot.gen) >= Budget THEN Finished ELSE StepGraph(slot)
    /\ UNCHANGED <<env, reuse, spec_reuse, turns>>

\* Company arrives: the cache goes back to the session, the pending token out
\* and into it.
DegradeGraph ==
    /\ Running("graph")
    /\ LET s == [slot EXCEPT !.kind = "plain"]
       IN  IF Len(s.gen) >= Budget
           THEN slot' = [s EXCEPT !.fin = TRUE] /\ UNCHANGED honest
           ELSE Emit(s, s.next, Fed(s))
    /\ UNCHANGED <<env, reuse, spec_reuse, turns>>

-----------------------------------------------------------------------------
(* Speculative bursts (step_session, generate_spec_inner2). *)

\* spec_flush_pending: the carried token is fed, its successor predicted.
Flushed(s) ==
    [s EXCEPT !.rows = @ \o s.pending, !.committed = @ \o s.pending,
              !.pending = <<>>,
              !.pred = IF s.pending = <<>> THEN @ ELSE s.rows \o s.pending]

Least(a, b) == IF a < b THEN a ELSE b
BurstRoom == Least(Budget - Len(slot.gen), BurstT)

\* A burst with m tokens out of its rounds.  Without a carried token the first
\* token comes from the prime, or from next_pred, and is fed before round one.
\* A round feeds the carried token and the accepted drafts and leaves its last
\* token pending.  No round runs when the first token fills the room, or when
\* a waiting request makes the first poll answer `stop'.  The session tail
\* pushes suffix, carry and output, the pending token excepted, to committed.
BurstRuns(m) ==
    LET f == IF slot.queue = <<>> THEN slot ELSE Flushed(slot)
        carry == f.pending
        primed == f.rows \o f.queue
        n == IF carry = <<>> THEN m + 1 ELSE m
        out == [i \in 1 .. n |-> Gen]
        held == IF m = 0 THEN carry ELSE <<Gen>>
        kept == SubSeq(out, 1, n - Len(held))
        rows == primed \o (IF m = 0 THEN <<>> ELSE carry) \o kept
        committed == f.committed \o f.queue \o carry \o kept
    IN  /\ m >= 1 => (carry # <<>> \/ BurstRoom > 1)
        /\ n <= BurstRoom + K
        /\ n >= BurstRoom \/ env.yield
        /\ honest' = (/\ honest
                      /\ carry = <<>> =>
                            (IF f.queue = <<>> THEN f.pred ELSE primed) = Seen(slot)
                      /\ m >= 1 => primed \o carry = Seen(slot))
        /\ \E ends \in BOOLEAN, ckpt \in {f.ckpt, 0, Len(primed)} :
              /\ (Len(slot.gen) + n >= Budget \/ Len(committed) + K + 3 >= MaxCtx) => ends
              /\ IF f.queue = <<>> THEN ckpt = f.ckpt ELSE ckpt \in {0, Len(primed)}
              /\ slot' = [f EXCEPT !.queue = <<>>, !.done = TRUE,
                            !.fed = @ \o f.queue \o out, !.gen = @ \o out,
                            !.rows = rows, !.pending = held,
                            !.pred = IF held = <<>> THEN rows ELSE None,
                            !.committed = committed,
                            !.ckpt = ckpt, !.fin = ends]

\* step_session's two early exits (no room, nothing to continue from) are not
\* here: CanBurst says that no session gets there.
Burst ==
    /\ Running("spec")
    /\ \E m \in 0 .. BurstT + K : BurstRuns(m)
    /\ UNCHANGED <<env, reuse, spec_reuse, turns>>

\* A pass fails inside the burst: the cache, and the checkpoint once the prime
\* is through, are where the pass left them; committed and next_pred, written
\* by the session tail, are not.  Error or park, the session is finished.
BurstFails ==
    /\ env.errs /\ Running("spec") /\ BurstRoom > 0
    /\ LET todo == slot.queue \o slot.pending \o <<Gen>>
       IN  \E n \in 0 .. Len(todo) :
              slot' = [slot EXCEPT !.rows = @ \o SubSeq(todo, 1, n), !.queue = <<>>,
                         !.pending = <<>>, !.done = TRUE, !.fin = TRUE,
                         !.ckpt = IF slot.queue # <<>> /\ n >= Len(slot.queue)
                                  THEN Len(slot.rows \o slot.queue) ELSE @]
    /\ UNCHANGED <<env, reuse, spec_reuse, honest, turns>>

\* Mutant: the prediction is read before the flush computes it.
HandoverEarly(s) ==
    [Flushed(s) EXCEPT !.kind = "plain", !.next = s.pred, !.done = TRUE, !.logits = None]
\* into_demoted: the trunk cache and the prediction go to batched decode.
Handover(s) ==
    [Flushed(s) EXCEPT !.kind = "plain", !.next = Flushed(s).pred, !.done = TRUE,
                       !.logits = None]

\* Enough sessions are live: every greedy spec session that holds committed
\* rows and something to continue from leaves the burst path.  A flush that
\* fails has consumed the SpecSession: nothing is left to park.
Demote ==
    /\ env.gate /\ Running("spec")
    /\ slot.committed # <<>>
    /\ slot.pred # None \/ slot.pending # <<>>
    /\ slot' \in {Handover(slot)} \cup (IF slot.pending # <<>> THEN IfErrs({Free}) ELSE {})
    /\ UNCHANGED <<env, reuse, spec_reuse, honest, turns>>

-----------------------------------------------------------------------------
(* The end of a session. *)

\* The disconnect sweep at the top of a tick.
Disconnect ==
    /\ slot # Free /\ ~slot.fin
    /\ slot' = [slot EXCEPT !.fin = TRUE]
    /\ UNCHANGED <<env, reuse, spec_reuse, honest, turns>>

\* `while pool.len() >= cap.max(1) { pool.remove(0) }', push if cap > 0.
\* Mutant: the trim leaves one entry too many.
PushOverCap(pool, e) ==
    IF env.pool = 0 THEN <<>>
    ELSE Append(IF Len(pool) > env.pool THEN After(pool, Len(pool) - env.pool) ELSE pool, e)
Push(pool, e) ==
    IF env.pool = 0 THEN <<>>
    ELSE Append(IF Len(pool) >= env.pool THEN After(pool, Len(pool) - env.pool + 1)
                                         ELSE pool, e)

ParkSpec(s) ==
    IF Len(s.committed) >= MinPrefix /\ s.pred # None
    THEN Push(spec_reuse, [rows |-> s.rows, committed |-> s.committed,
                           pred |-> s.pred, ckpt |-> s.ckpt])
    ELSE spec_reuse

ParkPlain(s) ==
    IF Len(s.fed) >= MinPrefix /\ s.done /\ s.logits # None
    THEN Push(reuse, [rows |-> s.rows, fed |-> s.fed, logits |-> s.logits])
    ELSE reuse

\* A spec session is flushed and parked (dropped if the flush fails), a plain
\* one parked with its last logits; the cache of a graph goes with the graph.
Retire ==
    /\ slot # Free /\ slot.fin
    /\ slot' = Free
    /\ \/ /\ slot.kind = "spec"
          /\ \/ spec_reuse' = ParkSpec(Flushed(slot))
             \/ env.errs /\ slot.pending # <<>> /\ UNCHANGED spec_reuse
          /\ UNCHANGED reuse
       \/ slot.kind = "plain" /\ reuse' = ParkPlain(slot) /\ UNCHANGED spec_reuse
       \/ slot.kind = "graph" /\ UNCHANGED <<reuse, spec_reuse>>
    /\ UNCHANGED <<env, honest, turns>>

Next ==
    \/ \E p \in Prompts : Admit(p)
    \/ Prefill \/ Decode
    \/ PromoteGraph \/ GraphDecode \/ DegradeGraph
    \/ Burst \/ BurstFails \/ Demote
    \/ Disconnect \/ Retire

Spec == Init /\ [][Next]_vars

-----------------------------------------------------------------------------
(* Properties *)

\* The variables have the shape of the structs, and neither pool outgrows
\* MEMRA_REUSE_POOL.
TypeOK ==
    /\ env \in Config
    /\ slot \in Session \cup {Free}
    /\ reuse \in Seq([rows : Seq(Nat), fed : Seq(Nat), logits : Seq(Nat)])
    /\ spec_reuse \in Seq([rows : Seq(Nat), committed : Seq(Nat), pred : Seq(Nat),
                           ckpt : Nat])
    /\ Len(reuse) <= env.pool /\ Len(spec_reuse) <= env.pool
    /\ honest \in BOOLEAN /\ turns \in Nat

\* Every token a client receives was predicted from exactly its prompt and the
\* tokens it received before, whatever paths the session took and whoever's
\* caches it resumed.
EmitExact == honest

\* A session that decodes on the plain path holds the rows of what its client
\* has seen, and fed is the record of those rows ("demote handoff: cache rows
\* != fed tokens", run).
HandoffExact ==
    (Running("plain") /\ slot.done) => (slot.rows = Seen(slot) /\ slot.fed = slot.rows)

\* A spec session whose turn comes has room for a token and a suffix, a carried
\* token or a prediction to start from: step_session never ends a request with
\* nothing ("shouldn't happen"), and the engine's primed-session assertion
\* never fires, after resumes and rewinds as well.
CanBurst ==
    Running("spec") =>
        /\ BurstRoom > 0
        /\ slot.queue # <<>> \/ slot.pred # None \/ slot.pending # <<>>

\* What is parked can be resumed: rows, their record and the prediction behind
\* them agree, and a rewind boundary is inside the record.
ParkedExact ==
    /\ \A i \in DOMAIN reuse :
          reuse[i].rows = reuse[i].fed /\ reuse[i].logits = reuse[i].fed
    /\ \A i \in DOMAIN spec_reuse :
          LET e == spec_reuse[i]
          IN  e.rows = e.committed /\ e.pred = e.committed /\ e.ckpt <= Len(e.committed)

\* Between bursts the cache of a spec session holds the rows of committed, the
\* assertion at the end of generate_spec_inner2 ("session invariant: cache
\* rows == committed tokens").
CommittedExact == Running("spec") => slot.rows = slot.committed
=============================================================================
