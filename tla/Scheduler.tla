------------------------------ MODULE Scheduler ------------------------------
(***************************************************************************)
(* The engine worker's scheduler loop (worker.rs, fn run): the command     *)
(* channel, the admission pass with its lane, SLO and VRAM gates, and the  *)
(* tick - disconnect sweep, graph path, spec demotion, spec bursts,        *)
(* interactive prefill, batched decode, dark prefill, retire - with the    *)
(* park-and-retry of sessions whose burst ran out of device memory.        *)
(*                                                                         *)
(* One thread runs the loop; `phase' is where it is.  HTTP handlers submit *)
(* requests and drop their receivers (client gone) at any moment between   *)
(* two steps.  One model is loaded.  What a token says is abstracted: the  *)
(* n-th token of a request is the number n.                                *)
(***************************************************************************)
EXTENDS Integers, Sequences, FiniteSets, Functions

CONSTANTS
    Requests,
    Interactive,    \* the requests of the interactive lane; the others are dark
    Unknown,        \* requests that name a model that is not loaded
    SpecCapable,    \* requests the speculative path takes (admit, spec_eligible)
    Undemotable,    \* of those, the sampled and the constrained ones
    GraphCapable,   \* greedy requests whose budget is worth a graph capture
    InteractiveCap, \* MEMRA_MAX_SESSIONS
    DarkCap,        \* LanePolicy.max_sessions of the dark lane
    SpecLow,        \* MEMRA_SPEC_GATE_LOW
    SpecHigh,       \* MEMRA_SPEC_GATE_HIGH
    OomRetries,     \* MEMRA_STEP_OOM_RETRIES
    MaxNew,         \* token budget of a request
    Zero,           \* requests that ask for max_tokens = 0
    Burst,          \* MEMRA_SPEC_BURST
    Overshoot,      \* MEMRA_SPEC_K: drafts a burst's last round commits past its room
    Chunks,         \* bound: prefill chunks of a prompt
    MaxHold         \* bound: ticks that fit in MEMRA_PRIME_BATCH_HOLD_MS

ASSUME SchedulerAssumption ==
    /\ IsFiniteSet(Requests)
    /\ Interactive \subseteq Requests /\ Unknown \subseteq Requests
    /\ SpecCapable \subseteq Requests /\ Undemotable \subseteq SpecCapable
    /\ GraphCapable \subseteq Interactive
    /\ InteractiveCap \in Nat \ {0} /\ DarkCap \in Nat
    /\ SpecLow \in Nat /\ SpecHigh \in Nat /\ SpecLow < SpecHigh
    /\ OomRetries \in Nat
    /\ Zero \subseteq Requests /\ Zero \cap GraphCapable = {}
    /\ MaxNew \in Nat /\ Burst \in Nat \ {0} /\ Overshoot \in Nat
    /\ Chunks \in Nat \ {0} /\ MaxHold \in Nat

VARIABLES
    arrived,      \* the requests the handlers have sent, in order (history)
    closed,       \* requests whose receiver is dropped (client gone)
    stream,       \* stream[r]: the token numbers sent to r's client
    ended,        \* ended[r]: how many terminal events (Done, Error) r was sent
    chan,         \* the command channel
    queue,        \* requests waiting for admission
    requeue,      \* requests this admission pass has deferred
    vram_defers,  \* the requests the VRAM gate deferred in this pass (the code counts them)
    active,       \* live sessions, in admission order
    ses,          \* ses[r]: the session of an active request
    finished,     \* sessions to retire at the end of this tick
    requeue_oom,  \* requests parked by a step-time OOM of this tick
    oom_retries,
    todo,         \* spec sessions still to burst in this tick
    decoded,      \* this tick's batched decode had rows
    late,         \* last_interactive_decode is older than the SLO
    phase

clientVars == <<arrived, closed>>
outVars == <<stream, ended>>
waitVars == <<chan, queue, requeue, vram_defers>>
tickVars == <<finished, requeue_oom, oom_retries, todo, decoded>>
vars == <<clientVars, outVars, waitVars, active, ses, tickVars, late, phase>>

Dark == Requests \ Interactive
Submitted == Range(arrived)
Active == Range(active)

\* The elements of s that are in S, in their order: what `active.remove(i)' for
\* the others, from the last, and a filtered scan of `active' leave.
Rank(s, S, j) == Cardinality({k \in 1 .. j : s[k] \in S})
Keep(s, S) ==
    [i \in 1 .. Rank(s, S, Len(s)) |->
        s[CHOOSE j \in DOMAIN s : s[j] \in S /\ Rank(s, S, j) = i]]

NoSession == [mode |-> "none", pre |-> 0, gen |-> 0, primed |-> FALSE, hold |-> 0]

Phases == {"recv", "admit", "graph", "demote", "burst", "prefill", "decode",
           "dark", "retire"}

Init ==
    /\ arrived = <<>> /\ closed = {}
    /\ stream = [r \in Requests |-> <<>>]
    /\ ended = [r \in Requests |-> 0]
    /\ chan = <<>> /\ queue = <<>> /\ requeue = <<>> /\ vram_defers = {}
    /\ active = <<>> /\ ses = [r \in Requests |-> NoSession]
    /\ finished = {} /\ requeue_oom = <<>> /\ todo = <<>> /\ decoded = FALSE
    /\ oom_retries = [r \in Requests |-> 0]
    /\ late = FALSE /\ phase = "recv"

-----------------------------------------------------------------------------
(* The other side of the channels. *)

\* An HTTP handler sends Cmd::Generate.
Submit(r) ==
    /\ r \notin Submitted
    /\ arrived' = Append(arrived, r)
    /\ chan' = Append(chan, r)
    /\ UNCHANGED <<closed, outVars, queue, requeue, vram_defers, active, ses, tickVars,
                   late, phase>>

\* The client goes away before its end event: the handler's future, and with it
\* the receiver, drops.  (After it, nothing is sent, so nothing would tell.)
Disconnect(r) ==
    /\ r \in Submitted \ closed /\ ended[r] = 0
    /\ closed' = closed \cup {r}
    /\ UNCHANGED <<arrived, outVars, waitVars, active, ses, tickVars, late, phase>>

\* The SLO age passes since the last interactive decode tick.
SloAgePasses ==
    /\ ~late /\ late' = TRUE
    /\ UNCHANGED <<clientVars, outVars, waitVars, active, ses, tickVars, phase>>

\* A terminal event to every request of R; a closed channel swallows it.
EndAll(R) ==
    ended' = [r \in Requests |-> IF r \in R \ closed THEN ended[r] + 1 ELSE ended[r]]

End(r) == EndAll({r})

-----------------------------------------------------------------------------
(* 1. Drain the command channel. *)

HandleCmd ==
    /\ phase = "recv" /\ chan # <<>>
    /\ chan' = Tail(chan)
    /\ \/ /\ Head(chan) \in Unknown
          /\ End(Head(chan)) /\ UNCHANGED queue
       \/ /\ Head(chan) \notin Unknown
          /\ queue' = Append(queue, Head(chan)) /\ UNCHANGED ended
    /\ UNCHANGED <<clientVars, stream, requeue, vram_defers, active, ses, tickVars, late,
                   phase>>

\* The channel is empty and there is work (else the loop blocks in recv).
StartAdmission ==
    /\ phase = "recv" /\ chan = <<>>
    /\ queue # <<>> \/ active # <<>>
    /\ phase' = "admit"
    /\ vram_defers' = {}
    /\ UNCHANGED <<clientVars, outVars, chan, queue, requeue, active, ses,
                   tickVars, late>>

-----------------------------------------------------------------------------
(* 2. Admission: one step for each request popped from the queue. *)

LaneCount(r) ==
    Cardinality({a \in Active : (a \in Interactive) = (r \in Interactive)})

LaneCap(r) == IF r \in Interactive THEN InteractiveCap ELSE DarkCap

AtLaneCap(r) == LaneCount(r) >= LaneCap(r)

\* The starvation sentinel, as the code computes it: an ACTIVE interactive
\* session exists and no interactive decode tick ran within the SLO age.
Starved == late /\ Active \cap Interactive # {}

\* The VRAM gate applies once a session is live.  Each request is measured anew
\* against what is free at that moment, and passes when the measurement fails:
\* frees of an earlier tick and other processes may raise it within a pass.
MayLackRoom == active # <<>>

Pop(r) == phase = "admit" /\ queue # <<>> /\ r = Head(queue) /\ queue' = Tail(queue)

\* A queued request whose client has gone never reaches the GPU.
DropClosed(r) ==
    /\ Pop(r) /\ r \in closed
    /\ UNCHANGED <<clientVars, outVars, chan, requeue, vram_defers, active, ses, tickVars,
                   late, phase>>

\* Mutant: deferred requests are pushed to the front.
DeferredInFront(r) == <<r>> \o requeue
Deferred(r) == Append(requeue, r)

\* The request waits: an interactive one at its lane cap, any one at the VRAM
\* gate (which does not look at the lane).
Defer(r) ==
    /\ Pop(r) /\ r \notin closed
    /\ \/ r \in Interactive /\ AtLaneCap(r) /\ UNCHANGED vram_defers
       \/ /\ ~AtLaneCap(r) /\ MayLackRoom
          /\ r \in Interactive \/ ~Starved
          /\ vram_defers' = vram_defers \cup {r}
    /\ requeue' = Deferred(r)
    /\ UNCHANGED <<clientVars, outVars, chan, active, ses, tickVars, late, phase>>

\* A dark request at its lane cap, under starvation, or with the interactive
\* p99 over its share of the SLO (an external measurement) gets a retryable
\* error at once.
Shed(r) ==
    /\ Pop(r) /\ r \in Dark \ closed
    /\ End(r)
    /\ UNCHANGED <<clientVars, stream, chan, requeue, vram_defers, active, ses, tickVars,
                   late, phase>>

PassesGates(r) ==
    /\ Pop(r) /\ r \notin closed
    /\ ~AtLaneCap(r)
    /\ r \in Interactive \/ ~Starved

\* admit fails: template, empty or too long prompt, grammar, cache allocation.
Refuse(r) ==
    /\ PassesGates(r)
    /\ End(r)
    /\ UNCHANGED <<clientVars, stream, chan, requeue, vram_defers, active, ses, tickVars,
                   late, phase>>

\* Mutant: the arriving session is not counted.
SpecGateWithoutSelf == Len(active) <= SpecLow
\* The concurrency gate at admit: n_active + 1 <= spec_gate_low().
SpecGateOk == Len(active) + 1 <= SpecLow

\* A spec session may be resumed from the pool (committed rows: primed); when
\* its allocation fails the tokenwise path takes it.  A plain session may have
\* all of its prompt from a cache (pre = 0).
NewSession(r) ==
    {[mode |-> "plain", pre |-> n, gen |-> 0, primed |-> FALSE, hold |-> 0] :
        n \in 0 .. Chunks}
    \cup IF r \in SpecCapable /\ SpecGateOk
         THEN {[mode |-> "spec", pre |-> 0, gen |-> 0, primed |-> b, hold |-> 0] :
                  b \in BOOLEAN}
         ELSE {}

Admit(r) ==
    /\ PassesGates(r)
    /\ \E s \in NewSession(r) : ses' = [ses EXCEPT ![r] = s]
    /\ active' = Append(active, r)
    /\ UNCHANGED <<clientVars, outVars, chan, requeue, vram_defers, tickVars, late,
                   phase>>

\* The queue is exhausted: the deferred requests become the queue, and the tick
\* starts with the disconnect sweep.
StartTick ==
    /\ phase = "admit" /\ queue = <<>>
    /\ queue' = requeue /\ requeue' = <<>>
    /\ finished' = Active \cap closed
    /\ decoded' = FALSE
    /\ phase' = "graph"
    /\ UNCHANGED <<clientVars, outVars, chan, vram_defers, active, ses, requeue_oom,
                   oom_retries, todo, late>>
-----------------------------------------------------------------------------
(* 3. The tick.  Sessions that fail or end join `finished'; the phases that    *)
(* follow skip them.                                                           *)

Live == Active \ finished
InMode(m) == {r \in Live : ses[r].mode = m}
First(R) == CHOOSE r \in R : \A q \in R :
    (CHOOSE i \in DOMAIN active : active[i] = r) <= (CHOOSE i \in DOMAIN active : active[i] = q)

\* `budget' of admit.
Budget(r) == IF r \in Zero THEN 0 ELSE MaxNew

\* advance_sample_emit and advance_token_emit, for each session r of R: out of
\* budget it ends without a token; else its token o[r] is an ordinary one, the
\* EOS (counted, never streamed), one that completes a stop string or fills the
\* context (streamed, then the end), or one the grammar rejects.
Outcomes == {"more", "eos", "stop", "fail"}
Spent(r) == ses[r].gen >= Budget(r)
Goes(r, o) == ~Spent(r) /\ o = "more" /\ r \notin closed

Emitted(R, o) ==
    stream' = [r \in Requests |->
        IF r \in R \ closed /\ ~Spent(r) /\ o[r] \in {"more", "stop"}
        THEN Append(stream[r], ses[r].gen + 1) ELSE stream[r]]

\* Mutant: sessions of a failed batch are told, and kept.
StoppedButKept(R, o, F) ==
    /\ EndAll({r \in R : Spent(r) \/ o[r] # "more"} \cup F)
    /\ finished' = finished \cup {r \in R : ~Goes(r, o[r])}

\* The engine step that feeds the tokens fails for the sessions of F: they get
\* an error too.
Stopped(R, o, F) ==
    /\ EndAll({r \in R : Spent(r) \/ o[r] # "more"} \cup F)
    /\ finished' = finished \cup {r \in R : ~Goes(r, o[r])} \cup F

\* An interactive session that goes on stamps last_interactive_decode, unless
\* what failed was the staging of its grammar mask.
Stale(R, o) == late /\ \A r \in R \cap Interactive : ~Goes(r, o[r])

\* Mutant: an emitted token is not pushed to `generated'.
CountedNot(r) == ses[r].gen
Counted(r) == IF Spent(r) THEN ses[r].gen ELSE ses[r].gen + 1

\* Mutant: one peer is not concurrency yet.
ToDegradeLate == {r \in InMode("graph") : Len(active) > 2}
ToDegrade == InMode("graph")

\* (a0) Concurrency has come: every graph session gives its cache back to the
\* batched path, emitting and feeding its pending token.
DegradeGraph ==
    /\ phase = "graph" /\ Len(active) > 1
    /\ LET G == ToDegrade IN
       \E o \in [G -> Outcomes], F \in SUBSET G :
          /\ \A r \in F : Goes(r, o[r])
          /\ Emitted(G, o) /\ Stopped(G, o, F)
          /\ ses' = [r \in Requests |-> IF r \in G
                        THEN [ses[r] EXCEPT !.mode = "plain", !.gen = Counted(r)]
                        ELSE ses[r]]
    /\ phase' = "demote"
    /\ UNCHANGED <<clientVars, waitVars, active, requeue_oom, oom_retries, todo,
                   decoded, late>>

\* A lone interactive greedy session is promoted once it is primed and before
\* its first token; a session demoted from the spec path has no logits to
\* promote from.
Promotable(r) ==
    /\ r \in GraphCapable
    /\ ses[r].mode = "plain" /\ ses[r].pre = 0 /\ ses[r].gen = 0 /\ ~ses[r].primed

Lone(r) == active = <<r>> /\ r \notin finished

PromoteFails(r) ==
    /\ phase = "graph" /\ Lone(r) /\ Promotable(r)
    /\ End(r) /\ finished' = finished \cup {r}
    /\ phase' = "demote"
    /\ UNCHANGED <<clientVars, stream, waitVars, active, ses, requeue_oom,
                   oom_retries, todo, decoded, late>>

\* One token of the (possibly just promoted) graph session.
StepGraph(r) ==
    /\ phase = "graph" /\ Lone(r)
    /\ Promotable(r) \/ ses[r].mode = "graph"
    /\ \E o \in [{r} -> Outcomes], F \in SUBSET {r} :
          /\ r \in F => Goes(r, o[r])
          /\ Emitted({r}, o) /\ Stopped({r}, o, F)
          /\ late' = Stale({r}, o) \/ late' = Stale({r} \ F, o)
    /\ ses' = [ses EXCEPT ![r].mode = "graph", ![r].gen = Counted(r)]
    /\ phase' = "demote"
    /\ UNCHANGED <<clientVars, waitVars, active, requeue_oom, oom_retries, todo,
                   decoded>>

NoGraph ==
    /\ phase = "graph" /\ Len(active) <= 1
    /\ \A r \in Live : ~Promotable(r) /\ ses[r].mode # "graph"
    /\ phase' = "demote"
    /\ UNCHANGED <<clientVars, outVars, waitVars, active, ses, tickVars, late>>

-----------------------------------------------------------------------------
(* (a-) Demotion, and (a) the spec bursts. *)

\* The sessions that hand their cache to the batched path: at SpecHigh live
\* ones, every greedy unconstrained spec session with committed rows.
ToDemote ==
    IF Cardinality(Live) >= SpecHigh
    THEN {r \in InMode("spec") \ Undemotable : ses[r].primed}
    ELSE {}

\* The flush of a carried token may fail.  The bursts that follow go cold
\* first: sessions that have emitted nothing before the others.
Demote ==
    /\ phase = "demote"
    /\ \E F \in SUBSET {r \in ToDemote : ses[r].gen > 0} :
          /\ EndAll(F) /\ finished' = finished \cup F
          /\ ses' = [r \in Requests |-> IF r \in ToDemote
                        THEN [ses[r] EXCEPT !.mode = "plain"] ELSE ses[r]]
    /\ LET OnSpec == {r \in Active : ses[r].mode = "spec"} \ ToDemote
           Cold == {r \in OnSpec : ses[r].gen = 0}
       IN todo' = Keep(active, Cold) \o Keep(active, OnSpec \ Cold)
    /\ phase' = "burst"
    /\ UNCHANGED <<clientVars, stream, waitVars, active, requeue_oom, oom_retries,
                   decoded, late>>

AtBurst(r) == phase = "burst" /\ todo # <<>> /\ r = Head(todo) /\ todo' = Tail(todo)

BurstRoom(r) ==
    IF Budget(r) - ses[r].gen < Burst THEN Budget(r) - ses[r].gen ELSE Burst

\* The tokens the burst's rounds flush to the client as they commit.
Flushed(r, n) ==
    stream' = [stream EXCEPT ![r] =
                  IF r \in closed THEN @ ELSE @ \o [i \in 1 .. n |-> ses[r].gen + i]]

BurstSkip(r) ==
    /\ AtBurst(r) /\ r \in finished
    /\ UNCHANGED <<clientVars, outVars, waitVars, active, ses, finished, requeue_oom,
                   oom_retries, decoded, late, phase>>

BurstSpent(r) ==
    /\ AtBurst(r) /\ r \notin finished /\ BurstRoom(r) <= 0
    /\ End(r) /\ finished' = finished \cup {r}
    /\ UNCHANGED <<clientVars, stream, waitVars, active, ses, requeue_oom,
                   oom_retries, decoded, late, phase>>

\* A burst of n tokens.  It ends short of its room only at a round boundary when
\* a request waits in the channel (admission yield); its last round may commit
\* up to Overshoot tokens more than the room.  An EOS is the last token counted,
\* and is not streamed; a stop string and a full context end the session too.
BurstRuns(r) ==
    /\ AtBurst(r) /\ r \notin finished /\ BurstRoom(r) > 0
    /\ \E n \in 0 .. BurstRoom(r) + Overshoot, o \in {"more", "eos", "stop"} :
          LET seen == IF o = "eos" THEN n - 1 ELSE n
              over == o # "more" \/ ses[r].gen + n >= Budget(r)
          IN /\ n = 0 => o = "more" /\ ses[r].gen > 0
             /\ o # "eos" /\ n < BurstRoom(r) => chan # <<>>
             /\ Flushed(r, seen)
             /\ ses' = [ses EXCEPT ![r].gen = @ + n, ![r].primed = TRUE]
             /\ EndAll(IF over THEN {r} ELSE {})
             /\ finished' = IF over \/ (r \in closed /\ seen > 0)
                            THEN finished \cup {r} ELSE finished
    /\ UNCHANGED <<clientVars, waitVars, active, requeue_oom, oom_retries, decoded,
                   late, phase>>

\* Mutant: the bound is checked after the fact.
MayParkOnceMore(r) == ses[r].gen = 0 /\ oom_retries[r] <= OomRetries
MayPark(r) == ses[r].gen = 0 /\ oom_retries[r] < OomRetries

\* Mutant: the retry is not counted.
CountRetryForgotten(r) == UNCHANGED oom_retries
CountRetry(r) == oom_retries' = [oom_retries EXCEPT ![r] = @ + 1]

\* A round fails after earlier rounds have flushed n tokens; `generated' is
\* only extended when a burst returns.  Out of device memory with nothing in
\* `generated', the request parks for another try; else it gets the error.
BurstFails(r) ==
    /\ AtBurst(r) /\ r \notin finished /\ BurstRoom(r) > 0
    /\ \E n \in 0 .. BurstRoom(r) : Flushed(r, n)
    /\ finished' = finished \cup {r}
    /\ \/ /\ MayPark(r) /\ CountRetry(r)
          /\ requeue_oom' = Append(requeue_oom, r)
          /\ UNCHANGED ended
       \/ End(r) /\ UNCHANGED <<oom_retries, requeue_oom>>
    /\ UNCHANGED <<clientVars, waitVars, active, ses, decoded, late, phase>>

BurstsDone ==
    /\ phase = "burst" /\ todo = <<>>
    /\ phase' = "prefill"
    /\ UNCHANGED <<clientVars, outVars, waitVars, active, ses, tickVars, late>>

-----------------------------------------------------------------------------
(* (b) Interactive prefill, (c) batched decode, (d) dark prefill. *)

Unprimed == {r \in InMode("plain") : ses[r].pre > 0}

\* Every interactive session that is not primed gets a chunk, or the rest of its
\* prompt in a batch; a lone fresh one may be held for others to join it.
PrefillInteractive ==
    /\ phase = "prefill"
    /\ \E H \in SUBSET (Unprimed \cap Interactive) :
       LET P == (Unprimed \cap Interactive) \ H IN
       \E g \in [P -> 0 .. Chunks], F \in SUBSET P :
          /\ Cardinality(H) <= 1 /\ \A r \in H : ses[r].hold < MaxHold
          /\ \A r \in P : g[r] < ses[r].pre
          /\ ses' = [r \in Requests |-> IF r \in P THEN [ses[r] EXCEPT !.pre = g[r]]
                        ELSE IF r \in H THEN [ses[r] EXCEPT !.hold = @ + 1]
                        ELSE ses[r]]
          /\ EndAll(F) /\ finished' = finished \cup F
    /\ phase' = "decode"
    /\ UNCHANGED <<clientVars, stream, waitVars, active, requeue_oom, oom_retries,
                   todo, decoded, late>>

\* Every primed session of the batched path emits its token; the batched steps
\* over those that go on may fail, a chunk at a time.
Decode ==
    /\ phase = "decode"
    /\ LET R == InMode("plain") \ Unprimed IN
       /\ \E o \in [R -> Outcomes], F \in SUBSET R :
             /\ \A r \in F : Goes(r, o[r])
             /\ Emitted(R, o) /\ Stopped(R, o, F)
             /\ late' = Stale(R, o) \/ late' = Stale(R \ F, o)
       /\ ses' = [r \in Requests |-> IF r \in R
                     THEN [ses[r] EXCEPT !.gen = Counted(r)] ELSE ses[r]]
       /\ decoded' = (R # {})
    /\ phase' = "dark"
    /\ UNCHANGED <<clientVars, waitVars, active, requeue_oom, oom_retries, todo>>

DarkUnprimed == Unprimed \cap Dark

\* Dark prompts prime in the SLO headroom that the decode phase left, so they
\* may be passed over only when it did something.
DarkSkip ==
    /\ phase = "dark" /\ (DarkUnprimed = {} \/ decoded)
    /\ phase' = "retire"
    /\ UNCHANGED <<clientVars, outVars, waitVars, active, ses, tickVars, late>>

\* Two or more prime together, to the end of their prompts.
DarkBatch ==
    /\ phase = "dark"
    /\ \E B \in SUBSET DarkUnprimed :
          /\ Cardinality(B) >= 2
          /\ ses' = [r \in Requests |-> IF r \in B THEN [ses[r] EXCEPT !.pre = 0]
                                        ELSE ses[r]]
    /\ phase' = "retire"
    /\ UNCHANGED <<clientVars, outVars, waitVars, active, tickVars, late>>

\* Else the first gets one chunk.
DarkChunk ==
    /\ phase = "dark" /\ DarkUnprimed # {}
    /\ LET r == First(DarkUnprimed) IN
       \/ /\ \E n \in 0 .. Chunks : n < ses[r].pre /\ ses' = [ses EXCEPT ![r].pre = n]
          /\ UNCHANGED <<ended, finished>>
       \/ End(r) /\ finished' = finished \cup {r} /\ UNCHANGED ses
    /\ phase' = "retire"
    /\ UNCHANGED <<clientVars, stream, waitVars, active, requeue_oom, oom_retries,
                   todo, decoded, late>>

-----------------------------------------------------------------------------
(* 4. Retire the finished sessions; parked requests go to the queue's front. *)

\* Mutants: parked requests go to the back of the line; they are lost.
RequeuedBehind == queue \o requeue_oom
RequeuedLost == queue
Requeued == requeue_oom \o queue

Retire ==
    /\ phase = "retire"
    /\ active' = Keep(active, Live)
    /\ ses' = [r \in Requests |-> IF r \in finished THEN NoSession ELSE ses[r]]
    /\ finished' = {}
    /\ queue' = Requeued /\ requeue_oom' = <<>>
    /\ phase' = "recv"
    /\ UNCHANGED <<clientVars, outVars, chan, requeue, vram_defers, oom_retries, todo,
                   decoded, late>>

-----------------------------------------------------------------------------

Admission ==
    \E r \in Requests :
        DropClosed(r) \/ Defer(r) \/ Shed(r) \/ Refuse(r) \/ Admit(r)

Bursts ==
    \E r \in Requests :
        BurstSkip(r) \/ BurstSpent(r) \/ BurstRuns(r) \/ BurstFails(r)

GraphStep ==
    \/ DegradeGraph \/ NoGraph
    \/ \E r \in Requests : PromoteFails(r) \/ StepGraph(r)

Worker ==
    \/ HandleCmd \/ StartAdmission \/ Admission \/ StartTick
    \/ GraphStep \/ Demote \/ Bursts \/ BurstsDone
    \/ PrefillInteractive \/ Decode \/ DarkSkip \/ DarkBatch \/ DarkChunk
    \/ Retire

Clients ==
    \/ \E r \in Requests : Submit(r) \/ Disconnect(r)
    \/ SloAgePasses

Next == Worker \/ Clients

\* The worker thread runs; clients and time owe nothing.
Spec == Init /\ [][Next]_vars /\ WF_vars(Worker)

-----------------------------------------------------------------------------
(* Properties. *)

\* The type invariant.
TypeOK ==
    /\ arrived \in Seq(Requests) /\ chan \in Seq(Requests)
    /\ queue \in Seq(Requests) /\ requeue \in Seq(Requests)
    /\ requeue_oom \in Seq(Requests) /\ todo \in Seq(Requests)
    /\ active \in Seq(Requests)
    /\ closed \subseteq Requests /\ finished \subseteq Active
    /\ stream \in [Requests -> Seq(Nat)] /\ ended \in [Requests -> Nat]
    /\ oom_retries \in [Requests -> 0 .. OomRetries]
    /\ ses \in [Requests -> [mode : {"none", "plain", "spec", "graph"},
                             pre : 0 .. Chunks, gen : Nat, primed : BOOLEAN,
                             hold : 0 .. MaxHold]]
    /\ vram_defers \subseteq Requests /\ decoded \in BOOLEAN /\ late \in BOOLEAN
    /\ phase \in Phases

\* Everything the worker still owes an answer, in no particular order.
Owed == chan \o queue \o requeue \o requeue_oom \o Keep(active, Live)

Copies(r) == Cardinality({i \in DOMAIN Owed : Owed[i] = r})

\* A request whose client still waits is in the worker's hands exactly once - in
\* the channel, waiting, parked or live - through deferral, park and retry,
\* demotion and retire; one that was answered is not in them any more.
HeldOnce ==
    \A r \in Submitted :
        /\ Copies(r) <= 1
        /\ ended[r] = 0 /\ r \notin closed => Copies(r) = 1
        /\ ended[r] > 0 => Copies(r) = 0

\* After Done or Error a client gets neither tokens nor another end.
NothingAfterEnd ==
    [][\A r \in Requests : ended[r] > 0 => /\ ended'[r] = ended[r]
                                           /\ stream'[r] = stream[r]]_vars

\* No lane ever has more live sessions than its cap, whatever path brought them
\* in (a parked session is admitted anew), and "at most spec_gate_low() sessions
\* can be on the spec path at any time": what bounds the bursts that the sampled
\* and constrained sessions, which never demote, can hold the tick for.
LaneCaps ==
    /\ Cardinality(Active \cap Interactive) <= InteractiveCap
    /\ Cardinality(Active \cap Dark) <= DarkCap
    /\ Cardinality({r \in Active : ses[r].mode = "spec"}) <= SpecLow

\* A graph session is live alone by the time the batched phases run.
GraphAlone ==
    phase \in {"demote", "burst", "prefill", "decode", "dark"} =>
        \A r \in InMode("graph") : Len(active) = 1

\* "front-insertion keeps them ahead of later arrivals": in line, in the order
\* the next pass will pop them, parked requests precede all that never ran.
ParkedAhead ==
    LET line == requeue_oom \o requeue \o queue
    IN \A i, j \in DOMAIN line :
          i < j /\ oom_retries[line[j]] > 0 => oom_retries[line[i]] > 0

Waiting == Range(chan) \cup Range(queue) \cup Range(requeue)
ArrivedBefore(q, r) ==
    \E i, j \in DOMAIN arrived : i < j /\ arrived[i] = q /\ arrived[j] = r

FirstLive(r) == r \notin Active /\ r \in Range(active') /\ oom_retries[r] = 0

\* "waits (FIFO), never shed": when an interactive request goes live for the
\* first time, the interactive clients that came before it and are left waiting
\* are those that the VRAM gate put aside in this same pass.  A lane at its cap
\* lets nobody through, and what was put aside in an earlier pass goes first.
InteractiveFifo ==
    [][\A r \in Interactive : FirstLive(r) =>
          \A q \in (Interactive \cap Waiting) \ closed :
             ArrivedBefore(q, r) => q \in vram_defers]_vars

\* The client sees the tokens of one generation: 1, 2, 3, ... without a gap or a
\* repetition.
ExactStream == \A r \in Requests : \A i \in DOMAIN stream[r] : stream[r][i] = i

\* Every request is answered, or its client leaves.
Answered == \A r \in Requests : r \in Submitted ~> (ended[r] > 0 \/ r \in closed)

=============================================================================
