------------------------------ MODULE Lifecycle ------------------------------
(***************************************************************************)
(* The life of the server process around its GPU worker: the HTTP handlers *)
(* that take an in-flight slot and hand a request to the worker            *)
(* (main.rs), the worker's receive loop and the supervisor that catches    *)
(* its panics and respawns it (worker.rs, spawn), the health state         *)
(* (health.rs), and the drain that ends the process on SIGTERM.            *)
(*                                                                         *)
(* What a session does inside a tick is module Scheduler's subject; here a *)
(* tick advances one held request by a token or ends it.  The model starts *)
(* when spawn has returned, with the first load done and the socket bound. *)
(***************************************************************************)
EXTENDS Naturals, Sequences, FiniteSets

CONSTANTS
    Requests,      \* requests that clients may send, each at most once
    Dark,          \* the ones on the judge and harvest lanes
    Streams,       \* the ones that ask for an SSE stream
    Tenants,       \* API-key identities
    Tenant,        \* the tenant of each request
    TenantCaps,    \* the caps a start-up may set: concurrent requests per tenant
    MaxTokens,     \* tokens a request may be sent before it ends
    RespawnMax,    \* MEMRA_WORKER_RESPAWN
    Deadline       \* whether MEMRA_DRAIN_S can pass before the drain is done

ASSUME RequestsAssumption ==
    /\ IsFiniteSet(Requests)
    /\ Dark \subseteq Requests
    /\ Streams \subseteq Requests
    /\ Tenant \in [Requests -> Tenants]
ASSUME CapsAssumption ==
    /\ TenantCaps \subseteq [Tenants -> Nat]
    /\ MaxTokens \in Nat
    /\ RespawnMax \in Nat
    /\ Deadline \in BOOLEAN

VARIABLES
    \* HTTP handlers
    pc,            \* pc[r]: where r's handler is
    ans,           \* ans[r]: how r's response ended, "none" before
    inflight,      \* InflightCounts: requests holding a slot, per lane class
    tenants,       \* TenantGauge: live requests per tenant
    pending_admits,\* PENDING_ADMITS
    \* from handlers to worker and back
    cmds,          \* the command channel, owned by the supervisor
    events,        \* events[r]: sent by the worker, not yet received
    deaf,          \* requests whose event receiver has been dropped
    \* worker thread
    at,            \* where the worker or its supervisor is
    got,           \* the command just received by the blocking recv
    held,          \* requests in the worker's hands: queued or active
    sent,          \* sent[r]: tokens sent so far
    attempt,       \* panics caught so far
    \* health
    phase, faulted, generation,
    \* process
    draining, drain, proc,
    cap            \* the configured cap of each tenant; never changes

handlerVars == <<pc, ans, inflight, tenants>>
channelVars == <<cmds, events, deaf, pending_admits>>
workerVars == <<at, got, held, sent, attempt>>
healthVars == <<phase, faulted, generation>>
processVars == <<draining, drain, proc, cap>>
vars == <<handlerVars, channelVars, workerVars, healthVars, processVars>>

-----------------------------------------------------------------------------
(* Values *)

Lanes == {"interactive", "dark"}
Lane(r) == IF r \in Dark THEN "dark" ELSE "interactive"

Phases == {"LOADING", "IDLE", "BUSY", "DEAD"}

\* Handler positions.  "drop_lane" and "drop_tenant" are InflightGuard::drop.
HandlerPcs == {"idle", "admitted", "tenant", "slot", "raised", "peek",
               "stream", "block", "drop_lane", "drop_tenant", "end"}

\* Positions at which the handler counts in the lane gauge and the tenant's.
HoldsLane == {"slot", "raised", "peek", "stream", "block", "drop_lane"}
HoldsTenant == HoldsLane \cup {"tenant", "drop_tenant"}

\* ok: finished; error: an error object was sent; refused: 503 for a drain;
\* limited: 429; closed: 503 because the worker let go of the request; cut: a
\* stream that ended with neither; gone: the client left.
Answers == {"none", "ok", "error", "refused", "limited", "closed", "cut", "gone"}

\* Worker positions inside run(), and those of the supervisor around it.
RunPcs == {"top", "recv", "popped", "handle", "drain", "tick", "more"}
WorkerPcs == RunPcs \cup {"stalled", "caught", "backoff", "loading", "returned"}

\* The event sender of r lives in the command, or in the worker's session.
SenderAlive(r) == r \in held \cup got \/ \E i \in DOMAIN cmds : cmds[i] = r

\* A connection axum still tracks.
Connected(r) == pc[r] \notin {"idle", "end"}

Up == proc = "up"

Init ==
    /\ pc = [r \in Requests |-> "idle"]
    /\ ans = [r \in Requests |-> "none"]
    /\ inflight = [l \in Lanes |-> 0]
    /\ tenants = [t \in Tenants |-> 0]
    /\ pending_admits = 0
    /\ cmds = <<>>
    /\ events = [r \in Requests |-> <<>>]
    /\ deaf = {}
    /\ at = "top" /\ got = {} /\ held = {} /\ attempt = 0
    /\ sent = [r \in Requests |-> 0]
    /\ phase = "IDLE" /\ faulted = FALSE /\ generation = 0
    /\ draining = FALSE /\ drain = "waiting" /\ proc = "up"
    /\ cap \in TenantCaps

-----------------------------------------------------------------------------
(* completions, chat_completions *)

Goto(r, here, there) ==
    /\ Up
    /\ pc[r] = here
    /\ pc' = [pc EXCEPT ![r] = there]

\* The drain gate.  Nothing was taken yet, so a refused request just ends.
Arrive(r) ==
    /\ drain \in {"waiting", "polling"}
    /\ Goto(r, "idle", IF draining THEN "end" ELSE "admitted")
    /\ ans' = [ans EXCEPT ![r] = IF draining THEN "refused" ELSE @]
    /\ UNCHANGED <<inflight, tenants, channelVars, workerVars, healthVars, processVars>>

\* Mutant: the cap is compared one too late.
TakeTenantLate(r) ==
    LET t == Tenant[r]
        full == tenants[t] > cap[t] IN
    /\ Goto(r, "admitted", IF full THEN "end" ELSE "tenant")
    /\ ans' = [ans EXCEPT ![r] = IF full THEN "limited" ELSE @]
    /\ tenants' = [tenants EXCEPT ![t] = IF full THEN @ ELSE @ + 1]
    /\ UNCHANGED <<inflight, channelVars, workerVars, healthVars, processVars>>

\* InflightGuard::try_acquire, the part under the tenant mutex.
TakeTenant(r) ==
    LET t == Tenant[r]
        full == tenants[t] >= cap[t] IN
    /\ Goto(r, "admitted", IF full THEN "end" ELSE "tenant")
    /\ ans' = [ans EXCEPT ![r] = IF full THEN "limited" ELSE @]
    /\ tenants' = [tenants EXCEPT ![t] = IF full THEN @ ELSE @ + 1]
    /\ UNCHANGED <<inflight, channelVars, workerVars, healthVars, processVars>>

\* InflightGuard::try_acquire, the lane counter.
TakeLane(r) ==
    /\ Goto(r, "tenant", "slot")
    /\ inflight' = [inflight EXCEPT ![Lane(r)] = @ + 1]
    /\ UNCHANGED <<ans, tenants, channelVars, workerVars, healthVars, processVars>>

\* The pending-admit gauge goes up before the command is sent.
RaisePending(r) ==
    /\ Goto(r, "slot", "raised")
    /\ pending_admits' = pending_admits + 1
    /\ UNCHANGED <<ans, inflight, tenants, cmds, events, deaf, workerVars,
                   healthVars, processVars>>

\* What follows the peek: a stream or a blocking response.
Respond(r) == IF r \in Streams THEN "stream" ELSE "block"

\* cmd_tx.send.  It fails only once the supervisor has dropped the receiver, which it
\* does when no sender is left.
Send(r) ==
    /\ Goto(r, "raised", IF r \in Dark THEN "peek" ELSE Respond(r))
    /\ cmds' = Append(cmds, r)
    /\ UNCHANGED <<ans, inflight, tenants, events, deaf, pending_admits,
                   workerVars, healthVars, processVars>>

\* recv on the event channel answered None: no sender and nothing buffered.
Closed(r) == events[r] = <<>> /\ ~SenderAlive(r)

\* Dropping the receiver discards what it still buffers.
Deafen(r) ==
    /\ deaf' = deaf \cup {r}
    /\ events' = [events EXCEPT ![r] = <<>>]

\* peek_shed: the first event decides between an HTTP error and a response.
\* The event itself is forwarded, so only an error is consumed here.
Peek(r) ==
    /\ events[r] # <<>> \/ Closed(r)
    /\ LET err == events[r] # <<>> /\ Head(events[r]) = "error" IN
        /\ Goto(r, "peek", IF err THEN "drop_lane" ELSE Respond(r))
        /\ ans' = [ans EXCEPT ![r] = IF err THEN "error" ELSE @]
        /\ IF err THEN Deafen(r) ELSE UNCHANGED <<deaf, events>>
    /\ UNCHANGED <<inflight, tenants, cmds, pending_admits, workerVars,
                   healthVars, processVars>>

\* sse_response and blocking_response: the next event, or the closed channel.
Receive(r) ==
    /\ Up
    /\ pc[r] \in {"stream", "block"}
    /\ \/ /\ events[r] # <<>>
          /\ Head(events[r]) = "token"
          /\ events' = [events EXCEPT ![r] = Tail(@)]
          /\ UNCHANGED <<ans, pc, deaf>>
       \/ /\ events[r] # <<>> => Head(events[r]) # "token"
          /\ events[r] = <<>> => Closed(r)
          /\ ans' = [ans EXCEPT ![r] = IF events[r] # <<>> THEN Head(events[r])
                                      ELSE IF pc[r] = "stream" THEN "cut" ELSE "closed"]
          /\ pc' = [pc EXCEPT ![r] = "drop_lane"]
          /\ Deafen(r)
    /\ UNCHANGED <<inflight, tenants, cmds, pending_admits, workerVars,
                   healthVars, processVars>>

\* Mutant: the guard of a dropped stream is leaked.
DisconnectLeaking(r) ==
    /\ Up
    /\ pc[r] \in {"peek", "stream", "block"}
    /\ pc' = [pc EXCEPT ![r] = "end"]
    /\ ans' = [ans EXCEPT ![r] = "gone"]
    /\ Deafen(r)
    /\ UNCHANGED <<inflight, tenants, cmds, pending_admits, workerVars,
                   healthVars, processVars>>

\* The client hangs up: axum drops the handler's future or the stream.  Behind
\* a peek a relay task keeps the event receiver until its next event.
Disconnect(r) ==
    /\ Up
    /\ pc[r] \in {"peek", "stream", "block"}
    /\ pc' = [pc EXCEPT ![r] = "drop_lane"]
    /\ ans' = [ans EXCEPT ![r] = "gone"]
    /\ IF r \in Dark /\ pc[r] # "peek" THEN UNCHANGED <<deaf, events>> ELSE Deafen(r)
    /\ UNCHANGED <<inflight, tenants, cmds, pending_admits, workerVars,
                   healthVars, processVars>>

\* The relay task of peek_shed finds its consumer gone.
RelayEnds(r) ==
    /\ Up
    /\ r \in Dark \ deaf
    /\ ans[r] = "gone"
    /\ events[r] # <<>>
    /\ Deafen(r)
    /\ UNCHANGED <<handlerVars, cmds, pending_admits, workerVars,
                   healthVars, processVars>>

\* Mutant: the guard lowers the gauge of another lane.
DropLaneWrong(r) ==
    /\ Goto(r, "drop_lane", "drop_tenant")
    /\ inflight' = [inflight EXCEPT !["interactive"] = @ - 1]
    /\ UNCHANGED <<ans, tenants, channelVars, workerVars, healthVars, processVars>>

\* InflightGuard::drop, the lane counter and then the tenant's entry.
DropLane(r) ==
    /\ Goto(r, "drop_lane", "drop_tenant")
    /\ inflight' = [inflight EXCEPT ![Lane(r)] = @ - 1]
    /\ UNCHANGED <<ans, tenants, channelVars, workerVars, healthVars, processVars>>

DropTenant(r) ==
    /\ Goto(r, "drop_tenant", "end")
    /\ tenants' = [tenants EXCEPT ![Tenant[r]] = @ - 1]
    /\ UNCHANGED <<ans, inflight, channelVars, workerVars, healthVars, processVars>>

-----------------------------------------------------------------------------
(* The worker: run() *)

Run(here, there) == Up /\ at = here /\ at' = there

\* Mutant: the worker parks in recv with requests in hand.
TopParks ==
    /\ Run("top", "recv")
    /\ phase' = "IDLE"
    /\ UNCHANGED <<handlerVars, channelVars, got, held, sent, attempt, faulted,
                   generation, processVars>>

\* With nothing in hand the worker parks in recv as IDLE, else it is BUSY.
Top ==
    /\ Run("top", IF held = {} THEN "recv" ELSE "drain")
    /\ phase' = IF held = {} THEN "IDLE" ELSE "BUSY"
    /\ UNCHANGED <<handlerVars, channelVars, got, held, sent, attempt, faulted,
                   generation, processVars>>

\* recv returns a command.
Recv ==
    /\ cmds # <<>>
    /\ Run("recv", "popped")
    /\ got' = {Head(cmds)}
    /\ cmds' = Tail(cmds)
    /\ UNCHANGED <<handlerVars, events, deaf, pending_admits, held, sent, attempt,
                   healthVars, processVars>>

\* set_phase(BUSY), before the command is handled.
SetBusy ==
    /\ Run("popped", "handle")
    /\ phase' = "BUSY"
    /\ UNCHANGED <<handlerVars, channelVars, got, held, sent, attempt, faulted,
                   generation, processVars>>

\* A send to a dropped receiver is lost.
Tell(r, e) ==
    events' = [events EXCEPT ![r] = IF r \in deaf THEN @ ELSE Append(@, e)]

\* Mutant: the early return of a rejected request skips the gauge.
HandleCmdEarly(r) ==
    \/ Tell(r, "error") /\ UNCHANGED <<held, pending_admits>>
    \/ /\ held' = held \cup {r}
       /\ pending_admits' = IF pending_admits = 0 THEN 0 ELSE pending_admits - 1
       /\ UNCHANGED events

\* handle_cmd lowers the gauge (checked_sub) and takes the request, or rejects
\* one that names a model that is not loaded.
HandleCmd(r) ==
    /\ pending_admits' = IF pending_admits = 0 THEN 0 ELSE pending_admits - 1
    /\ \/ Tell(r, "error") /\ UNCHANGED held
       \/ held' = held \cup {r} /\ UNCHANGED events

Handle ==
    /\ Run("handle", "drain")
    /\ \E r \in got : HandleCmd(r)
    /\ got' = {}
    /\ UNCHANGED <<handlerVars, cmds, deaf, sent, attempt, healthVars, processVars>>

\* beat_busy, then one command of the try_recv loop.
DrainOne ==
    /\ cmds # <<>>
    /\ Run("drain", "drain")
    /\ HandleCmd(Head(cmds))
    /\ cmds' = Tail(cmds)
    /\ UNCHANGED <<handlerVars, deaf, got, sent, attempt, healthVars, processVars>>

DrainDone ==
    /\ cmds = <<>>
    /\ Run("drain", "tick")
    /\ UNCHANGED <<handlerVars, channelVars, got, held, sent, attempt, healthVars,
                   processVars>>

\* A tick works on the requests in hand and on one of them at least: a token,
\* its end, an error, or the abort of one whose receiver is gone.
Step == Up /\ at \in {"tick", "more"} /\ at' = "more"

TickToken(r) ==
    /\ r \in held \ deaf
    /\ sent[r] < MaxTokens
    /\ Step
    /\ Tell(r, "token")
    /\ sent' = [sent EXCEPT ![r] = @ + 1]
    /\ UNCHANGED <<handlerVars, cmds, deaf, pending_admits, got, held, attempt,
                   healthVars, processVars>>

TickEnd(r, e) ==
    /\ r \in held \ deaf
    /\ Step
    /\ Tell(r, e)
    /\ held' = held \ {r}
    /\ UNCHANGED <<handlerVars, cmds, deaf, pending_admits, got, sent, attempt,
                   healthVars, processVars>>

TickAbort(r) ==
    /\ r \in held \cap deaf
    /\ Step
    /\ held' = held \ {r}
    /\ UNCHANGED <<handlerVars, channelVars, got, sent, attempt, healthVars,
                   processVars>>

TickDone ==
    /\ Up
    /\ at = "more" \/ (at = "tick" /\ held = {})
    /\ at' = "top"
    /\ UNCHANGED <<handlerVars, channelVars, got, held, sent, attempt, healthVars,
                   processVars>>

\* A device call that never returns: the beat grows old while the phase is BUSY.
Stall ==
    /\ Run("more", "stalled")
    /\ UNCHANGED <<handlerVars, channelVars, got, held, sent, attempt, healthVars,
                   processVars>>

\* Every sender of the command channel is gone: run returns, from recv, or from
\* the try_recv loop when no session is active (some may still be queued).
RecvDisconnected ==
    /\ cmds = <<>>
    /\ drain \in {"returned", "cleaned"}
    /\ at \in {"recv", "drain"}
    /\ Run(at, "returned")
    /\ held' = {}
    /\ phase' = "DEAD"
    /\ UNCHANGED <<handlerVars, channelVars, got, sent, attempt, faulted,
                   generation, processVars>>

-----------------------------------------------------------------------------
(* The supervisor: spawn() *)

\* A panic unwinds run: sessions, queue and the command in hand are dropped,
\* their senders with them; the command channel is the supervisor's and stays.
Panic ==
    /\ at \in {"drain", "tick", "more", "loading"}
    /\ Run(at, "caught")
    /\ held' = {}
    /\ got' = {}
    /\ UNCHANGED <<handlerVars, channelVars, sent, attempt, healthVars, processVars>>

\* mark_dead, then the respawn budget: back off, or exit the process.
Caught ==
    /\ Run("caught", "backoff")
    /\ attempt' = attempt + 1
    /\ faulted' = TRUE
    /\ phase' = "DEAD"
    /\ proc' = IF attempt + 1 > RespawnMax THEN "exit70" ELSE proc
    /\ UNCHANGED <<handlerVars, channelVars, got, held, sent, generation,
                   draining, drain, cap>>

\* Mutant: the respawn clears the fault before the weights are loaded.
RespawnEarly ==
    /\ Run("backoff", "loading")
    /\ generation' = generation + 1
    /\ phase' = "IDLE"
    /\ faulted' = FALSE
    /\ UNCHANGED <<handlerVars, channelVars, got, held, sent, attempt, processVars>>

\* mark_respawning: the fault latch stays until a load succeeds.
Respawn ==
    /\ Run("backoff", "loading")
    /\ generation' = generation + 1
    /\ phase' = "LOADING"
    /\ UNCHANGED <<handlerVars, channelVars, got, held, sent, attempt, faulted,
                   processVars>>

\* mark_ready.
LoadOk ==
    /\ Run("loading", "top")
    /\ faulted' = FALSE
    /\ phase' = "IDLE"
    /\ UNCHANGED <<handlerVars, channelVars, got, held, sent, attempt, generation,
                   processVars>>

\* Mutant: a failed reload returns as a failed first load does.
LoadFailsQuietly ==
    /\ Run("loading", "returned")
    /\ faulted' = TRUE
    /\ phase' = "DEAD"
    /\ UNCHANGED <<handlerVars, channelVars, got, held, sent, attempt, generation,
                   processVars>>

\* The relay thread marks the failed load dead; the supervisor exits.
LoadFails ==
    /\ Run("loading", "returned")
    /\ faulted' = TRUE
    /\ phase' = "DEAD"
    /\ proc' = "exit70"
    /\ UNCHANGED <<handlerVars, channelVars, got, held, sent, attempt, generation,
                   draining, drain, cap>>

-----------------------------------------------------------------------------
(* SIGTERM and the drain task *)

Sigterm ==
    /\ Up
    /\ drain = "waiting"
    /\ draining' = TRUE
    /\ drain' = "polling"
    /\ UNCHANGED <<handlerVars, channelVars, workerVars, healthVars, proc, cap>>

\* The shutdown future resolves: the gauges read zero, or the deadline passed.
DrainOver ==
    /\ Up
    /\ drain = "polling"
    /\ Deadline \/ \A l \in Lanes : inflight[l] = 0
    /\ drain' = "released"
    /\ UNCHANGED <<handlerVars, channelVars, workerVars, healthVars, draining, proc, cap>>

\* Mutant: the server returns at once, without its connections.
AxumReturnsAtOnce ==
    /\ Up
    /\ drain = "released"
    /\ drain' = "returned"
    /\ UNCHANGED <<handlerVars, channelVars, workerVars, healthVars, draining, proc, cap>>

\* axum::serve stops accepting when the future resolves and returns when the
\* last tracked connection has ended.  Returning drops the command senders.
AxumReturns ==
    /\ Up
    /\ drain = "released"
    /\ \A r \in Requests : ~Connected(r)
    /\ drain' = "returned"
    /\ UNCHANGED <<handlerVars, channelVars, workerVars, healthVars, draining, proc, cap>>

\* BgHandle::shutdown joins the dark-lane runner (module DarkLane).
Cleaned ==
    /\ Up
    /\ drain = "returned"
    /\ drain' = "cleaned"
    /\ UNCHANGED <<handlerVars, channelVars, workerVars, healthVars, draining, proc, cap>>

MainReturns ==
    /\ Up
    /\ drain = "cleaned"
    /\ proc' = "exit0"
    /\ UNCHANGED <<handlerVars, channelVars, workerVars, healthVars, draining, drain, cap>>

-----------------------------------------------------------------------------
Handler(r) ==
    \/ TakeTenant(r) \/ TakeLane(r) \/ RaisePending(r) \/ Send(r)
    \/ Peek(r) \/ Receive(r) \/ RelayEnds(r) \/ DropLane(r) \/ DropTenant(r)

Tick ==
    \E r \in Requests :
        \/ TickToken(r) \/ TickEnd(r, "ok") \/ TickEnd(r, "error") \/ TickAbort(r)

Worker ==
    \/ Top \/ Recv \/ SetBusy \/ Handle \/ DrainOne \/ DrainDone \/ Tick
    \/ TickDone \/ RecvDisconnected \/ Caught \/ Respawn \/ LoadOk \/ LoadFails

Shutdown == DrainOver \/ AxumReturns \/ MainReturns

Environment == Sigterm \/ Panic \/ Stall \/ \E r \in Requests : Arrive(r) \/ Disconnect(r)

Next ==
    \/ \E r \in Requests : Handler(r)
    \/ Worker
    \/ Shutdown
    \/ Cleaned
    \/ Environment

\* The worker and the runtime's tasks are scheduled; the deadline of a drain
\* is a timer.  Clients, signals, panics and stalls owe nothing: a stream is
\* polled only as its client reads, so none of its events needs ever be taken.
Fairness ==
    /\ \A r \in Requests : WF_vars(pc[r] # "stream" /\ Handler(r))
    /\ WF_vars(Worker)
    /\ WF_vars(Shutdown)

Spec == Init /\ [][Next]_vars /\ Fairness /\ WF_vars(Cleaned)

-----------------------------------------------------------------------------
(* Properties *)

\* Every variable has its type.
TypeOK ==
    /\ pc \in [Requests -> HandlerPcs]
    /\ ans \in [Requests -> Answers]
    /\ inflight \in [Lanes -> Nat]
    /\ tenants \in [Tenants -> Nat]
    /\ pending_admits \in Nat
    /\ cmds \in Seq(Requests)
    /\ events \in [Requests -> Seq({"token", "ok", "error"})]
    /\ deaf \subseteq Requests
    /\ at \in WorkerPcs
    /\ got \subseteq Requests /\ held \subseteq Requests
    /\ sent \in [Requests -> Nat]
    /\ attempt \in Nat
    /\ phase \in Phases /\ faulted \in BOOLEAN /\ generation \in Nat
    /\ draining \in BOOLEAN
    /\ drain \in {"waiting", "polling", "released", "returned", "cleaned"}
    /\ proc \in {"up", "exit0", "exit70"}
    /\ cap \in [Tenants -> Nat]

\* The two gauges count exactly the handlers between taking and dropping their
\* guard, whatever ends them (answer, refusal in the peek, worker panic, client
\* gone), and no tenant is ever above its cap although the check and the lane
\* counter are two steps (InflightGuard).
SlotsExact ==
    /\ \A l \in Lanes :
        inflight[l] = Cardinality({r \in Requests : pc[r] \in HoldsLane /\ Lane(r) = l})
    /\ \A t \in Tenants :
        /\ tenants[t] = Cardinality({r \in Requests : pc[r] \in HoldsTenant /\ Tenant[r] = t})
        /\ tenants[t] <= cap[t]

\* PENDING_ADMITS counts exactly the requests that a handler has announced and
\* the worker has not taken, across panics and respawns too: a gauge left high
\* would end every burst after one round and hold the dark lane off for ever.
PendingExact ==
    pending_admits = Cardinality({r \in Requests : pc[r] = "raised"})
                     + Len(cmds) + Cardinality(got)

\* A client whose request the worker lets go of without an event, a stream cut
\* short or a 503 for a closed channel, lost it to a panic: neither a drain nor
\* the end of run() drops a request that somebody still waits for.
DroppedByPanic ==
    \A r \in Requests : ans[r] \in {"cut", "closed"} => attempt > 0 \/ at = "caught"

\* WorkerHealth::live answers Ok only while run() is there to serve, except in
\* the moment between a panic and its catch; and a worker that hangs in a tick
\* does so as BUSY, the only phase whose beat may grow too old (stalled()).
LiveMeansServing ==
    /\ Up /\ ~faulted /\ phase \in {"IDLE", "BUSY"} => at \in RunPcs \cup {"stalled", "caught"}
    /\ at = "stalled" => phase = "BUSY"

\* A process that exits with 0 has answered every request it accepted, also
\* one that passed the drain gate before the flag was set and took its slot
\* after the drain task had seen the gauge at zero.
CleanExit ==
    proc = "exit0" => \A r \in Requests : pc[r] # "idle" => ans[r] # "none" /\ ~Connected(r)

\* The end of the process, or a hang that only the liveness probe can end.
Over == ~Up \/ at = "stalled"

\* The client of r reads its stream for as long as it does not hang up.
ClientReads(r) == WF_vars(Receive(r))

\* Every request that reaches a handler, of a client that reads, is answered,
\* also when the worker dies with it in hand or before it was taken, and
\* whether or not other clients read.
Served ==
    \A r \in Requests : ClientReads(r) => (pc[r] # "idle" ~> (ans[r] # "none" \/ Over))

\* A drain ends the process once every client reads or hangs up, whatever panics
\* meanwhile: no slot leaks and no handler waits for a worker that is gone.
DrainEnds == (\A r \in Requests : ClientReads(r)) => (draining ~> Over)

\* A fault latched by a panic is cleared by a respawn that serves again, or the
\* process ends: it is never left alive with a dead worker.
Recovers == faulted ~> (~faulted \/ ~Up)

=============================================================================
