-------------------------- MODULE LifecycleProofs --------------------------
(***************************************************************************)
(* Proofs about Lifecycle, for any finite set of requests, any tenants and *)
(* caps, any respawn budget, with and without a drain deadline.            *)
(***************************************************************************)
EXTENDS Lifecycle, FiniteSetTheorems, TLAPS

-----------------------------------------------------------------------------
(* Counting handlers. *)

LaneHolders(l) == {r \in Requests : pc[r] \in HoldsLane /\ Lane(r) = l}
TenantHolders(t) == {r \in Requests : pc[r] \in HoldsTenant /\ Tenant[r] = t}
Raised == {r \in Requests : pc[r] = "raised"}

\* Sets of requests are finite, and so can be counted.
LEMMA RequestSets ==
    ASSUME NEW S \in SUBSET Requests
    PROVE  IsFiniteSet(S) /\ Cardinality(S) \in Nat
  BY RequestsAssumption, FS_Subset, FS_CardinalityType DEF RequestsAssumption

\* One request more.
LEMMA CountOneMore ==
    ASSUME NEW S \in SUBSET Requests, NEW r \in Requests, r \notin S
    PROVE  Cardinality(S \cup {r}) = Cardinality(S) + 1
  BY RequestSets, FS_AddElement

\* One request less, and what it is taken from is not empty.
LEMMA CountOneLess ==
    ASSUME NEW S \in SUBSET Requests, NEW r \in S
    PROVE  /\ Cardinality(S) > 0
           /\ Cardinality(S \ {r}) = Cardinality(S) - 1
  <1>1. Cardinality(S \ {r}) = Cardinality(S) - 1
    BY RequestSets, FS_RemoveElement
  <1>2. S \ {r} \in SUBSET Requests
    OBVIOUS
  <1> QED
    BY <1>1, <1>2, RequestSets

-----------------------------------------------------------------------------
(* Type correctness.  The gauges never run below zero because they count   *)
(* exactly, so the type needs SlotsExact.                                  *)

\* Every request has a lane.
LEMMA LaneIsLane == \A r \in Requests : Lane(r) \in Lanes
  BY DEF Lane, Lanes

\* Every request has a tenant.
LEMMA TenantIsTenant == \A r \in Requests : Tenant[r] \in Tenants
  BY RequestsAssumption DEF RequestsAssumption

GaugesType ==
    /\ inflight \in [Lanes -> Nat]
    /\ tenants \in [Tenants -> Nat]
    /\ cap \in [Tenants -> Nat]

HandlersType ==
    /\ pc \in [Requests -> HandlerPcs]
    /\ ans \in [Requests -> Answers]

Kinds == {"token", "ok", "error"}
EventSeq == Seq(Kinds)

ChannelsType ==
    /\ pending_admits \in Nat
    /\ cmds \in Seq(Requests)
    /\ events \in [Requests -> EventSeq]
    /\ deaf \subseteq Requests

WorkerType ==
    /\ at \in WorkerPcs
    /\ got \subseteq Requests /\ held \subseteq Requests
    /\ sent \in [Requests -> Nat]
    /\ attempt \in Nat

ProcessType ==
    /\ phase \in Phases /\ faulted \in BOOLEAN /\ generation \in Nat
    /\ draining \in BOOLEAN
    /\ drain \in {"waiting", "polling", "released", "returned", "cleaned"}
    /\ proc \in {"up", "exit0", "exit70"}

\* The type invariant, in the parts that the steps disturb.
LEMMA TypeParts ==
    TypeOK <=> GaugesType /\ HandlersType /\ ChannelsType /\ WorkerType /\ ProcessType
  BY DEF TypeOK, GaugesType, HandlersType, ChannelsType, WorkerType, ProcessType, EventSeq, Kinds

\* What can be done to a queue of events.
LEMMA EventSeqs ==
    /\ <<>> \in EventSeq
    /\ \A q \in EventSeq : /\ q # <<>> => Head(q) \in Kinds /\ Tail(q) \in EventSeq
                          /\ \A e \in Kinds : Append(q, e) \in EventSeq
  BY DEF EventSeq

\* What no handler touches.
LEMMA HandlerFrame ==
    ASSUME NEW r, Handler(r) \/ Arrive(r) \/ Disconnect(r)
    PROVE  UNCHANGED <<workerVars, healthVars, processVars>>
  BY DEF Handler, Arrive, Disconnect, TakeTenant, TakeLane, RaisePending, Send, Peek, Receive,
         RelayEnds, DropLane, DropTenant

\* A gauge is positive while one of its holders is there.
LEMMA LanePositive ==
    ASSUME TypeOK, SlotsExact, NEW r \in Requests, pc[r] \in HoldsLane
    PROVE  inflight[Lane(r)] - 1 \in Nat
  <1>1. r \in LaneHolders(Lane(r)) /\ LaneHolders(Lane(r)) \in SUBSET Requests
    BY DEF LaneHolders
  <1>2. inflight[Lane(r)] = Cardinality(LaneHolders(Lane(r)))
    BY LaneIsLane DEF SlotsExact, LaneHolders
  <1> QED
    BY <1>1, <1>2, CountOneLess, RequestSets

\* The same for the gauge of a tenant.
LEMMA TenantPositive ==
    ASSUME TypeOK, SlotsExact, NEW r \in Requests, pc[r] \in HoldsTenant
    PROVE  tenants[Tenant[r]] - 1 \in Nat
  <1>1. r \in TenantHolders(Tenant[r]) /\ TenantHolders(Tenant[r]) \in SUBSET Requests
    BY DEF TenantHolders
  <1>2. tenants[Tenant[r]] = Cardinality(TenantHolders(Tenant[r]))
    BY TenantIsTenant DEF SlotsExact, TenantHolders
  <1> QED
    BY <1>1, <1>2, CountOneLess, RequestSets

\* Handlers keep the type: a guard lowers only a gauge it has raised.
LEMMA HandlerType ==
    ASSUME TypeOK, SlotsExact, NEW r \in Requests,
           Handler(r) \/ Arrive(r) \/ Disconnect(r)
    PROVE  TypeOK'
  <1>0. ChannelsType
    BY TypeParts
  <1>1. WorkerType' /\ ProcessType' /\ cap' = cap
    BY HandlerFrame DEF workerVars, healthVars, processVars, TypeOK, WorkerType, ProcessType
  <1>2. GaugesType'
    <2>1. CASE TakeTenant(r)
      BY <2>1, <1>1, TenantIsTenant DEF TakeTenant, TypeOK, GaugesType
    <2>2. CASE TakeLane(r)
      BY <2>2, <1>1, LaneIsLane DEF TakeLane, TypeOK, GaugesType
    <2>3. CASE DropLane(r)
      <3>1. inflight[Lane(r)] - 1 \in Nat
        BY <2>3, LanePositive DEF DropLane, Goto, HoldsLane
      <3> QED
        BY <2>3, <3>1, <1>1, LaneIsLane DEF DropLane, TypeOK, GaugesType
    <2>4. CASE DropTenant(r)
      <3>1. tenants[Tenant[r]] - 1 \in Nat
        BY <2>4, TenantPositive DEF DropTenant, Goto, HoldsTenant
      <3> QED
        BY <2>4, <3>1, <1>1, TenantIsTenant DEF DropTenant, TypeOK, GaugesType
    <2>5. CASE UNCHANGED <<inflight, tenants>>
      BY <2>5, <1>1 DEF TypeOK, GaugesType
    <2> QED
      BY <2>1, <2>2, <2>3, <2>4, <2>5
      DEF Handler, Arrive, Disconnect, RaisePending, Send, Peek, Receive, RelayEnds, handlerVars
  <1>3. HandlersType'
    <2> USE DEF TypeOK, HandlersType, HandlerPcs, Answers
    <2>1. CASE Arrive(r) \/ TakeTenant(r) \/ TakeLane(r) \/ RaisePending(r)
      BY <2>1 DEF Arrive, TakeTenant, TakeLane, RaisePending, Goto
    <2>2. CASE Send(r)
      BY <2>2 DEF Send, Goto, Respond
    <2>3. CASE Peek(r)
      BY <2>3 DEF Peek, Goto, Respond
    <2>4. CASE Receive(r)
      <3>1. events[r] # <<>> => Head(events[r]) \in {"token", "ok", "error"}
        BY <1>0, EventSeqs DEF ChannelsType, Kinds
      <3> QED
        BY <2>4, <3>1 DEF Receive
    <2>5. CASE Disconnect(r)
      BY <2>5 DEF Disconnect
    <2>6. CASE RelayEnds(r) \/ DropLane(r) \/ DropTenant(r)
      BY <2>6 DEF RelayEnds, DropLane, DropTenant, Goto, handlerVars
    <2> QED
      BY <2>1, <2>2, <2>3, <2>4, <2>5, <2>6 DEF Handler
  <1>4. ChannelsType'
    <2> USE <1>0, EventSeqs DEF ChannelsType
    <2>1. CASE RaisePending(r) \/ Send(r)
      BY <2>1 DEF RaisePending, Send
    <2>2. CASE Peek(r) \/ Disconnect(r) \/ RelayEnds(r)
      BY <2>2 DEF Peek, Disconnect, RelayEnds, Deafen
    <2>3. CASE Receive(r)
      BY <2>3 DEF Receive, Deafen
    <2>4. CASE UNCHANGED channelVars
      BY <2>4 DEF channelVars
    <2> QED
      BY <2>1, <2>2, <2>3, <2>4 DEF Handler, Arrive, TakeTenant, TakeLane, DropLane, DropTenant
  <1> QED
    BY <1>1, <1>2, <1>3, <1>4
    DEF TypeOK, GaugesType, HandlersType, ChannelsType, WorkerType, ProcessType, EventSeq, Kinds

\* The worker thread with its supervisor, crash and hang included.
WorkerThread == Worker \/ Panic \/ Stall

\* What the worker thread never touches.
LEMMA WorkerFrame ==
    ASSUME WorkerThread
    PROVE  Up /\ UNCHANGED <<handlerVars, deaf, draining, drain, cap>>
  <1>1. CASE Top \/ Recv \/ SetBusy \/ Handle \/ DrainOne \/ DrainDone
    BY <1>1 DEF Top, Recv, SetBusy, Handle, DrainOne, DrainDone, Run, channelVars, processVars
  <1>2. CASE Tick
    BY <1>2 DEF Tick, TickToken, TickEnd, TickAbort, Step, channelVars, processVars
  <1>3. CASE TickDone \/ RecvDisconnected \/ Panic \/ Stall
    BY <1>3 DEF TickDone, RecvDisconnected, Panic, Stall, Run, channelVars, processVars
  <1>4. CASE Caught \/ Respawn \/ LoadOk \/ LoadFails
    BY <1>4 DEF Caught, Respawn, LoadOk, LoadFails, Run, channelVars, processVars
  <1> QED
    BY <1>1, <1>2, <1>3, <1>4 DEF WorkerThread, Worker

\* Sending an event keeps the queue of its request a queue of events.
LEMMA TellType ==
    ASSUME ChannelsType, NEW r \in Requests, NEW e \in Kinds, Tell(r, e)
    PROVE  events' \in [Requests -> EventSeq]
  <1>1. events[r] \in EventSeq
    BY DEF ChannelsType
  <1>2. (IF r \in deaf THEN events[r] ELSE Append(events[r], e)) \in EventSeq
    BY <1>1, EventSeqs
  <1> QED
    BY <1>2 DEF Tell, ChannelsType

\* handle_cmd keeps the types of what it writes.
LEMMA HandleType ==
    ASSUME ChannelsType, WorkerType, NEW r \in Requests, HandleCmd(r)
    PROVE  /\ pending_admits' \in Nat
           /\ events' \in [Requests -> EventSeq]
           /\ held' \subseteq Requests
  <1>1. pending_admits' \in Nat
    BY DEF HandleCmd, ChannelsType
  <1>2. CASE Tell(r, "error") /\ UNCHANGED held
    <2>1. events' \in [Requests -> EventSeq]
      BY <1>2, TellType DEF Kinds
    <2> QED
      BY <1>1, <1>2, <2>1 DEF WorkerType
  <1>3. CASE held' = held \cup {r} /\ UNCHANGED events
    BY <1>1, <1>3 DEF ChannelsType, WorkerType
  <1> QED
    BY <1>2, <1>3 DEF HandleCmd

\* The worker thread and its supervisor keep the type.
LEMMA WorkerStepType ==
    ASSUME TypeOK, WorkerThread
    PROVE  TypeOK'
  <1>0. ChannelsType /\ WorkerType /\ ProcessType
    BY TypeParts
  <1>1. GaugesType' /\ HandlersType'
    BY WorkerFrame DEF TypeOK, GaugesType, HandlersType, handlerVars
  <1>2. cmds # <<>> => Head(cmds) \in Requests /\ Tail(cmds) \in Seq(Requests)
    BY <1>0 DEF ChannelsType
  <1>3. ChannelsType'
    <2> USE <1>0, EventSeqs DEF ChannelsType
    <2>1. CASE Recv
      BY <2>1, <1>2 DEF Recv
    <2>2. CASE Handle
      BY <2>2, HandleType DEF Handle, WorkerType
    <2>3. CASE DrainOne
      BY <2>3, <1>2, HandleType DEF DrainOne
    <2>4. ASSUME NEW r \in Requests, TickToken(r) \/ TickEnd(r, "ok") \/ TickEnd(r, "error")
          PROVE  ChannelsType'
      <3>1. \E e \in Kinds : Tell(r, e)
        BY <2>4 DEF TickToken, TickEnd, Kinds
      <3>2. events' \in [Requests -> EventSeq]
        BY <3>1, TellType
      <3> QED
        BY <2>4, <3>2 DEF TickToken, TickEnd
    <2>5. CASE UNCHANGED channelVars
      BY <2>5 DEF channelVars
    <2> QED
      BY <2>1, <2>2, <2>3, <2>4, <2>5
      DEF WorkerThread, Worker, Panic, Stall, Top, SetBusy, DrainDone, Tick, TickAbort, TickDone,
          RecvDisconnected, Caught, Respawn, LoadOk, LoadFails
  <1>4. WorkerType'
    <2> USE <1>0 DEF WorkerType, WorkerPcs, RunPcs
    <2>1. CASE Top \/ SetBusy \/ DrainDone \/ TickDone \/ Stall
      BY <2>1 DEF Top, SetBusy, DrainDone, TickDone, Stall, Run
    <2>2. CASE Recv
      BY <2>2, <1>2 DEF Recv, Run
    <2>3. CASE Handle
      BY <2>3, HandleType DEF Handle, Run
    <2>4. CASE DrainOne
      BY <2>4, <1>2, HandleType DEF DrainOne, Run
    <2>5. CASE Tick
      BY <2>5 DEF Tick, TickToken, TickEnd, TickAbort, Step
    <2>6. CASE RecvDisconnected \/ Panic
      BY <2>6 DEF RecvDisconnected, Panic, Run
    <2>7. CASE Caught \/ Respawn \/ LoadOk \/ LoadFails
      BY <2>7 DEF Caught, Respawn, LoadOk, LoadFails, Run
    <2> QED
      BY <2>1, <2>2, <2>3, <2>4, <2>5, <2>6, <2>7 DEF WorkerThread, Worker
  <1>5. ProcessType'
    <2> USE <1>0, WorkerFrame DEF ProcessType, Phases
    <2>1. CASE Top \/ SetBusy \/ RecvDisconnected
      <3>1. phase' \in Phases
        BY <2>1 DEF Top, SetBusy, RecvDisconnected
      <3>2. UNCHANGED <<faulted, generation, processVars>>
        BY <2>1 DEF Top, SetBusy, RecvDisconnected
      <3> QED
        BY <3>1, <3>2 DEF processVars
    <2>4. CASE Respawn \/ LoadOk
      <3>1. phase' \in Phases /\ generation' \in Nat
        BY <2>4 DEF Respawn, LoadOk
      <3>2. faulted' \in BOOLEAN
        BY <2>4 DEF Respawn, LoadOk
      <3>3. UNCHANGED processVars
        BY <2>4 DEF Respawn, LoadOk
      <3> QED
        BY <3>1, <3>2, <3>3, Zenon DEF processVars
    <2>2. CASE Caught \/ LoadFails
      BY <2>2 DEF Caught, LoadFails
    <2>3. CASE UNCHANGED <<healthVars, processVars>>
      BY <2>3 DEF healthVars, processVars
    <2> QED
      BY <2>1, <2>2, <2>3, <2>4
      DEF WorkerThread, Worker, Panic, Stall, Recv, Handle, DrainOne, DrainDone, Tick, TickToken,
          TickEnd, TickAbort, TickDone
  <1> QED
    BY <1>1, <1>3, <1>4, <1>5
    DEF TypeOK, GaugesType, HandlersType, ChannelsType, WorkerType, ProcessType, EventSeq, Kinds

\* SIGTERM, the drain task and the end of main.
ProcessStep == Shutdown \/ Cleaned \/ Sigterm

\* What the signal, the drain task and main never touch.
LEMMA ProcessFrame ==
    ASSUME ProcessStep
    PROVE  UNCHANGED <<handlerVars, channelVars, workerVars, healthVars, cap>>
  BY DEF ProcessStep, Shutdown, DrainOver, AxumReturns, MainReturns, Cleaned, Sigterm

\* They keep the type.
LEMMA ProcessStepType ==
    ASSUME TypeOK, ProcessStep
    PROVE  TypeOK'
  <1>1. draining' \in BOOLEAN /\ drain' \in {"waiting", "polling", "released", "returned", "cleaned"}
        /\ proc' \in {"up", "exit0", "exit70"}
    BY DEF TypeOK, ProcessStep, Shutdown, DrainOver, AxumReturns, MainReturns, Cleaned, Sigterm
  <1> QED
    BY <1>1, ProcessFrame DEF TypeOK, handlerVars, channelVars, workerVars, healthVars

\* Every step is a handler's, the worker thread's or the process's.
LEMMA NextCases ==
    ASSUME [Next]_vars
    PROVE  \/ \E r \in Requests : Handler(r) \/ Arrive(r) \/ Disconnect(r)
           \/ WorkerThread
           \/ ProcessStep
           \/ UNCHANGED vars
  BY DEF Next, Environment, WorkerThread, ProcessStep

-----------------------------------------------------------------------------
(* The gauges count exactly. *)

LanesExact == \A l \in Lanes : inflight[l] = Cardinality(LaneHolders(l))
TenantsExact ==
    \A t \in Tenants : tenants[t] = Cardinality(TenantHolders(t)) /\ tenants[t] <= cap[t]

\* The exact gauges, lane by lane and tenant by tenant.
LEMMA SlotsParts == SlotsExact <=> LanesExact /\ TenantsExact
  BY DEF SlotsExact, LanesExact, TenantsExact, LaneHolders, TenantHolders

\* A handler that moves between positions of one class changes no count.
LEMMA LanesKept ==
    ASSUME TypeOK, LanesExact, NEW r \in Requests, NEW x,
           pc' = [pc EXCEPT ![r] = x], UNCHANGED inflight,
           x \in HoldsLane <=> pc[r] \in HoldsLane
    PROVE  LanesExact'
  <1>1. \A l \in Lanes : LaneHolders(l)' = LaneHolders(l)
    BY DEF TypeOK, LaneHolders
  <1> QED
    BY <1>1 DEF LanesExact

\* The same for the tenants' counts.
LEMMA TenantsKept ==
    ASSUME TypeOK, TenantsExact, NEW r \in Requests, NEW x,
           pc' = [pc EXCEPT ![r] = x], UNCHANGED <<tenants, cap>>,
           x \in HoldsTenant <=> pc[r] \in HoldsTenant
    PROVE  TenantsExact'
  <1>1. \A t \in Tenants : TenantHolders(t)' = TenantHolders(t)
    BY DEF TypeOK, TenantHolders
  <1> QED
    BY <1>1 DEF TenantsExact

\* Handlers that only move within a class.
LEMMA SlotsKept ==
    ASSUME TypeOK, SlotsExact, NEW r \in Requests, NEW x,
           pc' = [pc EXCEPT ![r] = x], UNCHANGED <<inflight, tenants, cap>>,
           x \in HoldsLane <=> pc[r] \in HoldsLane,
           x \in HoldsTenant <=> pc[r] \in HoldsTenant
    PROVE  SlotsExact'
  <1>1. LanesExact /\ TenantsExact
    BY SlotsParts
  <1>2. LanesExact' /\ TenantsExact'
    BY <1>1, LanesKept, TenantsKept
  <1> QED
    BY <1>2 DEF SlotsExact, LanesExact, TenantsExact, LaneHolders, TenantHolders

\* Handlers keep the gauges exact: each count moves with its set of holders.
LEMMA HandlerSlots ==
    ASSUME TypeOK, SlotsExact, NEW r \in Requests,
           Handler(r) \/ Arrive(r) \/ Disconnect(r)
    PROVE  SlotsExact'
  <1> USE DEF HoldsLane, HoldsTenant
  <1>0. LanesExact /\ TenantsExact /\ cap' = cap
    BY SlotsParts, HandlerFrame DEF processVars
  <1>1. CASE Arrive(r)
    BY <1>1, <1>0, SlotsKept DEF Arrive, Goto
  <1>2. CASE TakeTenant(r)
    <2> DEFINE t == Tenant[r]
    <2>1. pc[r] = "admitted" /\ t \in Tenants /\ UNCHANGED inflight
      BY <1>2, TenantIsTenant DEF TakeTenant, Goto
    <2>2. CASE tenants[t] >= cap[t]
      <3>1. pc' = [pc EXCEPT ![r] = "end"] /\ tenants' = [tenants EXCEPT ![t] = @]
        BY <1>2, <2>2 DEF TakeTenant, Goto
      <3>2. tenants' = tenants
        BY <3>1, <2>1 DEF TypeOK
      <3> QED
        BY <1>0, <2>1, <3>1, <3>2, SlotsKept
    <2>3. CASE ~(tenants[t] >= cap[t])
      <3>1. pc' = [pc EXCEPT ![r] = "tenant"] /\ tenants' = [tenants EXCEPT ![t] = @ + 1]
        BY <1>2, <2>3 DEF TakeTenant, Goto
      <3>2. LanesExact'
        BY <1>0, <2>1, <3>1, LanesKept
      <3>3. TenantHolders(t)' = TenantHolders(t) \cup {r} /\ r \notin TenantHolders(t)
        BY <2>1, <3>1 DEF TenantHolders, TypeOK
      <3>4. Cardinality(TenantHolders(t)') = Cardinality(TenantHolders(t)) + 1
        BY <3>3, CountOneMore DEF TenantHolders
      <3>5. \A u \in Tenants \ {t} : TenantHolders(u)' = TenantHolders(u)
        BY <3>1 DEF TenantHolders, TypeOK
      <3>6. tenants[t] \in Nat /\ cap[t] \in Nat /\ tenants[t] + 1 <= cap[t]
        BY <2>1, <2>3 DEF TypeOK
      <3>7. TenantsExact'
        BY <1>0, <2>1, <3>1, <3>4, <3>5, <3>6 DEF TenantsExact, TypeOK
      <3> QED
        BY <3>2, <3>7 DEF SlotsExact, LanesExact, TenantsExact, LaneHolders, TenantHolders
    <2> QED
      BY <2>2, <2>3
  <1>3. CASE TakeLane(r)
    <2> DEFINE l == Lane(r)
    <2>1. /\ pc[r] = "tenant" /\ pc' = [pc EXCEPT ![r] = "slot"] /\ l \in Lanes
          /\ inflight' = [inflight EXCEPT ![l] = @ + 1] /\ UNCHANGED tenants
      BY <1>3, LaneIsLane DEF TakeLane, Goto
    <2>2. TenantsExact'
      BY <1>0, <2>1, TenantsKept
    <2>3. LaneHolders(l)' = LaneHolders(l) \cup {r} /\ r \notin LaneHolders(l)
      BY <2>1 DEF LaneHolders, TypeOK
    <2>4. Cardinality(LaneHolders(l)') = Cardinality(LaneHolders(l)) + 1
      BY <2>3, CountOneMore DEF LaneHolders
    <2>5. \A m \in Lanes \ {l} : LaneHolders(m)' = LaneHolders(m)
      BY <2>1 DEF LaneHolders, TypeOK
    <2>6. LanesExact'
      BY <1>0, <2>1, <2>4, <2>5 DEF LanesExact, TypeOK
    <2> QED
      BY <2>2, <2>6 DEF SlotsExact, LanesExact, TenantsExact, LaneHolders, TenantHolders
  <1>4. CASE RaisePending(r) \/ Send(r)
    BY <1>4, <1>0, SlotsKept DEF RaisePending, Send, Goto, Respond
  <1>5. CASE Peek(r)
    BY <1>5, <1>0, SlotsKept DEF Peek, Goto, Respond
  <1>6. CASE Receive(r)
    <2>1. CASE pc' = [pc EXCEPT ![r] = "drop_lane"]
      BY <1>6, <2>1, <1>0, SlotsKept DEF Receive
    <2>2. CASE UNCHANGED pc
      BY <1>6, <2>2, <1>0 DEF Receive, SlotsExact
    <2> QED
      BY <1>6, <2>1, <2>2 DEF Receive
  <1>7. CASE RelayEnds(r)
    BY <1>7, <1>0 DEF RelayEnds, handlerVars, SlotsExact
  <1>8. CASE Disconnect(r)
    BY <1>8, <1>0, SlotsKept DEF Disconnect
  <1>9. CASE DropLane(r)
    <2> DEFINE l == Lane(r)
    <2>1. /\ pc[r] = "drop_lane" /\ pc' = [pc EXCEPT ![r] = "drop_tenant"] /\ l \in Lanes
          /\ inflight' = [inflight EXCEPT ![l] = @ - 1] /\ UNCHANGED tenants
      BY <1>9, LaneIsLane DEF DropLane, Goto
    <2>2. TenantsExact'
      BY <1>0, <2>1, TenantsKept
    <2>3. LaneHolders(l)' = LaneHolders(l) \ {r} /\ r \in LaneHolders(l)
      BY <2>1 DEF LaneHolders, TypeOK
    <2>4. Cardinality(LaneHolders(l)') = Cardinality(LaneHolders(l)) - 1
      BY <2>3, CountOneLess DEF LaneHolders
    <2>5. \A m \in Lanes \ {l} : LaneHolders(m)' = LaneHolders(m)
      BY <2>1 DEF LaneHolders, TypeOK
    <2>6. LanesExact'
      BY <1>0, <2>1, <2>4, <2>5 DEF LanesExact, TypeOK
    <2> QED
      BY <2>2, <2>6 DEF SlotsExact, LanesExact, TenantsExact, LaneHolders, TenantHolders
  <1>10. CASE DropTenant(r)
    <2> DEFINE t == Tenant[r]
    <2>1. /\ pc[r] = "drop_tenant" /\ pc' = [pc EXCEPT ![r] = "end"] /\ t \in Tenants
          /\ tenants' = [tenants EXCEPT ![t] = @ - 1] /\ UNCHANGED inflight
      BY <1>10, TenantIsTenant DEF DropTenant, Goto
    <2>2. LanesExact'
      BY <1>0, <2>1, LanesKept
    <2>3. TenantHolders(t)' = TenantHolders(t) \ {r} /\ r \in TenantHolders(t)
      BY <2>1 DEF TenantHolders, TypeOK
    <2>4. Cardinality(TenantHolders(t)') = Cardinality(TenantHolders(t)) - 1
      BY <2>3, CountOneLess DEF TenantHolders
    <2>5. \A u \in Tenants \ {t} : TenantHolders(u)' = TenantHolders(u)
      BY <2>1 DEF TenantHolders, TypeOK
    <2>6. TenantsExact'
      BY <1>0, <2>1, <2>4, <2>5 DEF TenantsExact, TypeOK
    <2> QED
      BY <2>2, <2>6 DEF SlotsExact, LanesExact, TenantsExact, LaneHolders, TenantHolders
  <1> QED
    BY <1>1, <1>2, <1>3, <1>4, <1>5, <1>6, <1>7, <1>8, <1>9, <1>10 DEF Handler

\* Every step keeps type and gauges together; neither is inductive alone.
LEMMA NextSlots ==
    ASSUME TypeOK, SlotsExact, [Next]_vars
    PROVE  TypeOK' /\ SlotsExact'
  <1>1. ASSUME NEW r \in Requests, Handler(r) \/ Arrive(r) \/ Disconnect(r)
        PROVE  TypeOK' /\ SlotsExact'
    BY <1>1, HandlerType, HandlerSlots
  <1>2. CASE WorkerThread
    BY <1>2, WorkerStepType, WorkerFrame DEF handlerVars, SlotsExact
  <1>3. CASE ProcessStep
    BY <1>3, ProcessStepType, ProcessFrame DEF handlerVars, SlotsExact
  <1>4. CASE UNCHANGED vars
    BY <1>4 DEF vars, handlerVars, channelVars, workerVars, healthVars, processVars, TypeOK,
                SlotsExact
  <1> QED
    BY <1>1, <1>2, <1>3, <1>4, NextCases

-----------------------------------------------------------------------------
(* The strengthening that the other invariants need, part by part. *)

\* Only between recv and handle_cmd is there a command in the worker's hands,
\* and then exactly one.
GotOne == IF at \in {"popped", "handle"} THEN \E r \in Requests : got = {r} ELSE got = {}

\* The published phase where the supervisor or a tick stands.
PhaseAt ==
    /\ at \in {"backoff", "returned"} => phase = "DEAD"
    /\ at = "loading" => phase = "LOADING"
    /\ at \in {"handle", "drain", "tick", "more", "stalled"} => phase = "BUSY"

\* A handler answers exactly when it starts to drop its guard.
Leaving == {"drop_lane", "drop_tenant", "end"}
AnsweredLeaving == \A r \in Requests : ans[r] # "none" <=> pc[r] \in Leaving
DeafLeaving == \A r \in deaf : pc[r] \in Leaving

\* After axum::serve has returned there is no connection; main returns last.
NobodyLeft == drain \in {"returned", "cleaned"} => \A r \in Requests : ~Connected(r)
ExitCleaned == proc = "exit0" => drain = "cleaned"

\* Until the first panic, a client that waits has a sender or its last event.
Waiting == {"peek", "stream", "block"}
Ended(q) == q # <<>> /\ q[Len(q)] \in {"ok", "error"}
NoPanicYet == attempt = 0 /\ at # "caught"
Tracked ==
    NoPanicYet =>
        \A r \in Requests : pc[r] \in Waiting => SenderAlive(r) \/ Ended(events[r])

LifecycleInv ==
    /\ TypeOK /\ SlotsExact
    /\ GotOne /\ PendingExact
    /\ PhaseAt
    /\ AnsweredLeaving /\ DeafLeaving /\ NobodyLeft /\ ExitCleaned
    /\ Tracked /\ DroppedByPanic


-----------------------------------------------------------------------------
(* The strengthening holds initially. *)

\* Nobody holds anything in an initial state.
LEMMA InitInv == Init => LifecycleInv
  <1> SUFFICES ASSUME Init PROVE LifecycleInv
    OBVIOUS
  <1>1. TypeOK
    <2>1. cap \in [Tenants -> Nat]
      BY CapsAssumption DEF Init, CapsAssumption
    <2>2. GaugesType
      BY <2>1 DEF Init, GaugesType
    <2>3. HandlersType
      BY DEF Init, HandlersType, HandlerPcs, Answers
    <2>4. ChannelsType
      BY EventSeqs DEF Init, ChannelsType
    <2>5. WorkerType
      BY DEF Init, WorkerType, WorkerPcs, RunPcs
    <2>6. ProcessType
      BY DEF Init, ProcessType, Phases
    <2> QED
      BY <2>2, <2>3, <2>4, <2>5, <2>6, TypeParts
  <1>2. SlotsExact
    <2>1. \A l \in Lanes : LaneHolders(l) = {}
      BY DEF Init, LaneHolders, HoldsLane
    <2>2. \A t \in Tenants : TenantHolders(t) = {}
      BY DEF Init, TenantHolders, HoldsTenant, HoldsLane
    <2>3. LanesExact
      BY <2>1, FS_EmptySet DEF Init, LanesExact
    <2>4. TenantsExact
      <3>1. \A t \in Tenants : tenants[t] = 0 /\ cap[t] \in Nat
        BY <1>1 DEF Init, TypeOK
      <3> QED
        BY <2>2, <3>1, FS_EmptySet DEF TenantsExact
    <2> QED
      BY <2>3, <2>4, SlotsParts
  <1>3. GotOne /\ PhaseAt
    BY DEF Init, GotOne, PhaseAt
  <1>4. PendingExact
    <2>1. {r \in Requests : pc[r] = "raised"} = {}
      BY DEF Init
    <2>2. got = {} /\ cmds = <<>> /\ pending_admits = 0
      BY DEF Init
    <2>3. Cardinality(got) = 0 /\ Len(cmds) = 0
      BY <2>2, FS_EmptySet
    <2> QED
      BY <2>1, <2>2, <2>3, FS_EmptySet DEF PendingExact
  <1>5. AnsweredLeaving /\ DeafLeaving /\ NobodyLeft /\ ExitCleaned
    BY DEF Init, AnsweredLeaving, DeafLeaving, NobodyLeft, ExitCleaned, Leaving, Connected
  <1>6. Tracked /\ DroppedByPanic
    BY DEF Init, Tracked, DroppedByPanic, Waiting
  <1> QED
    BY <1>1, <1>2, <1>3, <1>4, <1>5, <1>6 DEF LifecycleInv

-----------------------------------------------------------------------------
(* The command in hand and the pending-admit gauge. *)

\* The worker thread has one command at most, and only until it is handled.
LEMMA NextGot ==
    ASSUME TypeOK, GotOne, [Next]_vars
    PROVE  GotOne'
  <1> USE DEF GotOne
  <1>1. ASSUME NEW r \in Requests, Handler(r) \/ Arrive(r) \/ Disconnect(r)
        PROVE  GotOne'
    BY <1>1, HandlerFrame DEF workerVars
  <1>2. CASE WorkerThread
    <2>1. CASE Recv
      <3>1. Head(cmds) \in Requests
        BY <2>1 DEF Recv, TypeOK
      <3> QED
        BY <2>1, <3>1 DEF Recv, Run
    <2>2. CASE Top \/ SetBusy \/ Handle \/ DrainOne \/ DrainDone
      BY <2>2 DEF Top, SetBusy, Handle, DrainOne, DrainDone, Run
    <2>3. CASE Tick
      BY <2>3 DEF Tick, TickToken, TickEnd, TickAbort, Step
    <2>4. CASE TickDone \/ RecvDisconnected \/ Panic \/ Stall
      BY <2>4 DEF TickDone, RecvDisconnected, Panic, Stall, Run
    <2>5. CASE Caught \/ Respawn \/ LoadOk \/ LoadFails
      BY <2>5 DEF Caught, Respawn, LoadOk, LoadFails, Run
    <2> QED
      BY <1>2, <2>1, <2>2, <2>3, <2>4, <2>5 DEF WorkerThread, Worker
  <1>3. CASE ProcessStep
    BY <1>3, ProcessFrame DEF workerVars
  <1>4. CASE UNCHANGED vars
    BY <1>4 DEF vars, workerVars
  <1> QED
    BY <1>1, <1>2, <1>3, <1>4, NextCases

\* handle_cmd finds the gauge above zero, so its checked_sub is a decrement.
LEMMA HandleCounts ==
    ASSUME TypeOK, NEW n \in Nat, pending_admits = n + 1, NEW r, HandleCmd(r)
    PROVE  pending_admits' = n
  BY DEF HandleCmd

\* What a command in hand counts for.
LEMMA GotCounts ==
    /\ Cardinality({}) = 0
    /\ \A r : Cardinality({r}) = 1
  BY FS_EmptySet, FS_Singleton

\* The gauge counts the announced, the queued and the one in hand.
LEMMA NextPending ==
    ASSUME TypeOK, GotOne, PendingExact, [Next]_vars
    PROVE  PendingExact'
  <1>0. /\ pending_admits = Cardinality(Raised) + Len(cmds) + Cardinality(got)
        /\ Raised \in SUBSET Requests /\ Cardinality(Raised) \in Nat
        /\ Len(cmds) \in Nat /\ Cardinality(got) \in Nat
    BY RequestSets DEF PendingExact, Raised, TypeOK
  <1>a. SUFFICES pending_admits' = Cardinality(Raised') + Len(cmds') + Cardinality(got')
    BY DEF PendingExact, Raised
  <1>1. ASSUME NEW r \in Requests, Handler(r) \/ Arrive(r) \/ Disconnect(r)
        PROVE  pending_admits' = Cardinality(Raised') + Len(cmds') + Cardinality(got')
    <2>0. UNCHANGED got
      BY <1>1, HandlerFrame DEF workerVars
    <2>1. CASE RaisePending(r)
      <3>1. Raised' = Raised \cup {r} /\ r \notin Raised
        BY <2>1 DEF RaisePending, Goto, Raised, TypeOK
      <3>2. Cardinality(Raised') = Cardinality(Raised) + 1
        BY <1>0, <3>1, CountOneMore
      <3> QED
        BY <1>0, <2>0, <2>1, <3>2 DEF RaisePending
    <2>2. CASE Send(r)
      <3>1. Raised' = Raised \ {r} /\ r \in Raised
        BY <2>2 DEF Send, Goto, Raised, Respond, TypeOK
      <3>2. Cardinality(Raised') = Cardinality(Raised) - 1
        BY <1>0, <3>1, CountOneLess
      <3>3. Len(cmds') = Len(cmds) + 1
        BY <2>2 DEF Send, TypeOK
      <3> QED
        BY <1>0, <2>0, <2>2, <3>2, <3>3 DEF Send
    <2>3. CASE UNCHANGED <<pending_admits, cmds>> /\ Raised' = Raised
      BY <1>0, <2>0, <2>3
    <2>4. CASE Arrive(r) \/ TakeTenant(r) \/ TakeLane(r) \/ DropLane(r) \/ DropTenant(r)
      <3>1. UNCHANGED <<pending_admits, cmds>>
        BY <2>4 DEF Arrive, TakeTenant, TakeLane, DropLane, DropTenant, channelVars
      <3>2. Raised' = Raised
        BY <2>4 DEF Arrive, TakeTenant, TakeLane, DropLane, DropTenant, Goto, Raised, TypeOK
      <3> QED
        BY <2>3, <3>1, <3>2
    <2>5. CASE Peek(r) \/ Receive(r) \/ RelayEnds(r) \/ Disconnect(r)
      <3>1. UNCHANGED <<pending_admits, cmds>>
        BY <2>5 DEF Peek, Receive, RelayEnds, Disconnect
      <3>2. CASE Peek(r)
        BY <2>3, <3>1, <3>2 DEF Peek, Goto, Respond, Raised, TypeOK
      <3>3. CASE Receive(r)
        BY <2>3, <3>1, <3>3 DEF Receive, Raised, TypeOK
      <3>4. CASE RelayEnds(r)
        BY <2>3, <3>1, <3>4 DEF RelayEnds, handlerVars, Raised
      <3>5. CASE Disconnect(r)
        BY <2>3, <3>1, <3>5 DEF Disconnect, Raised, TypeOK
      <3> QED
        BY <2>5, <3>2, <3>3, <3>4, <3>5
    <2> QED
      BY <1>1, <2>1, <2>2, <2>4, <2>5 DEF Handler
  <1>2. CASE WorkerThread
    <2>0. Raised' = Raised
      BY <1>2, WorkerFrame DEF handlerVars, Raised
    <2>1. CASE Recv
      <3>1. got = {} /\ got' = {Head(cmds)} /\ cmds # <<>> /\ cmds' = Tail(cmds)
            /\ UNCHANGED pending_admits
        BY <2>1 DEF Recv, Run, GotOne
      <3>2. Len(cmds') = Len(cmds) - 1
        BY <3>1 DEF TypeOK
      <3>3. Cardinality(got) = 0 /\ Cardinality(got') = 1
        BY <3>1, GotCounts
      <3>4. pending_admits' = pending_admits /\ Cardinality(Raised') = Cardinality(Raised)
        BY <2>0, <3>1
      <3> QED
        BY <1>0, <3>2, <3>3, <3>4
    <2>2. CASE Handle
      <3>1. PICK r \in Requests : got = {r}
        BY <2>2 DEF Handle, Run, GotOne
      <3>2. pending_admits = (Cardinality(Raised) + Len(cmds)) + 1 /\ HandleCmd(r)
            /\ got' = {} /\ UNCHANGED cmds
        BY <1>0, <2>2, <3>1, GotCounts DEF Handle
      <3>3. pending_admits' = Cardinality(Raised) + Len(cmds)
        BY <1>0, <3>2, HandleCounts
      <3> QED
        BY <1>0, <2>0, <3>2, <3>3, GotCounts
    <2>3. CASE DrainOne
      <3>1. got = {} /\ UNCHANGED got /\ cmds # <<>> /\ cmds' = Tail(cmds)
        BY <2>3 DEF DrainOne, Run, GotOne
      <3>2. Len(cmds') = Len(cmds) - 1 /\ Len(cmds) > 0
        BY <3>1 DEF TypeOK
      <3>3. /\ Cardinality(Raised) + Len(cmds') \in Nat
            /\ pending_admits = (Cardinality(Raised) + Len(cmds')) + 1
        BY <1>0, <3>1, <3>2, GotCounts
      <3>4. pending_admits' = Cardinality(Raised) + Len(cmds')
        BY <2>3, <3>3, HandleCounts DEF DrainOne
      <3> QED
        BY <1>0, <2>0, <3>1, <3>3, <3>4, GotCounts
    <2>4. CASE UNCHANGED <<pending_admits, cmds, got>>
      BY <1>0, <2>0, <2>4
    <2>5. CASE Panic
      BY <2>4, <2>5 DEF Panic, Run, GotOne, channelVars
    <2>6. CASE Top \/ SetBusy \/ DrainDone \/ TickDone \/ RecvDisconnected \/ Stall
      BY <2>4, <2>6 DEF Top, SetBusy, DrainDone, TickDone, RecvDisconnected, Stall, channelVars
    <2>7. CASE Tick
      BY <2>4, <2>7 DEF Tick, TickToken, TickEnd, TickAbort, channelVars
    <2>8. CASE Caught \/ Respawn \/ LoadOk \/ LoadFails
      BY <2>4, <2>8 DEF Caught, Respawn, LoadOk, LoadFails, channelVars
    <2> QED
      BY <1>2, <2>1, <2>2, <2>3, <2>5, <2>6, <2>7, <2>8 DEF WorkerThread, Worker
  <1>3. CASE UNCHANGED <<handlerVars, channelVars, workerVars>>
    <2>1. Raised' = Raised /\ UNCHANGED <<pending_admits, cmds, got>>
      BY <1>3 DEF handlerVars, channelVars, workerVars, Raised
    <2> QED
      BY <1>0, <2>1
  <1> QED
    BY <1>1, <1>2, <1>3, NextCases, ProcessFrame DEF vars


-----------------------------------------------------------------------------
(* The phase, the end of the connections and the end of the process. *)

\* The worker thread publishes its phase as it moves.
LEMMA NextPhase ==
    ASSUME PhaseAt, [Next]_vars
    PROVE  PhaseAt'
  <1> USE DEF PhaseAt
  <1>1. ASSUME NEW r \in Requests, Handler(r) \/ Arrive(r) \/ Disconnect(r)
        PROVE  PhaseAt'
    BY <1>1, HandlerFrame DEF workerVars, healthVars
  <1>2. CASE WorkerThread
    <2>1. CASE Top \/ Recv \/ SetBusy \/ Handle \/ DrainOne \/ DrainDone
      BY <2>1 DEF Top, Recv, SetBusy, Handle, DrainOne, DrainDone, Run, healthVars
    <2>2. CASE Tick
      BY <2>2 DEF Tick, TickToken, TickEnd, TickAbort, Step, healthVars
    <2>3. CASE TickDone \/ RecvDisconnected \/ Panic \/ Stall
      BY <2>3 DEF TickDone, RecvDisconnected, Panic, Stall, Run, healthVars
    <2>4. CASE Caught \/ Respawn \/ LoadOk \/ LoadFails
      BY <2>4 DEF Caught, Respawn, LoadOk, LoadFails, Run
    <2> QED
      BY <1>2, <2>1, <2>2, <2>3, <2>4 DEF WorkerThread, Worker
  <1>3. CASE UNCHANGED <<workerVars, healthVars>>
    BY <1>3 DEF workerVars, healthVars
  <1> QED
    BY <1>1, <1>2, <1>3, NextCases, ProcessFrame DEF vars

\* A handler starts to leave with its answer, in one step.
LEMMA HandlerAnswers ==
    ASSUME TypeOK, AnsweredLeaving, NEW r \in Requests,
           Handler(r) \/ Arrive(r) \/ Disconnect(r)
    PROVE  AnsweredLeaving'
  <1> USE DEF TypeOK, AnsweredLeaving, Leaving
  <1>1. CASE Arrive(r)
    BY <1>1 DEF Arrive, Goto
  <1>2. CASE TakeTenant(r)
    BY <1>2 DEF TakeTenant, Goto
  <1>3. CASE TakeLane(r) \/ RaisePending(r) \/ DropLane(r) \/ DropTenant(r)
    BY <1>3 DEF TakeLane, RaisePending, DropLane, DropTenant, Goto
  <1>4. CASE Send(r)
    BY <1>4 DEF Send, Goto, Respond
  <1>5. CASE Peek(r)
    BY <1>5 DEF Peek, Goto, Respond
  <1>6. CASE Receive(r)
    <2>1. CASE UNCHANGED <<pc, ans>>
      BY <2>1
    <2>2. CASE pc' = [pc EXCEPT ![r] = "drop_lane"]
      <3>1. events[r] # <<>> => Head(events[r]) \in Kinds
        BY TypeParts, EventSeqs DEF ChannelsType
      <3>2. \E a : ans' = [ans EXCEPT ![r] = a] /\ a # "none"
        BY <1>6, <2>2, <3>1 DEF Receive, Kinds
      <3> QED
        BY <2>2, <3>2
    <2> QED
      BY <1>6, <2>1, <2>2 DEF Receive
  <1>7. CASE RelayEnds(r)
    BY <1>7 DEF RelayEnds, handlerVars
  <1>8. CASE Disconnect(r)
    BY <1>8 DEF Disconnect
  <1> QED
    BY <1>1, <1>2, <1>3, <1>4, <1>5, <1>6, <1>7, <1>8 DEF Handler

\* A receiver is dropped by a handler that leaves or has left, and nobody
\* comes back from leaving.
LEMMA HandlerDeaf ==
    ASSUME TypeOK, AnsweredLeaving, DeafLeaving, NEW r \in Requests,
           Handler(r) \/ Arrive(r) \/ Disconnect(r)
    PROVE  DeafLeaving'
  <1> USE DEF TypeOK, DeafLeaving, Leaving
  <1>1. CASE Arrive(r) \/ TakeTenant(r) \/ TakeLane(r) \/ DropLane(r) \/ DropTenant(r)
    BY <1>1 DEF Arrive, TakeTenant, TakeLane, DropLane, DropTenant, Goto, channelVars
  <1>2. CASE RaisePending(r) \/ Send(r)
    BY <1>2 DEF RaisePending, Send, Goto, Respond
  <1>3. CASE Peek(r)
    BY <1>3 DEF Peek, Goto, Respond, Deafen
  <1>4. CASE Receive(r)
    BY <1>4 DEF Receive, Deafen
  <1>5. CASE RelayEnds(r)
    BY <1>5 DEF RelayEnds, Deafen, handlerVars, AnsweredLeaving
  <1>6. CASE Disconnect(r)
    BY <1>6 DEF Disconnect, Deafen
  <1> QED
    BY <1>1, <1>2, <1>3, <1>4, <1>5, <1>6 DEF Handler

\* Once axum::serve has returned no handler moves any more.
LEMMA HandlerNobody ==
    ASSUME TypeOK, NobodyLeft, NEW r \in Requests,
           Handler(r) \/ Arrive(r) \/ Disconnect(r)
    PROVE  NobodyLeft'
  <1>0. drain' = drain
    BY HandlerFrame DEF processVars
  <1>1. CASE drain \in {"returned", "cleaned"}
    <2>1. pc[r] \in {"idle", "end"}
      BY <1>1 DEF NobodyLeft, Connected
    <2>2. UNCHANGED pc
      BY <1>1, <2>1
      DEF Handler, Arrive, Disconnect, TakeTenant, TakeLane, RaisePending, Send, Peek, Receive,
          RelayEnds, DropLane, DropTenant, Goto, handlerVars
    <2> QED
      BY <1>0, <2>2 DEF NobodyLeft, Connected
  <1>2. CASE drain \notin {"returned", "cleaned"}
    BY <1>0, <1>2 DEF NobodyLeft
  <1> QED
    BY <1>1, <1>2

\* The four facts about the ends, together.
Ends == AnsweredLeaving /\ DeafLeaving /\ NobodyLeft /\ ExitCleaned

\* Every step keeps them.
LEMMA NextEnds ==
    ASSUME TypeOK, Ends, [Next]_vars
    PROVE  Ends'
  <1> USE DEF Ends
  <1>1. ASSUME NEW r \in Requests, Handler(r) \/ Arrive(r) \/ Disconnect(r)
        PROVE  Ends'
    <2>1. ExitCleaned'
      BY <1>1, HandlerFrame DEF processVars, ExitCleaned
    <2> QED
      BY <1>1, <2>1, HandlerAnswers, HandlerDeaf, HandlerNobody
  <1>2. CASE WorkerThread
    <2>1. AnsweredLeaving' /\ DeafLeaving' /\ NobodyLeft'
      BY <1>2, WorkerFrame DEF handlerVars, AnsweredLeaving, DeafLeaving, NobodyLeft, Connected
    <2>2. proc' \in {proc, "exit70"}
      BY <1>2
      DEF WorkerThread, Worker, Panic, Stall, Top, Recv, SetBusy, Handle, DrainOne, DrainDone,
          Tick, TickToken, TickEnd, TickAbort, TickDone, RecvDisconnected, Caught, Respawn,
          LoadOk, LoadFails, processVars
    <2>3. ExitCleaned'
      BY <1>2, <2>2, WorkerFrame DEF ExitCleaned
    <2> QED
      BY <2>1, <2>3
  <1>3. CASE ProcessStep
    <2>1. AnsweredLeaving' /\ DeafLeaving'
      BY <1>3, ProcessFrame DEF handlerVars, channelVars, AnsweredLeaving, DeafLeaving
    <2>2. UNCHANGED pc
      BY <1>3, ProcessFrame DEF handlerVars
    <2>3. NobodyLeft'
      BY <1>3, <2>2
      DEF NobodyLeft, Connected, ProcessStep, Shutdown, DrainOver, AxumReturns, MainReturns,
          Cleaned, Sigterm
    <2>4. ExitCleaned'
      BY <1>3
      DEF ExitCleaned, Up, ProcessStep, Shutdown, DrainOver, AxumReturns, MainReturns, Cleaned,
          Sigterm
    <2> QED
      BY <2>1, <2>3, <2>4
  <1>4. CASE UNCHANGED vars
    BY <1>4
    DEF vars, handlerVars, channelVars, processVars, AnsweredLeaving, DeafLeaving, NobodyLeft,
        Connected, ExitCleaned
  <1> QED
    BY <1>1, <1>2, <1>3, <1>4, NextCases

-----------------------------------------------------------------------------
(* Whoever waits is served, until a panic. *)

\* A command that is sent is in the queue with those before it.
LEMMA QueueAppend ==
    ASSUME NEW q \in Seq(Requests), NEW r \in Requests
    PROVE  /\ \E i \in DOMAIN Append(q, r) : Append(q, r)[i] = r
           /\ \A s \in Requests : (\E i \in DOMAIN q : q[i] = s)
                  => \E i \in DOMAIN Append(q, r) : Append(q, r)[i] = s
  <1>1. DOMAIN Append(q, r) = 1 .. Len(q) + 1 /\ Append(q, r)[Len(q) + 1] = r
    OBVIOUS
  <1>2. \A i \in DOMAIN q : i \in DOMAIN Append(q, r) /\ Append(q, r)[i] = q[i]
    BY <1>1
  <1> QED
    BY <1>1, <1>2

\* Taking the head leaves the others.
LEMMA QueueTail ==
    ASSUME NEW q \in Seq(Requests), q # <<>>
    PROVE  \A s \in Requests : (\E i \in DOMAIN q : q[i] = s)
              => s = Head(q) \/ \E i \in DOMAIN Tail(q) : Tail(q)[i] = s
  <1> SUFFICES ASSUME NEW s \in Requests, NEW i \in DOMAIN q, q[i] = s, s # Head(q)
               PROVE  \E j \in DOMAIN Tail(q) : Tail(q)[j] = s
    OBVIOUS
  <1>1. i \in 1 .. Len(q) /\ i # 1
    OBVIOUS
  <1>2. DOMAIN Tail(q) = 1 .. Len(q) - 1
    OBVIOUS
  <1>3. i - 1 \in DOMAIN Tail(q)
    BY <1>1, <1>2
  <1>4. Tail(q)[i - 1] = q[i]
    BY <1>1, <1>2, <1>3
  <1> QED
    BY <1>3, <1>4

\* An ending event is the last one from when it is sent until it is received.
LEMMA EndedKept ==
    ASSUME NEW q \in EventSeq
    PROVE  /\ \A e \in {"ok", "error"} : Ended(Append(q, e))
           /\ q # <<>> /\ Head(q) = "token" /\ Ended(q) => Ended(Tail(q))
  <1>1. ASSUME NEW e \in {"ok", "error"}
        PROVE  Ended(Append(q, e))
    <2>1. Append(q, e) # <<>> /\ Append(q, e)[Len(Append(q, e))] = e
      BY DEF EventSeq, Kinds
    <2> QED
      BY <2>1 DEF Ended
  <1>2. ASSUME q # <<>>, Head(q) = "token", Ended(q)
        PROVE  Ended(Tail(q))
    <2>1. Len(q) \in Nat /\ q[Len(q)] \in {"ok", "error"} /\ q[1] = "token"
      BY <1>2 DEF Ended, EventSeq
    <2>2. Len(q) > 1
      BY <1>2, <2>1 DEF EventSeq
    <2>3. Len(Tail(q)) = Len(q) - 1 /\ Tail(q) # <<>>
      BY <1>2, <2>2 DEF EventSeq
    <2>4. Tail(q)[Len(q) - 1] = q[Len(q)]
      BY <1>2, <2>1, <2>2 DEF EventSeq
    <2> QED
      BY <2>1, <2>3, <2>4 DEF Ended
  <1> QED
    BY <1>1, <1>2

\* A handler step keeps its own request cared for and leaves the others alone.
LEMMA HandlerTracked ==
    ASSUME TypeOK, AnsweredLeaving, Tracked, NEW r \in Requests,
           Handler(r) \/ Arrive(r) \/ Disconnect(r)
    PROVE  Tracked'
  <1>0. /\ UNCHANGED <<held, got, attempt, at>>
        /\ ChannelsType /\ pc \in [Requests -> HandlerPcs]
    BY HandlerFrame, TypeParts DEF workerVars, HandlersType
  <1> SUFFICES ASSUME NoPanicYet, NEW s \in Requests, pc'[s] \in Waiting
               PROVE  SenderAlive(s)' \/ Ended(events'[s])
    BY <1>0 DEF Tracked, NoPanicYet
  <1> USE DEF Waiting
  <1>1. pc[s] \in Waiting => SenderAlive(s) \/ Ended(events[s])
    BY DEF Tracked
  <1>2. CASE ~Send(r)
    <2>0. UNCHANGED cmds
      BY <1>2
      DEF Handler, Arrive, Disconnect, TakeTenant, TakeLane, RaisePending, Peek, Receive,
          RelayEnds, DropLane, DropTenant, channelVars
    <2>1. SenderAlive(s)' <=> SenderAlive(s)
      BY <1>0, <2>0 DEF SenderAlive
    <2>2. CASE pc[s] \in Waiting /\ events'[s] = events[s]
      BY <1>1, <2>1, <2>2
    <2>3. CASE Arrive(r) \/ TakeTenant(r) \/ TakeLane(r) \/ DropLane(r) \/ DropTenant(r)
      BY <1>0, <2>2, <2>3
      DEF Arrive, TakeTenant, TakeLane, DropLane, DropTenant, Goto, channelVars
    <2>4. CASE RaisePending(r)
      BY <1>0, <2>2, <2>4 DEF RaisePending, Goto
    <2>5. CASE Peek(r)
      BY <1>0, <2>2, <2>5 DEF Peek, Goto, Deafen, ChannelsType
    <2>6. CASE Disconnect(r)
      BY <1>0, <2>2, <2>6 DEF Disconnect, Deafen, ChannelsType
    <2>7. CASE RelayEnds(r)
      <3>1. pc[r] \in Leaving /\ UNCHANGED pc
        BY <2>7 DEF RelayEnds, handlerVars, AnsweredLeaving
      <3> QED
        BY <1>0, <2>2, <2>7, <3>1 DEF RelayEnds, Deafen, ChannelsType, Leaving
    <2>8. CASE Receive(r)
      <3>1. CASE s # r
        BY <1>0, <2>2, <2>8, <3>1 DEF Receive, Deafen, ChannelsType
      <3>2. CASE s = r
        <4>1. events[r] # <<>> /\ Head(events[r]) = "token" /\ events'[r] = Tail(events[r])
              /\ UNCHANGED pc
          BY <1>0, <2>8, <3>2 DEF Receive, ChannelsType
        <4> QED
          BY <1>0, <1>1, <2>1, <3>2, <4>1, EndedKept DEF ChannelsType
      <3> QED
        BY <3>1, <3>2
    <2> QED
      BY <1>2, <2>3, <2>4, <2>5, <2>6, <2>7, <2>8 DEF Handler
  <1>3. CASE Send(r)
    <2>1. /\ pc' = [pc EXCEPT ![r] = pc'[r]] /\ cmds' = Append(cmds, r)
          /\ cmds \in Seq(Requests) /\ UNCHANGED events
      BY <1>0, <1>3 DEF Send, Goto, ChannelsType
    <2>2. CASE s = r
      BY <2>1, <2>2, QueueAppend DEF SenderAlive
    <2>3. CASE s # r
      <3>1. pc[s] \in Waiting
        BY <1>0, <2>1, <2>3
      <3>2. (\E i \in DOMAIN cmds : cmds[i] = s) => \E i \in DOMAIN cmds' : cmds'[i] = s
        BY <2>1, QueueAppend
      <3>3. SenderAlive(s) => SenderAlive(s)'
        BY <1>0, <3>2 DEF SenderAlive
      <3> QED
        BY <1>1, <2>1, <3>1, <3>3
    <2> QED
      BY <2>2, <2>3
  <1> QED
    BY <1>2, <1>3

\* A request that handle_cmd is given is held, or told its error, or has no
\* receiver left and nobody who waits; the others are not touched.
LEMMA HandleCares ==
    ASSUME TypeOK, DeafLeaving, NEW r \in Requests, HandleCmd(r)
    PROVE  /\ \A s \in Requests \ {r} : events'[s] = events[s]
           /\ held \subseteq held'
           /\ pc[r] \in Waiting => r \in held' \/ Ended(events'[r])
  <1>0. ChannelsType
    BY TypeParts
  <1>1. CASE held' = held \cup {r} /\ UNCHANGED events
    BY <1>1
  <1>2. CASE Tell(r, "error") /\ UNCHANGED held
    <2>1. \A s \in Requests \ {r} : events'[s] = events[s]
      BY <1>0, <1>2 DEF Tell, ChannelsType
    <2>2. ASSUME pc[r] \in Waiting
          PROVE  Ended(events'[r])
      <3>1. r \notin deaf
        BY <2>2 DEF DeafLeaving, Leaving, Waiting
      <3>2. events'[r] = Append(events[r], "error") /\ events[r] \in EventSeq
        BY <1>0, <1>2, <3>1 DEF Tell, ChannelsType
      <3> QED
        BY <3>2, EndedKept
    <2> QED
      BY <1>2, <2>1, <2>2
  <1> QED
    BY <1>1, <1>2 DEF HandleCmd

\* A step of the worker thread that drops a sender has sent the last event,
\* finds nobody waiting, or is a panic.
LEMMA WorkerTracked ==
    ASSUME TypeOK, GotOne, DeafLeaving, NobodyLeft, Tracked, WorkerThread
    PROVE  Tracked'
  <1>0. /\ ChannelsType /\ WorkerType
        /\ UNCHANGED <<pc, deaf>>
        /\ cmds # <<>> => Head(cmds) \in Requests
    BY WorkerFrame, TypeParts DEF handlerVars, ChannelsType
  <1> SUFFICES ASSUME NoPanicYet', NEW s \in Requests, pc[s] \in Waiting
               PROVE  SenderAlive(s)' \/ Ended(events'[s])
    BY <1>0 DEF Tracked
  <1>1. NoPanicYet
    <2>1. CASE Caught
      BY <2>1, <1>0 DEF Caught, NoPanicYet, WorkerType
    <2>2. CASE ~Caught
      <3>1. at # "caught"
        BY <2>2
        DEF WorkerThread, Worker, Panic, Stall, Top, Recv, SetBusy, Handle, DrainOne, DrainDone,
            Tick, TickToken, TickEnd, TickAbort, TickDone, RecvDisconnected, Respawn, LoadOk,
            LoadFails, Run, Step
      <3>2. UNCHANGED attempt
        BY <2>2
        DEF WorkerThread, Worker, Panic, Stall, Top, Recv, SetBusy, Handle, DrainOne, DrainDone,
            Tick, TickToken, TickEnd, TickAbort, TickDone, RecvDisconnected, Respawn, LoadOk,
            LoadFails
      <3> QED
        BY <3>1, <3>2 DEF NoPanicYet
    <2> QED
      BY <2>1, <2>2
  <1>2. SenderAlive(s) \/ Ended(events[s])
    BY <1>1 DEF Tracked
  <1>3. s \notin deaf
    BY DEF DeafLeaving, Leaving, Waiting
  <1>4. cmds # <<>> /\ cmds' = Tail(cmds) =>
            ((\E i \in DOMAIN cmds : cmds[i] = s) =>
                s = Head(cmds) \/ \E i \in DOMAIN cmds' : cmds'[i] = s)
    BY <1>0, QueueTail DEF ChannelsType
  <1>5. CASE UNCHANGED <<cmds, got, held>> /\ events'[s] = events[s]
    BY <1>2, <1>5 DEF SenderAlive
  <1>6. CASE Recv
    BY <1>2, <1>4, <1>6 DEF Recv, Run, GotOne, SenderAlive
  <1>7. CASE Handle
    <2>1. PICK r \in Requests : got = {r} /\ HandleCmd(r)
      BY <1>7 DEF Handle, Run, GotOne
    <2>2. CASE s = r
      BY <2>1, <2>2, HandleCares DEF SenderAlive
    <2>3. CASE s # r
      BY <1>2, <1>7, <2>1, <2>3, HandleCares DEF SenderAlive, Handle
    <2> QED
      BY <2>2, <2>3
  <1>8. CASE DrainOne
    <2>1. HandleCmd(Head(cmds)) /\ cmds # <<>> /\ cmds' = Tail(cmds) /\ UNCHANGED got
      BY <1>8 DEF DrainOne
    <2>2. CASE s = Head(cmds)
      BY <1>0, <2>1, <2>2, HandleCares DEF SenderAlive
    <2>3. CASE s # Head(cmds)
      BY <1>0, <1>2, <1>4, <2>1, <2>3, HandleCares DEF SenderAlive
    <2> QED
      BY <2>2, <2>3
  <1>9. CASE Tick
    <2>1. PICK r \in Requests :
             TickToken(r) \/ TickEnd(r, "ok") \/ TickEnd(r, "error") \/ TickAbort(r)
      BY <1>9 DEF Tick
    <2>2. CASE s # r
      <3>1. UNCHANGED <<cmds, got>> /\ held \ {r} \subseteq held' /\ events'[s] = events[s]
        BY <1>0, <2>1, <2>2 DEF TickToken, TickEnd, TickAbort, Tell, channelVars, ChannelsType
      <3> QED
        BY <1>2, <2>2, <3>1 DEF SenderAlive
    <2>3. CASE s = r /\ TickToken(r)
      BY <2>3 DEF TickToken, SenderAlive
    <2>4. ASSUME NEW e \in {"ok", "error"}, s = r, TickEnd(r, e)
          PROVE  Ended(events'[s])
      <3>1. events'[s] = Append(events[s], e) /\ events[s] \in EventSeq
        BY <1>0, <1>3, <2>4 DEF TickEnd, Tell, ChannelsType
      <3> QED
        BY <3>1, EndedKept
    <2>5. CASE s = r /\ TickAbort(r)
      BY <1>3, <2>5 DEF TickAbort
    <2> QED
      BY <2>1, <2>2, <2>3, <2>4, <2>5
  <1>10. CASE RecvDisconnected
    BY <1>10 DEF RecvDisconnected, NobodyLeft, Connected, Waiting
  <1>11. CASE Panic
    BY <1>11 DEF Panic, Run, NoPanicYet
  <1>12. CASE Top \/ SetBusy \/ DrainDone \/ TickDone \/ Stall
    BY <1>5, <1>12 DEF Top, SetBusy, DrainDone, TickDone, Stall, channelVars
  <1>13. CASE Caught \/ Respawn \/ LoadOk \/ LoadFails
    BY <1>5, <1>13 DEF Caught, Respawn, LoadOk, LoadFails, channelVars
  <1> QED
    BY <1>6, <1>7, <1>8, <1>9, <1>10, <1>11, <1>12, <1>13 DEF WorkerThread, Worker

\* Every step keeps the waiting ones tracked.
LEMMA NextTracked ==
    ASSUME TypeOK, GotOne, Ends, Tracked, [Next]_vars
    PROVE  Tracked'
  <1>1. ASSUME NEW r \in Requests, Handler(r) \/ Arrive(r) \/ Disconnect(r)
        PROVE  Tracked'
    BY <1>1, HandlerTracked DEF Ends
  <1>2. CASE WorkerThread
    BY <1>2, WorkerTracked DEF Ends
  <1>3. CASE UNCHANGED <<handlerVars, channelVars, workerVars>>
    <2>1. UNCHANGED <<pc, events, cmds, held, got, at, attempt>>
      BY <1>3 DEF handlerVars, channelVars, workerVars
    <2> QED
      BY <2>1 DEF Tracked, NoPanicYet, SenderAlive
  <1> QED
    BY <1>1, <1>2, <1>3, NextCases, ProcessFrame DEF vars

\* Only a closed channel gives the two answers, and before the first panic no
\* channel with a waiting reader is closed; a panic is never forgotten.
LEMMA NextDropped ==
    ASSUME TypeOK, Tracked, DroppedByPanic, [Next]_vars
    PROVE  DroppedByPanic'
  <1>1. ASSUME NEW r \in Requests, Handler(r) \/ Arrive(r) \/ Disconnect(r)
        PROVE  DroppedByPanic'
    <2>0. UNCHANGED <<attempt, at>> /\ ans \in [Requests -> Answers]
      BY <1>1, HandlerFrame DEF workerVars, TypeOK
    <2>1. CASE attempt > 0 \/ at = "caught"
      BY <2>0, <2>1 DEF DroppedByPanic
    <2>2. CASE ~(attempt > 0 \/ at = "caught")
      <3>1. NoPanicYet
        BY <2>2 DEF NoPanicYet, TypeOK
      <3>2. \A s \in Requests : ans[s] \notin {"cut", "closed"}
        BY <2>2 DEF DroppedByPanic
      <3>3. ans'[r] \notin {"cut", "closed"} /\ \A s \in Requests \ {r} : ans'[s] = ans[s]
        <4>1. CASE Receive(r)
          <5>1. SenderAlive(r) \/ Ended(events[r])
            BY <3>1, <4>1 DEF Tracked, Receive, Waiting
          <5>2. events[r] # <<>> \/ ~Closed(r)
            BY <5>1 DEF Closed, Ended
          <5>3. events[r] # <<>> => Head(events[r]) \in Kinds
            BY TypeParts, EventSeqs DEF ChannelsType
          <5> QED
            BY <2>0, <3>2, <4>1, <5>2, <5>3 DEF Receive, Kinds
        <4>2. CASE Arrive(r) \/ TakeTenant(r) \/ Peek(r) \/ Disconnect(r)
          BY <2>0, <3>2, <4>2 DEF Arrive, TakeTenant, Peek, Disconnect
        <4>3. CASE UNCHANGED ans
          BY <3>2, <4>3
        <4> QED
          BY <1>1, <4>1, <4>2, <4>3
          DEF Handler, TakeLane, RaisePending, Send, RelayEnds, DropLane, DropTenant, handlerVars
      <3> QED
        BY <3>2, <3>3 DEF DroppedByPanic
    <2> QED
      BY <2>1, <2>2
  <1>2. CASE WorkerThread
    <2>0. UNCHANGED ans /\ attempt \in Nat
      BY <1>2, WorkerFrame DEF handlerVars, TypeOK
    <2>1. CASE Caught
      BY <2>0, <2>1 DEF Caught, DroppedByPanic
    <2>2. CASE ~Caught
      <3>1. at # "caught"
        BY <1>2, <2>2
        DEF WorkerThread, Worker, Panic, Stall, Top, Recv, SetBusy, Handle, DrainOne, DrainDone,
            Tick, TickToken, TickEnd, TickAbort, TickDone, RecvDisconnected, Respawn, LoadOk,
            LoadFails, Run, Step
      <3>2. UNCHANGED attempt
        BY <1>2, <2>2
        DEF WorkerThread, Worker, Panic, Stall, Top, Recv, SetBusy, Handle, DrainOne, DrainDone,
            Tick, TickToken, TickEnd, TickAbort, TickDone, RecvDisconnected, Respawn, LoadOk,
            LoadFails
      <3> QED
        BY <2>0, <3>1, <3>2 DEF DroppedByPanic
    <2> QED
      BY <2>1, <2>2
  <1>3. CASE UNCHANGED <<handlerVars, workerVars>>
    BY <1>3 DEF handlerVars, workerVars, DroppedByPanic
  <1> QED
    BY <1>1, <1>2, <1>3, NextCases, ProcessFrame DEF vars

-----------------------------------------------------------------------------
(* The theorems. *)

\* The strengthening is inductive.
LEMMA NextInv == LifecycleInv /\ [Next]_vars => LifecycleInv'
  <1> SUFFICES ASSUME LifecycleInv, [Next]_vars PROVE LifecycleInv'
    OBVIOUS
  <1> USE DEF LifecycleInv
  <1>1. TypeOK' /\ SlotsExact'
    BY NextSlots
  <1>2. GotOne' /\ PendingExact' /\ PhaseAt'
    BY NextGot, NextPending, NextPhase
  <1>3. AnsweredLeaving' /\ DeafLeaving' /\ NobodyLeft' /\ ExitCleaned'
    BY NextEnds DEF Ends
  <1>4. Tracked' /\ DroppedByPanic'
    BY NextTracked, NextDropped DEF Ends
  <1> QED
    BY <1>1, <1>2, <1>3, <1>4

\* The strengthening holds in every reachable state of the process.
THEOREM LifecycleInvariant == Spec => []LifecycleInv
  BY InitInv, NextInv, PTL DEF Spec

\* Every variable keeps its type; the gauges, which are unsigned in the code
\* and lowered without a check, never run below zero.
THEOREM LifecycleTypeCorrect == Spec => []TypeOK
  <1>1. LifecycleInv => TypeOK
    BY DEF LifecycleInv
  <1> QED
    BY <1>1, LifecycleInvariant, PTL

\* The lane and tenant gauges count the guards held, and no tenant passes its
\* cap, for any number of requests and tenants (InflightGuard).
THEOREM SlotsCorrect == Spec => []SlotsExact
  <1>1. LifecycleInv => SlotsExact
    BY DEF LifecycleInv
  <1> QED
    BY <1>1, LifecycleInvariant, PTL

\* PENDING_ADMITS counts the announced requests across any number of panics.
THEOREM PendingCorrect == Spec => []PendingExact
  <1>1. LifecycleInv => PendingExact
    BY DEF LifecycleInv
  <1> QED
    BY <1>1, LifecycleInvariant, PTL

\* A client is cut off without an event only after a panic.
THEOREM DroppedCorrect == Spec => []DroppedByPanic
  <1>1. LifecycleInv => DroppedByPanic
    BY DEF LifecycleInv
  <1> QED
    BY <1>1, LifecycleInvariant, PTL

\* WorkerHealth::live does not answer Ok for a worker that is not there.
THEOREM LiveCorrect == Spec => []LiveMeansServing
  <1>1. LifecycleInv => LiveMeansServing
    BY DEF LifecycleInv, PhaseAt, LiveMeansServing, TypeOK, WorkerPcs
  <1> QED
    BY <1>1, LifecycleInvariant, PTL

\* An exit with 0 leaves no accepted request without an answer.
THEOREM CleanExitCorrect == Spec => []CleanExit
  <1>1. LifecycleInv => CleanExit
    BY DEF LifecycleInv, CleanExit, ExitCleaned, NobodyLeft, AnsweredLeaving, Leaving, Connected
  <1> QED
    BY <1>1, LifecycleInvariant, PTL

=============================================================================
