---------------------------- MODULE ServerProofs ----------------------------
(***************************************************************************)
(* Proofs about Server: the composition with the dark-lane runner is a     *)
(* Lifecycle, so that module's invariants hold of it, and the runner keeps *)
(* its published state in agreement with the process it started.           *)
(***************************************************************************)
EXTENDS Server, LifecycleProofs

-----------------------------------------------------------------------------
(* The composition takes Lifecycle's steps only. *)

\* Runner, job and clock leave Lifecycle's variables alone, BgJoin is its
\* Cleaned, and every other step is one of its own.
LEMMA ServerStep ==
    ASSUME [ServerNext]_serverVars
    PROVE  [Next]_vars
  <1>1. CASE LifecycleStep
    BY <1>1 DEF LifecycleStep, Next
  <1>2. CASE BgJoin
    BY <1>2 DEF BgJoin, Next
  <1>3. CASE RunnerStep \/ BgStop \/ Quieten \/ JobStep \/ UNCHANGED serverVars
    BY <1>3 DEF RunnerStep, BgStop, Quieten, JobStep, serverVars
  <1> QED
    BY <1>1, <1>2, <1>3 DEF ServerNext

\* Server implements the safety part of Lifecycle: what the handlers, the
\* worker and the drain do is not changed by a runner beside them.
THEOREM ServerImplementsLifecycle == ServerSpec => Init /\ [][Next]_vars
  <1>1. ServerInit => Init
    BY DEF ServerInit
  <1>2. [ServerNext]_serverVars => [Next]_vars
    BY ServerStep
  <1> QED
    BY <1>1, <1>2, PTL DEF ServerSpec

-----------------------------------------------------------------------------
(* The runner and its job. *)

BgType ==
    /\ quiet \in BOOLEAN /\ stop \in BOOLEAN /\ seen \in BOOLEAN
    /\ cfg \in BgConfigs /\ bg \in BgStates /\ job \in JobStates /\ runner \in RunnerPcs

\* Where the runner stands tells the state it has published, and main lets go
\* of a runner only after the thread has ended.
RunnerAt ==
    /\ runner \in {"launch", "probe"} => bg \in {"WAITING", "PREEMPTED", "REFUSED"}
    /\ runner \in {"busy", "preempt", "kill"} => bg = "RUNNING"
    /\ runner = "resume" => bg = "YIELDED"
    /\ runner = "gone" => job = "none"
    /\ drain = "cleaned" => runner = "gone"

\* The first two parts of JobKnown.
JobPublished ==
    /\ job = "stopped" => bg = "YIELDED"
    /\ bg \in {"WAITING", "PREEMPTED", "REFUSED", "DONE", "FAILED"} => job = "none"

ServerInv == LifecycleInv /\ BgType /\ RunnerAt /\ JobPublished


\* The runner starts with nothing.
LEMMA ServerInitInv == ServerInit => ServerInv
  <1> SUFFICES ASSUME ServerInit PROVE ServerInv
    OBVIOUS
  <1>1. LifecycleInv
    BY InitInv DEF ServerInit
  <1>2. BgType /\ JobPublished
    BY DEF ServerInit, BgInit, BgType, JobPublished, BgStates, JobStates, RunnerPcs
  <1>3. RunnerAt
    BY DEF ServerInit, Init, BgInit, RunnerAt
  <1> QED
    BY <1>1, <1>2, <1>3 DEF ServerInv

\* What the server's steps other than the runner's and the job's leave alone.
LEMMA BgFrame ==
    ASSUME LifecycleStep \/ BgStop \/ BgJoin \/ Quieten \/ UNCHANGED serverVars
    PROVE  UNCHANGED <<cfg, bg, job, runner, seen>>
  BY DEF LifecycleStep, BgStop, BgJoin, Quieten, serverVars, bgVars

\* What an exit means is a state in which there is no process.
LEMMA ExitStates ==
    \A s \in Exited, p \in BOOLEAN : AfterExit(s, p) \in {"DONE", "PREEMPTED", "FAILED"}
  BY DEF AfterExit, Exited

\* The runner's own steps.
LEMMA RunnerKeeps ==
    ASSUME BgType, RunnerAt, JobPublished, Runner, UNCHANGED <<cfg, quiet, stop, drain>>
    PROVE  BgType' /\ RunnerAt' /\ JobPublished'
  <1> USE DEF RunnerAt, JobPublished
  <1>0. UNCHANGED <<cfg, quiet, stop>> /\ drain # "cleaned" /\ drain' = drain
    BY DEF Runner, PollLaunch, PollResume, PollExit, PollBusy, Launch, Probe, Yield, Resume,
           PreemptWait, PreemptKill, Break, Terminate
  <1>1. seen' \in BOOLEAN
    BY DEF BgType, Runner, PollLaunch, PollResume, PollExit, PollBusy, Launch, Probe, Yield,
           Resume, PreemptWait, PreemptKill, Break, Terminate
  <1>2. bg' \in BgStates /\ job' \in JobStates /\ runner' \in RunnerPcs /\ RunnerAt' /\ JobPublished'
    <2> USE <1>0 DEF BgType, BgStates, JobStates, RunnerPcs
    <2>1. CASE PollLaunch
      BY <2>1 DEF PollLaunch
    <2>2. CASE PollResume
      BY <2>2 DEF PollResume
    <2>3. CASE PollExit
      BY <2>3, ExitStates DEF PollExit
    <2>4. CASE PollBusy
      BY <2>4 DEF PollBusy
    <2>5. CASE Launch
      BY <2>5 DEF Launch, Spawn
    <2>6. CASE Yield
      BY <2>6 DEF Yield
    <2>7. CASE Resume
      BY <2>7 DEF Resume
    <2>8. CASE PreemptWait
      BY <2>8, ExitStates DEF PreemptWait
    <2>9. CASE Break
      BY <2>9 DEF Break, Exited
    <2>10. CASE Terminate
      BY <2>10 DEF Terminate
    <2>11. CASE Probe
      BY <2>11 DEF Probe, Spawn
    <2>12. CASE PreemptKill
      BY <2>12 DEF PreemptKill
    <2> QED
      BY <2>1, <2>2, <2>3, <2>4, <2>5, <2>6, <2>7, <2>8, <2>9, <2>10, <2>11, <2>12 DEF Runner
  <1>3. BgType'
    BY <1>0, <1>1, <1>2, Zenon DEF BgType
  <1> QED
    BY <1>2, <1>3

\* The strengthening is inductive for the whole server.
LEMMA ServerNextInv == ServerInv /\ [ServerNext]_serverVars => ServerInv'
  <1> SUFFICES ASSUME ServerInv, [ServerNext]_serverVars PROVE ServerInv'
    OBVIOUS
  <1> USE DEF ServerInv
  <1>1. LifecycleInv'
    BY ServerStep, NextInv
  <1>2. CASE LifecycleStep \/ BgStop \/ Quieten \/ UNCHANGED serverVars
    <2>1. drain' = "cleaned" => drain = "cleaned"
      <3>1. ASSUME NEW r \in Requests, Handler(r) \/ Arrive(r) \/ Disconnect(r)
            PROVE  drain' = drain
        BY <3>1, HandlerFrame DEF processVars
      <3>2. ASSUME WorkerThread
            PROVE  drain' = drain
        BY <3>2, WorkerFrame
      <3>3. ASSUME Shutdown \/ Sigterm
            PROVE  drain' = "cleaned" => drain = "cleaned"
        BY <3>3 DEF Shutdown, DrainOver, AxumReturns, MainReturns, Sigterm
      <3>4. CASE LifecycleStep
        BY <3>1, <3>2, <3>3, <3>4 DEF LifecycleStep, Environment, WorkerThread
      <3> QED
        BY <1>2, <3>4 DEF BgStop, Quieten, serverVars, vars, processVars
    <2>2. RunnerAt' /\ JobPublished'
      BY <1>2, <2>1, BgFrame DEF RunnerAt, JobPublished
    <2>3. quiet' \in BOOLEAN
      BY <1>2 DEF LifecycleStep, Stamp, BgStop, Quieten, serverVars, BgType
    <2>4. stop' \in BOOLEAN
      BY <1>2 DEF LifecycleStep, BgStop, Quieten, serverVars, BgType
    <2>5. BgType'
      BY <1>2, <2>3, <2>4, BgFrame, Zenon DEF BgType
    <2> QED
      BY <1>1, <2>2, <2>5
  <1>3. CASE BgJoin
    <2>1. RunnerAt' /\ JobPublished'
      BY <1>3, BgFrame DEF BgJoin, RunnerAt, JobPublished
    <2>2. BgType'
      BY <1>3, BgFrame, Zenon DEF BgJoin, BgType
    <2> QED
      BY <1>1, <2>1, <2>2
  <1>4. CASE RunnerStep
    <2>1. UNCHANGED <<cfg, quiet, stop, drain>> /\ Runner
      BY <1>4 DEF RunnerStep, vars, processVars
    <2> QED
      BY <1>1, <2>1, RunnerKeeps
  <1>5. CASE JobStep
    <2>1. UNCHANGED <<cfg, quiet, stop, drain, bg, runner, seen>>
      BY <1>5 DEF JobStep, JobExits, KernelKills, vars, processVars
    <2>2. \/ job' = "none"
          \/ job = "running" /\ job' \in Exited
      BY <1>5 DEF JobStep, JobExits, KernelKills
    <2>3. RunnerAt' /\ JobPublished'
      BY <2>1, <2>2 DEF RunnerAt, JobPublished, Exited
    <2>4. job' \in JobStates
      BY <2>2 DEF JobStates
    <2>5. BgType'
      BY <2>1, <2>4, Zenon DEF BgType
    <2> QED
      BY <1>1, <2>3, <2>5
  <1> QED
    BY <1>2, <1>3, <1>4, <1>5 DEF ServerNext

-----------------------------------------------------------------------------
(* The theorems. *)

\* The strengthening, Lifecycle's included, holds of the composed server.
THEOREM ServerInvariant == ServerSpec => []ServerInv
  BY ServerInitInv, ServerNextInv, PTL DEF ServerSpec

\* Every variable of the composition keeps its type.
THEOREM ServerTypeCorrect == ServerSpec => []ServerTypeOK
  <1>1. ServerInv => ServerTypeOK
    BY DEF ServerInv, LifecycleInv, BgType, ServerTypeOK
  <1> QED
    BY <1>1, ServerInvariant, PTL

\* The published state and the job's process agree, and a server that is done
\* with its runner, or has exited with 0, leaves no process behind.
THEOREM JobKnownCorrect == ServerSpec => []JobKnown
  <1>1. ServerInv => JobKnown
    BY DEF ServerInv, LifecycleInv, ExitCleaned, RunnerAt, JobPublished, JobKnown
  <1> QED
    BY <1>1, ServerInvariant, PTL

\* A runner beside them changes nothing of what handlers, worker and drain
\* guarantee: the gauges stay exact and no client is dropped without a panic.
THEOREM ServerKeepsLifecycle ==
    ServerSpec => [](SlotsExact /\ PendingExact /\ DroppedByPanic /\ CleanExit)
  <1>1. ServerInv => SlotsExact /\ PendingExact /\ DroppedByPanic /\ CleanExit
    BY DEF ServerInv, LifecycleInv, CleanExit, ExitCleaned, NobodyLeft, AnsweredLeaving, Leaving,
           Connected
  <1> QED
    BY <1>1, ServerInvariant, PTL

=============================================================================
