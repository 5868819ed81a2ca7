------------------------------- MODULE Server -------------------------------
(***************************************************************************)
(* The server process with its dark-lane runner: module Lifecycle's        *)
(* handlers, worker, supervisor and drain, and module DarkLane's runner    *)
(* reading the health phase and the pending-admit gauge they write.  main  *)
(* joins the runner after axum::serve has returned and before it exits.    *)
(***************************************************************************)
EXTENDS Lifecycle

VARIABLES cfg, quiet, stop, bg, job, runner, seen

INSTANCE DarkLane

bgVars == <<cfg, bg, job, runner, seen>>
serverVars == <<vars, quiet, stop, bgVars>>

ServerInit == Init /\ BgInit /\ quiet = FALSE /\ stop = FALSE

\* set_phase and beat_busy stamp the beat: it ages only while the worker stays
\* idle, and the stamp at the top of the loop makes it young again.
Stamp == quiet' = (quiet /\ phase' = "IDLE" /\ at # "top")

LifecycleStep ==
    /\ \/ \E r \in Requests : Handler(r)
       \/ Worker
       \/ Shutdown
       \/ Environment
    /\ Stamp
    /\ UNCHANGED <<stop, bgVars>>

RunnerStep == Up /\ Runner /\ UNCHANGED <<vars, cfg, quiet, stop>>

\* BgHandle::shutdown: raise the flag and join the thread.
BgStop ==
    /\ Up
    /\ drain = "returned"
    /\ ~stop
    /\ stop' = TRUE
    /\ UNCHANGED <<vars, quiet, bgVars>>

BgJoin == stop /\ runner = "gone" /\ Cleaned /\ UNCHANGED <<quiet, stop, bgVars>>

\* MEMRA_VALLEY_S of idleness pass.
Quieten ==
    /\ Up
    /\ phase = "IDLE"
    /\ ~quiet
    /\ quiet' = TRUE
    /\ UNCHANGED <<vars, stop, bgVars>>

JobStep ==
    /\ JobExits \/ (~Up /\ KernelKills)
    /\ UNCHANGED <<vars, cfg, quiet, stop>>

ServerNext == LifecycleStep \/ RunnerStep \/ BgStop \/ BgJoin \/ Quieten \/ JobStep

\* As in Lifecycle; the runner is a thread of its own, time passes, and the
\* kernel delivers the death signal.  The job owes nothing, nor does nvidia-smi.
ServerSpec ==
    /\ ServerInit /\ [][ServerNext]_serverVars
    /\ \A r \in Requests :
          WF_serverVars(pc[r] # "stream" /\ Handler(r) /\ Stamp /\ UNCHANGED <<stop, bgVars>>)
    /\ WF_serverVars(Worker /\ Stamp /\ UNCHANGED <<stop, bgVars>>)
    /\ WF_serverVars(Shutdown /\ Stamp /\ UNCHANGED <<stop, bgVars>>)
    /\ WF_serverVars(runner # "probe" /\ RunnerStep) /\ WF_serverVars(BgStop \/ BgJoin)
    /\ WF_serverVars(Quieten)
    /\ WF_serverVars(~Up /\ KernelKills /\ UNCHANGED <<vars, cfg, quiet, stop>>)

-----------------------------------------------------------------------------
(* Properties *)

\* Every variable of the composition has its type.
ServerTypeOK ==
    /\ TypeOK
    /\ quiet \in BOOLEAN /\ stop \in BOOLEAN /\ seen \in BOOLEAN
    /\ cfg \in BgConfigs /\ bg \in BgStates /\ job \in JobStates /\ runner \in RunnerPcs

\* The published state and the process agree: only a job that the runner
\* knows as yielded is stopped, a waiting, finished or failed job has no
\* process, and a server that is done with its runner leaves none behind.
JobKnown ==
    /\ job = "stopped" => bg = "YIELDED"
    /\ bg \in {"WAITING", "PREEMPTED", "REFUSED", "DONE", "FAILED"} => job = "none"
    /\ runner = "gone" \/ proc = "exit0" => job = "none"

\* Any traffic, queued or running.
Traffic == phase = "BUSY" \/ pending_admits > 0

\* Traffic gets the device: while it lasts the job does not go on running,
\* although the runner may start or resume it on a reading that has gone stale.
YieldsToTraffic ==
    (Traffic /\ job = "running") ~> (job # "running" \/ ~Traffic \/ ~Up)

\* A stopped job is not left frozen: it is resumed when the traffic is over,
\* woken to terminate, or killed with the server.
NeverFrozen == job = "stopped" ~> (job # "stopped" \/ at = "stalled")

\* nvidia-smi returns whenever it is run.
ProbesReturn == WF_serverVars(runner = "probe" /\ RunnerStep)

\* SIGTERM ends the process also with a job that ignores its signals, provided
\* that every client reads or hangs up and that the query tool returns.
ServerDrains ==
    ProbesReturn /\ (\A r \in Requests : ClientReads(r)) => (draining ~> Over)
=============================================================================
