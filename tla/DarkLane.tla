------------------------------ MODULE DarkLane ------------------------------
(***************************************************************************)
(* The background-job runner of darklane.rs: a thread that starts a job    *)
(* when the worker has been idle for a while, gets it out of the way when  *)
(* traffic arrives, and cleans up at shutdown.  It reads the worker's      *)
(* health and the pending-admit gauge without a lock, in two loads; module *)
(* Server composes it with the processes that write them.                  *)
(***************************************************************************)
EXTENDS Naturals

VARIABLES
    cfg,     \* BgConfig, read once: the yield mode, and whether there is a VRAM budget
    phase, pending_admits,   \* written by worker and handlers
    quiet,   \* the worker's last beat is older than MEMRA_VALLEY_S
    stop,    \* BgHandle's stop flag
    bg,      \* BgJobState.state
    job,     \* the child process
    runner,  \* where runner_loop is
    seen     \* the first half of a signal read: what the snapshot said

BgStates == {"WAITING", "RUNNING", "YIELDED", "PREEMPTED", "DONE", "FAILED", "REFUSED"}

\* A process, stopped or not, or one that has exited and was not waited for.
Exited == {"exit0", "exit75", "exitX"}
JobStates == {"none", "running", "stopped"} \cup Exited

RunnerPcs == {"poll", "launch", "probe", "busy", "resume", "preempt", "kill",
              "term", "gone"}

BgConfigs == [yield_mode : {"stop", "checkpoint"}, vram_budget : BOOLEAN]

BgInit == cfg \in BgConfigs /\ bg = "WAITING" /\ job = "none" /\ runner = "poll" /\ seen = FALSE

-----------------------------------------------------------------------------
(* runner_loop: the poll, and the first load of the signal it needs *)

\* Mutant: an exit code that means nothing is published as it is.
AfterExitRaw(status, preempting) ==
    CASE status = "exit0" -> "DONE"
      [] status = "exit75" -> "PREEMPTED"
      [] OTHER -> IF preempting THEN "PREEMPTED" ELSE status

\* handle_exit: what an exit means for the job's future.
AfterExit(status, preempting) ==
    CASE status = "exit0" -> "DONE"
      [] status = "exit75" -> "PREEMPTED"
      [] OTHER -> IF preempting THEN "PREEMPTED" ELSE "FAILED"

\* in_valley needs a full threshold of quiet in IDLE.
PollLaunch ==
    /\ runner = "poll" /\ ~stop
    /\ bg \in {"WAITING", "PREEMPTED", "REFUSED"}
    /\ seen' = (phase = "IDLE" /\ quiet)
    /\ runner' = "launch"
    /\ UNCHANGED <<bg, job>>

PollResume ==
    /\ runner = "poll" /\ ~stop
    /\ bg = "YIELDED"
    /\ seen' = (phase = "IDLE" /\ quiet)
    /\ runner' = "resume"
    /\ UNCHANGED <<bg, job>>

\* A running job: an exit is looked for before anything is signalled.
PollExit ==
    /\ runner = "poll" /\ ~stop
    /\ bg = "RUNNING"
    /\ job \in Exited
    /\ bg' = AfterExit(job, FALSE)
    /\ job' = "none"
    /\ UNCHANGED <<runner, seen>>

\* Mutant: the valley's debounce is used to look for traffic.
PollBusyDebounced ==
    /\ runner = "poll" /\ ~stop
    /\ bg = "RUNNING"
    /\ job \notin Exited
    /\ seen' = (phase = "IDLE" \/ ~quiet)
    /\ runner' = "busy"
    /\ UNCHANGED <<bg, job>>

\* busy_now has no debounce: only a beat less than a millisecond old can make
\* an idle worker look busy.
PollBusy ==
    /\ runner = "poll" /\ ~stop
    /\ bg = "RUNNING"
    /\ job \notin Exited
    /\ \E young \in BOOLEAN :
        /\ young => ~quiet
        /\ seen' = (phase = "IDLE" /\ ~young)
    /\ runner' = "busy"
    /\ UNCHANGED <<bg, job>>

-----------------------------------------------------------------------------
(* The second load, of PENDING_ADMITS, and what follows from both *)

Valley == seen /\ pending_admits = 0

\* launch: the job starts, or it cannot be spawned.
Spawn ==
    \/ bg' = "RUNNING" /\ job' = "running"
    \/ bg' = "FAILED" /\ UNCHANGED job

\* A job with a VRAM budget is launched after a probe only.
Launch ==
    /\ runner = "launch"
    /\ seen' = FALSE
    /\ \/ ~Valley /\ runner' = "poll" /\ UNCHANGED <<bg, job>>
       \/ Valley /\ cfg.vram_budget /\ runner' = "probe" /\ UNCHANGED <<bg, job>>
       \/ Valley /\ ~cfg.vram_budget /\ runner' = "poll" /\ Spawn

\* nvidia_min_free_mb: nvidia-smi, run without a timeout, has returned.  What it
\* says does not fit or cannot be read, or the job is launched.
Probe ==
    /\ runner = "probe"
    /\ runner' = "poll"
    /\ (bg' = "REFUSED" /\ UNCHANGED job) \/ Spawn
    /\ UNCHANGED seen

\* Mutant: the stopped job is still published as running.
YieldUnpublished ==
    /\ runner = "busy"
    /\ seen' = FALSE
    /\ \/ Valley /\ runner' = "poll" /\ UNCHANGED <<bg, job>>
       \/ /\ ~Valley /\ cfg.yield_mode = "stop"
          /\ job' = IF job = "running" THEN "stopped" ELSE job
          /\ runner' = "poll"
          /\ UNCHANGED bg
       \/ ~Valley /\ cfg.yield_mode = "checkpoint" /\ runner' = "preempt" /\ UNCHANGED <<bg, job>>

\* SIGSTOP to the group, or SIGUSR1 and a bounded wait.
Yield ==
    /\ runner = "busy"
    /\ seen' = FALSE
    /\ \/ Valley /\ runner' = "poll" /\ UNCHANGED <<bg, job>>
       \/ /\ ~Valley /\ cfg.yield_mode = "stop"
          /\ job' = IF job = "running" THEN "stopped" ELSE job
          /\ bg' = "YIELDED"
          /\ runner' = "poll"
       \/ ~Valley /\ cfg.yield_mode = "checkpoint" /\ runner' = "preempt" /\ UNCHANGED <<bg, job>>

\* Mutant: resumed in name only.
ResumeUnsignalled ==
    /\ runner = "resume"
    /\ runner' = "poll"
    /\ seen' = FALSE
    /\ bg' = IF Valley THEN "RUNNING" ELSE bg
    /\ UNCHANGED job

\* SIGCONT.
Resume ==
    /\ runner = "resume"
    /\ runner' = "poll"
    /\ seen' = FALSE
    /\ bg' = IF Valley THEN "RUNNING" ELSE bg
    /\ job' = IF Valley /\ job = "stopped" THEN "running" ELSE job

\* Mutant: the wait has no deadline.
PreemptWaitUnbounded ==
    /\ runner = "preempt"
    /\ job \in Exited
    /\ runner' = "poll"
    /\ bg' = AfterExit(job, TRUE)
    /\ job' = "none"
    /\ UNCHANGED seen

\* preempt_wait: the job is seen to exit within its grace, or the grace passes.
PreemptWait ==
    /\ runner = "preempt"
    /\ \/ /\ job \in Exited
          /\ bg' = AfterExit(job, TRUE) /\ job' = "none" /\ runner' = "poll"
       \/ job \notin Exited /\ runner' = "kill" /\ UNCHANGED <<bg, job>>
    /\ UNCHANGED seen

\* The group is killed and the child waited for.  It may have exited since it was
\* last looked at; the status that wait returns is discarded.
PreemptKill ==
    /\ runner = "kill"
    /\ runner' = "poll"
    /\ bg' = "PREEMPTED" /\ job' = "none"
    /\ UNCHANGED seen

\* The loop ends, on the stop flag or in a terminal state.  A child is woken
\* so that it can act on the SIGTERM that follows.
Break ==
    /\ runner = "poll"
    /\ stop \/ bg \in {"DONE", "FAILED"}
    /\ runner' = IF job = "none" THEN "gone" ELSE "term"
    /\ job' = IF job = "stopped" THEN "running" ELSE job
    /\ UNCHANGED <<bg, seen>>

\* It exits within two seconds, or the group is killed; it is waited for.
Terminate ==
    /\ runner = "term"
    /\ runner' = "gone"
    /\ job' = "none"
    /\ UNCHANGED <<bg, seen>>

Runner ==
    \/ PollLaunch \/ PollResume \/ PollExit \/ PollBusy
    \/ Launch \/ Probe \/ Yield \/ Resume \/ PreemptWait \/ PreemptKill
    \/ Break \/ Terminate

\* The job ends by itself, or on the signal it was sent.
JobExits ==
    /\ job = "running"
    /\ job' \in Exited
    /\ UNCHANGED <<bg, runner, seen>>

\* PR_SET_PDEATHSIG: the kernel kills the child of a dead server.
KernelKills ==
    /\ job # "none"
    /\ job' = "none"
    /\ UNCHANGED <<bg, runner, seen>>
=============================================================================
