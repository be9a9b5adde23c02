---------------------------- MODULE TunnelSession ----------------------------
(***************************************************************************)
(* One tunnel session: the class TunnelSession of tunnel/session.py.       *)
(*                                                                         *)
(* The session's main task walks through `_start`, pushing a cleanup step  *)
(* on an AsyncExitStack for every thing it acquires, then serves until     *)
(* something stops it, then unwinds the stack.  Around it run background   *)
(* tasks (the connection watcher, the interactive job's output, the        *)
(* heartbeats, the job monitor), steps that are shielded from cancellation *)
(* (`_finish`), threads that cannot be cancelled at all, the login         *)
(* connection and the scheduler.  Each may stop the tunnel at any await of *)
(* the main task; asyncio delivers that stop as a cancellation one loop    *)
(* iteration later.                                                        *)
(***************************************************************************)
EXTENDS Naturals, Sequences, FiniteSets

VARIABLES
  mode,     \* the profile's submission_mode, fixed for the session
  pc,       \* where the main task is: the step of `_start` it awaits, or after it
  stack,    \* the AsyncExitStack: cleanup steps, the last one to run first
  tasks,    \* background tasks that have not ended
  held,     \* what exists because of this session, in the process or outside
  step,     \* the steps that `_finish` shields, each in a task of its own
  dirs,     \* both `ensure_directory` calls of the gather are done
  why,      \* self._why, reduced to what stopped the tunnel
  phase,    \* self.status.phase
  cancel,   \* the cancellation `_stop` asks of the main task
  job,      \* the worker job, as the scheduler knows it
  jobFinished, \* self._job_finished
  lost,     \* the login connection ended with an error
  warned,   \* what a warning or a submission error told the user about
  late,     \* cleanup threads that timed out and still run
  presses   \* Ctrl+C presses so far

mainVars == <<pc, stack>>
heldVars == <<tasks, held>>
stepVars == <<step, dirs>>
stopVars == <<why, phase, cancel>>
jobVars  == <<job, jobFinished>>
toldVars == <<warned, late>>
envVars  == <<mode, lost, presses>>

vars == <<mainVars, heldVars, stepVars, stopVars, jobVars, toldVars, envVars>>

-----------------------------------------------------------------------------
Mode == {"BATCH", "INTERACTIVE"}

Interactive == mode = "INTERACTIVE"

Tasks     == {"watcher", "output", "heartbeats", "monitor"}
Resources == {"lock", "conn", "sftp", "ctl", "proc", "port", "block"}
Cleanups  == Tasks \cup Resources \cup {"job"}

\* The steps `_finish` shields.
Shielded == {"create", "submit", "publish"}

\* What a shielded step acquires.
Gives == [s \in Shielded |->
            CASE s = "create"  -> "ctl"
              [] s = "submit"  -> "job"
              [] s = "publish" -> "block"]

\* "applied": it has taken effect and has not returned; "abandoned": given up on
\* before it took effect, which it still may; "gone": given up on after.
StepState == {"idle", "running", "applied", "ok", "error", "abandoned", "gone"}

Starting == {"lock", "connect", "prepare", "sftp", "create", "lease", "submit",
             "start_command", "queue", "ready_port", "endpoint", "forward",
             "publish"}

PC == Starting \cup {"serve", "cleanup", "done", "killed"}

Phase == {"CONNECTING", "PREPARING", "SUBMITTING", "QUEUED", "STARTING",
          "SERVING", "STOPPING"}

Why == {"none", "interrupt", "ended", "lost", "failed"}

JobState == {"none", "pending", "running", "ended"}

JobAlive == job \in {"pending", "running"}

Ended == pc \in {"done", "killed"}

TypeOK ==
  /\ mode \in Mode
  /\ pc \in PC
  /\ stack \in Seq(Cleanups)
  /\ tasks \subseteq Tasks
  /\ held \subseteq Resources
  /\ step \in [Shielded -> StepState]
  /\ dirs \in BOOLEAN
  /\ why \in Why
  /\ phase \in Phase
  /\ cancel \in {"no", "requested", "delivered"}
  /\ job \in JobState
  /\ jobFinished \in BOOLEAN
  /\ lost \in BOOLEAN
  /\ warned \subseteq Cleanups
  /\ late \subseteq {"lock", "block"}
  /\ presses \in 0..2

Init ==
  /\ mode \in Mode
  /\ pc = "lock"
  /\ stack = <<>>
  /\ tasks = {}
  /\ held = {}
  /\ step = [s \in Shielded |-> "idle"]
  /\ dirs = FALSE
  /\ why = "none"
  /\ phase = "CONNECTING"
  /\ cancel = "no"
  /\ job = "none"
  /\ jobFinished = FALSE
  /\ lost = FALSE
  /\ warned = {}
  /\ late = {}
  /\ presses = 0

-----------------------------------------------------------------------------
(***************************************************************************)
(* Stopping.                                                               *)
(***************************************************************************)

\* Mutant of Blame: the operation that noticed the loss is blamed.
BlameOperation == "failed"

\* `_blame`: once the connection is lost, the loss and not the operation.
Blame == IF lost THEN "lost" ELSE "failed"

\* `_report(phase)`: once stopping, the tunnel stays stopping.
Report(p) == phase' = IF phase = "STOPPING" THEN phase ELSE p

\* Mutant of StopFromOutside: every cause stops the tunnel anew.
StopEveryTime(w) ==
  /\ why' = w
  /\ Report("STOPPING")
  /\ cancel' = "requested"

\* `_stop`, called by a background task or a loop callback: the first caller
\* says why, and cancels the main task.
StopFromOutside(w) ==
  IF why # "none"
    THEN UNCHANGED <<why, phase, cancel>>
    ELSE /\ why' = w
         /\ Report("STOPPING")
         /\ cancel' = "requested"

\* `run`'s `except Exception`: `_stop(_blame(error))` by the main task itself,
\* which then leaves the `async with` and so unwinds the stack.
MainFails ==
  /\ why' = IF why = "none" THEN Blame ELSE why
  /\ Report("STOPPING")
  /\ pc' = "cleanup"

-----------------------------------------------------------------------------
(***************************************************************************)
(* Starting: the main task, one action per await of `_start`.              *)
(***************************************************************************)

\* The main task is at the await of `p`, and nothing has cancelled it.
At(p) == pc = p /\ cancel = "no"

\* The next await is that of `p`; a shielded step starts running there.
Advance(p) ==
  /\ pc' = p
  /\ step' = IF p \in Shielded /\ ~(p = "submit" /\ Interactive)
               THEN [step EXCEPT ![p] = "running"] ELSE step

AcquireLock ==
  /\ At("lock")
  /\ held' = held \cup {"lock"}
  /\ stack' = Append(stack, "lock")
  /\ Advance("connect")
  /\ UNCHANGED <<tasks, dirs, stopVars, jobVars, toldVars, envVars>>

Connect ==
  /\ At("connect")
  /\ held' = held \cup {"conn"}
  /\ stack' = stack \o <<"conn", "watcher">>
  /\ tasks' = tasks \cup {"watcher"}
  /\ Report("PREPARING")
  /\ Advance("prepare")
  /\ UNCHANGED <<dirs, why, cancel, jobVars, toldVars, envVars>>

Prepare ==
  /\ At("prepare") /\ ~lost
  /\ Advance("sftp")
  /\ UNCHANGED <<stack, dirs, heldVars, stopVars, jobVars, toldVars, envVars>>

\* `_enter(host.sftp())`; the control directory's cleanup is pushed before the
\* directory is created.
EnterSftp ==
  /\ At("sftp") /\ ~lost
  /\ held' = held \cup {"sftp"}
  /\ stack' = stack \o <<"sftp", "ctl">>
  /\ Advance("create")
  /\ UNCHANGED <<tasks, dirs, stopVars, jobVars, toldVars, envVars>>

\* The two `ensure_directory` of the gather.
EnsureDirectories ==
  /\ pc = "create" /\ cancel # "delivered" /\ ~dirs /\ ~lost
  /\ dirs' = TRUE
  /\ UNCHANGED <<step, mainVars, heldVars, stopVars, jobVars, toldVars,
                 envVars>>

\* The gather returns.
ControlCreated ==
  /\ At("create") /\ dirs /\ step["create"] = "ok"
  /\ Advance("lease")
  /\ UNCHANGED <<stack, dirs, heldVars, stopVars, jobVars, toldVars, envVars>>

PublishFirstLease ==
  /\ At("lease") /\ ~lost
  /\ Report("SUBMITTING")
  /\ Advance("submit")
  /\ UNCHANGED <<stack, dirs, why, cancel, heldVars, jobVars, toldVars,
                 envVars>>

\* `submit_interactive`: the submission's process starts, and queues a job.
SubmissionOpens ==
  /\ Interactive
  /\ At("submit") /\ ~lost /\ "proc" \notin held
  /\ held' = held \cup {"proc"}
  /\ job' = "pending"
  /\ UNCHANGED <<tasks, jobFinished, mainVars, stepVars, stopVars, toldVars,
                 envVars>>

\* `submit_interactive` returns, having read the job ID.
SubmittedInteractive ==
  /\ Interactive
  /\ At("submit") /\ ~lost /\ "proc" \in held
  /\ stack' = stack \o <<"proc", "output", "job">>
  /\ tasks' = tasks \cup {"output"}
  /\ Report("QUEUED")
  /\ Advance("start_command")
  /\ UNCHANGED <<held, dirs, why, cancel, jobVars, toldVars, envVars>>

\* `_finish(scheduler.submit)` returns the job ID to `cancel_on_cleanup`.
SubmittedBatch ==
  /\ At("submit") /\ step["submit"] = "ok"
  /\ stack' = Append(stack, "job")
  /\ Report("QUEUED")
  /\ Advance("queue")
  /\ UNCHANGED <<dirs, why, cancel, heldVars, jobVars, toldVars, envVars>>

StartCommand ==
  /\ At("start_command") /\ ~lost
  /\ Advance("queue")
  /\ UNCHANGED <<stack, dirs, heldVars, stopVars, jobVars, toldVars, envVars>>

\* `_wait_for_running_job` returns the job's host.
JobRuns ==
  /\ At("queue") /\ ~lost /\ job = "running"
  /\ Report("STARTING")
  /\ Advance("ready_port")
  /\ UNCHANGED <<stack, dirs, why, cancel, heldVars, jobVars, toldVars,
                 envVars>>

\* `_wait_for_ready_port` returns; the status file may outlive its job.
ReadyPort ==
  /\ At("ready_port") /\ ~lost
  /\ stack' = Append(stack, "heartbeats")
  /\ tasks' = tasks \cup {"heartbeats"}
  /\ Advance("endpoint")
  /\ UNCHANGED <<held, dirs, stopVars, jobVars, toldVars, envVars>>

\* `_wait_for_worker_endpoint` has read the worker's banner.
EndpointAnswers ==
  /\ At("endpoint") /\ ~lost /\ job = "running"
  /\ Advance("forward")
  /\ UNCHANGED <<stack, dirs, heldVars, stopVars, jobVars, toldVars, envVars>>

\* Mutant of ForwardPort: the port would close before the block is withdrawn.
ForwardPortBlockFirst ==
  /\ At("forward")
  /\ held' = IF lost THEN held ELSE held \cup {"port"}
  /\ stack' = stack \o <<"block", "port">>
  /\ Advance("publish")
  /\ UNCHANGED <<tasks, dirs, stopVars, jobVars, toldVars, envVars>>

\* `forward_local_port` listens; a login connection already lost closes the
\* listener at once.  The block's withdrawal is pushed before it is published.
ForwardPort ==
  /\ At("forward")
  /\ held' = IF lost THEN held ELSE held \cup {"port"}
  /\ stack' = stack \o <<"port", "block">>
  /\ Advance("publish")
  /\ UNCHANGED <<tasks, dirs, stopVars, jobVars, toldVars, envVars>>

\* The host block is published: the tunnel serves.
Published ==
  /\ At("publish") /\ step["publish"] = "ok"
  /\ stack' = Append(stack, "monitor")
  /\ tasks' = tasks \cup {"monitor"}
  /\ Report("SERVING")
  /\ Advance("serve")
  /\ UNCHANGED <<held, dirs, why, cancel, jobVars, toldVars, envVars>>

\* Any step of `_start` raises: the alias is locked, the login fails, a remote
\* operation fails or times out, the job's state is unknown.  A submission
\* that fails closes its process, which ends its job.  The error is raised by
\* `run`, so the user is told.
StepFails ==
  /\ cancel = "no"
  /\ pc \in Starting
  /\ pc \in Shielded /\ ~(pc = "submit" /\ Interactive) =>
       step[pc] = "error" \/ (pc = "create" /\ ~dirs)
  /\ MainFails
  /\ IF pc = "submit" /\ Interactive
       THEN /\ held' = held \ {"proc"}
            /\ job' = IF "proc" \in held THEN "ended" ELSE job
       ELSE UNCHANGED <<held, job>>
  /\ warned' = IF pc \in Shielded THEN warned \cup {Gives[pc]} ELSE warned
  /\ UNCHANGED <<stack, tasks, cancel, jobFinished, late, stepVars, envVars>>

\* `_job_ended` in a wait of `_start`: the scheduler says the job has ended.
JobSeenEnded ==
  /\ cancel = "no"
  /\ pc \in {"queue", "ready_port", "endpoint"} /\ ~lost /\ job = "ended"
  /\ jobFinished' = TRUE
  /\ MainFails
  /\ UNCHANGED <<stack, cancel, job, heldVars, stepVars, toldVars, envVars>>

\* Ctrl+C at a prompt of the CLI's `connect` raises KeyboardInterrupt, which
\* `run` does not catch: the stack unwinds and `_stop` was never called.
PromptInterrupted ==
  /\ At("connect")
  /\ pc' = "cleanup"
  /\ UNCHANGED <<stack, heldVars, stepVars, stopVars, jobVars, toldVars,
                 envVars>>

-----------------------------------------------------------------------------
(***************************************************************************)
(* Cancellation of the main task, and the steps shielded from it.          *)
(***************************************************************************)

\* The main task waits in `_finish` for the shielded step it was cancelled in.
\* In the gather only when nothing else is left of it: a cancelled
\* `ensure_directory` ends the gather at once.
WaitsInFinish ==
  /\ pc \in Shielded
  /\ pc = "submit" => ~Interactive
  /\ pc = "create" => dirs

\* CancelledError is raised at the main task's await.  An interactive
\* submission closes its process.
CancelDelivered ==
  /\ cancel = "requested"
  /\ pc \in Starting \cup {"serve"}
  /\ cancel' = "delivered"
  /\ pc' = IF WaitsInFinish THEN pc ELSE "cleanup"
  /\ IF pc = "submit" /\ Interactive
       THEN /\ held' = held \ {"proc"}
            /\ job' = IF "proc" \in held THEN "ended" ELSE job
       ELSE UNCHANGED <<held, job>>
  /\ UNCHANGED <<stack, tasks, why, phase, jobFinished, stepVars, toldVars,
                 envVars>>

\* Mutant of FinishedThenStops: `then` is not called once the tunnel stops.
FinishedUnregistered ==
  /\ cancel = "delivered" /\ pc \in Shielded
  /\ step[pc] \in {"ok", "error"}
  /\ pc' = "cleanup"
  /\ UNCHANGED <<stack, heldVars, stepVars, stopVars, jobVars, toldVars, envVars>>

\* The step ended while `_finish` held the stop back: `then` registers what it
\* acquired.  A step that failed is taken to have acquired nothing.
FinishedThenStops ==
  /\ cancel = "delivered" /\ pc \in Shielded
  /\ step[pc] \in {"ok", "error"}
  /\ stack' = IF pc = "submit" /\ step[pc] = "ok" THEN Append(stack, "job") ELSE stack
  /\ pc' = "cleanup"
  /\ UNCHANGED <<heldVars, stepVars, stopVars, jobVars, toldVars, envVars>>

\* `_finish` gives up on the step after the cleanup timeout and warns.  For the
\* control directory it may do so while the main task already cleans up.
GaveUpWaiting(s) ==
  /\ cancel = "delivered"
  /\ pc = s \/ (s = "create" /\ pc = "cleanup")
  /\ step[s] \in {"running", "applied"}
  /\ step' = [step EXCEPT ![s] = IF @ = "running" THEN "abandoned" ELSE "gone"]
  /\ warned' = warned \cup {Gives[s]}
  /\ pc' = "cleanup"
  /\ UNCHANGED <<stack, dirs, late, heldVars, stopVars, jobVars, envVars>>

\* A shielded step takes effect: mkdir by the SFTP server, bsub or qsub on the
\* login node, the block written by a thread.  One that was given up on can.
StepApplies(s) ==
  /\ step[s] \in {"running", "abandoned"}
  /\ pc # "killed"
  /\ step' = [step EXCEPT ![s] = IF @ = "running" THEN "applied" ELSE "gone"]
  /\ CASE s = "create"  -> "sftp" \in held /\ held' = held \cup {"ctl"} /\ job' = job
       [] s = "submit"  -> job' = "pending" /\ held' = held
       [] s = "publish" -> held' = held \cup {"block"} /\ job' = job
  /\ UNCHANGED <<tasks, dirs, jobFinished, mainVars, stopVars, toldVars,
                 envVars>>

\* It returns; a remote one needs the connection to.  `publish_host` also
\* returns, with a warning, when it could not write the block.
StepReturns(s) ==
  /\ ~Ended
  /\ \/ step[s] = "applied" /\ (s = "publish" \/ ~lost) /\ warned' = warned
     \/ step[s] = "running" /\ s = "publish" /\ warned' = warned \cup {"block"}
  /\ step' = [step EXCEPT ![s] = "ok"]
  /\ UNCHANGED <<dirs, late, mainVars, heldVars, stopVars, jobVars, envVars>>

\* It raises, before or after taking effect (an answer lost or not understood).
StepRaises(s) ==
  /\ ~Ended
  /\ step[s] \in {"running", "applied"}
  /\ step' = [step EXCEPT ![s] = "error"]
  /\ UNCHANGED <<dirs, mainVars, heldVars, stopVars, jobVars, toldVars,
                 envVars>>

ShieldedStep(s) ==
  \/ StepApplies(s)
  \/ StepReturns(s)
  \/ StepRaises(s)
  \/ GaveUpWaiting(s)

-----------------------------------------------------------------------------
(***************************************************************************)
(* Background tasks.  One that fails stops the tunnel (`_stop_on_failure`).*)
(***************************************************************************)

WatchConnection ==
  /\ "watcher" \in tasks /\ lost /\ ~Ended
  /\ tasks' = tasks \ {"watcher"}
  /\ StopFromOutside("lost")
  /\ UNCHANGED <<held, mainVars, stepVars, jobVars, toldVars, envVars>>

\* `_log_job_output` ends with the submission, and stops nothing.
OutputEnds ==
  /\ "output" \in tasks /\ ~Ended
  /\ lost \/ job = "ended"
  /\ tasks' = tasks \ {"output"}
  /\ UNCHANGED <<held, mainVars, stepVars, stopVars, jobVars, toldVars,
                 envVars>>

\* `_send_heartbeats`: a lease could not be written.
HeartbeatFails ==
  /\ "heartbeats" \in tasks /\ ~Ended
  /\ tasks' = tasks \ {"heartbeats"}
  /\ StopFromOutside(Blame)
  /\ UNCHANGED <<held, mainVars, stepVars, jobVars, toldVars, envVars>>

\* `_monitor_job`: the scheduler says that the job has ended.
MonitorSeesEnd ==
  /\ "monitor" \in tasks /\ ~Ended
  /\ job = "ended" /\ ~lost
  /\ jobFinished' = TRUE
  /\ tasks' = tasks \ {"monitor"}
  /\ StopFromOutside("ended")
  /\ UNCHANGED <<held, job, mainVars, stepVars, toldVars, envVars>>

\* Single strike: one failed query, or an unknown state.
MonitorFails ==
  /\ "monitor" \in tasks /\ ~Ended
  /\ tasks' = tasks \ {"monitor"}
  /\ StopFromOutside(Blame)
  /\ UNCHANGED <<held, mainVars, stepVars, jobVars, toldVars, envVars>>

-----------------------------------------------------------------------------
(***************************************************************************)
(* The outside world.                                                      *)
(***************************************************************************)

\* The login connection ends with an error, and everything on it with it; the
\* forwarded port's `login_closed` callback closes the listener.
ConnectionLost ==
  /\ "conn" \in held /\ ~Ended
  /\ lost' = TRUE
  /\ held' = held \ {"conn", "sftp", "proc", "port"}
  /\ UNCHANGED <<mode, tasks, presses, mainVars, stepVars, stopVars, jobVars,
                 toldVars>>

JobStarts ==
  /\ job = "pending" /\ ~Ended
  /\ job' = "running"
  /\ UNCHANGED <<jobFinished, mainVars, heldVars, stepVars, stopVars,
                 toldVars, envVars>>

JobEnds ==
  /\ JobAlive /\ ~Ended
  /\ job' = "ended"
  /\ UNCHANGED <<jobFinished, mainVars, heldVars, stepVars, stopVars,
                 toldVars, envVars>>

\* The first Ctrl+C calls `session.stop` from the event loop.
Interrupt ==
  /\ presses = 0
  /\ pc \notin {"lock", "done", "killed"}
  /\ presses' = 1
  /\ StopFromOutside("interrupt")
  /\ UNCHANGED <<mode, lost, mainVars, heldVars, stepVars, jobVars, toldVars>>

\* The second quits at once: only what lives in the process goes with it.
ForceQuit ==
  /\ presses = 1
  /\ ~Ended
  /\ presses' = 2
  /\ pc' = "killed"
  /\ tasks' = {}
  /\ held' = {r \in held : r \in {"ctl", "block"}}
  /\ late' = {}
  /\ UNCHANGED <<mode, stack, lost, warned, stepVars, stopVars, jobVars>>

-----------------------------------------------------------------------------
(***************************************************************************)
(* Cleaning up: the stack unwinds, the step pushed last first.             *)
(***************************************************************************)

Top == stack[Len(stack)]

Pop == stack' = SubSeq(stack, 1, Len(stack) - 1)

\* Mutant of Unwinding: a step that needs the login connection waits for it for ever.
UnwindingWithLogin ==
  /\ pc = "cleanup" /\ stack # <<>> /\ cancel # "requested"
  /\ Top \in {"job", "ctl", "sftp", "conn"} => ~lost

\* A cleanup step is running, and nothing cancelled it.
Unwinding == pc = "cleanup" /\ stack # <<>> /\ cancel # "requested"

\* `_stop_task`: the task is asked to end, then cancelled.  Stopping the output
\* closes the submission, unless its job is known to have ended.
StopTask ==
  /\ Unwinding /\ Top \in Tasks
  /\ tasks' = tasks \ {Top}
  /\ held' = IF Top = "output" /\ ~jobFinished THEN held \ {"proc"} ELSE held
  /\ Pop
  /\ UNCHANGED <<pc, stepVars, stopVars, jobVars, toldVars, envVars>>

\* What goes away with the resource `r`: closing the connection also ends what
\* runs over it.
Release(r) == IF r = "conn" THEN {"conn", "sftp", "proc", "port"} ELSE {r}

ReleaseResource ==
  /\ Unwinding /\ Top \in Resources \ {"ctl"}
  /\ held' = held \ Release(Top)
  /\ Pop
  /\ UNCHANGED <<pc, tasks, stepVars, stopVars, jobVars, toldVars, envVars>>

\* `control.close`: `rmtree` ignores errors, so it may leave the directory
\* without a word.
RemoveControlDirectory ==
  /\ Unwinding /\ Top = "ctl"
  /\ \/ ~lost /\ held' = held \ {"ctl"}
     \/ held' = held
  /\ Pop
  /\ UNCHANGED <<pc, tasks, stepVars, stopVars, jobVars, toldVars, envVars>>

\* `_cancel_job`, skipped once the scheduler said the job had ended.
CancelJob ==
  /\ Unwinding /\ Top = "job"
  /\ IF jobFinished THEN job' = job ELSE ~lost /\ job' = "ended"
  /\ Pop
  /\ UNCHANGED <<pc, jobFinished, heldVars, stepVars, stopVars, toldVars,
                 envVars>>

\* A cleanup step fails or times out: a warning, and the next one.  Closing the
\* port and the submission cannot fail; a thread that timed out runs on.
CleanupFails ==
  /\ Unwinding /\ Top \notin {"port", "proc"}
  /\ Top = "job" => ~jobFinished
  /\ warned' = warned \cup {Top}
  /\ late' = late \cup {r \in {"lock", "block"} : r = Top}
  /\ Pop
  /\ UNCHANGED <<pc, heldVars, stepVars, stopVars, jobVars, envVars>>

\* A stop that arrives while the stack unwinds cancels the running cleanup step.
CleanupCancelled ==
  /\ pc = "cleanup" /\ stack # <<>> /\ cancel = "requested"
  /\ cancel' = "delivered"
  /\ late' = late \cup {r \in {"lock", "block"} : r = Top}
  /\ Pop
  /\ UNCHANGED <<pc, why, phase, warned, heldVars, stepVars, jobVars, envVars>>

\* The thread of a cleanup step that timed out does its work after all.
LateThread(r) ==
  /\ r \in late
  /\ late' = late \ {r}
  /\ held' = held \ {r}
  /\ UNCHANGED <<tasks, warned, mainVars, stepVars, stopVars, jobVars,
                 envVars>>

\* `run` returns, or raises `self._error`.
RunReturns ==
  /\ pc = "cleanup" /\ stack = <<>>
  /\ pc' = "done"
  /\ UNCHANGED <<stack, heldVars, stepVars, stopVars, jobVars, toldVars,
                 envVars>>

Terminated == Ended /\ UNCHANGED vars

-----------------------------------------------------------------------------
Start ==
  \/ AcquireLock \/ Connect \/ Prepare \/ EnterSftp \/ EnsureDirectories
  \/ ControlCreated \/ PublishFirstLease \/ SubmissionOpens
  \/ SubmittedInteractive \/ SubmittedBatch \/ StartCommand \/ JobRuns
  \/ ReadyPort \/ EndpointAnswers \/ ForwardPort \/ Published
  \/ StepFails \/ JobSeenEnded \/ PromptInterrupted

Background ==
  \/ WatchConnection \/ OutputEnds \/ HeartbeatFails
  \/ MonitorSeesEnd \/ MonitorFails

Environment ==
  ConnectionLost \/ JobStarts \/ JobEnds \/ Interrupt \/ ForceQuit

Stopping == CancelDelivered \/ FinishedThenStops

Unwind ==
  \/ StopTask \/ ReleaseResource \/ RemoveControlDirectory \/ CancelJob
  \/ CleanupFails \/ CleanupCancelled \/ RunReturns

Next ==
  \/ Start \/ Background \/ Environment \/ Stopping \/ Unwind
  \/ \E s \in Shielded : ShieldedStep(s)
  \/ \E r \in {"lock", "block"} : LateThread(r)
  \/ Terminated

\* The event loop runs what is ready, `_finish` and every cleanup step have a
\* timeout, and the watcher and the monitor wake up.  Nothing is assumed of the
\* steps of `_start`, which may wait for a queue or for the user.
Fairness ==
  /\ WF_vars(Stopping)
  /\ WF_vars(Unwind)
  /\ \A s \in Shielded : WF_vars(GaveUpWaiting(s))
  /\ WF_vars(WatchConnection)
  /\ WF_vars(MonitorSeesEnd)

Spec == Init /\ [][Next]_vars /\ Fairness
-----------------------------------------------------------------------------
(***************************************************************************)
(* What a session promises.                                                *)
(***************************************************************************)

Registered == {stack[i] : i \in DOMAIN stack}

\* "Each step registers its cleanup": until the process is killed, every
\* background task, every local resource and a live job has a cleanup step still
\* to run, is being waited for by the step that acquires it, or was the subject
\* of a warning.  (The control directory is left out: its removal ignores
\* errors.  So are a job whose submission raised after queueing it, and an
\* interactive one, which ends with its submission, once the connection is lost.)
CleanupCovers ==
  pc # "killed" =>
    /\ tasks \subseteq Registered \cup warned
    /\ held \ {"ctl", "proc"} \subseteq Registered \cup warned \cup late
    /\ "proc" \in held => "proc" \in Registered \/ pc = "submit"
    /\ JobAlive => \/ "job" \in Registered \cup warned
                   \/ pc = "submit"
                   \/ step["submit"] = "error"
                   \/ Interactive /\ lost

\* What must still be there when a cleanup step runs: the connection for what is
\* done over it, the control directory for the heartbeats and the job that reads
\* them, the job for its monitor, the port for the block that points at it.
Needs == [c \in Cleanups |->
  CASE c = "lock"       -> {}
    [] c = "conn"       -> {"lock"}
    [] c = "watcher"    -> {"conn"}
    [] c = "sftp"       -> {"conn", "watcher"}
    [] c = "ctl"        -> {"sftp"}
    [] c = "proc"       -> {"conn"}
    [] c = "output"     -> {"proc"}
    [] c = "job"        -> {"conn", "ctl"}
    [] c = "heartbeats" -> {"ctl", "job"}
    [] c = "port"       -> {"lock"}
    [] c = "block"      -> {"lock", "port"}
    [] c = "monitor"    -> {"job", "conn"}]

\* The exit stack releases nothing before what needs it, however far `_start`
\* came and wherever it was stopped.
CleanupOrdered ==
  \A i \in DOMAIN stack :
    \A n \in Needs[stack[i]] : \E j \in 1..(i - 1) : stack[j] = n

\* The alias lock goes last: once a session no longer holds it (and another
\* tunnel for the alias may start), it has nothing left that it did not warn of.
LockReleasedLast ==
  pc \notin {"lock", "killed"} /\ "lock" \notin held =>
    /\ stack = <<>>
    /\ (held \cup tasks) \ {"ctl"} \subseteq warned

\* No stop interrupts a cleanup step, however many causes there are: at most the
\* release of the lock, when a prompt of `connect` was interrupted.
CleanupUninterrupted ==
  pc = "cleanup" /\ cancel = "requested" => Registered \subseteq {"lock"}

\* `_finish`: a stop waits for a submission and for a block being written.
StopWaitsForStep ==
  \A s \in {"submit", "publish"} :
    pc \in {"cleanup", "done"} => step[s] \notin {"running", "applied"}

\* The first stop is final: no later cause changes the reason or the phase, the
\* main task never gets further in `_start` and starts no task.
StopIsFinal ==
  [][why # "none" => /\ why' = why
                     /\ phase' = "STOPPING"
                     /\ pc' \in {pc, "cleanup", "done", "killed"}
                     /\ tasks' \subseteq tasks]_vars

\* `_blame`: a tunnel whose connection is lost never stops with the error of the
\* operation that noticed it.
LossIsBlamed ==
  [][why = "none" /\ lost => why' # "failed"]_vars

-----------------------------------------------------------------------------
(***************************************************************************)
(* The promise a session keeps, TunnelPromise, in its own terms.           *)
(***************************************************************************)

State ==
  CASE pc = "killed"                   -> "killed"
    [] pc = "done"                     -> "gone"
    [] pc = "cleanup"                  -> "stopping"
    [] pc = "serve" /\ why = "none"    -> "serving"
    [] pc \in Starting /\ why = "none" -> "starting"
    [] OTHER                           -> "stopping"

\* The control directory is left out: its removal ignores errors.
Left == (held \ {"ctl"}) \cup tasks \cup (IF JobAlive THEN {"job"} ELSE {})

\* Told by a warning or by the error of the submission; an interactive job ends
\* with its submission once the connection is lost.
Excused ==
  warned \cup late
    \cup (IF step["submit"] = "error" \/ (Interactive /\ lost) THEN {"job"} ELSE {})

\* A tunnel that serves is guarded: the watcher, the heartbeats and the monitor
\* all run (one that ends has stopped the tunnel), and OpenSSH finds its Host
\* block or the user was warned that it could not be written.
ServingIsGuarded ==
  State = "serving" =>
    /\ {"watcher", "heartbeats", "monitor"} \subseteq tasks
    /\ "block" \in held \cup warned

Promise == INSTANCE TunnelPromise WITH
  Alias    <- "lock",
  Guards   <- {"watcher", "heartbeats", "monitor"},
  Entry    <- "block",
  Links    <- {"conn", "sftp", "proc", "port", "output", "job"},
  Vital    <- {"conn", "job"},
  Deferred <- {"job", "block"},
  Causes   <- Why \ {"none"},
  state    <- State,
  cause    <- why,
  left     <- Left,
  excused  <- Excused

\* A session, in either mode, whatever the network, the scheduler and the user do
\* to it, takes only the steps of TunnelPromise: it serves under guard, its first
\* cause is final, the alias goes last, nothing is left that the user was not told
\* of.
KeepsPromise == Promise!Safe

\* ... and it is over soon once something stops it, or its connection or its job
\* is gone: `_finish` and each cleanup step have a timeout, and a broken tunnel is
\* noticed.
EndsSoon == Promise!EndsSoon

-----------------------------------------------------------------------------
(***************************************************************************)
(* What the comments claim and the code does not keep.                     *)
(***************************************************************************)

\* "so that a Host block never outlives the port it points at."
BlockNeverOutlivesPort == "block" \in held => "port" \in held

\* "if the tunnel stops meanwhile, `step` still finishes first, within the
\* cleanup timeout": here for the control directory.
StopWaitsForControlDirectory ==
  pc \in {"cleanup", "done"} /\ cancel = "delivered" =>
    step["create"] \notin {"running", "applied"}

\* "A step that failed acquired nothing".
FailedStepAcquiredNothing == step["submit"] = "error" => job = "none"
=============================================================================
