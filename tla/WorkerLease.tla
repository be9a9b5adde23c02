----------------------------- MODULE WorkerLease -----------------------------
(***************************************************************************)
(* The worker job and its lease: the shell programs WORKER_SCRIPT and      *)
(* WATCHDOG_SCRIPT of worker/job.py on the compute node, the tunnel's side *)
(* of the control directory (worker/control.py) and the heartbeats that    *)
(* renew the lease (tunnel/session.py).                                    *)
(*                                                                         *)
(* Time passes in ticks, Second of them to a second, because the watchdog  *)
(* counts in whole seconds ($SECONDS) and sleeps for one between polls.  A *)
(* step with a longest duration has a deadline that time cannot pass.      *)
(***************************************************************************)
EXTENDS Naturals, FiniteSets, FiniteSetsExt

CONSTANTS
  Second,     \* ticks per second
  Timeout,    \* worker_heartbeat_timeout_seconds
  Interval,   \* worker_heartbeat_interval_seconds, in ticks
  WriteMax,   \* longest time one publish_lease takes, in ticks
  ScanMax,    \* longest time one look at the leases takes, in ticks
  NoticeMax,  \* longest time from `ready` to the first heartbeat, in ticks
  Ports,      \* candidate ports of the worker
  QueueMax,   \* bound: the job waits no longer in the queue, in ticks
  RunMax,     \* bound: the job is started so many times
  LeftMax,    \* bound: so many stale leases could not be removed
  MaxNow      \* bound: time stops there

ASSUME TimingAssumption ==
  /\ {Second, Timeout, Interval, Ports, RunMax} \subseteq Nat \ {0}
  /\ {WriteMax, ScanMax, NoticeMax, QueueMax, LeftMax, MaxNow} \subseteq Nat

\* Mutant of Retain: only the latest lease is kept.
RetainOne == 1

Retain == 2   \* _LEASE_FILE_RETAIN_COUNT

VARIABLES
  now,        \* the time, in ticks
  tunnel,     \* the tunnel: waiting for `ready`, or where its heartbeats are
  due,        \* when the tunnel's step ends at the latest
  seq,        \* the sequence of its last lease
  leases,     \* lease files in the control directory
  dir,        \* the control directory exists
  status,     \* what the worker published last
  worker,     \* the worker script
  ports,      \* ports it has not tried
  sshd,       \* sshd runs
  strays,     \* processes that SSH clients left in sessions of their own
  dog,        \* the watchdog
  dogDue,     \* when its step ends at the latest
  glob,       \* lease files its scan has not read yet
  latest,     \* highest sequence its scan has read (0: none)
  lastSeq,    \* $last_sequence
  lastSeen,   \* $last_seen, in seconds
  reason,     \* why the watchdog cancels the job
  job,        \* the job, as the scheduler knows it
  run,        \* which of the job's runs it is: each is on a host of its own
  startDue,   \* when it leaves the queue at the latest
  host,       \* the run on whose host the tunnel relies (0: none yet)
  quietSince  \* when the tunnel's heartbeats ended, or the watchdog was armed
              \* if that was later

tunnelVars == <<tunnel, due, seq>>
fileVars   == <<leases, dir, status>>
workerVars == <<worker, ports, sshd, strays, job>>
runVars    == <<run, startDue, host>>
dogVars    == <<dog, dogDue, glob, latest, lastSeq, lastSeen, reason>>

vars == <<now, tunnelVars, fileVars, workerVars, dogVars, runVars, quietSince>>

Beating == {"write", "trim", "wait"}

Watching == {"arming", "poll", "scan", "sleep", "cancel"}

TypeOK ==
  /\ now \in 0..MaxNow
  /\ tunnel \in {"notice", "dead"} \cup Beating
  /\ seq \in Nat /\ leases \subseteq 1..seq
  /\ due \in Nat /\ dogDue \in Nat /\ quietSince \in Nat
  /\ latest \in Nat /\ lastSeq \in Nat /\ lastSeen \in Nat
  /\ dir \in BOOLEAN
  /\ status \in {"none", "ready", "failed", "stopped"}
  /\ worker \in {"queued", "binding", "announce", "arm", "serving", "ended"}
  /\ ports \in 0..Ports
  /\ sshd \in BOOLEAN /\ strays \in BOOLEAN
  /\ dog \in {"off", "done"} \cup Watching
  /\ glob \subseteq 1..seq
  /\ reason \in {"none", "sshd_exited", "heartbeat_timeout"}
  /\ job \in {"alive", "ended"}
  /\ run \in 1..RunMax /\ host \in 0..run /\ startDue \in Nat

\* The session has created the directory, written the first lease and submitted
\* the job.
Init ==
  /\ now = 0
  /\ tunnel = "notice" /\ due = 0 /\ seq = 1
  /\ leases = {1} /\ dir = TRUE /\ status = "none"
  /\ worker = "queued" /\ ports = Ports /\ sshd = FALSE /\ strays = FALSE
  /\ job = "alive" /\ run = 1 /\ startDue = QueueMax /\ host = 0
  /\ dog = "off" /\ dogDue = 0 /\ glob = {} /\ latest = 0
  /\ lastSeq = 0 /\ lastSeen = 0 /\ reason = "none"
  /\ quietSince = 0

-----------------------------------------------------------------------------
(***************************************************************************)
(* The tunnel.                                                             *)
(***************************************************************************)

\* `read_status` returns the port, and the heartbeats start.  The port is forwarded
\* to the host that the scheduler named, which answers: that of the present run.
SeesReady ==
  /\ tunnel = "notice" /\ status = "ready"
  /\ tunnel' = "write" /\ due' = now + WriteMax /\ host' = run
  /\ UNCHANGED <<now, run, startDue, seq, fileVars, workerVars, dogVars, quietSince>>

\* `publish_lease`: the temporary file becomes the next lease in one rename.
RenameLease ==
  /\ tunnel = "write" /\ dir
  /\ seq' = seq + 1
  /\ leases' = leases \cup {seq + 1}
  /\ tunnel' = "trim"
  /\ UNCHANGED <<now, runVars, due, dir, status, workerVars, dogVars, quietSince>>

\* ... and the oldest of the latest few is removed once there is one more.  A lease
\* that cannot be removed is given up on and stays.  Then `_send_heartbeats` waits
\* for the interval.
TrimLeases ==
  /\ tunnel = "trim"
  /\ \/ leases' = {n \in leases : n + Retain # seq}
     \/ Cardinality(leases) <= Retain + LeftMax /\ leases' = leases
  /\ tunnel' = "wait" /\ due' = now + Interval
  /\ UNCHANGED <<now, runVars, seq, dir, status, workerVars, dogVars, quietSince>>

NextBeat ==
  /\ tunnel = "wait" /\ now = due
  /\ tunnel' = "write" /\ due' = now + WriteMax
  /\ UNCHANGED <<now, runVars, seq, fileVars, workerVars, dogVars, quietSince>>

\* The heartbeats end: the tunnel is killed, loses its connection, fails to write
\* a lease, or stops for a status other than ready.  Nothing is cleaned up.
TunnelDies ==
  /\ tunnel # "dead"
  /\ tunnel' = "dead" /\ due' = 0
  /\ quietSince' = now
  /\ UNCHANGED <<now, runVars, seq, fileVars, workerVars, dogVars>>

\* What a watchdog that has ended knew is gone with it.
DogForgets ==
  dogDue' = 0 /\ glob' = {} /\ latest' = 0 /\ lastSeq' = 0 /\ lastSeen' = 0

\* Every process of the job ends.
JobGone ==
  /\ job' = "ended" /\ worker' = "ended" /\ sshd' = FALSE /\ strays' = FALSE
  /\ dog' = IF dog = "off" THEN dog ELSE "done"
  /\ DogForgets

\* The tunnel stops, and cleans up: the heartbeats stop, the job is cancelled,
\* which may fail, and the control directory removed.
TunnelStops ==
  /\ tunnel # "dead"
  /\ tunnel' = "dead" /\ due' = 0
  /\ quietSince' = now
  /\ dir' = FALSE /\ leases' = {}
  /\ \/ JobGone /\ UNCHANGED <<ports, reason>>
     \/ UNCHANGED <<workerVars, dogVars>>
  /\ UNCHANGED <<now, runVars, seq, status>>

-----------------------------------------------------------------------------
(***************************************************************************)
(* WORKER_SCRIPT.  Its status is lost when the control directory is gone.  *)
(***************************************************************************)

Publish(s) == status' = IF dir THEN s ELSE status

\* The script has exited; processes outside its session keep the job alive.
ScriptExits ==
  /\ worker' = "ended" /\ sshd' = FALSE
  /\ job' = IF strays THEN job ELSE "ended"

JobStarts ==
  /\ worker = "queued" /\ job = "alive"
  /\ worker' = "binding" /\ startDue' = 0
  /\ UNCHANGED <<now, run, host, tunnelVars, fileVars, ports, sshd, strays, job,
                  dogVars, quietSince>>

\* sshd on the next port, which it may find in use.
TryPort ==
  /\ worker = "binding" /\ ports > 0
  /\ ports' = ports - 1
  /\ \/ worker' = "announce" /\ sshd' = TRUE
     \/ UNCHANGED <<worker, sshd>>
  /\ UNCHANGED <<now, runVars, tunnelVars, fileVars, strays, job, dogVars,
                  quietSince>>

NoPorts ==
  /\ worker = "binding" /\ ports = 0
  /\ Publish("failed")
  /\ ScriptExits
  /\ UNCHANGED <<now, runVars, tunnelVars, leases, dir, ports, strays, dogVars,
                  quietSince>>

\* `publish_state ready`, or sshd is killed and the script exits with 77.
Announce ==
  /\ worker = "announce"
  /\ IF dir
       THEN /\ worker' = "arm" /\ status' = "ready"
            /\ due' = IF tunnel = "notice" /\ status # "ready"
                       THEN now + NoticeMax ELSE due
            /\ UNCHANGED <<sshd, job>>
       ELSE ScriptExits /\ UNCHANGED <<status, due>>
  /\ UNCHANGED <<now, runVars, tunnel, seq, leases, dir, ports, strays, dogVars,
                  quietSince>>

\* Mutant of Arm: sshd serves on when the watchdog cannot start.
ArmOrServe ==
  /\ worker = "arm"
  /\ worker' = "serving"
  /\ \/ /\ dog' = "arming" /\ dogDue' = now + ScanMax
        /\ glob' = leases /\ latest' = 0
        /\ quietSince' = IF tunnel = "dead" THEN now ELSE quietSince
     \/ UNCHANGED <<dog, dogDue, glob, latest, quietSince>>
  /\ UNCHANGED <<now, runVars, tunnelVars, fileVars, ports, sshd, strays, job,
                  lastSeq, lastSeen, reason>>

\* The watchdog starts in a session of its own, and looks at the leases once.
Arm ==
  /\ worker = "arm"
  /\ \/ /\ worker' = "serving"
        /\ dog' = "arming" /\ dogDue' = now + ScanMax
        /\ glob' = leases /\ latest' = 0
        /\ quietSince' = IF tunnel = "dead" THEN now ELSE quietSince
        /\ UNCHANGED <<status, sshd, job>>
     \/ /\ ScriptExits /\ Publish("failed")
        /\ UNCHANGED <<dog, dogDue, glob, latest, quietSince>>
  /\ UNCHANGED <<now, runVars, tunnelVars, leases, dir, ports, strays, lastSeq,
                  lastSeen, reason>>

\* sshd exits by itself or was stopped; `wait` returns.
SshdExits ==
  /\ worker = "serving"
  /\ Publish("stopped")
  /\ ScriptExits
  /\ UNCHANGED <<now, runVars, tunnelVars, leases, dir, ports, strays, dogVars,
                  quietSince>>

\* An SSH client starts a process that outlives its connection.
ClientLeavesProcess ==
  /\ worker = "serving" /\ sshd /\ tunnel \in Beating /\ ~strays
  /\ strays' = TRUE
  /\ UNCHANGED <<now, runVars, tunnelVars, fileVars, worker, ports, sshd, job,
                  dogVars, quietSince>>

\* The scheduler ends the job: its time limit, an operator.
JobKilled ==
  /\ job = "alive"
  /\ JobGone
  /\ UNCHANGED <<now, runVars, tunnelVars, fileVars, ports, reason, quietSince>>

\* The scheduler ends the processes of a job that runs and queues it again: it will
\* start once more, on another host, and never says that it ended.
Requeued ==
  /\ job = "alive" /\ worker # "queued" /\ run < RunMax
  /\ run' = run + 1 /\ startDue' = now + QueueMax
  /\ worker' = "queued" /\ ports' = Ports /\ sshd' = FALSE /\ strays' = FALSE
  /\ dog' = "off" /\ reason' = "none" /\ DogForgets
  /\ UNCHANGED <<now, host, tunnelVars, fileVars, job, quietSince>>

-----------------------------------------------------------------------------
(***************************************************************************)
(* WATCHDOG_SCRIPT.                                                        *)
(***************************************************************************)

SECONDS == now \div Second

\* `latest_lease_sequence` reads one file of its glob, unless it is gone.
ReadLease ==
  /\ dog \in {"arming", "scan"} /\ glob # {}
  /\ LET n == Min(glob) IN
       /\ glob' = glob \ {n}
       /\ latest' = IF n \in leases /\ n > latest THEN n ELSE latest
  /\ UNCHANGED <<now, runVars, tunnelVars, fileVars, workerVars, dog, dogDue,
                  lastSeq, lastSeen, reason, quietSince>>

\* The first look only sets `last_sequence`; the clock starts after it.
Armed ==
  /\ dog = "arming" /\ glob = {}
  /\ lastSeq' = latest /\ lastSeen' = SECONDS /\ latest' = 0
  /\ dog' = "poll" /\ dogDue' = now
  /\ UNCHANGED <<now, runVars, tunnelVars, fileVars, workerVars, glob, reason,
                  quietSince>>

\* The loop's condition: sshd still runs; then the glob.
Poll ==
  /\ dog = "poll" \/ (dog = "sleep" /\ now = dogDue)
  /\ IF sshd
       THEN /\ dog' = "scan" /\ dogDue' = now + ScanMax
            /\ glob' = leases /\ latest' = 0
            /\ UNCHANGED reason
       ELSE /\ dog' = "cancel" /\ reason' = "sshd_exited"
            /\ UNCHANGED <<dogDue, glob, latest>>
  /\ UNCHANGED <<now, runVars, tunnelVars, fileVars, workerVars, lastSeq,
                  lastSeen, quietSince>>

\* Mutant of Judge: any lease restarts the clock, not only a newer one.
JudgeAnyLease ==
  /\ dog = "scan" /\ glob = {}
  /\ LET seen == IF latest > 0 THEN SECONDS ELSE lastSeen
     IN /\ lastSeq' = latest
        /\ lastSeen' = seen /\ latest' = 0
        /\ IF SECONDS - seen >= Timeout
             THEN dog' = "cancel" /\ reason' = "heartbeat_timeout" /\ UNCHANGED dogDue
             ELSE dog' = "sleep" /\ dogDue' = now + Second /\ UNCHANGED reason
  /\ UNCHANGED <<now, runVars, tunnelVars, fileVars, workerVars, glob, quietSince>>

\* A newer lease restarts the clock; then the timeout, or the next poll.
Judge ==
  /\ dog = "scan" /\ glob = {}
  /\ LET newer == latest > lastSeq
         seen  == IF newer THEN SECONDS ELSE lastSeen
     IN /\ lastSeq' = IF newer THEN latest ELSE lastSeq
        /\ lastSeen' = seen /\ latest' = 0
        /\ IF SECONDS - seen >= Timeout
             THEN dog' = "cancel" /\ reason' = "heartbeat_timeout" /\ UNCHANGED dogDue
             ELSE dog' = "sleep" /\ dogDue' = now + Second /\ UNCHANGED reason
  /\ UNCHANGED <<now, runVars, tunnelVars, fileVars, workerVars, glob, quietSince>>

\* `cancel_executable`: it ends every process of the job.  If it fails after a
\* timeout, the watchdog stops sshd itself.
DogCancels ==
  /\ dog = "cancel"
  /\ \/ JobGone
     \/ /\ sshd' = IF reason = "heartbeat_timeout" THEN FALSE ELSE sshd
        /\ dog' = "done" /\ DogForgets
        /\ UNCHANGED <<worker, strays, job>>
  /\ UNCHANGED <<now, runVars, tunnelVars, fileVars, ports, reason, quietSince>>

-----------------------------------------------------------------------------
\* No step may be overdue when time passes.
Tick ==
  /\ now < MaxNow
  /\ tunnel \in Beating \/ (tunnel = "notice" /\ status = "ready") => now < due
  /\ dog \in Watching \ {"cancel"} => now < dogDue
  /\ worker = "queued" => now < startDue
  /\ dog # "cancel" /\ worker \notin {"binding", "announce", "arm"}
  /\ now' = now + 1
  /\ UNCHANGED <<runVars, tunnelVars, fileVars, workerVars, dogVars, quietSince>>

TunnelSteps ==
  SeesReady \/ RenameLease \/ TrimLeases \/ NextBeat \/ TunnelDies \/ TunnelStops

WorkerSteps ==
  \/ JobStarts \/ TryPort \/ NoPorts \/ Announce \/ Arm \/ SshdExits
  \/ ClientLeavesProcess \/ JobKilled \/ Requeued

DogSteps == ReadLease \/ Armed \/ Poll \/ Judge \/ DogCancels

Next == TunnelSteps \/ WorkerSteps \/ DogSteps \/ Tick

Spec == Init /\ [][Next]_vars

\* `client_alive`: sshd's ClientAliveInterval and ClientAliveCountMax, in
\* seconds, from the heartbeat's timings.
ClientAlive ==
  LET interval == (Interval + Second - 1) \div Second
  IN [interval |-> interval, count |-> Max({1, Timeout \div interval})]

-----------------------------------------------------------------------------
(***************************************************************************)
(* What the lease promises.                                                *)
(***************************************************************************)

\* "A worker never outlives its tunnel by long, even when the tunnel can no longer
\* cancel it": from the end of the heartbeats, or from when it was armed, the
\* watchdog waits no longer than the timeout, the poll that saw the last lease,
\* the poll that notices the timeout, and its looks at the leases.
OrphanIsBounded ==
  tunnel = "dead" /\ dog \in Watching =>
    now <= quietSince + (Timeout + 2) * Second + 3 * ScanMax

\* The timings leave room for a heartbeat that is late at every step: the longest
\* gap between two leases, the look that just missed the second, and the seconds
\* that $SECONDS rounds off.  And the files that a look found are not all replaced
\* before it reads them.
TimingsLeaveRoom ==
  /\ ScanMax < Interval
  /\ Interval + 2 * WriteMax + ScanMax + Second <= Timeout * Second
  /\ NoticeMax + WriteMax + ScanMax + Second <= Timeout * Second

\* The watchdog never gives up on a tunnel that renews its lease in time.
NoFalseTimeout ==
  TimingsLeaveRoom /\ tunnel # "dead" => reason # "heartbeat_timeout"

\* sshd never runs unwatched: once the worker has announced its port, a watchdog
\* that will end the job runs for as long as sshd does, the worker does not say that
\* sshd failed or stopped, and the job has not ended.
SshdIsWatched ==
  sshd =>
    /\ worker \in {"announce", "arm"} \/ dog \in Watching
    /\ worker # "announce" => status \notin {"failed", "stopped"}
    /\ job # "ended"

-----------------------------------------------------------------------------
\* While the heartbeats go on, an sshd that runs is where the port is forwarded to.
\* It is not once the job has been queued again and started on another host: the
\* job monitor asks only whether the job has ended, and the new run's watchdog
\* finds its lease renewed.
ForwardsToWorker == tunnel \in Beating /\ sshd => host = run

\* "The probes reuse the heartbeat cadence and give up within the heartbeat
\* timeout": for every sshd that a worker runs.
ClientAliveWithinTimeout ==
  sshd => ClientAlive.interval * ClientAlive.count <= Timeout
=============================================================================
