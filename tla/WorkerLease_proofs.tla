-------------------------- MODULE WorkerLease_proofs --------------------------
(***************************************************************************)
(* The safety of the worker's lease, for all timings and bounds: sshd runs *)
(* only while it is watched, and a worker outlives its tunnel by a bounded *)
(* time.                                                                   *)
(***************************************************************************)
EXTENDS WorkerLease, TLAPS

\* The constants are numbers, some of them positive.
LEMMA Constants ==
  /\ Second \in Nat /\ Second > 0 /\ Timeout \in Nat /\ Timeout > 0
  /\ Interval \in Nat /\ Ports \in Nat /\ RunMax \in Nat /\ RunMax > 0
  /\ WriteMax \in Nat /\ ScanMax \in Nat /\ NoticeMax \in Nat
  /\ QueueMax \in Nat /\ LeftMax \in Nat /\ MaxNow \in Nat
BY TimingAssumption

\* The shell's clock counts whole seconds.
LEMMA SecondsType ==
  ASSUME now \in Nat
  PROVE  SECONDS \in Nat
BY Constants DEF SECONDS

-----------------------------------------------------------------------------
\* The variables that are true or false, and the others, which need other provers.
Flags == dir \in BOOLEAN /\ sshd \in BOOLEAN /\ strays \in BOOLEAN

Others ==
  /\ now \in 0..MaxNow
  /\ tunnel \in {"notice", "dead"} \cup Beating
  /\ seq \in Nat /\ leases \subseteq 1..seq
  /\ due \in Nat /\ dogDue \in Nat /\ quietSince \in Nat
  /\ latest \in Nat /\ lastSeq \in Nat /\ lastSeen \in Nat
  /\ status \in {"none", "ready", "failed", "stopped"}
  /\ worker \in {"queued", "binding", "announce", "arm", "serving", "ended"}
  /\ ports \in 0..Ports
  /\ dog \in {"off", "done"} \cup Watching
  /\ glob \subseteq 1..seq
  /\ reason \in {"none", "sshd_exited", "heartbeat_timeout"}
  /\ job \in {"alive", "ended"}
  /\ run \in 1..RunMax /\ host \in 0..run /\ startDue \in Nat

LEMMA InitType == Init => TypeOK
<1> SUFFICES ASSUME Init PROVE Flags /\ Others
  BY DEF TypeOK, Flags, Others
<1>1. Flags
  BY DEF Init, Flags
<1>2. Others
  BY Constants DEF Init, Others, Beating, Watching
<1> QED
  BY <1>1, <1>2

LEMMA TunnelType ==
  ASSUME TypeOK, TunnelSteps
  PROVE  TypeOK'
<1> SUFFICES ASSUME Flags, Others PROVE Flags' /\ Others'
  BY DEF TypeOK, Flags, Others
<1> USE DEF tunnelVars, fileVars, workerVars, runVars, dogVars
<1>1. CASE SeesReady
  <2>1. Flags'
    BY <1>1 DEF SeesReady, Flags
  <2>2. Others'
    BY <1>1, Constants DEF SeesReady, Others, Beating, Watching
  <2> QED
    BY <2>1, <2>2
<1>2. CASE RenameLease
  <2>1. Flags'
    BY <1>2 DEF RenameLease, Flags
  <2>2. Others'
    BY <1>2, Constants DEF RenameLease, Others, Beating, Watching
  <2> QED
    BY <2>1, <2>2
<1>3. CASE TrimLeases
  <2>1. Flags'
    BY <1>3 DEF TrimLeases, Flags
  <2>2. Others'
    <3>1. leases' \subseteq leases
      BY <1>3 DEF TrimLeases
    <3>2. tunnel' = "wait" /\ due' = now + Interval
      BY <1>3 DEF TrimLeases
    <3>3. UNCHANGED <<now, runVars, seq, status, worker, ports, job, dogVars, quietSince>>
      BY <1>3 DEF TrimLeases
    <3> QED
      BY <3>1, <3>2, <3>3, Constants DEF Others, Beating, Watching
  <2> QED
    BY <2>1, <2>2
<1>4. CASE NextBeat
  <2>1. Flags'
    BY <1>4 DEF NextBeat, Flags
  <2>2. Others'
    BY <1>4, Constants DEF NextBeat, Others, Beating, Watching
  <2> QED
    BY <2>1, <2>2
<1>5. CASE TunnelDies
  <2>1. Flags'
    BY <1>5 DEF TunnelDies, Flags
  <2>2. Others'
    BY <1>5, Constants DEF TunnelDies, Others, Beating, Watching
  <2> QED
    BY <2>1, <2>2
<1>6. CASE TunnelStops
  <2>1. Flags'
    BY <1>6 DEF TunnelStops, JobGone, DogForgets, Flags
  <2>2. Others'
    <3>1. /\ tunnel' = "dead" /\ due' = 0 /\ quietSince' = now /\ leases' = {}
          /\ UNCHANGED <<now, runVars, seq, status, ports, reason>>
      BY <1>6 DEF TunnelStops
    <3>2. \/ UNCHANGED <<worker, job, dog, dogDue, glob, latest, lastSeq, lastSeen>>
          \/ /\ job' = "ended" /\ worker' = "ended" /\ dog' \in {dog, "done"}
             /\ DogForgets
      BY <1>6 DEF TunnelStops, JobGone
    <3>3. /\ worker' \in {worker, "ended"} /\ job' \in {job, "ended"} /\ dog' \in {dog, "done"}
          /\ dogDue' \in {dogDue, 0} /\ glob' \in {glob, {}} /\ latest' \in {latest, 0}
          /\ lastSeq' \in {lastSeq, 0} /\ lastSeen' \in {lastSeen, 0}
      BY <3>2 DEF DogForgets
    <3> QED
      BY <3>1, <3>3, Constants DEF Others
  <2> QED
    BY <2>1, <2>2
<1> QED
  BY <1>1, <1>2, <1>3, <1>4, <1>5, <1>6 DEF TunnelSteps

LEMMA WorkerType ==
  ASSUME TypeOK, WorkerSteps
  PROVE  TypeOK'
<1> SUFFICES ASSUME Flags, Others PROVE Flags' /\ Others'
  BY DEF TypeOK, Flags, Others
<1> USE DEF tunnelVars, fileVars, workerVars, runVars, dogVars
<1>1. CASE JobStarts
  <2>1. Flags'
    BY <1>1 DEF JobStarts, Flags
  <2>2. Others'
    BY <1>1, Constants DEF JobStarts, Others, Beating, Watching
  <2> QED
    BY <2>1, <2>2
<1>2. CASE TryPort
  <2>1. Flags'
    BY <1>2 DEF TryPort, Flags
  <2>2. Others'
    BY <1>2, Constants DEF TryPort, Others, Beating, Watching
  <2> QED
    BY <2>1, <2>2
<1>3. CASE NoPorts
  <2>1. Flags'
    BY <1>3 DEF NoPorts, Publish, ScriptExits, Flags
  <2>2. Others'
    BY <1>3, Constants DEF NoPorts, Publish, ScriptExits, Others, Beating, Watching
  <2> QED
    BY <2>1, <2>2
<1>4. CASE Announce
  <2>1. Flags'
    BY <1>4 DEF Announce, ScriptExits, Flags
  <2>2. Others'
    BY <1>4, Constants DEF Announce, ScriptExits, Others, Beating, Watching
  <2> QED
    BY <2>1, <2>2
<1>5. CASE Arm
  <2>1. Flags'
    BY <1>5 DEF Arm, Publish, ScriptExits, Flags
  <2>2. Others'
    <3>1. UNCHANGED <<now, runVars, tunnelVars, leases, ports, lastSeq, lastSeen, reason>>
      BY <1>5 DEF Arm
    <3>2. /\ status' \in {status, "failed"}
          /\ worker' \in {"serving", "ended"} /\ job' \in {job, "ended"}
          /\ quietSince' \in {quietSince, now}
      BY <1>5 DEF Arm, Publish, ScriptExits
    <3>3. \/ UNCHANGED <<dog, dogDue, glob, latest>>
          \/ dog' = "arming" /\ dogDue' = now + ScanMax /\ glob' = leases /\ latest' = 0
      BY <1>5 DEF Arm
    <3>4. /\ dog' \in {dog, "arming"} /\ dogDue' \in {dogDue, now + ScanMax}
          /\ glob' \in {glob, leases} /\ latest' \in {latest, 0}
      BY <3>3
    <3>5. dog' \in {"off", "done"} \cup Watching
      BY <3>4 DEF Others, Watching
    <3> QED
      BY <3>1, <3>2, <3>4, <3>5, Constants DEF Others
  <2> QED
    BY <2>1, <2>2
<1>6. CASE SshdExits
  <2>1. Flags'
    BY <1>6 DEF SshdExits, Publish, ScriptExits, Flags
  <2>2. Others'
    BY <1>6, Constants DEF SshdExits, Publish, ScriptExits, Others, Beating, Watching
  <2> QED
    BY <2>1, <2>2
<1>7. CASE ClientLeavesProcess
  <2>1. Flags'
    BY <1>7 DEF ClientLeavesProcess, Flags
  <2>2. Others'
    BY <1>7, Constants DEF ClientLeavesProcess, Others, Beating, Watching
  <2> QED
    BY <2>1, <2>2
<1>8. CASE JobKilled
  <2>1. Flags'
    BY <1>8 DEF JobKilled, JobGone, DogForgets, Flags
  <2>2. Others'
    BY <1>8, Constants DEF JobKilled, JobGone, DogForgets, Others, Beating, Watching
  <2> QED
    BY <2>1, <2>2
<1>9. CASE Requeued
  <2>1. Flags'
    BY <1>9 DEF Requeued, DogForgets, Flags
  <2>2. Others'
    BY <1>9, Constants DEF Requeued, DogForgets, Others, Beating, Watching
  <2> QED
    BY <2>1, <2>2
<1> QED
  BY <1>1, <1>2, <1>3, <1>4, <1>5, <1>6, <1>7, <1>8, <1>9 DEF WorkerSteps

LEMMA DogType ==
  ASSUME TypeOK, DogSteps
  PROVE  TypeOK'
<1> SUFFICES ASSUME Flags, Others PROVE Flags' /\ Others'
  BY DEF TypeOK, Flags, Others
<1> USE DEF tunnelVars, fileVars, workerVars, runVars, dogVars
<1>1. CASE ReadLease
  <2>1. Flags'
    BY <1>1 DEF ReadLease, Flags
  <2>2. Others'
    <3>1. glob' \subseteq glob /\ latest' \in leases \cup {latest}
      BY <1>1 DEF ReadLease
    <3>2. UNCHANGED <<now, runVars, tunnelVars, leases, status, worker, ports, job, dog,
                      dogDue, lastSeq, lastSeen, reason, quietSince>>
      BY <1>1 DEF ReadLease
    <3> QED
      BY <3>1, <3>2, Constants DEF Others
  <2> QED
    BY <2>1, <2>2
<1>2. CASE Armed
  <2>1. Flags'
    BY <1>2 DEF Armed, Flags
  <2>2. Others'
    BY <1>2, Constants, SecondsType DEF Armed, Others, Beating, Watching
  <2> QED
    BY <2>1, <2>2
<1>3. CASE Poll
  <2>1. Flags'
    BY <1>3 DEF Poll, Flags
  <2>2. Others'
    <3>1. UNCHANGED <<now, runVars, tunnelVars, leases, status, worker, ports, job,
                      lastSeq, lastSeen, quietSince>>
      BY <1>3 DEF Poll
    <3>2. \/ /\ dog' = "scan" /\ dogDue' = now + ScanMax /\ glob' = leases /\ latest' = 0
             /\ UNCHANGED reason
          \/ /\ dog' = "cancel" /\ reason' = "sshd_exited"
             /\ UNCHANGED <<dogDue, glob, latest>>
      BY <1>3 DEF Poll
    <3>3. /\ dog' \in {"scan", "cancel"} /\ dogDue' \in {dogDue, now + ScanMax}
          /\ glob' \in {glob, leases} /\ latest' \in {latest, 0}
          /\ reason' \in {reason, "sshd_exited"}
      BY <3>2
    <3>4. dog' \in {"off", "done"} \cup Watching
      BY <3>3 DEF Watching
    <3> QED
      BY <3>1, <3>3, <3>4, Constants DEF Others
  <2> QED
    BY <2>1, <2>2
<1>4. CASE Judge
  <2>1. Flags'
    BY <1>4 DEF Judge, Flags
  <2>2. Others'
    BY <1>4, Constants, SecondsType DEF Judge, Others, Beating, Watching
  <2> QED
    BY <2>1, <2>2
<1>5. CASE DogCancels
  <2>1. Flags'
    BY <1>5 DEF DogCancels, JobGone, DogForgets, Flags
  <2>2. Others'
    <3>1. UNCHANGED <<now, runVars, tunnelVars, leases, status, ports, reason, quietSince>>
      BY <1>5 DEF DogCancels
    <3>2. /\ worker' \in {worker, "ended"} /\ job' \in {job, "ended"}
          /\ dog' = "done" /\ DogForgets
      BY <1>5 DEF DogCancels, JobGone
    <3> QED
      BY <3>1, <3>2, Constants DEF Others, DogForgets
  <2> QED
    BY <2>1, <2>2
<1> QED
  BY <1>1, <1>2, <1>3, <1>4, <1>5 DEF DogSteps

LEMMA NextType == TypeOK /\ [Next]_vars => TypeOK'
<1> SUFFICES ASSUME TypeOK, [Next]_vars PROVE TypeOK'
  OBVIOUS
<1>1. CASE Tick
  BY <1>1, Constants
  DEF Tick, TypeOK, tunnelVars, fileVars, workerVars, runVars, dogVars
<1>2. CASE UNCHANGED vars
  BY <1>2 DEF TypeOK, vars, tunnelVars, fileVars, workerVars, runVars, dogVars
<1> QED
  BY <1>1, <1>2, TunnelType, WorkerType, DogType DEF Next

\* Every variable keeps its type: among it, leases and what the watchdog's look still
\* has to read are leases that the tunnel has written.
THEOREM TypeCorrect == Spec => []TypeOK
BY InitType, NextType, PTL DEF Spec

-----------------------------------------------------------------------------
(***************************************************************************)
(* sshd is watched.                                                        *)
(***************************************************************************)

\* Where the script is when sshd runs or the job is over; the watchdog starts last,
\* cancels a job for sshd's sake only when sshd is gone, and what the script says of
\* sshd is so.
WatchInv ==
  /\ sshd => worker \in {"announce", "arm", "serving"}
  /\ sshd /\ worker = "serving" => dog \in Watching
  /\ job = "ended" => worker = "ended"
  /\ worker \in {"queued", "binding", "announce", "arm"} => dog = "off"
  /\ dog = "cancel" => reason = "heartbeat_timeout" \/ ~ sshd
  /\ sshd /\ worker # "announce" => status \notin {"failed", "stopped"}

LEMMA InitWatch == Init => WatchInv
BY DEF Init, WatchInv

LEMMA NextWatch == WatchInv /\ [Next]_vars => WatchInv'
<1> SUFFICES ASSUME WatchInv, [Next]_vars PROVE WatchInv'
  OBVIOUS
<1> USE DEF WatchInv, Watching, tunnelVars, fileVars, workerVars, runVars, dogVars
<1>1. CASE SeesReady
  BY <1>1 DEF SeesReady
<1>2. CASE RenameLease
  BY <1>2 DEF RenameLease
<1>3. CASE TrimLeases
  BY <1>3 DEF TrimLeases
<1>4. CASE NextBeat
  BY <1>4 DEF NextBeat
<1>5. CASE TunnelDies
  BY <1>5 DEF TunnelDies
<1>6. CASE TunnelStops
  BY <1>6 DEF TunnelStops, JobGone
<1>7. CASE JobStarts
  BY <1>7 DEF JobStarts
<1>8. CASE TryPort
  BY <1>8 DEF TryPort
<1>9. CASE NoPorts
  BY <1>9 DEF NoPorts, Publish, ScriptExits
<1>10. CASE Announce
  BY <1>10 DEF Announce, ScriptExits
<1>11. CASE Arm
  BY <1>11 DEF Arm, Publish, ScriptExits
<1>12. CASE SshdExits
  BY <1>12 DEF SshdExits, Publish, ScriptExits
<1>13. CASE ClientLeavesProcess
  BY <1>13 DEF ClientLeavesProcess
<1>14. CASE JobKilled
  BY <1>14 DEF JobKilled, JobGone
<1>15. CASE Requeued
  BY <1>15 DEF Requeued
<1>16. CASE ReadLease
  BY <1>16 DEF ReadLease
<1>17. CASE Armed
  BY <1>17 DEF Armed
<1>18. CASE Poll
  BY <1>18 DEF Poll
<1>19. CASE Judge
  BY <1>19 DEF Judge
<1>20. CASE DogCancels
  BY <1>20 DEF DogCancels, JobGone
<1>21. CASE Tick
  BY <1>21 DEF Tick
<1>22. CASE UNCHANGED vars
  BY <1>22 DEF vars
<1> QED
  BY <1>1, <1>2, <1>3, <1>4, <1>5, <1>6, <1>7, <1>8, <1>9, <1>10, <1>11,
     <1>12, <1>13, <1>14, <1>15, <1>16, <1>17, <1>18, <1>19, <1>20, <1>21, <1>22
  DEF Next, TunnelSteps, WorkerSteps, DogSteps

\* sshd never runs without a watchdog once its port is announced, and neither the
\* script nor the job is over while it does: however sshd, the watchdog, its
\* cancellation, the scheduler and the queue go about it.
THEOREM WatchCorrect == Spec => []SshdIsWatched
<1>1. WatchInv => SshdIsWatched
  BY DEF WatchInv, SshdIsWatched
<1> QED
  BY <1>1, InitWatch, NextWatch, PTL DEF Spec

-----------------------------------------------------------------------------
(***************************************************************************)
(* An orphan is bounded.                                                   *)
(***************************************************************************)

\* A whole second of the shell's clock began no later than now, and while fewer than
\* the timeout's seconds have passed since k, now is before k's second and the timeout.
LEMMA SecondBegins ==
  ASSUME NEW n \in Nat
  PROVE  /\ n \div Second \in Nat
         /\ (n \div Second) * Second <= n
         /\ n < (n \div Second) * Second + Second
BY Constants

LEMMA Monotone ==
  ASSUME NEW a \in Nat, NEW b \in Nat, NEW c \in Nat, a <= b
  PROVE  a * c <= b * c
OBVIOUS

LEMMA NotTimedOut ==
  ASSUME NEW n \in Nat, NEW k \in Nat, n \div Second - k < Timeout
  PROVE  n < k * Second + Timeout * Second
<1> DEFINE d == n \div Second
<1>1. d \in Nat /\ n < d * Second + Second
  BY SecondBegins
<1>2. d + 1 <= k + Timeout
  BY <1>1, Constants
<1>3. (d + 1) * Second <= (k + Timeout) * Second
  BY <1>1, <1>2, Constants, Monotone
<1>4. (d + 1) * Second = d * Second + Second
  BY <1>1, Constants
<1>5. (k + Timeout) * Second = k * Second + Timeout * Second
  BY Constants
<1>6. /\ d * Second \in Nat /\ (d + 1) * Second \in Nat
      /\ k * Second \in Nat /\ Timeout * Second \in Nat
  BY <1>1, Constants
<1> HIDE DEF d
<1> QED
  BY <1>1, <1>3, <1>4, <1>5, <1>6, Constants

-----------------------------------------------------------------------------
\* $last_seen and the timeout, in ticks.
Seen == lastSeen * Second

Limit == Timeout * Second

\* No step of the watchdog is overdue, and while the tunnel lives none is due later than
\* its longest duration allows.
Timed ==
  /\ dog \in {"arming", "poll", "scan", "sleep"} => now <= dogDue
  /\ dog = "poll" => dogDue <= now
  /\ dog \in {"poll", "scan", "sleep", "cancel"} => Seen <= now
  /\ tunnel # "dead" =>
       /\ dog \in {"arming", "scan"} => dogDue <= now + ScanMax
       /\ dog = "sleep" => dogDue <= now + Second

\* No lease is newer than the last that the watchdog has seen ...
CaughtUp == \A n \in leases : n <= lastSeq

\* ... or will be, when its look is over.
Covered == \A n \in leases : n \in glob \/ n <= latest \/ n <= lastSeq

\* Since the heartbeats ended: a look may have begun before that, and missed the last
\* lease.  The next one sees it, and from then on the clock is not restarted.
OrphanTimed ==
  tunnel = "dead" =>
    /\ dog \in {"arming", "poll"} => dogDue <= quietSince + ScanMax
    /\ dog \in {"scan", "sleep"} => Seen <= quietSince + 2 * ScanMax + Second
    /\ dog = "sleep" =>
         \/ dogDue <= quietSince + ScanMax + Second
         \/ CaughtUp /\ dogDue <= quietSince + Limit + 2 * Second + 2 * ScanMax
    /\ dog = "scan" =>
         \/ dogDue <= quietSince + ScanMax
         \/ Covered /\ dogDue <= quietSince + 2 * ScanMax + Second
         \/ /\ CaughtUp /\ latest <= lastSeq
            /\ dogDue <= quietSince + Limit + 2 * Second + 3 * ScanMax
    /\ dog = "cancel" => now <= quietSince + Limit + 2 * Second + 3 * ScanMax

\* The numbers that the deadlines are made of.
LEMMA Numbers ==
  ASSUME TypeOK
  PROVE  /\ now \in Nat /\ dogDue \in Nat /\ quietSince \in Nat
         /\ latest \in Nat /\ lastSeq \in Nat /\ lastSeen \in Nat
         /\ leases \subseteq Nat /\ SECONDS \in Nat /\ SECONDS * Second <= now
         /\ Seen \in Nat /\ Limit \in Nat /\ Second <= Limit
<1>1. /\ now \in Nat /\ dogDue \in Nat /\ quietSince \in Nat
      /\ latest \in Nat /\ lastSeq \in Nat /\ lastSeen \in Nat
      /\ leases \subseteq Nat
  BY Constants DEF TypeOK
<1>2. SECONDS \in Nat /\ SECONDS * Second <= now
  BY <1>1, SecondBegins DEF SECONDS
<1>3. Seen \in Nat /\ Limit \in Nat
  BY <1>1, Constants DEF Seen, Limit
<1>4. 1 * Second <= Timeout * Second
  BY Constants, Monotone
<1>5. Second <= Limit
  BY <1>4, Constants DEF Limit
<1> QED
  BY <1>1, <1>2, <1>3, <1>5

LEMMA InitTimed == Init => Timed /\ OrphanTimed
BY DEF Init, Timed, OrphanTimed

\* Nothing is due of a watchdog that does not run.
LEMMA NoWatchdog ==
  ASSUME dog' \notin Watching
  PROVE  Timed' /\ OrphanTimed'
BY DEF Timed, OrphanTimed, Watching

\* What the rest of the job does is nothing to the watchdog.
LEMMA Elsewhere ==
  ASSUME Timed, OrphanTimed,
         UNCHANGED <<now, tunnel, leases, quietSince, dog, dogDue, glob, latest, lastSeq,
                     lastSeen>>
  PROVE  Timed' /\ OrphanTimed'
BY DEF Timed, OrphanTimed, CaughtUp, Covered, Seen, Limit

\* Nor is what the tunnel does while it lives.
LEMMA TunnelLives ==
  ASSUME Timed, tunnel # "dead", tunnel' # "dead", UNCHANGED <<now, dog, dogDue, lastSeen>>
  PROVE  Timed' /\ OrphanTimed'
BY DEF Timed, OrphanTimed, Seen

\* When it dies, the watchdog has at most the rest of its step before it.
LEMMA TunnelEnds ==
  ASSUME TypeOK, Timed, tunnel # "dead", tunnel' = "dead", quietSince' = now,
         UNCHANGED <<now, dog, dogDue, lastSeen>>
  PROVE  Timed' /\ OrphanTimed'
<1> USE Constants, Numbers
<1>1. Timed'
  BY DEF Timed, Seen
<1>2. Seen' = Seen
  BY DEF Seen
<1>3. Limit' = Limit
  BY DEF Limit
<1>4. OrphanTimed'
  BY <1>2, <1>3 DEF Timed, OrphanTimed
<1> QED
  BY <1>1, <1>4

LEMMA TunnelTimed ==
  ASSUME TypeOK, Timed, OrphanTimed, TunnelSteps
  PROVE  Timed' /\ OrphanTimed'
<1> USE DEF tunnelVars, fileVars, workerVars, runVars, dogVars
<1>1. CASE SeesReady
  BY <1>1, TunnelLives DEF SeesReady
<1>2. CASE RenameLease
  BY <1>2, TunnelLives DEF RenameLease
<1>3. CASE TrimLeases
  BY <1>3, TunnelLives DEF TrimLeases
<1>4. CASE NextBeat
  BY <1>4, TunnelLives DEF NextBeat
<1>5. CASE TunnelDies
  BY <1>5, TunnelEnds DEF TunnelDies
<1>6. CASE TunnelStops
  <2>1. CASE JobGone
    BY <2>1, NoWatchdog DEF JobGone, Watching
  <2>2. CASE UNCHANGED <<workerVars, dogVars>>
    BY <1>6, <2>2, TunnelEnds DEF TunnelStops
  <2> QED
    BY <1>6, <2>1, <2>2 DEF TunnelStops
<1> QED
  BY <1>1, <1>2, <1>3, <1>4, <1>5, <1>6 DEF TunnelSteps

LEMMA WorkerTimed ==
  ASSUME TypeOK, Timed, OrphanTimed, WorkerSteps
  PROVE  Timed' /\ OrphanTimed'
<1> USE DEF tunnelVars, fileVars, workerVars, runVars, dogVars
<1>1. CASE JobStarts
  BY <1>1, Elsewhere DEF JobStarts
<1>2. CASE TryPort
  BY <1>2, Elsewhere DEF TryPort
<1>3. CASE NoPorts
  BY <1>3, Elsewhere DEF NoPorts
<1>4. CASE Announce
  BY <1>4, Elsewhere DEF Announce
<1>5. CASE Arm
  <2>1. CASE UNCHANGED <<dog, dogDue, glob, latest, quietSince>>
    BY <1>5, <2>1, Elsewhere DEF Arm
  <2>2. CASE /\ dog' = "arming" /\ dogDue' = now + ScanMax
             /\ quietSince' = IF tunnel = "dead" THEN now ELSE quietSince
    <3>1. UNCHANGED <<now, tunnel>>
      BY <1>5 DEF Arm
    <3> QED
      BY <2>2, <3>1, Constants, Numbers DEF Timed, OrphanTimed
  <2> QED
    BY <1>5, <2>1, <2>2 DEF Arm
<1>6. CASE SshdExits
  BY <1>6, Elsewhere DEF SshdExits
<1>7. CASE ClientLeavesProcess
  BY <1>7, Elsewhere DEF ClientLeavesProcess
<1>8. CASE JobKilled
  BY <1>8, NoWatchdog DEF JobKilled, JobGone, Watching
<1>9. CASE Requeued
  BY <1>9, NoWatchdog DEF Requeued, Watching
<1> QED
  BY <1>1, <1>2, <1>3, <1>4, <1>5, <1>6, <1>7, <1>8, <1>9 DEF WorkerSteps

\* A look goes on: a lease that it reads it knows, one that is gone it need not.
LEMMA ReadTimed ==
  ASSUME TypeOK, Timed, OrphanTimed, ReadLease
  PROVE  Timed' /\ OrphanTimed'
<1> USE DEF tunnelVars, fileVars, workerVars, runVars, dogVars
<1>1. PICK n : /\ glob' = glob \ {n}
               /\ latest' = IF n \in leases /\ n > latest THEN n ELSE latest
  BY DEF ReadLease
<1>2. UNCHANGED <<now, tunnel, leases, quietSince, dog, dogDue, lastSeq, lastSeen>>
  BY DEF ReadLease
<1>3. /\ Seen' = Seen /\ Limit' = Limit
  BY <1>2 DEF Seen, Limit
<1>4. Timed'
  BY <1>2, <1>3 DEF Timed
<1>5. CaughtUp <=> CaughtUp'
  BY <1>2 DEF CaughtUp
<1>6. CaughtUp /\ latest <= lastSeq => latest' <= lastSeq'
  BY <1>1, <1>2 DEF CaughtUp
<1>7. Covered => Covered'
  <2> SUFFICES ASSUME Covered, NEW m \in leases
               PROVE  m \in glob' \/ m <= latest' \/ m <= lastSeq
    BY <1>2 DEF Covered
  <2>1. m \in Nat /\ latest \in Nat
    BY Numbers
  <2>2. CASE m \in glob
    BY <1>1, <2>1, <2>2
  <2>3. CASE m <= latest
    <3>1. n \in leases => n \in Nat
      BY Numbers
    <3> QED
      BY <1>1, <2>1, <2>3, <3>1
  <2> QED
    BY <2>2, <2>3 DEF Covered
<1>8. OrphanTimed'
  BY <1>2, <1>3, <1>5, <1>6, <1>7 DEF OrphanTimed
<1> QED
  BY <1>4, <1>8

\* The watchdog's clock starts when it is armed.
LEMMA ArmedTimed ==
  ASSUME TypeOK, Timed, OrphanTimed, Armed
  PROVE  Timed' /\ OrphanTimed'
<1> USE DEF tunnelVars, fileVars, workerVars, runVars, dogVars
<1>1. /\ dog = "arming" /\ dog' = "poll" /\ dogDue' = now /\ lastSeen' = SECONDS
      /\ UNCHANGED <<now, tunnel, quietSince>>
  BY DEF Armed
<1>2. Seen' <= now
  BY <1>1, Numbers DEF Seen
<1>3. now <= dogDue
  BY <1>1 DEF Timed
<1>4. Timed'
  BY <1>1, <1>2, Numbers DEF Timed
<1>5. OrphanTimed'
  BY <1>1, <1>3, Numbers, Constants DEF OrphanTimed
<1> QED
  BY <1>4, <1>5

\* A look that begins after the heartbeats ended sees the last lease.
LEMMA PollTimed ==
  ASSUME TypeOK, Timed, OrphanTimed, Poll
  PROVE  Timed' /\ OrphanTimed'
<1> USE DEF tunnelVars, fileVars, workerVars, runVars, dogVars
<1>0. dog = "poll" \/ (dog = "sleep" /\ now = dogDue)
  BY Zenon DEF Poll
<1>1. UNCHANGED <<now, tunnel, leases, lastSeq, lastSeen, quietSince>>
  BY DEF Poll
<1> USE Constants, Numbers
<1>2. Seen' = Seen /\ Limit' = Limit
  BY <1>1 DEF Seen, Limit
<1>3. now = dogDue
  <2>1. dog = "poll" => now <= dogDue /\ dogDue <= now
    BY DEF Timed
  <2>2. now \in Nat /\ dogDue \in Nat
    BY Numbers
  <2> QED
    BY <1>0, <2>1, <2>2
<1>4. Seen <= now
  BY <1>0 DEF Timed
<1>5. CASE ~ sshd
  <2>1. dog' = "cancel"
    BY <1>5 DEF Poll
  <2> QED
    BY <1>0, <1>1, <1>2, <1>3, <1>4, <2>1 DEF Timed, OrphanTimed
<1>6. CASE sshd
  <2>1. dog' = "scan" /\ dogDue' = now + ScanMax /\ glob' = leases /\ latest' = 0
    BY <1>6 DEF Poll
  <2>2. Covered'
    BY <1>1, <2>1 DEF Covered
  <2>3. Timed'
    BY <1>1, <1>2, <1>4, <2>1 DEF Timed
  <2>4. CaughtUp => CaughtUp'
    BY <1>1 DEF CaughtUp
  <2>5. OrphanTimed'
    <3> SUFFICES ASSUME tunnel = "dead" PROVE OrphanTimed'
      BY <1>1 DEF OrphanTimed
    <3>1. CASE dogDue <= quietSince + ScanMax + Second
      <4>1. Seen' <= quietSince' + 2 * ScanMax + Second
        BY <1>1, <1>2, <1>3, <1>4, <3>1
      <4>2. dogDue' <= quietSince' + 2 * ScanMax + Second
        BY <1>1, <1>3, <2>1, <3>1
      <4> QED
        BY <2>1, <2>2, <4>1, <4>2 DEF OrphanTimed
    <3>2. CASE ~ (dogDue <= quietSince + ScanMax + Second)
      <4>1. dog = "sleep"
        BY <1>0, <3>2 DEF OrphanTimed
      <4>2. /\ CaughtUp /\ Seen <= quietSince + 2 * ScanMax + Second
            /\ dogDue <= quietSince + Limit + 2 * Second + 2 * ScanMax
        BY <3>2, <4>1 DEF OrphanTimed
      <4>3. latest' <= lastSeq' /\ Seen' <= quietSince' + 2 * ScanMax + Second
        BY <1>1, <1>2, <2>1, <4>2
      <4>4. dogDue' <= quietSince' + Limit' + 2 * Second + 3 * ScanMax
        BY <1>1, <1>2, <1>3, <2>1, <4>2
      <4> QED
        BY <2>1, <2>4, <4>2, <4>3, <4>4 DEF OrphanTimed
    <3> QED
      BY <3>1, <3>2
  <2> QED
    BY <2>3, <2>5
<1> QED
  BY <1>5, <1>6

\* The clock is restarted once at most after the heartbeats ended, and then runs out.
LEMMA JudgeTimed ==
  ASSUME TypeOK, Timed, OrphanTimed, Judge
  PROVE  Timed' /\ OrphanTimed'
<1> USE Constants, Numbers DEF tunnelVars, fileVars, workerVars, runVars, dogVars
<1> DEFINE newer == latest > lastSeq
           seen == IF newer THEN SECONDS ELSE lastSeen
<1>1. /\ dog = "scan" /\ glob = {}
      /\ UNCHANGED <<now, tunnel, leases, quietSince>>
      /\ lastSeq' = IF newer THEN latest ELSE lastSeq
      /\ lastSeen' = seen
      /\ \/ dog' = "cancel" /\ UNCHANGED dogDue
         \/ dog' = "sleep" /\ dogDue' = now + Second /\ SECONDS - seen < Timeout
  BY DEF Judge
<1>2. Limit' = Limit
  BY DEF Limit
<1>3. Seen' = (IF newer THEN SECONDS * Second ELSE Seen) /\ Seen' \in Nat
  BY <1>1 DEF Seen
<1>4. now <= dogDue /\ Seen <= now
  BY <1>1 DEF Timed
<1>5. Seen' <= now
  BY <1>3, <1>4
<1>6. dog' = "sleep" => now < Seen' + Limit
  <2>1. seen \in Nat
    OBVIOUS
  <2>2. dog' = "sleep" => SECONDS - seen < Timeout
    BY <1>1
  <2>3. SECONDS - seen < Timeout => now < seen * Second + Timeout * Second
    BY <2>1, NotTimedOut DEF SECONDS
  <2>4. Seen' = seen * Second
    BY <1>1 DEF Seen
  <2> QED
    BY <2>2, <2>3, <2>4 DEF Limit
<1>7. Timed'
  BY <1>1, <1>5 DEF Timed
<1>8. OrphanTimed'
  <2> SUFFICES ASSUME tunnel = "dead" PROVE OrphanTimed'
    BY <1>1 DEF OrphanTimed
  <2>1. Seen <= quietSince + 2 * ScanMax + Second
    BY <1>1 DEF OrphanTimed
  <2>2. CASE dogDue <= quietSince + ScanMax
    <3>1. Seen' <= quietSince + 2 * ScanMax + Second
      BY <1>3, <1>4, <1>5, <2>2
    <3>2. now <= quietSince + ScanMax
      BY <1>4, <2>2
    <3> QED
      BY <1>1, <1>2, <3>1, <3>2 DEF OrphanTimed
  <2>3. CASE Covered /\ dogDue <= quietSince + 2 * ScanMax + Second
    <3>1. CaughtUp'
      BY <1>1, <2>3 DEF Covered, CaughtUp
    <3>2. now <= quietSince + 2 * ScanMax + Second
      BY <1>4, <2>3
    <3>3. Seen' <= quietSince + 2 * ScanMax + Second
      BY <1>3, <1>5, <3>2
    <3>4. now + Second <= quietSince + Limit + 2 * Second + 2 * ScanMax
      BY <3>2
    <3> QED
      BY <1>1, <1>2, <3>1, <3>2, <3>3, <3>4 DEF OrphanTimed
  <2>4. CASE /\ CaughtUp /\ latest <= lastSeq
             /\ dogDue <= quietSince + Limit + 2 * Second + 3 * ScanMax
    <3>1. ~ newer
      BY <2>4
    <3>2. CaughtUp' /\ Seen' = Seen
      BY <1>1, <1>3, <2>4, <3>1 DEF CaughtUp
    <3>3. now <= quietSince + Limit + 2 * Second + 3 * ScanMax
      BY <1>4, <2>4
    <3>4. dog' = "sleep" => now + Second <= quietSince + Limit + 2 * Second + 2 * ScanMax
      BY <1>6, <2>1, <3>2
    <3> QED
      BY <1>1, <1>2, <2>1, <3>2, <3>3, <3>4 DEF OrphanTimed
  <2> QED
    BY <1>1, <2>2, <2>3, <2>4 DEF OrphanTimed
<1> QED
  BY <1>7, <1>8

\* Time does not pass what is due.
LEMMA TickTimed ==
  ASSUME TypeOK, Timed, OrphanTimed, Tick
  PROVE  Timed' /\ OrphanTimed'
<1> USE Constants, Numbers DEF tunnelVars, fileVars, workerVars, runVars, dogVars
<1>1. /\ dog \in Watching \ {"cancel"} => now < dogDue
      /\ dog # "cancel" /\ now' = now + 1
      /\ UNCHANGED <<tunnel, leases, quietSince, dog, dogDue, glob, latest, lastSeq,
                     lastSeen>>
  BY DEF Tick
<1>2. Seen' = Seen /\ Limit' = Limit
  BY <1>1 DEF Seen, Limit
<1>3. Timed'
  BY <1>1, <1>2 DEF Timed, Watching
<1>4. (CaughtUp <=> CaughtUp') /\ (Covered <=> Covered')
  BY <1>1 DEF CaughtUp, Covered
<1>5. OrphanTimed'
  BY <1>1, <1>2, <1>4 DEF OrphanTimed
<1> QED
  BY <1>3, <1>5

LEMMA NextTimed ==
  ASSUME TypeOK, Timed, OrphanTimed, [Next]_vars
  PROVE  Timed' /\ OrphanTimed'
<1>1. CASE DogSteps
  <2>1. CASE DogCancels
    BY <2>1, NoWatchdog DEF DogCancels, JobGone, Watching
  <2> QED
    BY <1>1, <2>1, ReadTimed, ArmedTimed, PollTimed, JudgeTimed DEF DogSteps
<1>2. CASE UNCHANGED vars
  BY <1>2, Elsewhere DEF vars, tunnelVars, fileVars, workerVars, runVars, dogVars
<1> QED
  BY <1>1, <1>2, TunnelTimed, WorkerTimed, TickTimed DEF Next

\* "A worker never outlives its tunnel by long": whatever the timings, wherever the
\* watchdog is when the heartbeats end, and however often the job is queued again.
THEOREM OrphanCorrect == Spec => []OrphanIsBounded
<1> DEFINE OrphanInv == TypeOK /\ Timed /\ OrphanTimed
<1>1. Init => OrphanInv
  BY InitType, InitTimed
<1>2. OrphanInv /\ [Next]_vars => OrphanInv'
  BY NextType, NextTimed
<1>3. OrphanInv => OrphanIsBounded
  <2> SUFFICES ASSUME OrphanInv, tunnel = "dead", dog \in Watching
               PROVE  now <= quietSince + (Timeout + 2) * Second + 3 * ScanMax
    BY DEF OrphanIsBounded
  <2>1. (Timeout + 2) * Second = Limit + 2 * Second
    BY Constants DEF Limit
  <2>2. now <= quietSince + Limit + 2 * Second + 3 * ScanMax
    BY Constants, Numbers DEF Timed, OrphanTimed, Watching
  <2> QED
    BY <2>1, <2>2, Constants, Numbers
<1> QED
  BY <1>1, <1>2, <1>3, PTL DEF Spec

-----------------------------------------------------------------------------
(***************************************************************************)
(* A tunnel that renews its lease is not given up on.                      *)
(***************************************************************************)

\* The next lease is under way: heartbeats go on, or `ready` is about to be seen.
Renewing == tunnel \in Beating \/ (tunnel = "notice" /\ status = "ready")

\* When the next lease is there at the latest.
NextLease ==
  CASE tunnel = "notice" -> due + WriteMax
    [] tunnel = "write"  -> due
    [] tunnel = "trim"   -> due + Interval + WriteMax
    [] tunnel = "wait"   -> due + WriteMax
    [] OTHER             -> 0

\* No step of the tunnel is overdue, or due later than its longest duration allows.
Punctual ==
  /\ Renewing => now <= due
  /\ tunnel = "notice" /\ status = "ready" => due <= now + NoticeMax
  /\ tunnel \in {"write", "trim"} => due <= now + WriteMax
  /\ tunnel = "wait" => due <= now + Interval

\* The latest lease is there, and nobody knows a later one.
LatestIsThere == dir /\ seq \in leases /\ latest <= seq /\ lastSeq <= seq

\* The watchdog's clock will not run out before the next lease is there and a look that
\* just misses it is over, unless there is a lease that it has not seen yet.
LeaseInTime ==
  dog \in {"poll", "scan", "sleep"} /\ Renewing =>
    lastSeq < seq \/ NextLease + ScanMax < Seen + Limit

\* A lease is there until the look at the leases is over.  There may be one more by then,
\* but not two, after which it is removed.
Lasting(n) ==
  /\ n \in leases
  /\ \/ n = seq
     \/ n + 1 = seq /\ (tunnel = "trim" \/ (tunnel = "wait" /\ dogDue < due))

\* A look comes upon a lease that restarts the clock, or is over before the clock runs out.
LookInTime ==
  dog = "scan" =>
    \/ latest > lastSeq
    \/ \E n \in glob : n > lastSeq /\ Lasting(n)
    \/ dogDue < Seen + Limit

\* The watchdog runs once `ready` was published.
AnnouncedFirst == worker \in {"arm", "serving"} => status # "none"

\* While the tunnel lives.
InTime ==
  LatestIsThere /\ Punctual /\ LeaseInTime /\ LookInTime /\ reason # "heartbeat_timeout"

RenewInv == TimingsLeaveRoom /\ tunnel # "dead" => InTime

LEMMA InitRenew == Init => AnnouncedFirst /\ RenewInv
BY DEF Init, AnnouncedFirst, RenewInv, InTime, LatestIsThere, Punctual, Renewing,
       LeaseInTime, LookInTime, Beating

LEMMA NextAnnounced == AnnouncedFirst /\ [Next]_vars => AnnouncedFirst'
<1> SUFFICES ASSUME AnnouncedFirst, [Next]_vars PROVE AnnouncedFirst'
  OBVIOUS
<1> USE DEF AnnouncedFirst, tunnelVars, fileVars, workerVars, runVars, dogVars
<1>1. CASE TunnelSteps
  BY <1>1 DEF TunnelSteps, SeesReady, RenameLease, TrimLeases, NextBeat, TunnelDies,
              TunnelStops, JobGone
<1>2. CASE JobStarts \/ TryPort \/ ClientLeavesProcess \/ JobKilled \/ Requeued
  BY <1>2 DEF JobStarts, TryPort, ClientLeavesProcess, JobKilled, JobGone, Requeued
<1>3. CASE NoPorts \/ SshdExits
  BY <1>3 DEF NoPorts, SshdExits, Publish, ScriptExits
<1>4. CASE Announce
  BY <1>4 DEF Announce, ScriptExits
<1>5. CASE Arm
  BY <1>5 DEF Arm, Publish, ScriptExits
<1>6. CASE DogSteps
  BY <1>6 DEF DogSteps, ReadLease, Armed, Poll, Judge, DogCancels, JobGone
<1>7. CASE Tick \/ UNCHANGED vars
  BY <1>7 DEF Tick, vars
<1> QED
  BY <1>1, <1>2, <1>3, <1>4, <1>5, <1>6, <1>7 DEF Next, WorkerSteps

\* The tunnel's numbers.
LEMMA TunnelNumbers ==
  ASSUME TypeOK
  PROVE  /\ seq \in Nat /\ due \in Nat /\ NextLease \in Nat
         /\ leases \subseteq 1..seq /\ glob \subseteq 1..seq
         /\ \A n \in leases \cup glob : n \in Nat
<1>1. /\ seq \in Nat /\ due \in Nat
      /\ leases \subseteq 1..seq /\ glob \subseteq 1..seq
  BY DEF TypeOK
<1> QED
  BY <1>1, Constants DEF NextLease

\* From the latest lease to the look after the next, there is room.
LEMMA RoomForALease ==
  ASSUME TypeOK, TimingsLeaveRoom, Punctual, Renewing
  PROVE  now <= NextLease /\ NextLease + ScanMax + Second <= now + Limit
<1> USE Constants, Numbers, TunnelNumbers DEF Punctual, Renewing, Beating
<1>1. /\ Interval + 2 * WriteMax + ScanMax + Second <= Limit
      /\ NoticeMax + WriteMax + ScanMax + Second <= Limit
  BY DEF TimingsLeaveRoom, Limit
<1>2. now <= due
  OBVIOUS
<1>3. CASE tunnel = "notice"
  BY <1>1, <1>2, <1>3 DEF NextLease
<1>4. CASE tunnel = "write"
  BY <1>1, <1>2, <1>4 DEF NextLease
<1>5. CASE tunnel = "trim"
  BY <1>1, <1>2, <1>5 DEF NextLease
<1>6. CASE tunnel = "wait"
  BY <1>1, <1>2, <1>6 DEF NextLease
<1> QED
  BY <1>3, <1>4, <1>5, <1>6

\* What neither the tunnel nor the watchdog does leaves it so, unless `ready` is published.
LEMMA NotOfTheLease ==
  ASSUME InTime, status' \in {status, "failed", "stopped"},
         UNCHANGED <<now, tunnel, due, seq, leases, dir, dogVars>>
  PROVE  InTime'
<1> USE DEF dogVars
<1>1. Renewing' => Renewing
  BY DEF Renewing
<1>2. NextLease' = NextLease /\ Seen' = Seen /\ Limit' = Limit
  BY DEF NextLease, Seen, Limit
<1>3. LatestIsThere'
  BY DEF InTime, LatestIsThere
<1>4. Punctual'
  BY <1>1 DEF InTime, Punctual
<1>5. LeaseInTime'
  BY <1>1, <1>2 DEF InTime, LeaseInTime
<1>6. LookInTime'
  BY <1>2 DEF InTime, LookInTime, Lasting
<1> QED
  BY <1>3, <1>4, <1>5, <1>6 DEF InTime

\* Nothing needs to be in time of a watchdog that does not run yet, or no longer.
LEMMA NoLooks ==
  ASSUME InTime, dog' \in {"off", "arming", "cancel", "done"},
         latest' \in {latest, 0}, lastSeq' \in {lastSeq, 0}, seq \in Nat,
         reason' # "heartbeat_timeout",
         UNCHANGED <<now, tunnel, due, seq, leases, dir, status>>
  PROVE  InTime'
<1>1. LatestIsThere'
  BY DEF InTime, LatestIsThere
<1>2. Punctual'
  BY DEF InTime, Punctual, Renewing
<1>3. LeaseInTime' /\ LookInTime'
  BY DEF LeaseInTime, LookInTime
<1> QED
  BY <1>1, <1>2, <1>3 DEF InTime

LEMMA TunnelRenew ==
  ASSUME TypeOK, Timed, TimingsLeaveRoom, InTime, TunnelSteps, tunnel' # "dead"
  PROVE  InTime'
<1> USE Constants, Numbers, TunnelNumbers
    DEF tunnelVars, fileVars, workerVars, runVars, dogVars
<1>1. UNCHANGED <<now, status, dog, dogDue, glob, latest, lastSeq, lastSeen, reason>>
  BY DEF TunnelSteps, SeesReady, RenameLease, TrimLeases, NextBeat, TunnelDies, TunnelStops
<1>2. Seen' = Seen /\ Limit' = Limit
  BY <1>1 DEF Seen, Limit
<1>3. reason' # "heartbeat_timeout"
  BY <1>1 DEF InTime
<1>4. now <= due /\ Renewing
  BY DEF InTime, Punctual, Renewing, Beating, TunnelSteps, SeesReady, RenameLease,
         TrimLeases, NextBeat, TunnelDies, TunnelStops
<1>5. CASE SeesReady
  <2>1. /\ tunnel = "notice" /\ tunnel' = "write" /\ due' = now + WriteMax
        /\ UNCHANGED <<seq, leases, dir>>
    BY <1>5 DEF SeesReady
  <2>2. LatestIsThere'
    BY <1>1, <2>1 DEF InTime, LatestIsThere
  <2>3. Punctual'
    BY <1>1, <2>1 DEF Punctual, Renewing
  <2>4. NextLease' <= NextLease
    BY <1>4, <2>1 DEF NextLease
  <2>5. LeaseInTime'
    <3>1. NextLease' \in Nat
      BY <2>1 DEF NextLease
    <3> QED
      BY <1>1, <1>2, <1>4, <2>1, <2>4, <3>1 DEF InTime, LeaseInTime
  <2>6. \A n : Lasting(n) => Lasting(n)'
    BY <1>1, <2>1 DEF Lasting
  <2>7. LookInTime'
    BY <1>1, <1>2, <2>6 DEF InTime, LookInTime
  <2> QED
    BY <1>3, <2>2, <2>3, <2>5, <2>7 DEF InTime
<1>6. CASE RenameLease
  <2>1. /\ tunnel = "write" /\ tunnel' = "trim" /\ due' = due
        /\ seq' = seq + 1 /\ leases' = leases \cup {seq + 1} /\ dir' = dir
    BY <1>6 DEF RenameLease
  <2>2. LatestIsThere'
    BY <1>1, <2>1 DEF InTime, LatestIsThere
  <2>3. Punctual'
    BY <1>1, <1>4, <2>1 DEF InTime, Punctual, Renewing
  <2>4. lastSeq' < seq'
    BY <1>1, <2>1 DEF InTime, LatestIsThere
  <2>5. LeaseInTime'
    BY <2>4 DEF LeaseInTime
  <2>6. \A n : Lasting(n) => Lasting(n)'
    BY <1>1, <2>1 DEF Lasting
  <2>7. LookInTime'
    BY <1>1, <1>2, <2>6 DEF InTime, LookInTime
  <2> QED
    BY <1>3, <2>2, <2>3, <2>5, <2>7 DEF InTime
<1>7. CASE TrimLeases
  <2>1. /\ tunnel = "trim" /\ tunnel' = "wait" /\ due' = now + Interval
        /\ UNCHANGED <<seq, dir>>
    BY <1>7 DEF TrimLeases
  <2>2. \A n \in leases : n = seq \/ n + 1 = seq => n \in leases'
    <3>1. \/ leases' = {n \in leases : n + Retain # seq}
          \/ leases' = leases
      BY <1>7 DEF TrimLeases
    <3> QED
      BY <3>1 DEF Retain
  <2>3. LatestIsThere'
    BY <1>1, <2>1, <2>2 DEF InTime, LatestIsThere
  <2>4. Punctual'
    BY <1>1, <2>1 DEF Punctual, Renewing
  <2>5. NextLease' <= NextLease /\ NextLease' \in Nat
    BY <1>4, <2>1 DEF NextLease
  <2>6. LeaseInTime'
    BY <1>1, <1>2, <1>4, <2>1, <2>5 DEF InTime, LeaseInTime
  <2>7. dog = "scan" => dogDue' < due'
    BY <1>1, <2>1 DEF Timed, TimingsLeaveRoom
  <2>8. dog = "scan" => \A n : Lasting(n) => Lasting(n)'
    BY <2>1, <2>2, <2>7 DEF Lasting
  <2>9. LookInTime'
    BY <1>1, <1>2, <2>8 DEF InTime, LookInTime
  <2> QED
    BY <1>3, <2>3, <2>4, <2>6, <2>9 DEF InTime
<1>8. CASE NextBeat
  <2>1. /\ tunnel = "wait" /\ now = due /\ tunnel' = "write" /\ due' = now + WriteMax
        /\ UNCHANGED <<seq, leases, dir>>
    BY <1>8 DEF NextBeat
  <2>2. LatestIsThere'
    BY <1>1, <2>1 DEF InTime, LatestIsThere
  <2>3. Punctual'
    BY <1>1, <2>1 DEF Punctual, Renewing
  <2>4. NextLease' = NextLease
    BY <2>1 DEF NextLease
  <2>5. LeaseInTime'
    BY <1>1, <1>2, <1>4, <2>1, <2>4 DEF InTime, LeaseInTime
  <2>6. dog = "scan" => ~ (dogDue < due)
    BY <2>1 DEF Timed
  <2>7. dog = "scan" => \A n : Lasting(n) => Lasting(n)'
    BY <2>1, <2>6 DEF Lasting
  <2>8. LookInTime'
    BY <1>1, <1>2, <2>7 DEF InTime, LookInTime
  <2> QED
    BY <1>3, <2>2, <2>3, <2>5, <2>8 DEF InTime
<1> QED
  BY <1>5, <1>6, <1>7, <1>8 DEF TunnelSteps, TunnelDies, TunnelStops

LEMMA WorkerRenew ==
  ASSUME TypeOK, WatchInv, InTime, WorkerSteps
  PROVE  InTime'
<1> USE DEF tunnelVars, fileVars, workerVars, runVars
<1>1. CASE JobStarts
  BY <1>1, NotOfTheLease DEF JobStarts
<1>2. CASE TryPort
  BY <1>2, NotOfTheLease DEF TryPort
<1>3. CASE NoPorts
  BY <1>3, NotOfTheLease DEF NoPorts, Publish
<1>4. CASE Announce
  <2>1. CASE ~ dir
    BY <1>4, <2>1 DEF Announce, InTime, LatestIsThere
  <2>2. CASE dir
    <3>1. dog' = "off"
      BY <1>4 DEF Announce, WatchInv, dogVars
    <3>2. /\ UNCHANGED <<now, tunnel, seq, leases, dir, dogVars>>
          /\ due' = IF tunnel = "notice" /\ status # "ready" THEN now + NoticeMax ELSE due
      BY <1>4, <2>2 DEF Announce
    <3>3. LatestIsThere'
      BY <3>2 DEF InTime, LatestIsThere, dogVars
    <3>4. Punctual'
      <4>1. now \in Nat /\ due \in Nat /\ NoticeMax \in Nat
        BY Numbers, TunnelNumbers, Constants
      <4>2. CASE tunnel = "notice" /\ status # "ready"
        BY <3>2, <4>1, <4>2 DEF Punctual, Renewing, Beating
      <4>3. CASE ~ (tunnel = "notice" /\ status # "ready")
        BY <3>2, <4>3 DEF InTime, Punctual, Renewing
      <4> QED
        BY <4>2, <4>3
    <3>5. LeaseInTime' /\ LookInTime'
      BY <3>1 DEF LeaseInTime, LookInTime
    <3> QED
      BY <3>2, <3>3, <3>4, <3>5 DEF InTime, dogVars
  <2> QED
    BY <2>1, <2>2
<1>5. CASE Arm
  <2>1. CASE ScriptExits
    BY <1>5, <2>1, NotOfTheLease DEF Arm, ScriptExits, Publish, dogVars
  <2>2. CASE dog' = "arming" /\ latest' = 0 /\ UNCHANGED status
    BY <1>5, <2>2, NoLooks, TunnelNumbers DEF Arm, InTime
  <2> QED
    BY <1>5, <2>1, <2>2 DEF Arm
<1>6. CASE SshdExits
  BY <1>6, NotOfTheLease DEF SshdExits, Publish
<1>7. CASE ClientLeavesProcess
  BY <1>7, NotOfTheLease DEF ClientLeavesProcess
<1>8. CASE JobKilled
  <2>1. dog' \in {"off", "done"}
    BY <1>8 DEF JobKilled, JobGone
  <2> QED
    BY <1>8, <2>1, NoLooks, TunnelNumbers DEF JobKilled, JobGone, DogForgets, InTime
<1>9. CASE Requeued
  BY <1>9, NoLooks, TunnelNumbers DEF Requeued, DogForgets
<1> QED
  BY <1>1, <1>2, <1>3, <1>4, <1>5, <1>6, <1>7, <1>8, <1>9 DEF WorkerSteps

\* A look reads the lease it relies on before that is gone.
LEMMA ReadRenew ==
  ASSUME TypeOK, InTime, ReadLease
  PROVE  InTime'
<1> USE Constants, Numbers, TunnelNumbers
    DEF tunnelVars, fileVars, workerVars, runVars, dogVars
<1>1. PICK n : /\ glob' = glob \ {n}
               /\ latest' = IF n \in leases /\ n > latest THEN n ELSE latest
  BY DEF ReadLease
<1>2. /\ UNCHANGED <<now, tunnel, due, seq, leases, dir, status, dog, dogDue, lastSeq>>
      /\ UNCHANGED <<lastSeen, reason>>
  BY DEF ReadLease
<1>3. NextLease' = NextLease /\ Seen' = Seen /\ Limit' = Limit
  BY <1>2 DEF NextLease, Seen, Limit
<1>4. LatestIsThere'
  BY <1>1, <1>2 DEF InTime, LatestIsThere
<1>5. Punctual' /\ LeaseInTime'
  BY <1>2, <1>3 DEF InTime, Punctual, LeaseInTime, Renewing
<1>6. \A m : Lasting(m) => Lasting(m)' /\ m \in leases
  BY <1>2 DEF Lasting
<1>7. LookInTime'
  <2> SUFFICES ASSUME dog = "scan" PROVE LookInTime'
    BY <1>2 DEF LookInTime
  <2>1. CASE latest > lastSeq
    BY <1>1, <1>2, <2>1 DEF LookInTime
  <2>2. CASE \E m \in glob : m > lastSeq /\ Lasting(m)
    <3>1. PICK m \in glob : m > lastSeq /\ Lasting(m)
      BY <2>2
    <3>2. CASE m = n
      <4>1. m \in leases /\ m \in Nat
        BY <1>6, <3>1
      <4>2. latest' > lastSeq
        BY <1>1, <3>1, <3>2, <4>1
      <4> QED
        BY <1>2, <4>2 DEF LookInTime
    <3>3. CASE m # n
      BY <1>1, <1>2, <1>6, <3>1, <3>3 DEF LookInTime
    <3> QED
      BY <3>2, <3>3
  <2>3. CASE dogDue < Seen + Limit
    BY <1>2, <1>3, <2>3 DEF LookInTime
  <2> QED
    BY <2>1, <2>2, <2>3 DEF InTime, LookInTime
<1> QED
  BY <1>2, <1>4, <1>5, <1>7 DEF InTime

\* A clock that starts now will not run out before the next lease was looked for.
LEMMA ClockStarts ==
  ASSUME TypeOK, TimingsLeaveRoom, Punctual, Renewing
  PROVE  NextLease + ScanMax < SECONDS * Second + Limit
<1>1. NextLease + ScanMax + Second <= now + Limit
  BY RoomForALease
<1>2. now < SECONDS * Second + Second
  BY SecondBegins, Numbers DEF SECONDS
<1>3. /\ SECONDS * Second \in Nat /\ NextLease \in Nat /\ now \in Nat /\ Limit \in Nat
      /\ ScanMax \in Nat /\ Second \in Nat
  BY Numbers, TunnelNumbers, Constants
<1> QED
  BY <1>1, <1>2, <1>3

LEMMA ArmedRenew ==
  ASSUME TypeOK, TimingsLeaveRoom, InTime, Armed
  PROVE  InTime'
<1> USE DEF tunnelVars, fileVars, workerVars, runVars
<1>1. /\ dog' = "poll" /\ lastSeq' = latest /\ lastSeen' = SECONDS /\ latest' = 0
      /\ UNCHANGED <<now, tunnel, due, seq, leases, dir, status, reason>>
  BY DEF Armed
<1>2. LatestIsThere'
  BY <1>1, TunnelNumbers DEF InTime, LatestIsThere
<1>3. Punctual'
  BY <1>1 DEF InTime, Punctual, Renewing
<1>4. NextLease' = NextLease /\ Limit' = Limit /\ Seen' = SECONDS * Second
  BY <1>1 DEF NextLease, Limit, Seen
<1>5. Renewing' => Renewing
  BY <1>1 DEF Renewing
<1>6. LeaseInTime'
  BY <1>4, <1>5, ClockStarts DEF LeaseInTime, InTime
<1>7. LookInTime'
  BY <1>1 DEF LookInTime
<1> QED
  BY <1>1, <1>2, <1>3, <1>6, <1>7 DEF InTime

\* A look begins while the latest lease is new to the watchdog, or well before the clock
\* runs out.
LEMMA PollRenew ==
  ASSUME TypeOK, WatchInv, AnnouncedFirst, TimingsLeaveRoom, InTime, tunnel # "dead", Poll
  PROVE  InTime'
<1> USE DEF tunnelVars, fileVars, workerVars, runVars
<1>1. dog \in {"poll", "sleep"}
  BY Zenon DEF Poll
<1>2. UNCHANGED <<now, tunnel, due, seq, leases, dir, status, lastSeq, lastSeen>>
  BY DEF Poll
<1>3. CASE ~ sshd
  <2>1. dog' = "cancel" /\ reason' = "sshd_exited" /\ latest' = latest
    BY <1>3 DEF Poll
  <2> QED
    BY <1>2, <2>1, NoLooks, TunnelNumbers
<1>4. CASE sshd
  <2>1. /\ dog' = "scan" /\ dogDue' = now + ScanMax /\ glob' = leases /\ latest' = 0
        /\ reason' = reason
    BY <1>4 DEF Poll
  <2>2. worker = "serving"
    BY <1>1, <1>4 DEF WatchInv
  <2>3. status = "ready"
    BY <1>4, <2>2 DEF WatchInv, AnnouncedFirst, TypeOK
  <2>4. Renewing
    BY <2>3 DEF Renewing, TypeOK
  <2>5. NextLease' = NextLease /\ Seen' = Seen /\ Limit' = Limit
    BY <1>2 DEF NextLease, Seen, Limit
  <2>6. lastSeq < seq \/ NextLease + ScanMax < Seen + Limit
    BY <1>1, <2>4 DEF InTime, LeaseInTime
  <2>7. LatestIsThere'
    BY <1>2, <2>1, TunnelNumbers DEF InTime, LatestIsThere
  <2>8. Punctual'
    BY <1>2 DEF InTime, Punctual, Renewing
  <2>9. LeaseInTime'
    BY <1>2, <2>5, <2>6 DEF LeaseInTime
  <2>10. LookInTime'
    <3>1. CASE lastSeq < seq
      <4>1. seq' \in glob' /\ seq' > lastSeq' /\ Lasting(seq)'
        BY <1>2, <2>1, <3>1, Numbers, TunnelNumbers DEF InTime, LatestIsThere, Lasting
      <4> QED
        BY <4>1 DEF LookInTime, Lasting
    <3>2. CASE NextLease + ScanMax < Seen + Limit
      <4>1. now <= NextLease
        BY <2>4, RoomForALease DEF InTime
      <4>2. dogDue' < Seen' + Limit'
        BY <2>1, <2>5, <3>2, <4>1, Numbers, TunnelNumbers, Constants
      <4> QED
        BY <4>2 DEF LookInTime
    <3> QED
      BY <2>6, <3>1, <3>2
  <2> QED
    BY <2>1, <2>7, <2>8, <2>9, <2>10 DEF InTime
<1> QED
  BY <1>3, <1>4

\* A look that found no newer lease is over before the clock has run out.
LEMMA JudgeRenew ==
  ASSUME TypeOK, Timed, TimingsLeaveRoom, InTime, Judge
  PROVE  InTime'
<1> USE DEF tunnelVars, fileVars, workerVars, runVars
<1> DEFINE newer == latest > lastSeq
           seen == IF newer THEN SECONDS ELSE lastSeen
<1>1. /\ dog = "scan" /\ glob = {}
      /\ UNCHANGED <<now, tunnel, due, seq, leases, dir, status>>
      /\ lastSeq' = IF newer THEN latest ELSE lastSeq
      /\ lastSeen' = seen /\ latest' = 0
      /\ \/ SECONDS - seen >= Timeout
         \/ dog' = "sleep" /\ reason' = reason
  BY DEF Judge
<1>2. newer \/ dogDue < Seen + Limit
  BY <1>1 DEF InTime, LookInTime
<1>3. ~ (SECONDS - seen >= Timeout)
  <2>1. CASE newer
    BY <2>1, Numbers, Constants
  <2>2. CASE ~ newer
    <3>1. SECONDS * Second < Seen + Limit
      BY <1>1, <1>2, <2>2, Numbers, Constants DEF Timed
    <3>2. Seen + Limit = (lastSeen + Timeout) * Second
      BY Numbers, Constants DEF Seen, Limit
    <3>3. SECONDS >= lastSeen + Timeout => (lastSeen + Timeout) * Second <= SECONDS * Second
      BY Monotone, Numbers, Constants
    <3>4. ~ (SECONDS >= lastSeen + Timeout)
      <4>1. SECONDS * Second \in Nat /\ (lastSeen + Timeout) * Second \in Nat
        BY Numbers, Constants
      <4> QED
        BY <3>1, <3>2, <3>3, <4>1
    <3> QED
      BY <2>2, <3>4, Numbers, Constants
  <2> QED
    BY <2>1, <2>2
<1>4. dog' = "sleep" /\ reason' # "heartbeat_timeout"
  BY <1>1, <1>3 DEF InTime
<1>5. LatestIsThere'
  BY <1>1, TunnelNumbers DEF InTime, LatestIsThere
<1>6. Punctual'
  BY <1>1 DEF InTime, Punctual, Renewing
<1>7. NextLease' = NextLease /\ Limit' = Limit /\ Seen' = seen * Second
  BY <1>1 DEF NextLease, Limit, Seen
<1>8. LeaseInTime'
  <2> SUFFICES ASSUME Renewing
               PROVE  lastSeq' < seq \/ NextLease + ScanMax < Seen' + Limit
    BY <1>1, <1>7 DEF LeaseInTime, Renewing
  <2>1. CASE newer
    BY <1>7, <2>1, ClockStarts DEF InTime
  <2>2. CASE ~ newer
    BY <1>1, <1>7, <2>2 DEF InTime, LeaseInTime, Seen
  <2> QED
    BY <2>1, <2>2
<1>9. LookInTime'
  BY <1>4 DEF LookInTime
<1> QED
  BY <1>4, <1>5, <1>6, <1>8, <1>9 DEF InTime

LEMMA TickRenew ==
  ASSUME TypeOK, InTime, Tick
  PROVE  InTime'
<1> USE DEF tunnelVars, fileVars, workerVars, runVars, dogVars
<1>1. /\ now' = now + 1
      /\ Renewing => now < due
      /\ UNCHANGED <<tunnel, due, seq, leases, dir, status, dog, dogDue, glob, latest,
                     lastSeq, lastSeen, reason>>
  BY DEF Tick, Renewing
<1>2. NextLease' = NextLease /\ Seen' = Seen /\ Limit' = Limit /\ (Renewing' <=> Renewing)
  BY <1>1 DEF NextLease, Seen, Limit, Renewing
<1>3. Punctual'
  BY <1>1, <1>2, Constants, Numbers, TunnelNumbers DEF InTime, Punctual, Renewing
<1>4. LatestIsThere' /\ LeaseInTime'
  BY <1>1, <1>2 DEF InTime, LatestIsThere, LeaseInTime
<1>5. LookInTime'
  BY <1>1, <1>2 DEF InTime, LookInTime, Lasting
<1> QED
  BY <1>1, <1>3, <1>4, <1>5 DEF InTime

LEMMA NextRenew ==
  ASSUME TypeOK, Timed, WatchInv, AnnouncedFirst, RenewInv, [Next]_vars
  PROVE  RenewInv'
<1> USE DEF tunnelVars, fileVars, workerVars, runVars, dogVars
<1> SUFFICES ASSUME TimingsLeaveRoom, tunnel' # "dead" PROVE InTime'
  BY DEF RenewInv, TimingsLeaveRoom
<1>1. tunnel # "dead"
  BY DEF Next, TunnelSteps, SeesReady, RenameLease, TrimLeases, NextBeat, TunnelDies,
         TunnelStops, WorkerSteps, JobStarts, TryPort, NoPorts, Announce, Arm, SshdExits,
         ClientLeavesProcess, JobKilled, Requeued, DogSteps, ReadLease, Armed, Poll, Judge,
         DogCancels, Tick, vars
<1>2. InTime
  BY <1>1 DEF RenewInv
<1>3. CASE DogCancels
  BY <1>2, <1>3, NoLooks, TunnelNumbers
  DEF DogCancels, JobGone, DogForgets, InTime
<1>4. CASE DogSteps
  BY <1>1, <1>2, <1>3, <1>4, ReadRenew, ArmedRenew, PollRenew, JudgeRenew DEF DogSteps
<1>5. CASE UNCHANGED vars
  BY <1>2, <1>5, NotOfTheLease DEF vars
<1> QED
  BY <1>2, <1>4, <1>5, TunnelRenew, WorkerRenew, TickRenew DEF Next

\* The watchdog never gives up on a tunnel that renews its lease, for any timings that
\* leave it room: wherever the look is when a lease is renamed, and whichever of the files
\* that it found are gone when it comes to them.
THEOREM RenewCorrect == Spec => []NoFalseTimeout
<1> DEFINE Inv == TypeOK /\ Timed /\ OrphanTimed /\ WatchInv /\ AnnouncedFirst /\ RenewInv
<1>1. Init => Inv
  BY InitType, InitTimed, InitWatch, InitRenew
<1>2. Inv /\ [Next]_vars => Inv'
  BY NextType, NextTimed, NextWatch, NextAnnounced, NextRenew
<1>3. Inv => NoFalseTimeout
  BY DEF RenewInv, InTime, NoFalseTimeout
<1> QED
  BY <1>1, <1>2, <1>3, PTL DEF Spec
=============================================================================
