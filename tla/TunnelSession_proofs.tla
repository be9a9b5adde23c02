------------------------- MODULE TunnelSession_proofs -------------------------
(***************************************************************************)
(* What a session promises about its exit stack, its shielded steps and    *)
(* its stop, in both submission modes and whatever the login connection,   *)
(* the scheduler and the user do.                                          *)
(***************************************************************************)
EXTENDS TunnelSession, TLAPS

-----------------------------------------------------------------------------
(***************************************************************************)
(* Exit stacks.                                                            *)
(***************************************************************************)

\* The cleanup steps on a stack `s`, and whether it releases nothing before what
\* needs it.
On(s) == {s[i] : i \in DOMAIN s}

Ordered(s) ==
  \A i \in DOMAIN s : \A n \in Needs[s[i]] : \E j \in 1..(i - 1) : s[j] = n

\* Pushing a cleanup step whose needs are on the stack keeps it ordered.
LEMMA PushOrdered ==
  ASSUME NEW s \in Seq(Cleanups), NEW x \in Cleanups,
         Ordered(s), Needs[x] \subseteq On(s)
  PROVE  /\ Append(s, x) \in Seq(Cleanups)
         /\ Ordered(Append(s, x))
         /\ On(Append(s, x)) = On(s) \cup {x}
<1> DEFINE t == Append(s, x)
<1>1. /\ t \in Seq(Cleanups) /\ Len(t) = Len(s) + 1
      /\ DOMAIN s = 1..Len(s) /\ DOMAIN t = 1..(Len(s) + 1) /\ Len(s) \in Nat
      /\ \A i \in 1..Len(s) : t[i] = s[i]
      /\ t[Len(s) + 1] = x
  OBVIOUS
<1> HIDE DEF t
<1>2. Ordered(t)
  <2> SUFFICES ASSUME NEW i \in 1..(Len(s) + 1), NEW n \in Needs[t[i]]
               PROVE  \E j \in 1..(i - 1) : t[j] = n
    BY <1>1 DEF Ordered
  <2>1. CASE i \in 1..Len(s)
    <3>1. PICK j \in 1..(i - 1) : s[j] = n
      BY <1>1, <2>1 DEF Ordered
    <3>2. j \in 1..Len(s)
      BY <1>1, <2>1
    <3> QED
      BY <1>1, <3>1, <3>2
  <2>2. CASE i = Len(s) + 1
    <3>1. PICK j \in 1..Len(s) : s[j] = n
      BY <1>1, <2>2 DEF On
    <3>2. i - 1 = Len(s)
      BY <1>1, <2>2
    <3> QED
      BY <1>1, <3>1, <3>2
  <2> QED
    BY <1>1, <2>1, <2>2
<1>3. On(t) = On(s) \cup {x}
  <2>1. On(t) \subseteq On(s) \cup {x}
    <3> SUFFICES ASSUME NEW i \in 1..(Len(s) + 1) PROVE t[i] \in On(s) \cup {x}
      BY <1>1 DEF On
    <3>1. i \in 1..Len(s) \/ i = Len(s) + 1
      BY <1>1
    <3> QED
      BY <1>1, <3>1 DEF On
  <2>2. On(s) \cup {x} \subseteq On(t)
    <3>1. Len(s) + 1 \in DOMAIN t /\ 1..Len(s) \subseteq DOMAIN t
      BY <1>1
    <3> QED
      BY <1>1, <3>1 DEF On
  <2> QED
    BY <2>1, <2>2
<1> QED
  BY <1>1, <1>2, <1>3 DEF t

\* Popping one keeps the rest in order.
LEMMA PopOrdered ==
  ASSUME NEW s \in Seq(Cleanups), s # <<>>, Ordered(s)
  PROVE  /\ SubSeq(s, 1, Len(s) - 1) \in Seq(Cleanups)
         /\ Ordered(SubSeq(s, 1, Len(s) - 1))
         /\ On(SubSeq(s, 1, Len(s) - 1)) \subseteq On(s)
         /\ On(s) \subseteq On(SubSeq(s, 1, Len(s) - 1)) \cup {s[Len(s)]}
         /\ s[Len(s)] \in On(s) /\ s[Len(s)] \in Cleanups
<1> DEFINE t == SubSeq(s, 1, Len(s) - 1)
<1>1. /\ t \in Seq(Cleanups) /\ Len(s) \in Nat /\ Len(s) > 0
      /\ DOMAIN s = 1..Len(s) /\ DOMAIN t = 1..(Len(s) - 1)
      /\ \A i \in 1..(Len(s) - 1) : t[i] = s[i]
      /\ s[Len(s)] \in Cleanups
  OBVIOUS
<1> HIDE DEF t
<1>2. Ordered(t)
  <2> SUFFICES ASSUME NEW i \in 1..(Len(s) - 1), NEW n \in Needs[t[i]]
               PROVE  \E j \in 1..(i - 1) : t[j] = n
    BY <1>1 DEF Ordered
  <2>1. PICK j \in 1..(i - 1) : s[j] = n
    BY <1>1 DEF Ordered
  <2> QED
    BY <1>1, <2>1
<1>3. On(t) \subseteq On(s) /\ On(s) \subseteq On(t) \cup {s[Len(s)]}
  <2>1. Len(s) \in Nat /\ Len(s) > 0
    BY <1>1
  <2>2. ASSUME NEW i \in 1..Len(s) PROVE i = Len(s) \/ i \in 1..(Len(s) - 1)
    BY <2>1
  <2>3. 1..(Len(s) - 1) \subseteq 1..Len(s)
    BY <2>1
  <2>4. On(t) \subseteq On(s)
    BY <1>1, <2>3 DEF On
  <2>5. ASSUME NEW i \in 1..Len(s) PROVE s[i] \in On(t) \cup {s[Len(s)]}
    BY <1>1, <2>2 DEF On
  <2> QED
    BY <1>1, <2>4, <2>5 DEF On
<1>4. s[Len(s)] \in On(s)
  <2>1. Len(s) \in 1..Len(s)
    BY <1>1
  <2> QED
    BY <1>1, <2>1 DEF On
<1> QED
  BY <1>1, <1>2, <1>3, <1>4 DEF t

\* The stack of the session, in these terms.
LEMMA StackTerms == Registered = On(stack) /\ (CleanupOrdered <=> Ordered(stack))
BY DEF Registered, On, CleanupOrdered, Ordered
-----------------------------------------------------------------------------
(***************************************************************************)
(* The submission mode.                                                    *)
(***************************************************************************)

\* No step of a session changes the mode its profile asks for.
LEMMA ModeKept ==
  ASSUME [Next]_vars
  PROVE  mode' = mode /\ Interactive' = Interactive
<1> USE DEF envVars
<1>1. CASE Start
  BY <1>1 DEF Start, AcquireLock, Connect, Prepare, EnterSftp, EnsureDirectories,
      ControlCreated, PublishFirstLease, SubmissionOpens, SubmittedInteractive,
      SubmittedBatch, StartCommand, JobRuns, ReadyPort, EndpointAnswers,
      ForwardPort, Published, StepFails, JobSeenEnded, PromptInterrupted, Interactive
<1>2. CASE Background \/ Environment
  BY <1>2 DEF Background, WatchConnection, OutputEnds, HeartbeatFails,
      MonitorSeesEnd, MonitorFails, Environment, ConnectionLost, JobStarts,
      JobEnds, Interrupt, ForceQuit, Interactive
<1>3. CASE Stopping \/ Unwind \/ Terminated \/ UNCHANGED vars
  BY <1>3 DEF Stopping, CancelDelivered, FinishedThenStops, Unwind, StopTask,
      ReleaseResource, RemoveControlDirectory, CancelJob, CleanupFails,
      CleanupCancelled, RunReturns, Terminated, vars, Interactive
<1>4. CASE (\E s \in Shielded : ShieldedStep(s)) \/ (\E r \in {"lock", "block"} : LateThread(r))
  BY <1>4 DEF ShieldedStep, StepApplies, StepReturns, StepRaises, GaveUpWaiting,
      LateThread, Interactive
<1> QED
  BY <1>1, <1>2, <1>3, <1>4 DEF Next
-----------------------------------------------------------------------------
(***************************************************************************)
(* The inductive invariant.                                                *)
(***************************************************************************)

Active == Starting \cup {"serve"}

\* What `_start` has registered by the time it has logged in, created the control
\* directory, submitted the job, seen it ready and forwarded the port.
LoggedIn   == {"lock", "conn", "watcher"}
Controlled == LoggedIn \cup {"sftp", "ctl"}
Submitted  == Controlled \cup {"job"} \cup
                (IF Interactive THEN {"proc", "output"} ELSE {})
Ready      == Submitted \cup {"heartbeats"}
Forwarded  == Ready \cup {"port", "block"}

\* These depend on the mode alone.
LEMMA ModeRegisters ==
  ASSUME Interactive' = Interactive
  PROVE  Submitted' = Submitted /\ Ready' = Ready /\ Forwarded' = Forwarded
BY DEF Submitted, Ready, Forwarded

\* The stack while the main task has not left `_start` and the serving: an
\* action that pushes a cleanup step finds what that step needs.
StackAt ==
  /\ pc = "lock" => Registered = {}
  /\ pc = "connect" => Registered = {"lock"}
  /\ pc \in {"prepare", "sftp"} => Registered = LoggedIn
  /\ pc \in {"create", "lease", "submit"} => Registered = Controlled
  /\ pc \in {"start_command", "queue", "ready_port"} => Registered = Submitted
  /\ pc \in {"endpoint", "forward"} => Registered = Ready
  /\ pc = "publish" => Registered = Forwarded
  /\ pc = "serve" => Registered = Forwarded \cup {"monitor"}

\* A stop has a reason and shows in the phase.  A main task that was not yet
\* cancelled has not stopped; one that was and still is in `_start` waits in
\* `_finish`; and one that cleans up is only ever cancelled after a prompt of
\* `connect` was interrupted, with no more than the lock on its stack.
StopInv ==
  /\ why # "none" => phase = "STOPPING"
  /\ why = "none" => cancel = "no"
  /\ pc \in Active /\ cancel = "no" => why = "none"
  /\ pc \in Active /\ cancel = "delivered" => WaitsInFinish
  /\ pc = "cleanup" /\ (why = "none" \/ cancel = "requested") =>
       Registered \subseteq {"lock"}

\* A submission or a block being written is the step the main task is at.
StepInv ==
  /\ Interactive => step["submit"] = "idle"
  /\ \A s \in {"submit", "publish"} :
       step[s] \in {"running", "applied"} => pc \in {s, "killed"}

IInv == TypeOK /\ CleanupOrdered /\ StackAt /\ StopInv /\ StepInv
-----------------------------------------------------------------------------
(***************************************************************************)
(* The stack.                                                              *)
(***************************************************************************)

StackInv == stack \in Seq(Cleanups) /\ CleanupOrdered /\ StackAt

\* Two and three cleanup steps pushed at once.
LEMMA PushTwo ==
  ASSUME NEW s \in Seq(Cleanups), NEW x \in Cleanups, NEW y \in Cleanups,
         Ordered(s), Needs[x] \subseteq On(s), Needs[y] \subseteq On(s) \cup {x}
  PROVE  /\ s \o <<x, y>> \in Seq(Cleanups)
         /\ Ordered(s \o <<x, y>>)
         /\ On(s \o <<x, y>>) = On(s) \cup {x, y}
<1> DEFINE t == Append(s, x)
<1>1. s \o <<x, y>> = Append(t, y)
  OBVIOUS
<1>2. t \in Seq(Cleanups) /\ Ordered(t) /\ On(t) = On(s) \cup {x}
  BY PushOrdered
<1> HIDE DEF t
<1>3. /\ Append(t, y) \in Seq(Cleanups) /\ Ordered(Append(t, y))
      /\ On(Append(t, y)) = On(t) \cup {y}
  BY <1>2, PushOrdered
<1> QED
  BY <1>1, <1>2, <1>3

\* ... and so do the three cleanups a job's start registers at once.
LEMMA PushThree ==
  ASSUME NEW s \in Seq(Cleanups),
         NEW x \in Cleanups, NEW y \in Cleanups, NEW z \in Cleanups,
         Ordered(s), Needs[x] \subseteq On(s), Needs[y] \subseteq On(s) \cup {x},
         Needs[z] \subseteq On(s) \cup {x, y}
  PROVE  /\ s \o <<x, y, z>> \in Seq(Cleanups)
         /\ Ordered(s \o <<x, y, z>>)
         /\ On(s \o <<x, y, z>>) = On(s) \cup {x, y, z}
<1> DEFINE t == s \o <<x, y>>
<1>1. s \o <<x, y, z>> = Append(t, z)
  OBVIOUS
<1>2. t \in Seq(Cleanups) /\ Ordered(t) /\ On(t) = On(s) \cup {x, y}
  BY PushTwo
<1> HIDE DEF t
<1>3. /\ Append(t, z) \in Seq(Cleanups) /\ Ordered(Append(t, z))
      /\ On(Append(t, z)) = On(t) \cup {z}
  BY <1>2, PushOrdered
<1> QED
  BY <1>1, <1>2, <1>3

\* What each cleanup step needs.
LEMMA NeedsOf ==
  /\ Needs["lock"] = {} /\ Needs["conn"] = {"lock"} /\ Needs["watcher"] = {"conn"}
  /\ Needs["sftp"] = {"conn", "watcher"} /\ Needs["ctl"] = {"sftp"}
  /\ Needs["proc"] = {"conn"} /\ Needs["output"] = {"proc"}
  /\ Needs["job"] = {"conn", "ctl"} /\ Needs["heartbeats"] = {"ctl", "job"}
  /\ Needs["port"] = {"lock"} /\ Needs["block"] = {"lock", "port"}
  /\ Needs["monitor"] = {"job", "conn"}
  /\ {"lock", "conn", "watcher", "sftp", "ctl", "proc", "output", "job",
      "heartbeats", "port", "block", "monitor"} = Cleanups
BY DEF Needs, Cleanups, Tasks, Resources

\* A main task that goes nowhere in `_start` leaves the stack as it should be.
LEMMA StackKept ==
  ASSUME StackInv, Interactive' = Interactive, stack' = stack,
         pc' \in {pc, "cleanup", "done", "killed"}
  PROVE  StackInv'
BY ModeRegisters DEF StackInv, StackAt, CleanupOrdered, Registered

\* So does one that pops a cleanup step.
LEMMA StackPopped ==
  ASSUME StackInv, pc = "cleanup", pc' = pc, stack # <<>>, Pop
  PROVE  /\ StackInv'
         /\ Registered' \subseteq Registered
         /\ Registered \subseteq Registered' \cup {Top}
         /\ Top \in Registered /\ Top \in Cleanups
<1>1. Ordered(stack) /\ Registered = On(stack)
  BY StackTerms DEF StackInv
<1>2. /\ stack' \in Seq(Cleanups) /\ Ordered(stack') /\ On(stack') \subseteq On(stack)
      /\ On(stack) \subseteq On(stack') \cup {Top} /\ Top \in On(stack)
      /\ Top \in Cleanups
  BY <1>1, PopOrdered DEF StackInv, Pop, Top
<1>3. Registered' = On(stack') /\ CleanupOrdered'
  BY <1>2 DEF Registered, On, CleanupOrdered, Ordered
<1> QED
  BY <1>1, <1>2, <1>3 DEF StackInv, StackAt

\* The stack keeps its order at every step of a session.
LEMMA NextStackInv ==
  ASSUME StackInv, StepInv, [Next]_vars
  PROVE  StackInv'
<1> USE ModeKept, ModeRegisters DEF mainVars
<1>0. /\ Ordered(stack) /\ Registered = On(stack) /\ stack \in Seq(Cleanups)
      /\ StackAt
  BY StackTerms DEF StackInv
<1>p. ASSUME stack' \in Seq(Cleanups), Ordered(stack'),
             (StackAt /\ Registered = On(stack))'
      PROVE  StackInv'
  BY <1>p DEF StackInv, CleanupOrdered, Ordered
<1>r. Registered' = On(stack')
  BY DEF Registered, On
<1>1. CASE AcquireLock
  <2>1. /\ stack' = Append(stack, "lock") /\ pc' = "connect" /\ On(stack) = {}
    BY <1>0, <1>1 DEF AcquireLock, Advance, At, StackAt
  <2>2. stack' \in Seq(Cleanups) /\ Ordered(stack') /\ On(stack') = On(stack) \cup {"lock"}
    BY <1>0, <2>1, PushOrdered, NeedsOf
  <2> QED
    BY <1>p, <1>r, <2>1, <2>2 DEF StackAt
<1>2. CASE Connect
  <2>1. /\ stack' = stack \o <<"conn", "watcher">> /\ pc' = "prepare"
        /\ On(stack) = {"lock"}
    BY <1>0, <1>2 DEF Connect, Advance, At, StackAt
  <2>2. /\ stack' \in Seq(Cleanups) /\ Ordered(stack')
        /\ On(stack') = On(stack) \cup {"conn", "watcher"}
    BY <1>0, <2>1, PushTwo, NeedsOf
  <2> QED
    BY <1>p, <1>r, <2>1, <2>2 DEF StackAt, LoggedIn
<1>3. CASE EnterSftp
  <2>1. /\ stack' = stack \o <<"sftp", "ctl">> /\ pc' = "create"
        /\ On(stack) = LoggedIn
    BY <1>0, <1>3 DEF EnterSftp, Advance, At, StackAt
  <2>2. /\ stack' \in Seq(Cleanups) /\ Ordered(stack')
        /\ On(stack') = On(stack) \cup {"sftp", "ctl"}
    BY <1>0, <2>1, PushTwo, NeedsOf DEF LoggedIn
  <2> QED
    BY <1>p, <1>r, <2>1, <2>2 DEF StackAt, Controlled
<1>4. CASE SubmittedInteractive
  <2>1. /\ stack' = stack \o <<"proc", "output", "job">> /\ pc' = "start_command"
        /\ On(stack) = Controlled /\ Interactive
    BY <1>0, <1>4 DEF SubmittedInteractive, Advance, At, StackAt
  <2>2. /\ stack' \in Seq(Cleanups) /\ Ordered(stack')
        /\ On(stack') = On(stack) \cup {"proc", "output", "job"}
    BY <1>0, <2>1, PushThree, NeedsOf DEF Controlled, LoggedIn
  <2> QED
    BY <1>p, <1>r, <2>1, <2>2 DEF StackAt, Submitted
<1>5. CASE SubmittedBatch
  <2>1. /\ stack' = Append(stack, "job") /\ pc' = "queue"
        /\ On(stack) = Controlled /\ ~Interactive
    BY <1>0, <1>5 DEF SubmittedBatch, Advance, At, StackAt, StepInv
  <2>2. stack' \in Seq(Cleanups) /\ Ordered(stack') /\ On(stack') = On(stack) \cup {"job"}
    BY <1>0, <2>1, PushOrdered, NeedsOf DEF Controlled, LoggedIn
  <2> QED
    BY <1>p, <1>r, <2>1, <2>2 DEF StackAt, Submitted
<1>6. CASE ReadyPort
  <2>1. /\ stack' = Append(stack, "heartbeats") /\ pc' = "endpoint"
        /\ On(stack) = Submitted
    BY <1>0, <1>6 DEF ReadyPort, Advance, At, StackAt
  <2>2. /\ stack' \in Seq(Cleanups) /\ Ordered(stack')
        /\ On(stack') = On(stack) \cup {"heartbeats"}
    BY <1>0, <2>1, PushOrdered, NeedsOf DEF Submitted, Controlled, LoggedIn
  <2> QED
    BY <1>p, <1>r, <2>1, <2>2 DEF StackAt, Ready
<1>7. CASE ForwardPort
  <2>1. /\ stack' = stack \o <<"port", "block">> /\ pc' = "publish"
        /\ On(stack) = Ready
    BY <1>0, <1>7 DEF ForwardPort, Advance, At, StackAt
  <2>2. /\ stack' \in Seq(Cleanups) /\ Ordered(stack')
        /\ On(stack') = On(stack) \cup {"port", "block"}
    BY <1>0, <2>1, PushTwo, NeedsOf DEF Ready, Submitted, Controlled, LoggedIn
  <2> QED
    BY <1>p, <1>r, <2>1, <2>2 DEF StackAt, Forwarded
<1>8. CASE Published
  <2>1. /\ stack' = Append(stack, "monitor") /\ pc' = "serve"
        /\ On(stack) = Forwarded
    BY <1>0, <1>8 DEF Published, Advance, At, StackAt
  <2>2. /\ stack' \in Seq(Cleanups) /\ Ordered(stack')
        /\ On(stack') = On(stack) \cup {"monitor"}
    BY <1>0, <2>1, PushOrdered, NeedsOf
    DEF Forwarded, Ready, Submitted, Controlled, LoggedIn
  <2> QED
    BY <1>p, <1>r, <2>1, <2>2 DEF StackAt
<1>9. CASE FinishedThenStops
  <2>1. CASE stack' = stack
    BY <1>9, <2>1, StackKept DEF FinishedThenStops
  <2>2. CASE stack' # stack
    <3>1. /\ stack' = Append(stack, "job") /\ pc' = "cleanup" /\ On(stack) = Controlled
      BY <1>0, <1>9, <2>2 DEF FinishedThenStops, StackAt
    <3>2. stack' \in Seq(Cleanups) /\ Ordered(stack')
      BY <1>0, <3>1, PushOrdered, NeedsOf DEF Controlled, LoggedIn
    <3> QED
      BY <1>p, <1>r, <3>1, <3>2 DEF StackAt
  <2> QED
    BY <2>1, <2>2
<1>10. CASE Prepare \/ ControlCreated \/ PublishFirstLease \/ StartCommand \/ JobRuns
            \/ EndpointAnswers
  <2>1. /\ stack' = stack
        /\ \/ pc = "prepare" /\ pc' = "sftp"
           \/ pc = "create" /\ pc' = "lease"
           \/ pc = "lease" /\ pc' = "submit"
           \/ pc = "start_command" /\ pc' = "queue"
           \/ pc = "queue" /\ pc' = "ready_port"
           \/ pc = "endpoint" /\ pc' = "forward"
    BY <1>10 DEF Prepare, ControlCreated, PublishFirstLease, StartCommand, JobRuns,
                 EndpointAnswers, At, Advance
  <2> QED
    BY <2>1 DEF StackInv, StackAt, CleanupOrdered, Registered
<1>11. CASE StepFails \/ JobSeenEnded \/ PromptInterrupted \/ CancelDelivered
            \/ (\E s \in Shielded : GaveUpWaiting(s)) \/ ForceQuit \/ RunReturns
  <2>1. stack' = stack /\ pc' \in {pc, "cleanup", "done", "killed"}
    BY <1>11 DEF StepFails, JobSeenEnded, PromptInterrupted, CancelDelivered,
                 GaveUpWaiting, ForceQuit, RunReturns, MainFails
  <2> QED
    BY <2>1, StackKept
<1>12. CASE \/ StopTask \/ ReleaseResource \/ RemoveControlDirectory \/ CancelJob
            \/ CleanupFails \/ CleanupCancelled
  <2>1. pc = "cleanup" /\ pc' = pc /\ stack # <<>> /\ Pop
    BY <1>12 DEF StopTask, ReleaseResource, RemoveControlDirectory, CancelJob,
                 CleanupFails, CleanupCancelled, Unwinding
  <2> QED
    BY <2>1, StackPopped
<1>13. CASE EnsureDirectories \/ SubmissionOpens \/ Background \/ ConnectionLost
            \/ JobStarts \/ JobEnds \/ Interrupt \/ Terminated \/ UNCHANGED vars
            \/ (\E s \in Shielded : StepApplies(s) \/ StepReturns(s) \/ StepRaises(s))
            \/ (\E r \in {"lock", "block"} : LateThread(r))
  <2>1. stack' = stack /\ pc' = pc
    BY <1>13 DEF EnsureDirectories, SubmissionOpens, Background, WatchConnection,
                 OutputEnds, HeartbeatFails, MonitorSeesEnd, MonitorFails,
                 ConnectionLost, JobStarts, JobEnds, Interrupt, Terminated, vars,
                 StepApplies, StepReturns, StepRaises, LateThread
  <2> QED
    BY <2>1, StackKept
<1> QED
  BY <1>1, <1>2, <1>3, <1>4, <1>5, <1>6, <1>7, <1>8, <1>9, <1>10, <1>11, <1>12, <1>13
  DEF Next, Start, Stopping, Unwind, Environment, ShieldedStep
-----------------------------------------------------------------------------
(***************************************************************************)
(* Types, shielded steps and stops.                                        *)
(***************************************************************************)

\* The types of all but the stack.
PlainTypes ==
  /\ mode \in Mode
  /\ pc \in PC
  /\ tasks \subseteq Tasks
  /\ held \subseteq Resources
  /\ step \in [Shielded -> StepState]
  /\ dirs \in BOOLEAN
  /\ why \in Why
  /\ phase \in Phase
  /\ cancel \in {"no", "requested", "delivered"}
  /\ job \in JobState
  /\ jobFinished \in BOOLEAN
  /\ lost \in BOOLEAN
  /\ warned \subseteq Cleanups
  /\ late \subseteq {"lock", "block"}
  /\ presses \in 0..2

\* Every step keeps them.
LEMMA NextPlainTypes ==
  ASSUME PlainTypes, StackInv, [Next]_vars
  PROVE  PlainTypes'
<1> USE ModeKept DEF PlainTypes, mainVars, heldVars, stepVars, stopVars, jobVars,
            toldVars, envVars
<1>s. Shielded = {"create", "submit", "publish"} /\ StepState =
        {"idle", "running", "applied", "ok", "error", "abandoned", "gone"}
  BY DEF Shielded, StepState
<1>p. /\ Starting \cup {"serve", "cleanup", "done", "killed"} = PC
      /\ {"lock", "connect", "prepare", "sftp", "create", "lease", "submit",
          "start_command", "queue", "ready_port", "endpoint", "forward",
          "publish"} = Starting
  BY DEF PC, Starting
<1>r. /\ Resources = {"lock", "conn", "sftp", "ctl", "proc", "port", "block"}
      /\ Tasks = {"watcher", "output", "heartbeats", "monitor"}
      /\ Cleanups = Tasks \cup Resources \cup {"job"}
  BY DEF Resources, Tasks, Cleanups
<1>g. \A s \in Shielded : Gives[s] \in Cleanups
  BY DEF Gives, Shielded, Cleanups, Resources
<1>v. /\ Phase = {"CONNECTING", "PREPARING", "SUBMITTING", "QUEUED", "STARTING",
                  "SERVING", "STOPPING"}
      /\ Why = {"none", "interrupt", "ended", "lost", "failed"}
      /\ JobState = {"none", "pending", "running", "ended"}
      /\ Blame \in Why
  BY DEF Phase, Why, JobState, Blame
<1>1. CASE AcquireLock \/ Connect \/ Prepare \/ EnterSftp \/ ControlCreated
           \/ PublishFirstLease
  BY <1>1, <1>s, <1>p, <1>r, <1>v
  DEF AcquireLock, Connect, Prepare, EnterSftp, ControlCreated, PublishFirstLease,
      Advance, Report
<1>2. CASE EnsureDirectories \/ SubmissionOpens
  BY <1>2, <1>r, <1>v DEF EnsureDirectories, SubmissionOpens
<1>3. CASE SubmittedInteractive \/ SubmittedBatch \/ StartCommand \/ JobRuns
  BY <1>3, <1>s, <1>p, <1>r, <1>v
  DEF SubmittedInteractive, SubmittedBatch, StartCommand, JobRuns, Advance, Report
<1>4. CASE ReadyPort \/ EndpointAnswers \/ ForwardPort \/ Published
  BY <1>4, <1>s, <1>p, <1>r, <1>v
  DEF ReadyPort, EndpointAnswers, ForwardPort, Published, Advance, Report
<1>5. CASE StepFails \/ JobSeenEnded \/ PromptInterrupted
  BY <1>5, <1>p, <1>g, <1>v
  DEF StepFails, JobSeenEnded, PromptInterrupted, MainFails, Report
<1>6. CASE CancelDelivered \/ FinishedThenStops
  BY <1>6, <1>p, <1>v DEF CancelDelivered, FinishedThenStops
<1>7. ASSUME NEW s \in Shielded, ShieldedStep(s) PROVE PlainTypes'
  <2>1. CASE StepApplies(s)
    BY <1>7, <2>1, <1>s, <1>r, <1>v DEF StepApplies
  <2>2. CASE StepReturns(s) \/ StepRaises(s)
    BY <1>7, <2>2, <1>s, <1>r DEF StepReturns, StepRaises
  <2>3. CASE GaveUpWaiting(s)
    BY <1>7, <2>3, <1>s, <1>p, <1>g DEF GaveUpWaiting
  <2> QED
    BY <1>7, <2>1, <2>2, <2>3 DEF ShieldedStep
<1>8. CASE Background
  BY <1>8, <1>v
  DEF Background, WatchConnection, OutputEnds, HeartbeatFails, MonitorSeesEnd,
      MonitorFails, StopFromOutside, Report
<1>9. CASE Environment
  <2>1. CASE ConnectionLost \/ JobStarts \/ JobEnds
    BY <2>1, <1>v DEF ConnectionLost, JobStarts, JobEnds
  <2>2. CASE Interrupt
    BY <2>2, <1>v DEF Interrupt, StopFromOutside, Report
  <2>3. CASE ForceQuit
    BY <2>3, <1>p DEF ForceQuit
  <2> QED
    BY <1>9, <2>1, <2>2, <2>3 DEF Environment
<1>10. CASE Unwind
  <2>1. CASE StopTask \/ ReleaseResource \/ RemoveControlDirectory \/ CancelJob
    BY <2>1, <1>v DEF StopTask, ReleaseResource, RemoveControlDirectory, CancelJob
  <2>2. CASE CleanupFails \/ CleanupCancelled
    <3>1. Top \in Cleanups
      BY <2>2, StackPopped DEF CleanupFails, CleanupCancelled, Unwinding
    <3> QED
      BY <2>2, <3>1 DEF CleanupFails, CleanupCancelled
  <2>3. CASE RunReturns
    BY <2>3, <1>p DEF RunReturns
  <2> QED
    BY <1>10, <2>1, <2>2, <2>3 DEF Unwind
<1>11. ASSUME NEW r \in {"lock", "block"}, LateThread(r) PROVE PlainTypes'
  BY <1>11 DEF LateThread
<1>12. CASE Terminated \/ UNCHANGED vars
  BY <1>12 DEF Terminated, vars
<1> QED
  BY <1>1, <1>2, <1>3, <1>4, <1>5, <1>6, <1>7, <1>8, <1>9, <1>10, <1>11, <1>12
  DEF Next, Start, Stopping

\* A submission or a block being written holds the main task where it is.
LEMMA NextStepInv ==
  ASSUME PlainTypes, StopInv, StepInv, [Next]_vars
  PROVE  StepInv'
<1> USE ModeKept DEF mainVars, stepVars
<1>s. Shielded = {"create", "submit", "publish"} /\ step \in [Shielded -> StepState]
  BY DEF Shielded, PlainTypes
<1>1. CASE Start
  <2>1. CASE StepFails
    BY <2>1 DEF StepInv, StepFails, MainFails, Shielded, Starting
  <2>2. CASE JobSeenEnded \/ PromptInterrupted \/ EnsureDirectories \/ SubmissionOpens
    BY <2>2 DEF StepInv, JobSeenEnded, PromptInterrupted, EnsureDirectories,
                SubmissionOpens, MainFails, At
  <2>3. CASE AcquireLock \/ Connect \/ Prepare \/ EnterSftp \/ ControlCreated
             \/ PublishFirstLease \/ StartCommand \/ JobRuns \/ ReadyPort
             \/ EndpointAnswers \/ ForwardPort
    BY <1>s, <2>3
    DEF StepInv, AcquireLock, Connect, Prepare, EnterSftp, ControlCreated,
        PublishFirstLease, StartCommand, JobRuns, ReadyPort, EndpointAnswers,
        ForwardPort, At, Advance
  <2>4. CASE SubmittedInteractive \/ SubmittedBatch \/ Published
    BY <1>s, <2>4
    DEF StepInv, SubmittedInteractive, SubmittedBatch, Published, At, Advance
  <2> QED
    BY <1>1, <2>1, <2>2, <2>3, <2>4 DEF Start
<1>2. CASE Stopping
  <2>1. CASE CancelDelivered
    BY <2>1 DEF StepInv, CancelDelivered, WaitsInFinish, Shielded, Starting
  <2>2. CASE FinishedThenStops
    BY <1>s, <2>2 DEF StepInv, FinishedThenStops
  <2> QED
    BY <1>2, <2>1, <2>2 DEF Stopping
<1>3. ASSUME NEW s \in Shielded, ShieldedStep(s) PROVE StepInv'
  <2>1. CASE StepApplies(s) \/ StepReturns(s) \/ StepRaises(s)
    <3>1. /\ pc' = pc /\ step' \in [Shielded -> StepState]
          /\ \A t \in Shielded \ {s} : step'[t] = step[t]
      BY <1>s, <1>3, <2>1 DEF StepApplies, StepReturns, StepRaises, StepState
    <3>2. /\ step[s] # "idle"
          /\ step'[s] \in {"running", "applied"} => step[s] \in {"running", "applied"}
      BY <1>s, <1>3, <2>1 DEF StepApplies, StepReturns, StepRaises
    <3> QED
      BY <1>s, <3>1, <3>2 DEF StepInv
  <2>2. CASE GaveUpWaiting(s)
    BY <1>s, <1>3, <2>2 DEF StepInv, GaveUpWaiting
  <2> QED
    BY <1>3, <2>1, <2>2 DEF ShieldedStep
<1>4. CASE Background \/ ConnectionLost \/ JobStarts \/ JobEnds \/ Interrupt
           \/ Terminated \/ UNCHANGED vars
           \/ (\E r \in {"lock", "block"} : LateThread(r))
  BY <1>4 DEF StepInv, Background, WatchConnection, OutputEnds, HeartbeatFails,
              MonitorSeesEnd, MonitorFails, ConnectionLost, JobStarts, JobEnds,
              Interrupt, Terminated, LateThread, vars
<1>5. CASE ForceQuit
  BY <1>5 DEF StepInv, ForceQuit
<1>6. CASE Unwind
  BY <1>6 DEF StepInv, Unwind, StopTask, ReleaseResource, RemoveControlDirectory,
              CancelJob, CleanupFails, CleanupCancelled, RunReturns, Unwinding
<1> QED
  BY <1>1, <1>2, <1>3, <1>4, <1>5, <1>6 DEF Next, Environment
\* A stop stays what the first cause made it, and reaches the main task once.
LEMMA NextStopInv ==
  ASSUME PlainTypes, StackInv, StopInv, StepInv, [Next]_vars
  PROVE  StopInv'
<1> USE ModeKept DEF mainVars, stepVars, stopVars
<1>a. Active = {"lock", "connect", "prepare", "sftp", "create", "lease", "submit",
                "start_command", "queue", "ready_port", "endpoint", "forward",
                "publish", "serve"}
  BY DEF Active, Starting
<1>b. Blame # "none"
  BY DEF Blame
<1>1. CASE Start
  <2>1. CASE StepFails \/ JobSeenEnded
    BY <1>a, <1>b, <2>1
    DEF StopInv, StepFails, JobSeenEnded, MainFails, Report, Registered
  <2>2. CASE PromptInterrupted
    BY <1>a, <2>2 DEF StopInv, PromptInterrupted, At, Registered, StackInv, StackAt
  <2>3. CASE EnsureDirectories
    BY <2>3 DEF StopInv, EnsureDirectories, Registered, WaitsInFinish
  <2>4. CASE SubmissionOpens
    BY <2>4 DEF StopInv, SubmissionOpens, Registered, WaitsInFinish
  <2>5. CASE AcquireLock \/ Connect \/ Prepare \/ EnterSftp \/ ControlCreated
             \/ PublishFirstLease \/ SubmittedInteractive \/ SubmittedBatch
             \/ StartCommand \/ JobRuns \/ ReadyPort \/ EndpointAnswers
             \/ ForwardPort \/ Published
    <3>1. pc \in Active /\ cancel = "no" /\ why' = why /\ cancel' = cancel
      BY <1>a, <2>5
      DEF AcquireLock, Connect, Prepare, EnterSftp, ControlCreated,
          PublishFirstLease, SubmittedInteractive, SubmittedBatch, StartCommand,
          JobRuns, ReadyPort, EndpointAnswers, ForwardPort, Published, At
    <3>2. pc' \in Active
      BY <1>a, <2>5
      DEF AcquireLock, Connect, Prepare, EnterSftp, ControlCreated,
          PublishFirstLease, SubmittedInteractive, SubmittedBatch, StartCommand,
          JobRuns, ReadyPort, EndpointAnswers, ForwardPort, Published, Advance
    <3> QED
      BY <1>a, <3>1, <3>2 DEF StopInv
  <2> QED
    BY <1>1, <2>1, <2>2, <2>3, <2>4, <2>5 DEF Start
<1>2. CASE Stopping
  <2>1. CASE CancelDelivered
    BY <1>a, <2>1 DEF StopInv, CancelDelivered, Registered, WaitsInFinish
  <2>2. CASE FinishedThenStops
    <3>1. pc \in Active
      BY <1>a, <2>2 DEF FinishedThenStops, Shielded
    <3> QED
      BY <1>a, <2>2, <3>1 DEF StopInv, FinishedThenStops
  <2> QED
    BY <1>2, <2>1, <2>2 DEF Stopping
<1>3. ASSUME NEW s \in Shielded, ShieldedStep(s) PROVE StopInv'
  <2>1. CASE StepApplies(s) \/ StepReturns(s) \/ StepRaises(s)
    <3>1. UNCHANGED <<pc, stack, why, phase, cancel, dirs>>
      BY <2>1 DEF StepApplies, StepReturns, StepRaises
    <3> QED
      BY <3>1 DEF StopInv, Registered, WaitsInFinish
  <2>2. CASE GaveUpWaiting(s)
    BY <1>a, <2>2 DEF StopInv, GaveUpWaiting, Registered
  <2> QED
    BY <1>3, <2>1, <2>2 DEF ShieldedStep
<1>4. CASE Background \/ Interrupt
  <2>1. /\ UNCHANGED <<mainVars, stepVars>>
        /\ UNCHANGED <<why, phase, cancel>> \/ (\E w \in Why : StopFromOutside(w) /\ w # "none")
    BY <1>4, <1>b
    DEF Background, WatchConnection, OutputEnds, HeartbeatFails, MonitorSeesEnd,
        MonitorFails, Interrupt, Why, Blame
  <2> QED
    BY <1>a, <2>1 DEF StopInv, StopFromOutside, Report, Registered, WaitsInFinish
<1>5. CASE ConnectionLost \/ JobStarts \/ JobEnds \/ Terminated \/ UNCHANGED vars
           \/ (\E r \in {"lock", "block"} : LateThread(r))
  BY <1>5 DEF StopInv, ConnectionLost, JobStarts, JobEnds, Terminated, LateThread,
              vars, Registered, WaitsInFinish
<1>6. CASE ForceQuit
  BY <1>a, <1>6 DEF StopInv, ForceQuit
<1>7. CASE RunReturns
  BY <1>a, <1>7 DEF StopInv, RunReturns
<1>8. CASE \/ StopTask \/ ReleaseResource \/ RemoveControlDirectory \/ CancelJob
           \/ CleanupFails \/ CleanupCancelled
  <2>1. /\ pc = "cleanup" /\ pc' = pc /\ stack # <<>> /\ Pop
        /\ why' = why /\ phase' = phase /\ cancel' \in {cancel, "delivered"}
        /\ cancel # cancel' => cancel = "requested"
    BY <1>8 DEF StopTask, ReleaseResource, RemoveControlDirectory, CancelJob,
                CleanupFails, CleanupCancelled, Unwinding
  <2>2. Registered' \subseteq Registered
    BY <2>1, StackPopped
  <2> QED
    BY <1>a, <2>1, <2>2 DEF StopInv
<1> QED
  BY <1>1, <1>2, <1>3, <1>4, <1>5, <1>6, <1>7, <1>8 DEF Next, Environment, Unwind

-----------------------------------------------------------------------------
(***************************************************************************)
(* The theorems.                                                           *)
(***************************************************************************)

\* The invariant's types are those of TypeOK.
LEMMA TypeParts == TypeOK <=> PlainTypes /\ stack \in Seq(Cleanups)
BY DEF TypeOK, PlainTypes

\* A session that has done nothing satisfies the invariant.
LEMMA InitIInv == Init => IInv
<1> SUFFICES ASSUME Init PROVE IInv
  OBVIOUS
<1>1. TypeOK
  <2>1. stack \in Seq(Cleanups)
    BY DEF Init
  <2>2. step \in [Shielded -> StepState] /\ presses \in 0..2
    BY DEF Init, StepState
  <2> QED
    BY <2>1, <2>2 DEF Init, TypeOK, PC, Starting, Why, Phase, JobState
<1>2. CleanupOrdered /\ Registered = {}
  BY DEF Init, CleanupOrdered, Registered
<1>3. StackAt /\ StopInv /\ StepInv
  BY <1>2 DEF Init, StackAt, StopInv, StepInv, Shielded
<1> QED
  BY <1>1, <1>2, <1>3 DEF IInv

\* Every step of a session, its tasks and its surroundings keeps the invariant.
LEMMA NextIInv == IInv /\ [Next]_vars => IInv'
<1> SUFFICES ASSUME IInv, [Next]_vars PROVE IInv'
  OBVIOUS
<1>1. PlainTypes /\ StackInv /\ StopInv /\ StepInv
  BY TypeParts DEF IInv, StackInv
<1>2. PlainTypes' /\ StackInv' /\ StopInv' /\ StepInv'
  BY <1>1, NextPlainTypes, NextStackInv, NextStopInv, NextStepInv
<1>3. TypeOK'
  BY <1>2 DEF PlainTypes, StackInv, TypeOK
<1> QED
  BY <1>2, <1>3 DEF IInv, StackInv

\* The invariant holds of every state of a session.
THEOREM Invariance == Spec => []IInv
BY InitIInv, NextIInv, PTL DEF Spec

\* Every variable keeps its type.
THEOREM TypeCorrect == Spec => []TypeOK
<1>1. IInv => TypeOK
  BY DEF IInv
<1> QED
  BY <1>1, Invariance, PTL

\* Wherever `_start` was stopped, the exit stack releases nothing before what
\* still needs it.
THEOREM StackCorrect == Spec => []CleanupOrdered
<1>1. IInv => CleanupOrdered
  BY DEF IInv
<1> QED
  BY <1>1, Invariance, PTL

\* However many causes stop a tunnel, `_stop` cancels no cleanup step but the
\* release of the lock.
THEOREM CleanupSafe == Spec => []CleanupUninterrupted
<1>1. IInv => CleanupUninterrupted
  BY DEF IInv, StopInv, CleanupUninterrupted
<1> QED
  BY <1>1, Invariance, PTL

\* `_finish` holds every stop back until a submission or a block has been
\* written, has failed or was given up on.
THEOREM FinishCorrect == Spec => []StopWaitsForStep
<1>1. IInv => StopWaitsForStep
  BY DEF IInv, StepInv, StopWaitsForStep
<1> QED
  BY <1>1, Invariance, PTL
\* What stops a tunnel is the loss of its connection, the end of its job, the
\* user, or what `_blame` makes of an error.
LEMMA WhyChanges ==
  ASSUME [Next]_vars
  PROVE  why' \in {why, "interrupt", "ended", "lost", Blame}
<1> USE DEF stopVars
<1>1. CASE Start
  BY <1>1 DEF Start, AcquireLock, Connect, Prepare, EnterSftp, EnsureDirectories,
      ControlCreated, PublishFirstLease, SubmissionOpens, SubmittedInteractive,
      SubmittedBatch, StartCommand, JobRuns, ReadyPort, EndpointAnswers,
      ForwardPort, Published, StepFails, JobSeenEnded, PromptInterrupted, MainFails
<1>2. CASE Background \/ Environment
  BY <1>2 DEF Background, WatchConnection, OutputEnds, HeartbeatFails,
      MonitorSeesEnd, MonitorFails, Environment, ConnectionLost, JobStarts,
      JobEnds, Interrupt, ForceQuit, StopFromOutside
<1>3. CASE Stopping \/ Unwind \/ Terminated \/ UNCHANGED vars
  BY <1>3 DEF Stopping, CancelDelivered, FinishedThenStops, Unwind, StopTask,
      ReleaseResource, RemoveControlDirectory, CancelJob, CleanupFails,
      CleanupCancelled, RunReturns, Terminated, vars
<1>4. CASE (\E s \in Shielded : ShieldedStep(s)) \/ (\E r \in {"lock", "block"} : LateThread(r))
  BY <1>4 DEF ShieldedStep, StepApplies, StepReturns, StepRaises, GaveUpWaiting,
      LateThread
<1> QED
  BY <1>1, <1>2, <1>3, <1>4 DEF Next

\* `_blame`: no tunnel whose connection is lost stops with the error of the
\* operation that noticed it.
THEOREM BlameCorrect == Spec => LossIsBlamed
<1> DEFINE Blamed == why = "none" /\ lost => why' # "failed"
<1>1. [Next]_vars => [Blamed]_vars
  BY WhyChanges DEF Blame
<1>2. [][Blamed]_vars => LossIsBlamed
  BY PTL DEF LossIsBlamed
<1> QED
  BY <1>1, <1>2, PTL DEF Spec

\* A stop keeps its reason, and the main task goes no further in `_start`.
LEMMA StopStays ==
  ASSUME IInv, [Next]_vars, why # "none"
  PROVE  /\ why' = why
         /\ phase' = "STOPPING"
         /\ pc' \in {pc, "cleanup", "done", "killed"}
         /\ tasks' \subseteq tasks
<1> USE DEF mainVars, heldVars, stopVars
<1>0. phase = "STOPPING" /\ ~(pc \in Active /\ cancel = "no")
  BY DEF IInv, StopInv
<1>1. CASE Start
  <2>1. CASE EnsureDirectories
    BY <1>0, <2>1 DEF EnsureDirectories
  <2>2. CASE ~EnsureDirectories
    BY <1>0, <1>1, <2>2
    DEF Active, Starting, Start, At, AcquireLock, Connect, Prepare, EnterSftp,
        ControlCreated, PublishFirstLease, SubmissionOpens, SubmittedInteractive,
        SubmittedBatch, StartCommand, JobRuns, ReadyPort, EndpointAnswers,
        ForwardPort, Published, StepFails, JobSeenEnded, PromptInterrupted
  <2> QED
    BY <2>1, <2>2
<1>2. CASE Background \/ Environment
  BY <1>0, <1>2
  DEF Background, WatchConnection, OutputEnds, HeartbeatFails, MonitorSeesEnd,
      MonitorFails, Environment, ConnectionLost, JobStarts, JobEnds, Interrupt,
      ForceQuit, StopFromOutside
<1>3. CASE Stopping \/ Unwind \/ Terminated \/ UNCHANGED vars
  BY <1>0, <1>3
  DEF Stopping, CancelDelivered, FinishedThenStops, Unwind, StopTask,
      ReleaseResource, RemoveControlDirectory, CancelJob, CleanupFails,
      CleanupCancelled, RunReturns, Terminated, vars
<1>4. CASE (\E s \in Shielded : ShieldedStep(s))
           \/ (\E r \in {"lock", "block"} : LateThread(r))
  BY <1>0, <1>4
  DEF ShieldedStep, StepApplies, StepReturns, StepRaises, GaveUpWaiting, LateThread
<1> QED
  BY <1>1, <1>2, <1>3, <1>4 DEF Next

\* The first stop is final: `_stop` keeps its reason, `_report` its phase, and the
\* main task goes no further in `_start`.
THEOREM FirstStopWins == Spec => StopIsFinal
<1> DEFINE Final == why # "none" => /\ why' = why
                                    /\ phase' = "STOPPING"
                                    /\ pc' \in {pc, "cleanup", "done", "killed"}
                                    /\ tasks' \subseteq tasks
<1>1. IInv /\ [Next]_vars => [Final]_vars
  BY StopStays
<1>2. [][Final]_vars => StopIsFinal
  BY PTL DEF StopIsFinal
<1> QED
  BY <1>1, <1>2, Invariance, PTL DEF Spec

-----------------------------------------------------------------------------
(***************************************************************************)
(* That a session cleans up after itself: everything it acquires has a     *)
(* cleanup step until it is released or the user was warned, and the alias *)
(* lock goes last.                                                         *)
(***************************************************************************)
BeforeSubmit == {"lock", "connect", "prepare", "sftp", "create", "lease"}

AfterSubmit == {"start_command", "queue", "ready_port", "endpoint", "forward",
                "publish", "serve"}

\* The job exists once it was submitted.  What tells that it has ended does so of
\* a job whose submission returned, and is right.
JobInv ==
  /\ pc \in BeforeSubmit => job = "none" /\ step["submit"] = "idle"
  /\ pc \in BeforeSubmit \cup {"submit"} => ~jobFinished /\ "monitor" \notin tasks
  /\ pc \in AfterSubmit \/ jobFinished \/ "monitor" \in tasks =>
       step["submit"] \in {"idle", "ok"}
  /\ jobFinished => job = "ended"
  /\ Interactive /\ pc = "submit" /\ JobAlive => "proc" \in held \/ lost
  /\ ~Interactive => "proc" \notin held

\* A step that was given up on, and a thread that still runs, were warned of.
WarnInv ==
  /\ step["submit"] = "abandoned" => "job" \in warned
  /\ step["publish"] = "abandoned" => "block" \in warned
  /\ late \subseteq warned \cup {"lock"}
  /\ pc \in Active => late = {}

\* The lock is the bottom of the stack and nothing else, and goes when it is the
\* only one left.
LockInv ==
  /\ \A i \in DOMAIN stack : stack[i] = "lock" => i = 1
  /\ pc \notin {"lock", "killed"} /\ ("lock" \notin held \/ "lock" \in late) =>
       stack = <<>>

\* The inductive invariant.
CleanupInv == IInv /\ JobInv /\ WarnInv /\ LockInv /\ CleanupCovers
-----------------------------------------------------------------------------
\* What IInv says, in the parts that the proofs below use.
LEMMA Parts ==
  ASSUME IInv
  PROVE  /\ PlainTypes /\ StackInv /\ StopInv /\ StepInv
         /\ step \in [Shielded -> StepState]
         /\ Shielded = {"create", "submit", "publish"}
         /\ Active = {"lock", "connect", "prepare", "sftp", "create", "lease",
                      "submit", "start_command", "queue", "ready_port",
                      "endpoint", "forward", "publish", "serve"}
BY TypeParts DEF IInv, StackInv, PlainTypes, Shielded, Active, Starting

\* A stop that cancels a cleanup step finds the lock on top of the stack.
LEMMA CancelledIsLock ==
  ASSUME IInv, CleanupCancelled
  PROVE  Top = "lock"
<1>1. pc = "cleanup" /\ cancel = "requested" /\ stack # <<>> /\ Pop /\ pc' = pc
  BY DEF CleanupCancelled
<1>2. Top \in Registered
  BY <1>1, Parts, StackPopped
<1> QED
  BY <1>1, <1>2, Parts DEF StopInv

\* No step of the session, the worker or the user breaks what JobInv says.
LEMMA NextJobInv ==
  ASSUME IInv, JobInv, [Next]_vars
  PROVE  JobInv'
<1> USE Parts, ModeKept DEF mainVars, heldVars, stepVars, jobVars, envVars, JobAlive,
                  BeforeSubmit, AfterSubmit
<1>1. CASE AcquireLock \/ Connect \/ Prepare \/ EnterSftp \/ ControlCreated
           \/ PublishFirstLease
  BY <1>1 DEF JobInv, AcquireLock, Connect, Prepare, EnterSftp, ControlCreated,
              PublishFirstLease, At, Advance
<1>2. CASE EnsureDirectories \/ SubmissionOpens
  BY <1>2 DEF JobInv, EnsureDirectories, SubmissionOpens, At
<1>3. CASE SubmittedInteractive \/ SubmittedBatch
  BY <1>3 DEF JobInv, SubmittedInteractive, SubmittedBatch, At, Advance, StepInv
<1>4. CASE StartCommand \/ JobRuns \/ ReadyPort \/ EndpointAnswers \/ ForwardPort
           \/ Published
  BY <1>4 DEF JobInv, StartCommand, JobRuns, ReadyPort, EndpointAnswers,
              ForwardPort, Published, At, Advance
<1>5. CASE StepFails
  BY <1>5 DEF JobInv, StepFails, MainFails
<1>6. CASE JobSeenEnded \/ PromptInterrupted
  BY <1>6 DEF JobInv, JobSeenEnded, PromptInterrupted, MainFails, At
<1>7. CASE CancelDelivered
  BY <1>7 DEF JobInv, CancelDelivered, WaitsInFinish
<1>8. CASE FinishedThenStops
  BY <1>8 DEF JobInv, FinishedThenStops
<1>9. ASSUME NEW s \in Shielded, ShieldedStep(s) PROVE JobInv'
  <2>1. CASE StepApplies(s)
    <3>1. CASE s # "submit"
      <4>1. /\ job' = job /\ step'["submit"] = step["submit"]
            /\ "proc" \in held' <=> "proc" \in held
        <5>1. s = "create" \/ s = "publish"
          BY <1>9, <3>1
        <5>2. held' = held \cup {"ctl"} \/ held' = held \cup {"block"}
          BY <2>1, <5>1 DEF StepApplies
        <5> QED
          BY <2>1, <5>1, <5>2 DEF StepApplies
      <4> QED
        BY <2>1, <4>1 DEF JobInv, StepApplies
    <3>2. CASE s = "submit"
      <4>1. step["submit"] \in {"running", "abandoned"} /\ pc # "killed"
        BY <2>1, <3>2 DEF StepApplies
      <4>2. ~Interactive /\ ~jobFinished /\ "monitor" \notin tasks
            /\ pc \notin AfterSubmit
        BY <4>1 DEF JobInv, StepInv
      <4>3. pc \notin BeforeSubmit
        BY <4>1 DEF JobInv, StepInv
      <4>4. held' = held
        BY <2>1, <3>2 DEF StepApplies
      <4> QED
        BY <2>1, <4>2, <4>3, <4>4 DEF JobInv, StepApplies
    <3> QED
      BY <3>1, <3>2
  <2>2. CASE StepReturns(s) \/ StepRaises(s)
    BY <1>9, <2>2 DEF JobInv, StepReturns, StepRaises
  <2>3. CASE GaveUpWaiting(s)
    BY <1>9, <2>3 DEF JobInv, GaveUpWaiting
  <2> QED
    BY <1>9, <2>1, <2>2, <2>3 DEF ShieldedStep
<1>10. CASE Background
  BY <1>10 DEF JobInv, Background, WatchConnection, OutputEnds, HeartbeatFails,
               MonitorSeesEnd, MonitorFails
<1>11. CASE Environment
  BY <1>11 DEF JobInv, Environment, ConnectionLost, JobStarts, JobEnds, Interrupt,
               ForceQuit
<1>12. CASE Unwind
  BY <1>12 DEF JobInv, Unwind, StopTask, ReleaseResource, RemoveControlDirectory,
               CancelJob, CleanupFails, CleanupCancelled, RunReturns, Unwinding
<1>13. CASE Terminated \/ UNCHANGED vars \/ (\E r \in {"lock", "block"} : LateThread(r))
  <2>1. CASE Terminated \/ UNCHANGED vars
    BY <2>1 DEF JobInv, Terminated, vars
  <2>2. ASSUME NEW r \in {"lock", "block"}, LateThread(r) PROVE JobInv'
    BY <2>2 DEF JobInv, LateThread
  <2> QED
    BY <1>13, <2>1, <2>2
<1> QED
  BY <1>1, <1>2, <1>3, <1>4, <1>5, <1>6, <1>7, <1>8, <1>9, <1>10, <1>11, <1>12, <1>13
  DEF Next, Start, Stopping

\* ... nor what WarnInv says of the warnings given so far.
LEMMA NextWarnInv ==
  ASSUME IInv, WarnInv, [Next]_vars
  PROVE  WarnInv'
<1> USE Parts DEF mainVars, stepVars, toldVars
<1>1. CASE AcquireLock \/ Connect \/ Prepare \/ EnterSftp \/ ControlCreated
           \/ PublishFirstLease \/ SubmittedInteractive \/ SubmittedBatch
           \/ StartCommand \/ JobRuns \/ ReadyPort \/ EndpointAnswers \/ ForwardPort
           \/ Published
  BY <1>1 DEF WarnInv, AcquireLock, Connect, Prepare, EnterSftp, ControlCreated,
              PublishFirstLease, SubmittedInteractive, SubmittedBatch, StartCommand,
              JobRuns, ReadyPort, EndpointAnswers, ForwardPort, Published, At, Advance
<1>2. CASE EnsureDirectories \/ SubmissionOpens \/ StepFails \/ JobSeenEnded
           \/ PromptInterrupted
  BY <1>2 DEF WarnInv, EnsureDirectories, SubmissionOpens, StepFails, JobSeenEnded,
              PromptInterrupted, MainFails
<1>3. CASE Stopping
  BY <1>3 DEF WarnInv, Stopping, CancelDelivered, FinishedThenStops
<1>4. ASSUME NEW s \in Shielded, ShieldedStep(s) PROVE WarnInv'
  <2>1. CASE StepApplies(s) \/ StepReturns(s) \/ StepRaises(s)
    BY <1>4, <2>1 DEF WarnInv, StepApplies, StepReturns, StepRaises
  <2>2. CASE GaveUpWaiting(s)
    BY <1>4, <2>2 DEF WarnInv, GaveUpWaiting, Gives
  <2> QED
    BY <1>4, <2>1, <2>2 DEF ShieldedStep
<1>5. CASE Background \/ Environment \/ Terminated \/ UNCHANGED vars
  BY <1>5 DEF WarnInv, Background, WatchConnection, OutputEnds, HeartbeatFails,
              MonitorSeesEnd, MonitorFails, Environment, ConnectionLost, JobStarts,
              JobEnds, Interrupt, ForceQuit, Terminated, vars
<1>6. ASSUME NEW r \in {"lock", "block"}, LateThread(r) PROVE WarnInv'
  BY <1>6 DEF WarnInv, LateThread
<1>7. CASE CleanupCancelled
  BY <1>7, CancelledIsLock DEF WarnInv, CleanupCancelled
<1>8. CASE StopTask \/ ReleaseResource \/ RemoveControlDirectory \/ CancelJob
           \/ CleanupFails \/ RunReturns
  BY <1>8 DEF WarnInv, StopTask, ReleaseResource, RemoveControlDirectory, CancelJob,
              CleanupFails, RunReturns, Unwinding
<1> QED
  BY <1>1, <1>2, <1>3, <1>4, <1>5, <1>6, <1>7, <1>8 DEF Next, Start, Unwind
-----------------------------------------------------------------------------
(***************************************************************************)
(* The alias lock.                                                         *)
(***************************************************************************)

LockAtBottom(s) == \A i \in DOMAIN s : s[i] = "lock" => i = 1

\* Whatever is pushed on top of the lock, the lock stays the bottom.
LEMMA PushKeepsBottom ==
  ASSUME NEW s \in Seq(Cleanups), NEW t \in Seq(Cleanups), LockAtBottom(s),
         \A i \in DOMAIN t : t[i] # "lock"
  PROVE  LockAtBottom(s \o t)
<1> SUFFICES ASSUME NEW i \in DOMAIN (s \o t), (s \o t)[i] = "lock" PROVE i = 1
  BY DEF LockAtBottom
<1>1. /\ i \in 1..(Len(s) + Len(t)) /\ Len(s) \in Nat /\ Len(t) \in Nat
      /\ DOMAIN s = 1..Len(s) /\ DOMAIN t = 1..Len(t)
  OBVIOUS
<1>2. CASE i <= Len(s)
  BY <1>1, <1>2 DEF LockAtBottom
<1>3. CASE i > Len(s)
  <2>1. (s \o t)[i] = t[i - Len(s)] /\ i - Len(s) \in DOMAIN t
    BY <1>1, <1>3
  <2> QED
    BY <2>1
<1> QED
  BY <1>1, <1>2, <1>3

\* An empty stack has nothing registered on it, and the other way round.
LEMMA EmptyStack ==
  ASSUME stack \in Seq(Cleanups)
  PROVE  stack = <<>> <=> Registered = {}
<1>1. DOMAIN stack = 1..Len(stack) /\ Len(stack) \in Nat
  OBVIOUS
<1>2. ASSUME stack # <<>> PROVE 1 \in DOMAIN stack
  BY <1>1, <1>2
<1>3. ASSUME stack = <<>> PROVE DOMAIN stack = {}
  BY <1>3
<1> QED
  BY <1>2, <1>3 DEF Registered

\* Popping keeps the lock at the bottom, and popping the lock empties the stack.
LEMMA PopBottom ==
  ASSUME NEW s \in Seq(Cleanups), s # <<>>, LockAtBottom(s)
  PROVE  /\ LockAtBottom(SubSeq(s, 1, Len(s) - 1))
         /\ s[Len(s)] = "lock" => SubSeq(s, 1, Len(s) - 1) = <<>>
<1> DEFINE t == SubSeq(s, 1, Len(s) - 1)
<1>1. /\ Len(s) \in Nat /\ Len(s) > 0 /\ DOMAIN s = 1..Len(s)
      /\ DOMAIN t = 1..(Len(s) - 1) /\ t \in Seq(Cleanups)
      /\ \A i \in 1..(Len(s) - 1) : t[i] = s[i]
  OBVIOUS
<1> HIDE DEF t
<1>2. LockAtBottom(t)
  BY <1>1 DEF LockAtBottom
<1>3. ASSUME s[Len(s)] = "lock" PROVE t = <<>>
  <2>1. Len(s) = 1
    BY <1>1, <1>3 DEF LockAtBottom
  <2>2. DOMAIN t = 1..0
    BY <1>1, <2>1
  <2>3. Len(t) = 0
    BY <1>1, <2>2
  <2> QED
    BY <1>1, <2>3
<1> QED
  BY <1>2, <1>3 DEF t

\* While the main task is past the lock in `_start`, the session has the lock.
LEMMA LockHeldInStart ==
  ASSUME IInv, LockInv, pc \in Active, pc # "lock"
  PROVE  "lock" \in held /\ "lock" \notin late /\ stack # <<>>
<1>1. "lock" \in Registered
  BY Parts DEF StackInv, StackAt, Forwarded, Ready, Submitted, Controlled, LoggedIn
<1>2. stack # <<>>
  BY <1>1, Parts, EmptyStack DEF StackInv
<1> QED
  BY <1>2, Parts DEF LockInv

\* The lock stays at the bottom, and goes last.
LEMMA NextLockInv ==
  ASSUME IInv, WarnInv, LockInv, [Next]_vars
  PROVE  LockInv'
<1> USE Parts DEF mainVars, heldVars, toldVars
<1>0. LockAtBottom(stack) /\ stack \in Seq(Cleanups)
  BY DEF LockInv, LockAtBottom, StackInv
<1>b. ASSUME LockAtBottom(stack') PROVE \A i \in DOMAIN stack' : stack'[i] = "lock" => i = 1
  BY <1>b DEF LockAtBottom
<1>1. CASE AcquireLock
  <2>1. stack = <<>> /\ "lock" \notin late
    BY <1>0, <1>1, EmptyStack DEF AcquireLock, At, StackInv, StackAt, WarnInv
  <2>2. stack' = <<"lock">> /\ "lock" \in held' /\ late' = late
    BY <1>1, <2>1 DEF AcquireLock
  <2>3. DOMAIN stack' = {1}
    BY <2>2
  <2> QED
    BY <2>1, <2>2, <2>3 DEF LockInv
<1>2. CASE \/ Connect \/ EnterSftp \/ SubmittedInteractive \/ SubmittedBatch
           \/ ReadyPort \/ ForwardPort \/ Published \/ FinishedThenStops
  <2>1. /\ pc \in Active /\ pc # "lock" /\ late' = late /\ held \subseteq held'
        /\ \/ stack' = stack
           \/ stack' = stack \o <<"conn", "watcher">>
           \/ stack' = stack \o <<"sftp", "ctl">>
           \/ stack' = stack \o <<"proc", "output", "job">>
           \/ stack' = Append(stack, "job")
           \/ stack' = Append(stack, "heartbeats")
           \/ stack' = stack \o <<"port", "block">>
           \/ stack' = Append(stack, "monitor")
    BY <1>2 DEF Connect, EnterSftp, SubmittedInteractive, SubmittedBatch, ReadyPort,
                ForwardPort, Published, FinishedThenStops, At
  <2>2. \A x \in Cleanups : Append(stack, x) = stack \o <<x>>
    BY <1>0
  <2>3. \E t \in Seq(Cleanups \ {"lock"}) : stack' = stack \o t
    <3>1. /\ <<"conn", "watcher">> \in Seq(Cleanups \ {"lock"})
          /\ <<"sftp", "ctl">> \in Seq(Cleanups \ {"lock"})
          /\ <<"proc", "output", "job">> \in Seq(Cleanups \ {"lock"})
          /\ <<"port", "block">> \in Seq(Cleanups \ {"lock"})
      BY DEF Cleanups, Tasks, Resources
    <3>2. /\ <<>> \in Seq(Cleanups \ {"lock"}) /\ <<"job">> \in Seq(Cleanups \ {"lock"})
          /\ <<"heartbeats">> \in Seq(Cleanups \ {"lock"})
          /\ <<"monitor">> \in Seq(Cleanups \ {"lock"})
          /\ "job" \in Cleanups /\ "heartbeats" \in Cleanups /\ "monitor" \in Cleanups
      BY DEF Cleanups, Tasks, Resources
    <3>3. stack = stack \o <<>>
      BY <1>0
    <3> QED
      BY <2>1, <2>2, <3>1, <3>2, <3>3, Zenon
  <2>4. LockAtBottom(stack')
    <3>1. PICK t \in Seq(Cleanups \ {"lock"}) : stack' = stack \o t
      BY <2>3
    <3>2. t \in Seq(Cleanups) /\ \A i \in DOMAIN t : t[i] # "lock"
      OBVIOUS
    <3> QED
      BY <1>0, <3>1, <3>2, PushKeepsBottom
  <2>5. "lock" \in held' /\ "lock" \notin late'
    BY <2>1, LockHeldInStart
  <2> QED
    BY <1>b, <2>4, <2>5 DEF LockInv
<1>3. CASE \/ Prepare \/ EnsureDirectories \/ ControlCreated \/ PublishFirstLease
           \/ SubmissionOpens \/ StartCommand \/ JobRuns \/ EndpointAnswers
  <2>1. /\ pc \in Active /\ pc # "lock" /\ late' = late /\ held \subseteq held'
        /\ stack' = stack
    BY <1>3 DEF Prepare, EnsureDirectories, ControlCreated, PublishFirstLease,
                SubmissionOpens, StartCommand, JobRuns, EndpointAnswers, At
  <2>2. "lock" \in held' /\ "lock" \notin late'
    BY <2>1, LockHeldInStart
  <2> QED
    BY <1>0, <1>b, <2>1, <2>2 DEF LockInv
<1>4. CASE \/ StepFails \/ JobSeenEnded \/ PromptInterrupted \/ CancelDelivered
           \/ (\E s \in Shielded : ShieldedStep(s)) \/ Background \/ ConnectionLost
           \/ JobStarts \/ JobEnds \/ Interrupt \/ RunReturns \/ Terminated
           \/ UNCHANGED vars
  <2>1. /\ stack' = stack /\ late' = late /\ pc' \in {pc, "cleanup", "done"}
        /\ "lock" \in held => "lock" \in held'
    BY <1>4
    DEF StepFails, JobSeenEnded, PromptInterrupted, MainFails, CancelDelivered,
        ShieldedStep, StepApplies, StepReturns, StepRaises, GaveUpWaiting, Background,
        WatchConnection, OutputEnds, HeartbeatFails, MonitorSeesEnd, MonitorFails,
        ConnectionLost, JobStarts, JobEnds, Interrupt, RunReturns, Terminated, vars
  <2>2. pc # "killed" \/ pc' = "killed"
    BY <1>4
    DEF StepFails, JobSeenEnded, PromptInterrupted, Starting, CancelDelivered,
        ShieldedStep, StepApplies, StepReturns, StepRaises, GaveUpWaiting, Background,
        WatchConnection, OutputEnds, HeartbeatFails, MonitorSeesEnd, MonitorFails,
        ConnectionLost, JobStarts, JobEnds, Interrupt, RunReturns, Terminated, vars, At
  <2>3. pc = "lock" => stack = <<>>
    BY <1>0, EmptyStack DEF StackInv, StackAt
  <2> QED
    BY <1>0, <1>b, <2>1, <2>2, <2>3 DEF LockInv
<1>5. CASE ForceQuit
  BY <1>0, <1>b, <1>5 DEF LockInv, ForceQuit
<1>6. CASE \/ StopTask \/ ReleaseResource \/ RemoveControlDirectory \/ CancelJob
           \/ CleanupFails \/ CleanupCancelled
  <2>1. /\ pc = "cleanup" /\ stack # <<>> /\ stack' = SubSeq(stack, 1, Len(stack) - 1)
        /\ Top # "lock" => /\ "lock" \in held => "lock" \in held'
                           /\ "lock" \in late' => "lock" \in late
    BY <1>6
    DEF StopTask, ReleaseResource, RemoveControlDirectory, CancelJob, CleanupFails,
        CleanupCancelled, Unwinding, Pop, Release
  <2>2. "lock" \in held /\ "lock" \notin late
    BY <2>1 DEF LockInv
  <2>3. LockAtBottom(stack') /\ (Top = "lock" => stack' = <<>>)
    BY <1>0, <2>1, PopBottom DEF Top
  <2> QED
    BY <1>b, <2>1, <2>2, <2>3 DEF LockInv
<1>7. ASSUME NEW r \in {"lock", "block"}, LateThread(r) PROVE LockInv'
  <2>1. /\ UNCHANGED <<pc, stack>> /\ late' = late \ {r} /\ held' = held \ {r}
        /\ r \in late
    BY <1>7 DEF LateThread
  <2>2. r = "lock" => stack = <<>> \/ pc = "killed"
    BY <2>1 DEF LockInv, WarnInv
  <2> QED
    BY <1>0, <1>b, <2>1, <2>2 DEF LockInv
<1> QED
  BY <1>1, <1>2, <1>3, <1>4, <1>5, <1>6, <1>7
  DEF Next, Start, Environment, Stopping, Unwind
-----------------------------------------------------------------------------
(***************************************************************************)
(* Everything acquired has a cleanup step.                                 *)
(***************************************************************************)

\* Every step of a session leaves what it has acquired covered.
LEMMA NextCovers ==
  ASSUME IInv, IInv', JobInv, WarnInv, CleanupCovers, [Next]_vars
  PROVE  CleanupCovers'
<1> SUFFICES ASSUME pc' # "killed" PROVE CleanupCovers'
  BY DEF CleanupCovers
<1> USE Parts, ModeKept, ModeRegisters
        DEF mainVars, heldVars, stepVars, jobVars, toldVars, envVars, JobAlive
<1>0. StackAt' /\ StackAt
  BY DEF IInv
<1>1. CASE AcquireLock
  <2>1. pc = "lock" /\ pc' = "connect" /\ Registered = {} /\ Registered' = {"lock"}
    BY <1>0, <1>1 DEF AcquireLock, At, Advance, StackAt
  <2> QED
    BY <1>1, <2>1 DEF CleanupCovers, JobInv, BeforeSubmit, AcquireLock, Advance
<1>2. CASE Connect
  <2>1. pc = "connect" /\ pc' = "prepare" /\ Registered = {"lock"} /\ Registered' = LoggedIn
    BY <1>0, <1>2 DEF Connect, At, Advance, StackAt
  <2> QED
    BY <1>2, <2>1 DEF CleanupCovers, JobInv, BeforeSubmit, Connect, LoggedIn
<1>3. CASE EnterSftp
  <2>1. pc = "sftp" /\ pc' = "create" /\ Registered = LoggedIn /\ Registered' = Controlled
    BY <1>0, <1>3 DEF EnterSftp, At, Advance, StackAt
  <2> QED
    BY <1>3, <2>1 DEF CleanupCovers, JobInv, BeforeSubmit, EnterSftp, LoggedIn, Controlled
<1>4. CASE SubmittedInteractive \/ SubmittedBatch
  <2>1. /\ pc = "submit" /\ pc' \in {"start_command", "queue"}
        /\ Registered = Controlled /\ Registered' = Submitted
    BY <1>0, <1>4 DEF SubmittedInteractive, SubmittedBatch, At, Advance, StackAt
  <2>2. "proc" \in held => Interactive
    BY DEF JobInv
  <2>3. tasks' \subseteq Registered' \cup warned'
    BY <1>4, <2>1
    DEF CleanupCovers, SubmittedInteractive, SubmittedBatch, StepInv, Submitted
  <2> QED
    BY <1>4, <2>1, <2>2, <2>3
    DEF CleanupCovers, SubmittedInteractive, SubmittedBatch, Submitted
<1>5. CASE ReadyPort
  <2>1. pc' = "endpoint" /\ Registered = Submitted /\ Registered' = Ready
    BY <1>0, <1>5 DEF ReadyPort, At, Advance, StackAt
  <2> QED
    BY <1>5, <2>1
    DEF CleanupCovers, ReadyPort, At, Advance, Ready, Submitted
<1>6. CASE ForwardPort
  <2>1. pc' = "publish" /\ Registered = Ready /\ Registered' = Forwarded
    BY <1>0, <1>6 DEF ForwardPort, At, Advance, StackAt
  <2> QED
    BY <1>6, <2>1
    DEF CleanupCovers, ForwardPort, At, Advance, Forwarded, Ready, Submitted
<1>7. CASE Published
  <2>1. pc' = "serve" /\ Registered = Forwarded /\ Registered' = Forwarded \cup {"monitor"}
    BY <1>0, <1>7 DEF Published, At, Advance, StackAt
  <2> QED
    BY <1>7, <2>1
    DEF CleanupCovers, Published, At, Advance, Forwarded, Ready, Submitted
<1>8. CASE \/ Prepare \/ ControlCreated \/ PublishFirstLease \/ StartCommand
           \/ JobRuns \/ EndpointAnswers
  <2>1. /\ UNCHANGED <<stack, tasks, held, job, warned, late, lost>>
        /\ pc \in Active /\ pc \notin {"submit", "killed"}
        /\ step'["submit"] = step["submit"] \/ pc = "lease"
    BY <1>8 DEF Prepare, ControlCreated, PublishFirstLease, StartCommand, JobRuns,
                EndpointAnswers, At, Advance
  <2> QED
    BY <2>1 DEF CleanupCovers, Registered, JobInv, BeforeSubmit
<1>9. CASE EnsureDirectories \/ SubmissionOpens
  BY <1>9 DEF CleanupCovers, Registered, EnsureDirectories, SubmissionOpens, At
<1>10. CASE StepFails
  <2>1. /\ UNCHANGED <<stack, tasks, late, lost>> /\ pc \in Active /\ pc' = "cleanup"
        /\ held' \subseteq held /\ warned \subseteq warned' /\ step' = step
    BY <1>10 DEF StepFails, MainFails, Active
  <2>2. CASE pc # "submit"
    BY <1>10, <2>1, <2>2 DEF CleanupCovers, Registered, StepFails
  <2>3. CASE pc = "submit" /\ ~Interactive
    <3>1. step["submit"] = "error" /\ held' = held
      BY <1>10, <2>3 DEF StepFails
    <3> QED
      BY <2>1, <2>3, <3>1 DEF CleanupCovers, Registered, JobInv
  <2>4. CASE pc = "submit" /\ Interactive
    <3>1. "proc" \notin held' /\ (job' = "ended" \/ ("proc" \notin held /\ job' = job))
      BY <1>10, <2>4 DEF StepFails
    <3> QED
      BY <2>1, <2>4, <3>1 DEF CleanupCovers, Registered, JobInv
  <2> QED
    BY <2>2, <2>3, <2>4
<1>11. CASE JobSeenEnded \/ PromptInterrupted
  BY <1>11 DEF CleanupCovers, Registered, JobSeenEnded, PromptInterrupted, At, MainFails
<1>12. CASE CancelDelivered
  <2>1. /\ UNCHANGED <<stack, tasks, late, warned, lost, step>>
        /\ pc \in Active /\ held' \subseteq held
    BY <1>12 DEF CancelDelivered, Active
  <2>2. CASE pc # "submit"
    BY <1>12, <2>1, <2>2 DEF CleanupCovers, Registered, CancelDelivered
  <2>3. CASE pc = "submit" /\ ~Interactive
    BY <1>12, <2>1, <2>3 DEF CleanupCovers, Registered, CancelDelivered, WaitsInFinish
  <2>4. CASE pc = "submit" /\ Interactive
    <3>1. "proc" \notin held' /\ (job' = "ended" \/ ("proc" \notin held /\ job' = job))
      BY <1>12, <2>4 DEF CancelDelivered
    <3> QED
      BY <2>1, <2>4, <3>1 DEF CleanupCovers, Registered, JobInv
  <2> QED
    BY <2>2, <2>3, <2>4
<1>13. CASE FinishedThenStops
  <2>1. /\ UNCHANGED <<tasks, held, job, late, warned, lost, step>>
        /\ pc \in Active /\ pc # "killed" /\ pc' = "cleanup"
    BY <1>13 DEF FinishedThenStops
  <2>2. CASE stack' = stack
    <3>1. pc = "submit" => step["submit"] = "error"
      <4>1. Append(stack, "job") # stack
        BY DEF StackInv
      <4> QED
        BY <1>13, <2>2, <4>1 DEF FinishedThenStops
    <3>2. "proc" \in held => "proc" \in Registered
      BY <3>1, <2>1 DEF CleanupCovers, StepInv, JobInv
    <3> QED
      BY <2>1, <2>2, <3>1, <3>2 DEF CleanupCovers, Registered
  <2>3. CASE stack' # stack
    <3>1. pc = "submit" /\ step["submit"] = "ok" /\ stack' = Append(stack, "job")
      BY <1>13, <2>3 DEF FinishedThenStops
    <3>2. Registered = Controlled /\ "proc" \notin held
      BY <1>0, <3>1 DEF StackAt, StepInv, JobInv
    <3>3. "conn" \in Registered /\ "ctl" \in Registered /\ Ordered(stack)
          /\ Registered = On(stack)
      BY <3>2, StackTerms DEF Controlled, LoggedIn, StackInv
    <3>4. On(stack') = On(stack) \cup {"job"}
      BY <3>1, <3>3, PushOrdered, NeedsOf DEF StackInv
    <3>5. Registered' = On(stack')
      BY DEF Registered, On
    <3> QED
      BY <2>1, <3>2, <3>3, <3>4, <3>5 DEF CleanupCovers
  <2> QED
    BY <2>2, <2>3
<1>14. ASSUME NEW s \in Shielded, ShieldedStep(s) PROVE CleanupCovers'
  <2>1. CASE StepApplies(s)
    <3>0. UNCHANGED <<pc, stack, tasks, late, warned, lost>>
      BY <2>1 DEF StepApplies
    <3>1. CASE s = "create"
      BY <2>1, <3>0, <3>1 DEF CleanupCovers, Registered, StepApplies
    <3>2. CASE s = "submit"
      <4>1. pc = "submit" \/ "job" \in warned
        BY <2>1, <3>2 DEF StepApplies, StepInv, WarnInv
      <4> QED
        BY <2>1, <3>0, <3>2, <4>1 DEF CleanupCovers, Registered, StepApplies
    <3>3. CASE s = "publish"
      <4>1. pc = "publish" \/ "block" \in warned
        BY <2>1, <3>3 DEF StepApplies, StepInv, WarnInv
      <4>2. "block" \in Registered \cup warned
        BY <1>0, <4>1 DEF StackAt, Forwarded
      <4> QED
        BY <2>1, <3>0, <3>3, <4>2 DEF CleanupCovers, Registered, StepApplies
    <3> QED
      BY <3>1, <3>2, <3>3
  <2>2. CASE StepReturns(s) \/ StepRaises(s)
    BY <1>14, <2>2 DEF CleanupCovers, Registered, StepReturns, StepRaises, Ended
  <2>3. CASE GaveUpWaiting(s)
    <3>1. /\ UNCHANGED <<stack, tasks, held, job, late, lost>> /\ pc' = "cleanup"
          /\ warned' = warned \cup {Gives[s]} /\ pc \in {s, "cleanup"}
          /\ step'["submit"] = step["submit"] \/ Gives[s] = "job"
      BY <1>14, <2>3 DEF GaveUpWaiting, Gives
    <3>2. pc = "submit" => s = "submit"
      BY <3>1
    <3>3. pc = "submit" => Gives[s] = "job" /\ "proc" \notin held
      BY <2>3, <3>2 DEF Gives, GaveUpWaiting, StepInv, JobInv
    <3> QED
      BY <3>1, <3>3 DEF CleanupCovers, Registered
  <2> QED
    BY <1>14, <2>1, <2>2, <2>3 DEF ShieldedStep
<1>15. CASE Background
  BY <1>15 DEF CleanupCovers, Registered, Background, WatchConnection, OutputEnds,
               HeartbeatFails, MonitorSeesEnd, MonitorFails
<1>16. CASE Environment
  BY <1>16 DEF CleanupCovers, Registered, Environment, ConnectionLost, JobStarts,
               JobEnds, Interrupt, ForceQuit
<1>17. CASE \/ StopTask \/ ReleaseResource \/ RemoveControlDirectory \/ CancelJob
            \/ CleanupFails \/ CleanupCancelled
  <2>1. pc = "cleanup" /\ pc' = pc /\ stack # <<>> /\ Pop
    BY <1>17 DEF StopTask, ReleaseResource, RemoveControlDirectory, CancelJob,
                 CleanupFails, CleanupCancelled, Unwinding
  <2>2. Registered \subseteq Registered' \cup {Top}
    BY <2>1, StackPopped
  <2>t. tasks \subseteq Tasks /\ held \subseteq Resources
        /\ Tasks = {"watcher", "output", "heartbeats", "monitor"}
        /\ Resources = {"lock", "conn", "sftp", "ctl", "proc", "port", "block"}
    BY DEF PlainTypes, Tasks, Resources
  <2>3. CASE StopTask
    BY <2>1, <2>2, <2>3, <2>t DEF StopTask, CleanupCovers
  <2>4. CASE ReleaseResource
    BY <2>1, <2>2, <2>4, <2>t DEF ReleaseResource, Release, CleanupCovers
  <2>5. CASE RemoveControlDirectory
    BY <2>1, <2>2, <2>5, <2>t DEF RemoveControlDirectory, CleanupCovers
  <2>6. CASE CancelJob
    BY <2>1, <2>2, <2>6, <2>t DEF CancelJob, CleanupCovers, JobInv
  <2>7. CASE CleanupFails
    BY <2>1, <2>2, <2>7, <2>t DEF CleanupFails, CleanupCovers
  <2>8. CASE CleanupCancelled
    <3>1. Top = "lock"
      BY <2>8, CancelledIsLock
    <3> QED
      BY <2>1, <2>2, <2>8, <2>t, <3>1 DEF CleanupCancelled, CleanupCovers
  <2> QED
    BY <1>17, <2>3, <2>4, <2>5, <2>6, <2>7, <2>8
<1>18. ASSUME NEW r \in {"lock", "block"}, LateThread(r) PROVE CleanupCovers'
  BY <1>18 DEF CleanupCovers, Registered, LateThread
<1>19. CASE RunReturns \/ Terminated \/ UNCHANGED vars
  BY <1>19 DEF CleanupCovers, Registered, RunReturns, Terminated, vars
<1> QED
  BY <1>1, <1>2, <1>3, <1>4, <1>5, <1>6, <1>7, <1>8, <1>9, <1>10, <1>11, <1>12,
     <1>13, <1>14, <1>15, <1>16, <1>17, <1>18, <1>19
  DEF Next, Start, Stopping, Unwind

-----------------------------------------------------------------------------
(***************************************************************************)
(* The theorems.                                                           *)
(***************************************************************************)

\* A session that has done nothing has nothing to clean up.
LEMMA InitCleanupInv == Init => CleanupInv
<1> SUFFICES ASSUME Init PROVE CleanupInv
  OBVIOUS
<1>1. IInv
  BY InitIInv
<1>2. JobInv /\ WarnInv
  BY DEF Init, JobInv, WarnInv, Shielded, JobAlive, BeforeSubmit, AfterSubmit
<1>3. DOMAIN stack = {}
  BY DEF Init
<1>4. LockInv /\ CleanupCovers
  BY <1>3 DEF Init, LockInv, CleanupCovers, JobAlive
<1> QED
  BY <1>1, <1>2, <1>4 DEF CleanupInv

\* The invariant holds of every state of a session.
THEOREM CleanupInvariance == Spec => []CleanupInv
<1>1. CleanupInv /\ [Next]_vars => CleanupInv'
  BY NextIInv, NextJobInv, NextWarnInv, NextLockInv, NextCovers DEF CleanupInv
<1> QED
  BY <1>1, InitCleanupInv, PTL DEF Spec

\* "Each step registers its cleanup": at every moment, and so wherever a stop
\* finds `_start`, what the session has acquired is released later, or the user
\* was told.
THEOREM CoverCorrect == Spec => []CleanupCovers
<1>1. CleanupInv => CleanupCovers
  BY DEF CleanupInv
<1> QED
  BY <1>1, CleanupInvariance, PTL

\* The alias lock is the last thing a session lets go of.
THEOREM LockLast == Spec => []LockReleasedLast
<1>1. CleanupInv => LockReleasedLast
  <2> SUFFICES ASSUME CleanupInv, pc \notin {"lock", "killed"}, "lock" \notin held
               PROVE  /\ stack = <<>>
                      /\ (held \cup tasks) \ {"ctl"} \subseteq warned
    BY DEF LockReleasedLast
  <2>1. stack = <<>>
    BY DEF CleanupInv, LockInv
  <2>2. Registered = {}
    BY <2>1, Parts, EmptyStack DEF CleanupInv, StackInv
  <2>3. pc # "submit"
    BY <2>2, Parts DEF CleanupInv, StackInv, StackAt, Controlled
  <2> QED
    BY <2>1, <2>2, <2>3 DEF CleanupInv, CleanupCovers, WarnInv
<1> QED
  BY <1>1, CleanupInvariance, PTL

-----------------------------------------------------------------------------
(***************************************************************************)
(* That a session is a tunnel as TunnelPromise describes it: every step of *)
(* TunnelSession is one of the promise's, or changes nothing it speaks of. *)
(* (That it is over soon is liveness, and is model-checked.)               *)
(***************************************************************************)
\* A session that waits for its alias has done nothing yet; one that is over has
\* an empty stack, or took its threads with it.
EndsInv ==
  /\ pc = "lock" => /\ held = {} /\ tasks = {} /\ late = {} /\ job = "none"
                    /\ \A s \in Shielded : step[s] = "idle"
  /\ pc = "done" => stack = <<>>
  /\ pc = "killed" => late = {}

\* Until something stops the tunnel, each of its guards runs from the moment it
\* was started, and a block that was published is there or was warned of.
Guarded ==
  why = "none" =>
    /\ pc \in Active \ {"lock", "connect"} => "watcher" \in tasks
    /\ pc \in {"endpoint", "forward", "publish", "serve"} => "heartbeats" \in tasks
    /\ pc = "serve" => "monitor" \in tasks
    /\ \/ pc = "serve"
       \/ pc = "publish" /\ step["publish"] \in {"applied", "ok"}
       => "block" \in held \cup warned

\* Only a tunnel that stops gives up on a step.
GivenUp ==
  why = "none" => \A s \in {"submit", "publish"} : step[s] # "abandoned"

PromiseInv == CleanupInv /\ EndsInv /\ Guarded /\ GivenUp
-----------------------------------------------------------------------------
\* The beginning and the end stay what they are.
LEMMA NextEndsInv ==
  ASSUME CleanupInv, EndsInv, [Next]_vars
  PROVE  EndsInv'
<1> USE Parts DEF mainVars, heldVars, stepVars, jobVars, toldVars, CleanupInv
<1>1. CASE Start
  <2>1. pc' \notin {"lock", "done", "killed"} \/ (pc \notin {"lock", "done", "killed"} /\ pc' = pc)
    BY <1>1 DEF Start, AcquireLock, Connect, Prepare, EnterSftp, EnsureDirectories,
        ControlCreated, PublishFirstLease, SubmissionOpens, SubmittedInteractive,
        SubmittedBatch, StartCommand, JobRuns, ReadyPort, EndpointAnswers,
        ForwardPort, Published, StepFails, JobSeenEnded, PromptInterrupted, MainFails,
        At, Advance
  <2> QED
    BY <2>1 DEF EndsInv
<1>2. CASE Background \/ Environment
  BY <1>2 DEF EndsInv, Background, WatchConnection, OutputEnds, HeartbeatFails,
      MonitorSeesEnd, MonitorFails, Environment, ConnectionLost, JobStarts,
      JobEnds, Interrupt, ForceQuit, Ended, JobAlive
<1>3. CASE Stopping \/ Unwind \/ Terminated \/ UNCHANGED vars
  BY <1>3 DEF EndsInv, Stopping, CancelDelivered, FinishedThenStops, Unwind, StopTask,
      ReleaseResource, RemoveControlDirectory, CancelJob, CleanupFails, Unwinding,
      CleanupCancelled, RunReturns, Terminated, vars
<1>4. ASSUME NEW s \in Shielded, ShieldedStep(s) PROVE EndsInv'
  BY <1>4 DEF EndsInv, ShieldedStep, StepApplies, StepReturns, StepRaises,
      GaveUpWaiting, Ended
<1>5. ASSUME NEW r \in {"lock", "block"}, LateThread(r) PROVE EndsInv'
  BY <1>5 DEF EndsInv, LateThread
<1> QED
  BY <1>1, <1>2, <1>3, <1>4, <1>5 DEF Next

\* The guards stay until something stops the tunnel.
LEMMA NextGuarded ==
  ASSUME CleanupInv, Guarded, [Next]_vars
  PROVE  Guarded'
<1> USE Parts DEF mainVars, heldVars, stepVars, stopVars, toldVars, CleanupInv
<1>b. Blame # "none"
  BY DEF Blame
<1>1. CASE AcquireLock \/ Connect \/ Prepare \/ EnterSftp \/ ControlCreated
           \/ PublishFirstLease \/ SubmittedInteractive \/ SubmittedBatch
           \/ StartCommand \/ JobRuns \/ ReadyPort \/ EndpointAnswers
           \/ Published
  BY <1>1 DEF Guarded, AcquireLock, Connect, Prepare, EnterSftp, ControlCreated,
              PublishFirstLease, SubmittedInteractive, SubmittedBatch, StartCommand,
              JobRuns, ReadyPort, EndpointAnswers, Published, At, Advance
<1>2. CASE ForwardPort
  <2>1. pc = "forward" /\ pc' = "publish" /\ step'["publish"] = "running"
    BY <1>2 DEF ForwardPort, At, Advance
  <2> QED
    BY <1>2, <2>1 DEF Guarded, ForwardPort
<1>3. CASE EnsureDirectories \/ SubmissionOpens \/ PromptInterrupted
  BY <1>3 DEF Guarded, EnsureDirectories, SubmissionOpens, PromptInterrupted
<1>4. CASE StepFails \/ JobSeenEnded
  BY <1>4, <1>b DEF Guarded, StepFails, JobSeenEnded, MainFails
<1>5. CASE Background
  BY <1>5, <1>b DEF Guarded, Background, WatchConnection, OutputEnds, HeartbeatFails,
      MonitorSeesEnd, MonitorFails, StopFromOutside
<1>6. CASE Environment
  BY <1>6 DEF Guarded, Environment, ConnectionLost, JobStarts, JobEnds, Interrupt,
      ForceQuit, StopFromOutside
<1>7. CASE Stopping
  BY <1>7 DEF Guarded, Stopping, CancelDelivered, FinishedThenStops, StopInv
<1>8. CASE Unwind
  BY <1>8 DEF Guarded, Unwind, StopTask, ReleaseResource, RemoveControlDirectory,
      CancelJob, CleanupFails, Unwinding, CleanupCancelled, RunReturns
<1>9. ASSUME NEW s \in Shielded, ShieldedStep(s) PROVE Guarded'
  <2>1. CASE StepApplies(s)
    <3>1. /\ held \subseteq held' /\ UNCHANGED <<pc, tasks, why, warned>>
          /\ s = "publish" => "block" \in held'
          /\ s # "publish" => step'["publish"] = step["publish"]
      BY <1>9, <2>1 DEF StepApplies
    <3> QED
      BY <3>1 DEF Guarded
  <2>2. CASE StepReturns(s) \/ StepRaises(s)
    BY <1>9, <2>2 DEF Guarded, StepReturns, StepRaises
  <2>3. CASE GaveUpWaiting(s)
    BY <2>3 DEF Guarded, GaveUpWaiting
  <2> QED
    BY <1>9, <2>1, <2>2, <2>3 DEF ShieldedStep
<1>10. CASE Terminated \/ UNCHANGED vars
  BY <1>10 DEF Guarded, Terminated, vars
<1>11. ASSUME NEW r \in {"lock", "block"}, LateThread(r) PROVE Guarded'
  <2>1. pc \notin Active
    BY <1>11 DEF LateThread, WarnInv
  <2> QED
    BY <1>11, <2>1 DEF Guarded, LateThread
<1> QED
  BY <1>1, <1>2, <1>3, <1>4, <1>5, <1>6, <1>7, <1>8, <1>9, <1>10, <1>11 DEF Next, Start

\* A step that was given up on was given up on by a stop.
LEMMA NextGivenUp ==
  ASSUME CleanupInv, GivenUp, [Next]_vars
  PROVE  GivenUp'
<1> SUFFICES ASSUME why' = "none" PROVE \A s \in {"submit", "publish"} : step'[s] # "abandoned"
  BY DEF GivenUp
<1> USE Parts DEF mainVars, stepVars, stopVars, CleanupInv
<1>0. why = "none" /\ \A s \in {"submit", "publish"} : step[s] # "abandoned"
  BY StopStays DEF GivenUp
<1>1. CASE Start
  <2>1. step' = step \/ \E s \in Shielded : step' = [step EXCEPT ![s] = "running"]
    BY <1>1 DEF Start, AcquireLock, Connect, Prepare, EnterSftp, EnsureDirectories,
        ControlCreated, PublishFirstLease, SubmissionOpens, SubmittedInteractive,
        SubmittedBatch, StartCommand, JobRuns, ReadyPort, EndpointAnswers,
        ForwardPort, Published, StepFails, JobSeenEnded, PromptInterrupted, Advance
  <2> QED
    BY <1>0, <2>1
<1>2. CASE Background \/ Environment \/ Stopping \/ Unwind \/ Terminated
           \/ UNCHANGED vars \/ (\E r \in {"lock", "block"} : LateThread(r))
  <2>1. step' = step
    BY <1>2 DEF Background, WatchConnection, OutputEnds, HeartbeatFails,
        MonitorSeesEnd, MonitorFails, Environment, ConnectionLost, JobStarts,
        JobEnds, Interrupt, ForceQuit, Stopping, CancelDelivered, FinishedThenStops,
        Unwind, StopTask, ReleaseResource, RemoveControlDirectory, CancelJob,
        CleanupFails, CleanupCancelled, RunReturns, Terminated, vars, LateThread
  <2> QED
    BY <1>0, <2>1
<1>3. ASSUME NEW s \in Shielded, ShieldedStep(s)
      PROVE  \A t \in {"submit", "publish"} : step'[t] # "abandoned"
  <2>1. ~GaveUpWaiting(s)
    BY <1>0 DEF GaveUpWaiting, StopInv
  <2>2. /\ \A t \in Shielded \ {s} : step'[t] = step[t]
        /\ step'[s] # "abandoned"
    BY <1>3, <2>1 DEF ShieldedStep, StepApplies, StepReturns, StepRaises
  <2> QED
    BY <1>0, <2>2
<1> QED
  BY <1>1, <1>2, <1>3 DEF Next

\* The invariant holds of every state of a session.
LEMMA PromiseInvariance == Spec => []PromiseInv
<1>1. Init => PromiseInv
  BY InitCleanupInv DEF PromiseInv, EndsInv, Guarded, GivenUp, Init, Shielded
<1>2. PromiseInv /\ [Next]_vars => PromiseInv'
  BY NextIInv, NextJobInv, NextWarnInv, NextLockInv, NextCovers, NextEndsInv,
     NextGuarded, NextGivenUp
  DEF PromiseInv, CleanupInv
<1> QED
  BY <1>1, <1>2, PTL DEF Spec

\* A tunnel serves only with all its guards, and OpenSSH finds its block or the
\* user was warned that it could not be written.
THEOREM ServesGuarded == Spec => []ServingIsGuarded
<1>1. PromiseInv => ServingIsGuarded
  BY DEF PromiseInv, Guarded, State, ServingIsGuarded, Active, Starting
<1> QED
  BY <1>1, PromiseInvariance, PTL
-----------------------------------------------------------------------------
(***************************************************************************)
(* What is left of a session, and what it is excused of.                   *)
(***************************************************************************)

\* With an empty stack, nothing is left that the user was not told of.
LEMMA LeftIsExcused ==
  ASSUME CleanupInv, stack = <<>>, pc \notin {"killed", "submit"}
  PROVE  Left \subseteq Excused
<1>1. Registered = {}
  BY Parts, EmptyStack DEF CleanupInv, StackInv
<1>2. tasks \subseteq warned /\ held \ {"ctl", "proc"} \subseteq warned \cup late
      /\ "proc" \notin held
  BY <1>1 DEF CleanupInv, CleanupCovers
<1>3. JobAlive => "job" \in Excused
  BY <1>1 DEF CleanupInv, CleanupCovers, Excused
<1> QED
  BY <1>2, <1>3 DEF Left, Excused

LEMMA OverIsExcused ==
  CleanupInv /\ stack = <<>> /\ pc \notin {"killed", "submit"} => Left \subseteq Excused
BY LeftIsExcused

\* Whoever waits at a shielded submission, or has got past the lock, has a stack.
LEMMA StackThere ==
  ASSUME CleanupInv, pc \in Active, pc # "lock"
  PROVE  stack # <<>>
BY Parts, LockHeldInStart DEF CleanupInv

\* The lock is let go of when nothing is left that the user was not told of.
LEMMA LeftWithoutLock ==
  CleanupInv /\ pc \notin {"lock", "killed"} /\ "lock" \notin held => Left \subseteq Excused
<1> SUFFICES ASSUME CleanupInv, pc \notin {"lock", "killed"}, "lock" \notin held
             PROVE  Left \subseteq Excused
  OBVIOUS
<1>1. stack = <<>>
  BY DEF CleanupInv, LockInv
<1>2. pc \notin {"killed", "submit"}
  BY <1>1, Parts, StackThere DEF CleanupInv
<1> QED
  BY <1>1, <1>2, LeftIsExcused

\* What was excused stays so, but for what a late thread releases.
LEMMA ExcusesStay ==
  ASSUME CleanupInv, [Next]_vars
  PROVE  Excused \ Excused' \subseteq late \ late'
<1> USE Parts DEF mainVars, heldVars, stepVars, toldVars, envVars, CleanupInv
<1>1. warned \subseteq warned' /\ (lost => lost')
      /\ (step["submit"] = "error" => step'["submit"] = "error")
  <2>1. CASE Start
    BY <2>1 DEF Start, AcquireLock, Connect, Prepare, EnterSftp, EnsureDirectories,
        ControlCreated, PublishFirstLease, SubmissionOpens, SubmittedInteractive,
        SubmittedBatch, StartCommand, JobRuns, ReadyPort, EndpointAnswers,
        ForwardPort, Published, StepFails, JobSeenEnded, PromptInterrupted,
        At, Advance, JobInv, BeforeSubmit
  <2>2. CASE Background \/ Environment
    BY <2>2 DEF Background, WatchConnection, OutputEnds, HeartbeatFails,
        MonitorSeesEnd, MonitorFails, Environment, ConnectionLost, JobStarts,
        JobEnds, Interrupt, ForceQuit
  <2>3. CASE Stopping \/ Unwind \/ Terminated \/ UNCHANGED vars
    BY <2>3 DEF Stopping, CancelDelivered, FinishedThenStops, Unwind, StopTask,
        ReleaseResource, RemoveControlDirectory, CancelJob, CleanupFails,
        CleanupCancelled, RunReturns, Terminated, vars
  <2>4. ASSUME NEW s \in Shielded, ShieldedStep(s)
        PROVE  /\ warned \subseteq warned' /\ lost' = lost
               /\ step["submit"] = "error" => step'["submit"] = "error"
    BY <2>4 DEF ShieldedStep, StepApplies, StepReturns, StepRaises, GaveUpWaiting
  <2>5. CASE \E r \in {"lock", "block"} : LateThread(r)
    BY <2>5 DEF LateThread
  <2> QED
    BY <2>1, <2>2, <2>3, <2>4, <2>5 DEF Next
<1>2. late \subseteq {"lock", "block"}
  BY DEF PlainTypes
<1> QED
  BY <1>1, <1>2, ModeKept DEF Excused

\* A thread leaves the late ones once it has done its work.
LEMMA LateLeaves ==
  ASSUME CleanupInv, [Next]_vars, pc' # "killed"
  PROVE  \A r \in late \ late' : r \notin Left'
<1> USE DEF heldVars, toldVars, stepVars
<1>1. CASE \E r \in {"lock", "block"} : LateThread(r)
  <2>1. PICK r \in {"lock", "block"} : LateThread(r)
    BY <1>1
  <2>2. late \ late' \subseteq {r} /\ r \notin held' /\ tasks' = tasks
    BY <2>1 DEF LateThread
  <2>3. r \notin tasks
    BY Parts DEF CleanupInv, PlainTypes, Tasks
  <2> QED
    BY <2>2, <2>3 DEF Left
<1>2. CASE Start
  BY <1>2 DEF Start, AcquireLock, Connect, Prepare, EnterSftp, EnsureDirectories,
      ControlCreated, PublishFirstLease, SubmissionOpens, SubmittedInteractive,
      SubmittedBatch, StartCommand, JobRuns, ReadyPort, EndpointAnswers,
      ForwardPort, Published, StepFails, JobSeenEnded, PromptInterrupted
<1>3. CASE Background \/ Environment
  BY <1>3 DEF Background, WatchConnection, OutputEnds, HeartbeatFails,
      MonitorSeesEnd, MonitorFails, Environment, ConnectionLost, JobStarts,
      JobEnds, Interrupt, ForceQuit
<1>4. CASE Stopping \/ Unwind \/ Terminated \/ UNCHANGED vars
  BY <1>4 DEF Stopping, CancelDelivered, FinishedThenStops, Unwind, StopTask,
      ReleaseResource, RemoveControlDirectory, CancelJob, CleanupFails,
      CleanupCancelled, RunReturns, Terminated, vars
<1>5. CASE \E s \in Shielded : ShieldedStep(s)
  BY <1>5 DEF ShieldedStep, StepApplies, StepReturns, StepRaises, GaveUpWaiting
<1> QED
  BY <1>1, <1>2, <1>3, <1>4, <1>5 DEF Next

\* What the promise asks of every step of a tunnel that is not killed.
LEMMA StepsAreOrderly ==
  ASSUME CleanupInv, CleanupInv', EndsInv', [Next]_vars, pc' # "killed"
  PROVE  Promise!Orderly
<1>1. \A r \in Excused \ Excused' : r \notin Left'
  BY ExcusesStay, LateLeaves
<1>2. ASSUME "lock" \in Left \ Left' PROVE Left' \subseteq Excused'
  <2>1. "lock" \notin held'
    BY <1>2 DEF Left
  <2>2. CASE pc' # "lock"
    <3>1. (CleanupInv /\ pc \notin {"lock", "killed"} /\ "lock" \notin held
             => Left \subseteq Excused)'
      BY LeftWithoutLock, PTL
    <3> QED
      BY <2>1, <2>2, <3>1
  <2>3. CASE pc' = "lock"
    BY <2>3 DEF EndsInv, Left, JobAlive
  <2> QED
    BY <2>2, <2>3
<1> QED
  BY <1>1, <1>2 DEF Promise!Orderly
-----------------------------------------------------------------------------
(***************************************************************************)
(* The simulation: each step of a session is a step of the promise.        *)
(***************************************************************************)

\* A session that has anything has its alias, until something stops it.
LEMMA AliasFirst ==
  PromiseInv /\ State = "starting" /\ Left # {} => "lock" \in Left
<1> SUFFICES ASSUME PromiseInv, State = "starting", Left # {} PROVE "lock" \in Left
  OBVIOUS
<1>1. pc \in Active
  BY Parts DEF State, Active, PromiseInv, CleanupInv
<1>2. CASE pc = "lock"
  BY <1>2 DEF PromiseInv, EndsInv, Left, JobAlive
<1>3. CASE pc # "lock"
  BY <1>1, <1>3, LockHeldInStart DEF PromiseInv, CleanupInv, Left
<1> QED
  BY <1>2, <1>3

\* What `State` says of where the main task is, and the other way round.
LEMMA StateIs ==
  ASSUME IInv
  PROVE  /\ State \in {"starting", "serving"} => why = "none" /\ pc \in Active
         /\ why = "none" /\ pc \in Active =>
              State = IF pc = "serve" THEN "serving" ELSE "starting"
         /\ State = "stopping" <=> pc = "cleanup" \/ (why # "none" /\ pc \in Active)
         /\ State = "gone" <=> pc = "done"
         /\ State = "killed" <=> pc = "killed"
         /\ PC = Active \cup {"cleanup", "done", "killed"} /\ pc \in PC
         /\ why \in Why
BY Parts DEF State, PC, Starting, Active, PlainTypes

LEMMA StateTells ==
  IInv => /\ State = "stopping" <=> pc = "cleanup" \/ (why # "none" /\ pc \in Active)
          /\ why = "none" /\ pc \in Active =>
               State = IF pc = "serve" THEN "serving" ELSE "starting"
BY StateIs

\* Before anything stops the tunnel, a step that does not make it serve acquires.
LEMMA IsAcquire ==
  ASSUME PromiseInv, PromiseInv', [Next]_vars, State = "starting", State' = "starting",
         why' = why
  PROVE  Promise!Acquire
<1>1. Promise!Orderly
  <2>1. pc' # "killed"
    BY DEF State, Starting
  <2> QED
    BY <2>1, StepsAreOrderly DEF PromiseInv
<1>2. (PromiseInv /\ State = "starting" /\ Left # {} => "lock" \in Left)'
  BY AliasFirst, PTL
<1> QED
  BY <1>1, <1>2 DEF Promise!Acquire

\* While it stops, it only loses things, but for a job or a block that was under
\* way, and keeps its cause.
LEMMA IsUnwind ==
  ASSUME PromiseInv, PromiseInv', [Next]_vars, State = "stopping", State' = "stopping",
         Left' \subseteq Left \cup {"job", "block"}
  PROVE  Promise!Unwind
<1>1. Promise!Orderly
  <2>1. pc' # "killed"
    BY DEF State, Starting
  <2> QED
    BY <2>1, StepsAreOrderly DEF PromiseInv
<1>2. why # "none" => why' = why
  BY StopStays DEF PromiseInv, CleanupInv
<1>3. why' \in Why /\ "none" \in Why
  BY DEF PromiseInv, CleanupInv, IInv, TypeOK, Why
<1> QED
  BY <1>1, <1>2, <1>3 DEF Promise!Unwind

\* A stop.
LEMMA IsStop ==
  ASSUME PromiseInv, PromiseInv', [Next]_vars, State \in {"starting", "serving"},
         State' = "stopping", Left' \subseteq Left
  PROVE  Promise!Stop
<1>1. Promise!Orderly
  <2>1. pc' # "killed"
    BY DEF State, Starting
  <2> QED
    BY <2>1, StepsAreOrderly DEF PromiseInv
<1>2. why' \in Why /\ "none" \in Why
  BY DEF PromiseInv, CleanupInv, IInv, TypeOK, Why
<1> QED
  BY <1>1, <1>2 DEF Promise!Stop

\* What a session that is over was given up on may still happen.
LEMMA IsLinger ==
  ASSUME PromiseInv, PromiseInv', [Next]_vars, State = "gone", State' = "gone",
         why' = why
  PROVE  Promise!Linger
<1>1. pc' = "done" /\ pc' # "killed"
  BY DEF State
<1>2. Promise!Orderly
  BY <1>1, StepsAreOrderly DEF PromiseInv
<1>3. (CleanupInv /\ stack = <<>> /\ pc \notin {"killed", "submit"} => Left \subseteq Excused)'
  BY OverIsExcused, PTL
<1>4. stack' = <<>> /\ CleanupInv'
  BY <1>1 DEF PromiseInv, EndsInv
<1> QED
  BY <1>1, <1>2, <1>3, <1>4 DEF Promise!Linger

\* Steps that a promise does not tell from others but by what they change.
LEMMA QuietStep ==
  ASSUME PromiseInv, PromiseInv', [Next]_vars, pc' = pc, why' = why, late' = late,
         Left' \subseteq Left,
         State = "serving" => Left \ Left' \subseteq {"conn", "sftp", "proc", "port", "output", "job"},
         State \in {"gone", "killed"} => UNCHANGED <<held, tasks, job, warned, step, lost>>
  PROVE  Promise!Next \/ UNCHANGED Promise!vars
<1>1. State' = State
  BY DEF State
<1>2. CASE State = "starting"
  BY <1>1, <1>2, IsAcquire DEF Promise!Next
<1>3. CASE State = "serving"
  <2>1. Excused \subseteq Excused'
    BY ExcusesStay DEF PromiseInv
  <2> QED
    BY <1>1, <1>3, <2>1 DEF Promise!Next, Promise!Break
<1>4. CASE State = "stopping"
  BY <1>1, <1>4, IsUnwind DEF Promise!Next
<1>5. CASE State \in {"gone", "killed"}
  <2>1. Left' = Left /\ Excused' = Excused
    BY <1>5, ModeKept DEF Left, Excused, JobAlive
  <2> QED
    BY <1>1, <2>1 DEF Promise!vars
<1> QED
  BY <1>2, <1>3, <1>4, <1>5 DEF State

\* The steps of `_start`.
LEMMA StartSimulated ==
  ASSUME PromiseInv, PromiseInv', Start, [Next]_vars
  PROVE  Promise!Next \/ UNCHANGED Promise!vars
<1> USE DEF mainVars, heldVars, stepVars, stopVars, jobVars, toldVars, envVars
<1>i. IInv /\ IInv' /\ StopInv
  BY DEF PromiseInv, CleanupInv, IInv
<1>n. (IInv => ((State = "stopping" <=> pc = "cleanup" \/ (why # "none" /\ pc \in Active))
                /\ (why = "none" /\ pc \in Active =>
                      State = IF pc = "serve" THEN "serving" ELSE "starting")))'
  BY StateTells, PTL
<1>a. Active = {"lock", "connect", "prepare", "sftp", "create", "lease", "submit",
                "start_command", "queue", "ready_port", "endpoint", "forward",
                "publish", "serve"} /\ Starting = Active \ {"serve"}
  BY DEF Active, Starting
<1>1. CASE EnsureDirectories
  BY <1>1, ModeKept DEF EnsureDirectories, Promise!vars, State, Left, Excused, JobAlive
<1>2. CASE \/ AcquireLock \/ Connect \/ Prepare \/ EnterSftp \/ ControlCreated
           \/ PublishFirstLease \/ SubmissionOpens \/ SubmittedInteractive
           \/ SubmittedBatch \/ StartCommand \/ JobRuns \/ ReadyPort
           \/ EndpointAnswers \/ ForwardPort
  <2>1. /\ pc \in Starting /\ pc' \in Starting /\ cancel = "no" /\ why' = why
    BY <1>2, <1>a
    DEF AcquireLock, Connect, Prepare, EnterSftp, ControlCreated, PublishFirstLease,
        SubmissionOpens, SubmittedInteractive, SubmittedBatch, StartCommand, JobRuns,
        ReadyPort, EndpointAnswers, ForwardPort, At, Advance
  <2>2. why = "none"
    BY <1>a, <1>i, <2>1 DEF StopInv
  <2>3. State = "starting" /\ State' = "starting"
    BY <1>a, <1>i, <1>n, <2>1, <2>2, StateIs
  <2> QED
    BY <2>1, <2>3, IsAcquire DEF Promise!Next
<1>3. CASE Published
  <2>1. /\ pc = "publish" /\ pc' = "serve" /\ cancel = "no" /\ why' = why
        /\ tasks' = tasks \cup {"monitor"} /\ held' = held /\ warned' = warned
        /\ step["publish"] = "ok"
    BY <1>3 DEF Published, At, Advance
  <2>2. why = "none"
    BY <1>a, <1>i, <2>1 DEF StopInv
  <2>3. State = "starting" /\ State' = "serving"
    BY <1>a, <1>i, <1>n, <2>1, <2>2, StateIs
  <2>4. /\ {"watcher", "heartbeats", "monitor"} \subseteq tasks'
        /\ "block" \in held \cup warned
    BY <1>a, <2>1, <2>2 DEF PromiseInv, Guarded
  <2>5. "lock" \in held
    BY <1>a, <2>1, LockHeldInStart DEF PromiseInv, CleanupInv
  <2>6. Promise!Orderly
    BY <2>1, StepsAreOrderly DEF PromiseInv
  <2> QED
    BY <2>1, <2>3, <2>4, <2>5, <2>6 DEF Promise!Next, Promise!Serve, Left, Excused
<1>4. CASE StepFails \/ JobSeenEnded \/ PromptInterrupted
  <2>1. /\ pc \in Active \ {"serve"} /\ pc' = "cleanup" /\ cancel = "no"
        /\ held' \subseteq held /\ tasks' = tasks /\ (JobAlive' => JobAlive)
    BY <1>4, <1>a DEF StepFails, JobSeenEnded, PromptInterrupted, MainFails, At, JobAlive
  <2>2. why = "none"
    BY <1>i, <2>1 DEF StopInv
  <2>3. State = "starting" /\ State' = "stopping"
    BY <1>i, <1>n, <2>1, <2>2, StateIs
  <2>4. Left' \subseteq Left
    BY <2>1 DEF Left
  <2> QED
    BY <2>3, <2>4, IsStop DEF Promise!Next
<1> QED
  BY <1>1, <1>2, <1>3, <1>4 DEF Start

\* The background tasks and the surroundings.
LEMMA OutsideSimulated ==
  ASSUME PromiseInv, PromiseInv', Background \/ Environment, [Next]_vars
  PROVE  Promise!Next \/ UNCHANGED Promise!vars
<1> USE DEF mainVars, heldVars, stepVars, stopVars, jobVars, toldVars, envVars
<1>i. IInv /\ IInv' /\ tasks \subseteq Tasks /\ held \subseteq Resources
  BY DEF PromiseInv, CleanupInv, IInv, TypeOK
<1>n. (IInv => ((State = "stopping" <=> pc = "cleanup" \/ (why # "none" /\ pc \in Active))
                /\ (why = "none" /\ pc \in Active =>
                      State = IF pc = "serve" THEN "serving" ELSE "starting")))'
  BY StateTells, PTL
<1>b. Blame # "none"
  BY DEF Blame
<1>1. CASE ForceQuit
  <2>1. State \in {"starting", "serving", "stopping"} /\ State' = "killed"
    BY <1>1 DEF ForceQuit, State, Ended, Starting
  <2>2. /\ why' = why /\ held' \subseteq held /\ tasks' = {} /\ job' = job
        /\ late' = {} /\ UNCHANGED <<warned, step, lost>>
    BY <1>1 DEF ForceQuit
  <2>3. Left' \subseteq Left /\ Excused' \subseteq Excused
    BY <2>2, ModeKept DEF Left, Excused, JobAlive
  <2> QED
    BY <2>1, <2>2, <2>3 DEF Promise!Next, Promise!Kill
<1>2. CASE OutputEnds \/ ConnectionLost \/ JobStarts \/ JobEnds
  <2>1. /\ UNCHANGED <<pc, why, late>> /\ State \notin {"gone", "killed"}
        /\ held' \subseteq held /\ tasks' \subseteq tasks /\ (JobAlive' => JobAlive)
        /\ held \ held' \subseteq {"conn", "sftp", "proc", "port"}
        /\ tasks \ tasks' \subseteq {"output"}
    BY <1>2, <1>i, StateIs DEF OutputEnds, ConnectionLost, JobStarts, JobEnds, Ended, JobAlive
  <2>2. Left' \subseteq Left
        /\ Left \ Left' \subseteq {"conn", "sftp", "proc", "port", "output", "job"}
    BY <2>1 DEF Left
  <2> QED
    BY <2>1, <2>2, QuietStep
<1>3. CASE Interrupt \/ (Background /\ ~OutputEnds)
  <2>1. /\ pc' = pc /\ late' = late /\ pc \notin {"done", "killed"}
        /\ held' = held /\ tasks' \subseteq tasks /\ (JobAlive' => JobAlive)
        /\ \E w \in Why \ {"none"} : StopFromOutside(w)
    BY <1>3, <1>b DEF Interrupt, Background, WatchConnection, HeartbeatFails,
        MonitorSeesEnd, MonitorFails, Ended, JobAlive, Why, Blame
  <2>2. Left' \subseteq Left
    BY <2>1 DEF Left
  <2>3. CASE pc = "cleanup" \/ why # "none"
    <3>1. State = "stopping"
      BY <1>i, <2>1, <2>3, StateIs
    <3>2. State' = "stopping"
      BY <1>i, <1>n, <2>1, <2>3, StateIs DEF StopFromOutside
    <3> QED
      BY <2>2, <3>1, <3>2, IsUnwind DEF Promise!Next
  <2>4. CASE pc # "cleanup" /\ why = "none"
    <3>1. pc \in Active /\ why' # "none"
      BY <1>i, <2>1, <2>4, StateIs DEF StopFromOutside
    <3>2. State \in {"starting", "serving"} /\ State' = "stopping"
      BY <1>i, <1>n, <2>1, <2>4, <3>1, StateIs
    <3> QED
      BY <2>2, <3>2, IsStop DEF Promise!Next
  <2> QED
    BY <2>3, <2>4
<1> QED
  BY <1>1, <1>2, <1>3 DEF Background, Environment

\* The shielded steps.
LEMMA ShieldedSimulated ==
  ASSUME PromiseInv, PromiseInv', NEW s \in Shielded, ShieldedStep(s), [Next]_vars
  PROVE  Promise!Next \/ UNCHANGED Promise!vars
<1> USE DEF mainVars, heldVars, stepVars, stopVars, jobVars, toldVars, envVars
<1>i. /\ IInv /\ IInv' /\ StopInv /\ Shielded = {"create", "submit", "publish"}
      /\ Shielded \subseteq Active
  BY DEF PromiseInv, CleanupInv, IInv, Shielded, Active, Starting
<1>n. (IInv => ((State = "stopping" <=> pc = "cleanup" \/ (why # "none" /\ pc \in Active))
                /\ (why = "none" /\ pc \in Active =>
                      State = IF pc = "serve" THEN "serving" ELSE "starting")))'
  BY StateTells, PTL
<1>1. CASE GaveUpWaiting(s)
  <2>1. /\ pc \in Active \/ pc = "cleanup"
        /\ why # "none" /\ why' = why /\ pc' = "cleanup"
        /\ UNCHANGED <<held, tasks, job>>
    BY <1>i, <1>1 DEF GaveUpWaiting, StopInv
  <2>2. State = "stopping" /\ State' = "stopping"
    BY <1>i, <1>n, <2>1, StateIs
  <2>3. Left' \subseteq Left \cup {"job", "block"}
    BY <2>1 DEF Left, JobAlive
  <2> QED
    BY <2>2, <2>3, IsUnwind DEF Promise!Next
<1>2. CASE ~GaveUpWaiting(s)
  <2>1. /\ UNCHANGED <<pc, why, late, tasks>> /\ pc # "killed"
        /\ held' \subseteq held \cup {"ctl", "block"} /\ held \subseteq held'
        /\ job' = job \/ job' = "pending"
    BY <1>i, <1>2 DEF ShieldedStep, StepApplies, StepReturns, StepRaises, Ended
  <2>2. State' = State
    BY <2>1 DEF State
  <2>3. Left' \subseteq Left \cup {"job", "block"}
    BY <2>1 DEF Left, JobAlive
  <2>4. CASE State = "starting"
    BY <2>1, <2>2, <2>4, IsAcquire DEF Promise!Next
  <2>5. CASE State = "stopping"
    BY <2>2, <2>3, <2>5, IsUnwind DEF Promise!Next
  <2>6. CASE State = "gone"
    BY <2>1, <2>2, <2>6, IsLinger DEF Promise!Next
  <2>7. CASE State = "serving"
    <3>1. why = "none" /\ pc = "serve"
      BY <2>7 DEF State
    <3>2. step["submit"] \notin {"running", "abandoned"}
          /\ step["publish"] \notin {"running", "abandoned"}
      BY <3>1 DEF PromiseInv, GivenUp, CleanupInv, IInv, StepInv
    <3>3. StepApplies(s) => s = "create"
      BY <1>i, <3>2 DEF StepApplies
    <3>4. UNCHANGED job /\ held' \subseteq held \cup {"ctl"}
      BY <1>2, <3>3 DEF ShieldedStep, StepApplies, StepReturns, StepRaises
    <3>5. Left' = Left
      BY <2>1, <3>4 DEF Left, JobAlive
    <3> QED
      BY <2>1, <2>7, <3>5, QuietStep
  <2>8. State # "killed"
    BY <1>i, <2>1, StateIs
  <2> QED
    BY <2>4, <2>5, <2>6, <2>7, <2>8 DEF State
<1> QED
  BY <1>1, <1>2

\* The end of a session.
LEMMA EndSimulated ==
  ASSUME PromiseInv, PromiseInv', Stopping \/ Unwind, [Next]_vars
  PROVE  Promise!Next \/ UNCHANGED Promise!vars
<1> USE DEF mainVars, heldVars, stepVars, stopVars, jobVars, toldVars, envVars
<1>i. IInv /\ IInv' /\ StopInv
  BY DEF PromiseInv, CleanupInv, IInv
<1>n. (IInv => ((State = "stopping" <=> pc = "cleanup" \/ (why # "none" /\ pc \in Active))
                /\ (why = "none" /\ pc \in Active =>
                      State = IF pc = "serve" THEN "serving" ELSE "starting")))'
  BY StateTells, PTL
<1>1. CASE RunReturns
  <2>1. /\ pc = "cleanup" /\ pc' = "done" /\ stack = <<>>
        /\ UNCHANGED <<why, held, tasks, job, warned, late, step, lost>>
    BY <1>1 DEF RunReturns
  <2>2. State = "stopping" /\ State' = "gone"
    BY <2>1 DEF State, Starting
  <2>3. Left \subseteq Excused
    BY <2>1, LeftIsExcused DEF PromiseInv
  <2>4. Left' = Left /\ Excused' = Excused
    BY <2>1, ModeKept DEF Left, Excused, JobAlive
  <2> QED
    BY <2>1, <2>2, <2>3, <2>4 DEF Promise!Next, Promise!End
<1>2. CASE Stopping \/ (Unwind /\ ~RunReturns)
  <2>1. \/ pc = "cleanup"
        \/ why # "none" /\ pc \in Active
    BY <1>2, <1>i DEF Stopping, CancelDelivered, FinishedThenStops, StopInv, Active,
        Unwind, StopTask, ReleaseResource, RemoveControlDirectory, CancelJob,
        CleanupFails, CleanupCancelled, Unwinding, Shielded, Starting
  <2>2. /\ pc' \in {pc, "cleanup"} /\ why' = why
        /\ held' \subseteq held /\ tasks' \subseteq tasks /\ (JobAlive' => JobAlive)
    BY <1>2, <1>i DEF Stopping, CancelDelivered, FinishedThenStops, JobAlive,
        Unwind, StopTask, ReleaseResource, RemoveControlDirectory, CancelJob,
        CleanupFails, CleanupCancelled, Unwinding
  <2>3. State = "stopping" /\ State' = "stopping"
    BY <1>i, <1>n, <2>1, <2>2, StateIs
  <2>4. Left' \subseteq Left
    BY <2>2 DEF Left
  <2> QED
    BY <2>3, <2>4, IsUnwind DEF Promise!Next
<1> QED
  BY <1>1, <1>2

\* A thread that a cleanup step left behind.
LEMMA LateSimulated ==
  ASSUME PromiseInv, PromiseInv', NEW r \in {"lock", "block"}, LateThread(r), [Next]_vars
  PROVE  Promise!Next \/ UNCHANGED Promise!vars
<1> USE DEF mainVars, heldVars, stepVars, stopVars, jobVars, toldVars, envVars
<1>1. /\ UNCHANGED <<pc, why, tasks, job>> /\ held' \subseteq held /\ late # {}
  BY DEF LateThread
<1>2. IInv /\ pc \notin Active /\ pc # "killed"
  BY <1>1 DEF PromiseInv, CleanupInv, EndsInv, WarnInv
<1>3. State' = State /\ State \in {"stopping", "gone"}
  BY <1>1, <1>2, StateIs DEF State
<1>4. Left' \subseteq Left
  BY <1>1 DEF Left, JobAlive
<1> QED
  BY <1>1, <1>3, <1>4, IsUnwind, IsLinger DEF Promise!Next

\* The safety of the promise: a session, in either mode, whatever the network, the
\* scheduler and the user do to it, takes only steps that the promise allows.
THEOREM PromiseKept == Spec => KeepsPromise
<1>1. Init => Promise!Init
  <2> SUFFICES ASSUME Init PROVE Promise!Init
    OBVIOUS
  <2>1. /\ pc = "lock" /\ why = "none" /\ held = {} /\ tasks = {} /\ ~JobAlive
        /\ warned = {} /\ late = {} /\ step["submit"] = "idle" /\ ~lost
    BY DEF Init, Shielded, JobAlive
  <2> QED
    BY <2>1 DEF Promise!Init, State, Left, Excused, Starting
<1>2. PromiseInv /\ PromiseInv' /\ [Next]_vars => [Promise!Next]_(Promise!vars)
  <2> SUFFICES ASSUME PromiseInv, PromiseInv', [Next]_vars
               PROVE  Promise!Next \/ UNCHANGED Promise!vars
    OBVIOUS
  <2>1. CASE Terminated \/ UNCHANGED vars
    BY <2>1 DEF Terminated, vars, Promise!vars, State, Left, Excused, JobAlive,
        Interactive, mainVars, heldVars, stepVars, stopVars, jobVars, toldVars, envVars
  <2> QED
    BY <2>1, StartSimulated, OutsideSimulated, ShieldedSimulated, EndSimulated,
       LateSimulated
    DEF Next
<1> QED
  BY <1>1, <1>2, PromiseInvariance, PTL DEF Spec, KeepsPromise, Promise!Safe
=============================================================================
