---------------------------- MODULE JobInspection ----------------------------
(***************************************************************************)
(* What the tunnel learns of its job by asking the scheduler: `inspect` of *)
(* the PBS and the LSF adapter (scheduler/pbs.py, scheduler/lsf.py), and   *)
(* the polls of the session that use it (tunnel/session.py): waiting for   *)
(* the job to run, checking that it lives, and monitoring it.  The job     *)
(* goes on while a query is under way, and the PBS adapter needs two.      *)
(***************************************************************************)
EXTENDS Naturals

CONSTANT
  Requeues  \* bound: times the scheduler puts a running job back in the queue

VARIABLES
  scheduler, \* the adapter: PBS or LSF
  raw,       \* the job's state in the scheduler's own words
  status,    \* its exit status
  listed,    \* where the scheduler lists it: queue, history, nowhere
  history,   \* the scheduler keeps a history of jobs
  begun,     \* the job has been running
  requeued,  \* times it was put back in the queue
  query,     \* the query under way: none, first, second
  state,     \* the JobState last reported
  ended,     \* `_job_finished`
  tunnel     \* the session: waiting for the job to run, serving, stopped

jobVars == <<scheduler, raw, status, listed, history, begun, requeued>>
vars == <<jobVars, query, state, ended, tunnel>>

------------------------------------------------------------------------------
(* The adapters' tables *)

Pending   == IF scheduler = "PBS" THEN {"Q", "T", "W"} ELSE {"PEND", "WAIT", "PROV"}
Running   == IF scheduler = "PBS" THEN {"B", "E", "R"} ELSE {"RUN"}
Suspended == IF scheduler = "PBS" THEN {"H", "S"} ELSE {"PSUSP", "USUSP", "SSUSP"}
Over      == IF scheduler = "PBS" THEN {"F", "X"}
             ELSE {"DONE", "POST_DONE", "EXIT", "POST_ERR", "ZOMBI"}

\* A state that the adapter does not know, or knows to say nothing.
Odd == IF scheduler = "PBS" THEN {"U"} ELSE {"UNKWN"}

\* The JobState of a raw state and an exit status.
StateOf(r, s) ==
  CASE r \in Pending   -> "pending"
    [] r \in Running   -> "running"
    [] r \in Suspended -> "suspended"
    [] r = "F"         -> IF s = 0 THEN "succeeded" ELSE "failed"
    [] r \in {"DONE", "POST_DONE"} -> "succeeded"
    [] r \in Over \ {"F", "DONE", "POST_DONE"} -> "failed"
    [] OTHER           -> "unknown"

IsTerminal(s) == s \in {"succeeded", "failed", "ended"}

Init ==
  /\ scheduler \in {"PBS", "LSF"}
  /\ raw \in Pending /\ status = 0 /\ listed = "queue" /\ history \in BOOLEAN
  /\ begun = FALSE /\ requeued = 0
  /\ query = "none" /\ state = "pending" /\ ended = FALSE /\ tunnel = "waiting"

------------------------------------------------------------------------------
(* The job *)

Alive == raw \notin Over
watching == <<query, state, ended, tunnel>>

JobMoves ==
  /\ Alive
  /\ raw' \in (Pending \cup Running \cup Suspended \cup Odd) \ {raw}
  /\ begun' = (begun \/ raw' \in Running)
  /\ requeued' = requeued + IF begun /\ raw' \in Pending THEN 1 ELSE 0
  /\ requeued' <= Requeues
  /\ UNCHANGED <<scheduler, status, listed, history, watching>>

\* The job ends, by itself or because it was deleted.
JobEnds ==
  /\ Alive
  /\ raw' \in Over
  /\ status' \in IF raw' \in {"DONE", "POST_DONE"} THEN {0}
                 ELSE IF raw' = "F" THEN {0, 1} ELSE {1}
  /\ UNCHANGED <<scheduler, listed, history, begun, requeued, watching>>

\* The scheduler drops a job that is over from its queue, and in the end from its
\* history too.
JobDropped ==
  /\ ~ Alive /\ listed # "nowhere"
  /\ listed' = IF listed = "queue" /\ history THEN "history" ELSE "nowhere"
  /\ UNCHANGED <<scheduler, raw, status, history, begun, requeued, watching>>

------------------------------------------------------------------------------
(* The polls *)

\* A poll of the session asks the scheduler.
AskScheduler ==
  /\ tunnel # "stopped" /\ query = "none"
  /\ query' = "first"
  /\ UNCHANGED <<jobVars, state, ended, tunnel>>

\* What the session does with an answer: `_job_ended`, and a job that runs and
\* whose host the scheduler names, which it may not do yet.
Answer(s) ==
  /\ query' = "none"
  /\ state' = s
  /\ ended' = (ended \/ IsTerminal(s))
  /\ tunnel' \in CASE IsTerminal(s) \/ s = "unknown" -> {"stopped"}
                   [] s = "running" -> {"serving", tunnel}
                   [] OTHER -> {tunnel}
  /\ UNCHANGED jobVars

\* Where the first query finds a job: `bjobs -a` lists those that are over as well.
FirstFinds ==
  listed = "queue" \/ (scheduler = "LSF" /\ listed = "history")

FirstAnswers ==
  /\ query = "first" /\ FirstFinds
  /\ Answer(StateOf(raw, status))

\* Mutant of FirstFails: any failure is taken for a job that is not listed.
AnyFailure ==
  /\ query = "first" /\ scheduler = "PBS"
  /\ query' = "second"
  /\ UNCHANGED <<jobVars, state, ended, tunnel>>

\* PBS says it does not know the job (`_job_not_found`): its history is asked.
FirstFails ==
  /\ query = "first" /\ scheduler = "PBS" /\ ~ FirstFinds
  /\ query' = "second"
  /\ UNCHANGED <<jobVars, state, ended, tunnel>>

\* `qstat -x` answers: with the job, or without, and so the job has ended.  A server
\* without a history answers with no job, or does not know it either.
SecondAnswers ==
  /\ query = "second"
  /\ Answer(IF listed = "history" THEN StateOf(raw, status) ELSE "ended")

\* A query fails in another way, or its answer makes no sense: the poll raises, and
\* the tunnel stops without taking the job for ended.
QueryFails ==
  /\ query # "none"
  /\ query' = "none" /\ tunnel' = "stopped"
  /\ UNCHANGED <<jobVars, state, ended>>

\* The job does not run within queue_timeout_seconds, or the tunnel is stopped.
GiveUp ==
  /\ tunnel # "stopped"
  /\ query' = "none" /\ tunnel' = "stopped"
  /\ UNCHANGED <<jobVars, state, ended>>

Next ==
  \/ JobMoves \/ JobEnds \/ JobDropped
  \/ AskScheduler \/ FirstAnswers \/ FirstFails \/ SecondAnswers \/ QueryFails \/ GiveUp

\* A query is asked at every interval, and it is answered or fails.
Fairness ==
  /\ WF_vars(AskScheduler)
  /\ WF_vars(FirstAnswers \/ FirstFails \/ SecondAnswers \/ QueryFails)

Spec == Init /\ [][Next]_vars /\ Fairness

------------------------------------------------------------------------------
(* Properties *)

\* The job, the query and what was learnt have their types, and only a tunnel that
\* has not stopped asks PBS a second time.
TypeOK ==
  /\ scheduler \in {"PBS", "LSF"}
  /\ raw \in Pending \cup Running \cup Suspended \cup Over \cup Odd
  /\ status \in 0 .. 1 /\ listed \in {"queue", "history", "nowhere"}
  /\ {history, begun, ended} \subseteq BOOLEAN /\ requeued \in 0 .. Requeues
  /\ query \in {"none", "first", "second"}
  /\ state \in {"pending", "running", "suspended", "succeeded", "failed", "ended", "unknown"}
  /\ tunnel \in {"waiting", "serving", "stopped"}
  /\ query = "second" => scheduler = "PBS" /\ tunnel # "stopped"

\* The tunnel takes its job for ended, and so does not cancel it, only if the job is
\* over, although the job changes while the scheduler is asked twice.
EndedJobIsOver == ended => ~ Alive

\* A job that is said to have succeeded has exited with status 0.
SuccessIsHonest == state = "succeeded" => ~ Alive /\ status = 0

\* The tunnel serves only a job that has been running, not one that was only queued,
\* suspended or held.
ServesStartedJob == tunnel = "serving" => begun

\* A job that is over stops the tunnel, also once the scheduler has forgotten it.
EndIsNoticed == ~ Alive ~> tunnel = "stopped"

==============================================================================
