----------------------------- MODULE SchedulerJob -----------------------------
(***************************************************************************)
(* An interactive job from its submission to its end, as the session of    *)
(* tunnel/session.py puts the two parts of a scheduler adapter together:   *)
(* InteractiveSubmission finds the job's ID in the submission's output and *)
(* passes the output on, JobInspection polls the job by that ID until the  *)
(* tunnel stops, and then the submission is closed.                        *)
(*                                                                         *)
(* Terminated stands for a job ID that is found whole: with a pattern that *)
(* does not match what follows the ID, the polls are about another job.    *)
(***************************************************************************)
EXTENDS InteractiveSubmission

CONSTANT Requeues  \* bound: see JobInspection

ASSUME RequeuesAssumption == Requeues \in Nat

VARIABLES
  scheduler, raw, status, listed, history, begun, requeued, query, state, ended, tunnel,
  graceOver  \* the session did not wait for the output any longer

J == INSTANCE JobInspection

jobAndPolls == <<scheduler, raw, status, listed, history, begun, requeued, query, state,
                 ended, tunnel>>
all == <<vars, jobAndPolls, graceOver>>

InitJob == Init /\ J!Init /\ graceOver = FALSE

\* The submission prints, and its ID and then its output are read meanwhile.
ReadId ==
  /\ ReadChunk \/ OutputEnds \/ StartupTimeout
  /\ UNCHANGED <<jobAndPolls, graceOver>>

Drain == (DrainEarly \/ DrainChunk) /\ UNCHANGED <<jobAndPolls, graceOver>>

Submission ==
  (SubmissionPrints \/ SubmissionExits) /\ UNCHANGED <<jobAndPolls, graceOver>>

\* The batch system moves the job, whatever the session does.
Job == (J!JobMoves \/ J!JobEnds \/ J!JobDropped) /\ UNCHANGED <<vars, graceOver>>

\* `_start` waits for the job to run once it has been submitted.
Poll == reading = "found" /\ J!AskScheduler /\ UNCHANGED <<vars, graceOver>>

PollEnds ==
  (J!FirstAnswers \/ J!FirstFails \/ J!SecondAnswers \/ J!QueryFails) /\ UNCHANGED <<vars, graceOver>>

\* Whatever else stops the tunnel, and a submission that failed.
Stop == J!GiveUp /\ UNCHANGED <<vars, graceOver>>

\* Mutant of StopJobOutput: the submission is closed whether or not the job has ended.
CloseAtOnce ==
  /\ tunnel = "stopped"
  /\ CloseSubmission /\ UNCHANGED <<jobAndPolls, graceOver>>

\* `stop_job_output` closes the submission, unless its job ended: then it ends by itself
\* after its last output.
StopJobOutput ==
  /\ tunnel = "stopped" /\ ~ ended
  /\ CloseSubmission /\ UNCHANGED <<jobAndPolls, graceOver>>

\* It does not end within _STOP_GRACE_SECONDS: `_stop_task` cancels the draining, and
\* the submission is closed.
GraceEnds ==
  /\ tunnel = "stopped" /\ ended
  /\ CloseSubmission /\ graceOver' = TRUE /\ UNCHANGED jobAndPolls

\* The output has ended by itself, and `job.close` finds a process that has exited.
CloseDrained ==
  /\ tunnel = "stopped" /\ process = "exited" /\ early = 0 /\ read = printed
  /\ CloseSubmission /\ UNCHANGED <<jobAndPolls, graceOver>>

NextJob ==
  \/ Submission \/ ReadId \/ Drain \/ Job \/ Poll \/ PollEnds \/ Stop
  \/ StopJobOutput \/ GraceEnds \/ CloseDrained

\* The event loop goes on: output is read, the startup timeout comes, jobs are polled
\* and queries answered, a tunnel whose submission failed stops, and one that stops
\* comes to the submission.
FairnessJob ==
  /\ WF_all(ReadId) /\ WF_all(Drain)
  /\ WF_all(Poll) /\ WF_all(PollEnds) /\ WF_all(reading = "failed" /\ Stop)
  /\ WF_all(StopJobOutput \/ GraceEnds \/ CloseDrained)

SpecJob == InitJob /\ [][NextJob]_all /\ FairnessJob

------------------------------------------------------------------------------
(* Properties *)

\* Both parts keep their types, and no job is polled before its ID is known.
TypeOKJob ==
  /\ TypeOK /\ J!TypeOK /\ graceOver \in BOOLEAN
  /\ query # "none" => reading = "found"

\* What the tunnel believes of its job is true: one taken for ended, and so not
\* cancelled, is over, one said to have succeeded has, and one that is served has run,
\* although the job changes while the scheduler is asked twice.
AnswersAreTrue == J!EndedJobIsOver /\ J!SuccessIsHonest /\ J!ServesStartedJob

\* All that is read is passed on, and the last output of a job that has ended, which
\* says why it did, is not lost when the tunnel stops for that reason, unless it takes
\* longer than the grace period.
OutputIsKept ==
  /\ OutputIsPassedOn
  /\ ended /\ process = "closed" /\ ~ graceOver => passed = printed

\* A job that is over, a tunnel that stops and a submission that failed come to the same
\* end: the tunnel has stopped and the submission is closed.
SubmissionIsClosed ==
  (~ J!Alive \/ tunnel = "stopped" \/ reading = "failed") ~>
    (tunnel = "stopped" /\ process = "closed")

\* The session sees the submission out: its output is read, which keeps the job from
\* stalling, until it is closed.
SubmissionIsSeenOut == OutputIsDrained /\ SubmissionIsClosed

==============================================================================
