------------------------ MODULE InteractiveSubmission ------------------------
(***************************************************************************)
(* An interactive submission (scheduler/base.py): the login shell's        *)
(* `qsub -I` or `bsub -Is` prints the job's ID in its output, which        *)
(* arrives in chunks of any size.  `submit_interactive` reads until the    *)
(* adapter's pattern finds the ID or the time is over; `drain` then passes *)
(* all the output on, from the beginning.                                  *)
(*                                                                         *)
(* The output is Before characters, the IdLength ones of the ID, and After *)
(* more; the pattern finds the ID by the characters before it, and         *)
(* (LSF: "Job <1> is submitted") by one after it, or none (PBS: "job 1").  *)
(***************************************************************************)
EXTENDS Naturals

CONSTANTS
  Before,     \* characters printed before the job ID
  IdLength,   \* characters of the job ID
  After,      \* characters printed after it
  Terminated  \* the pattern also matches what follows the ID

ASSUME SubmissionAssumption ==
  /\ Before \in Nat /\ IdLength \in Nat \ {0} /\ After \in Nat \ {0}
  /\ Terminated \in BOOLEAN

VARIABLES
  printed,  \* characters the submission has printed
  process,  \* the submission: running, exited, or closed by us
  read,     \* characters read so far
  reading,  \* `submit_interactive`: reading, found, failed
  id,       \* length of the ID found (0: none)
  early,    \* length of early_output that `drain` has yet to pass on
  passed    \* characters passed on to the sink

vars == <<printed, process, read, reading, id, early, passed>>

Length == Before + IdLength + After

Init ==
  /\ printed = 0 /\ process = "running"
  /\ read = 0 /\ reading = "reading" /\ id = 0
  /\ early = 0 /\ passed = 0

\* Mutant of Found: a pattern that does not match what follows.
FoundEarly(n) ==
  IF n <= Before THEN 0 ELSE IF n - Before < IdLength THEN n - Before ELSE IdLength

\* interactive_job_id_pattern, searched in the first `n` characters: how much of
\* the ID it finds.
Found(n) ==
  IF Terminated THEN IF n > Before + IdLength THEN IdLength ELSE 0
  ELSE IF n <= Before THEN 0
  ELSE IF n - Before < IdLength THEN n - Before ELSE IdLength

\* The submission prints, or exits, at any point of its output.
SubmissionPrints ==
  /\ process = "running" /\ printed < Length
  /\ printed' \in printed + 1 .. Length
  /\ UNCHANGED <<process, read, reading, id, early, passed>>

SubmissionExits ==
  /\ process = "running"
  /\ process' = "exited"
  /\ UNCHANGED <<printed, read, reading, id, early, passed>>

\* `_read_job_id` reads a chunk, and searches all it has read.
ReadChunk ==
  /\ reading = "reading"
  /\ \E n \in read + 1 .. printed :
       /\ read' = n
       /\ id' = Found(n)
       /\ reading' = IF Found(n) = 0 THEN "reading" ELSE "found"
       /\ early' = IF Found(n) = 0 THEN 0 ELSE n
  /\ UNCHANGED <<printed, process, passed>>

\* The output ends without an ID, and the submission is closed.
OutputEnds ==
  /\ reading = "reading" /\ process = "exited" /\ read = printed
  /\ reading' = "failed" /\ process' = "closed"
  /\ UNCHANGED <<printed, read, id, early, passed>>

\* startup_timeout is over, or the step is cancelled: the submission is closed.
StartupTimeout ==
  /\ reading = "reading"
  /\ reading' = "failed" /\ process' = "closed"
  /\ UNCHANGED <<printed, read, id, early, passed>>

\* Mutant of DrainEarly: early_output is passed on again.
DrainTwice ==
  /\ reading = "found" /\ process # "closed" /\ early > 0
  /\ passed' = passed + early /\ early' \in {0, early}
  /\ UNCHANGED <<printed, process, read, reading, id>>

\* `drain` passes early_output on ...
DrainEarly ==
  /\ reading = "found" /\ process # "closed" /\ early > 0
  /\ passed' = early /\ early' = 0
  /\ UNCHANGED <<printed, process, read, reading, id>>

\* Mutant of DrainChunk: the output is read once the submission has exited.
DrainAfterExit ==
  /\ reading = "found" /\ process = "exited" /\ early = 0
  /\ read' = printed /\ read # printed /\ passed' = printed
  /\ UNCHANGED <<printed, process, reading, id, early>>

\* ... and then each chunk that it reads, once the sink has taken the last.
DrainChunk ==
  /\ reading = "found" /\ process # "closed" /\ early = 0
  /\ \E n \in read + 1 .. printed :
       /\ read' = n
       /\ passed' = passed + (n - read)
  /\ UNCHANGED <<printed, process, reading, id, early>>

\* The session closes the submission, once it stops.
CloseSubmission ==
  /\ reading = "found" /\ process # "closed"
  /\ process' = "closed"
  /\ UNCHANGED <<printed, read, reading, id, early, passed>>

Next ==
  \/ SubmissionPrints \/ SubmissionExits \/ ReadChunk \/ OutputEnds \/ StartupTimeout
  \/ DrainEarly \/ DrainChunk \/ CloseSubmission

\* Reading goes on, and the startup timeout comes.
Fairness ==
  WF_vars(ReadChunk) /\ WF_vars(OutputEnds) /\ WF_vars(StartupTimeout)
  /\ WF_vars(DrainEarly) /\ WF_vars(DrainChunk)

Spec == Init /\ [][Next]_vars /\ Fairness

------------------------------------------------------------------------------
(* Properties *)

\* Counters stay within the output, and nothing is read that was not printed.
TypeOK ==
  /\ printed \in 0 .. Length /\ read \in 0 .. printed
  /\ process \in {"running", "exited", "closed"}
  /\ reading \in {"reading", "found", "failed"}
  /\ id \in 0 .. IdLength /\ early \in 0 .. read /\ passed \in 0 .. read

\* The job ID that is returned is the one the scheduler printed, wherever the output
\* was split: the tunnel inspects and cancels the job by it.
JobIdIsWhole == reading = "found" => id = IdLength

\* A submission that is given up on is closed, so that its job does not stay behind
\* with a shell nobody uses.
FailureClosesSubmission == reading = "failed" => process = "closed"

\* `drain` passes on every character once, in order, those read to find the ID
\* included.
OutputIsPassedOn == reading = "found" /\ early = 0 => passed = read

\* Once the ID is found, everything the submission printed reaches the sink, unless
\* the session closes the submission first.
OutputIsDrained ==
  reading = "found" ~> (passed = printed \/ process = "closed")

==============================================================================
