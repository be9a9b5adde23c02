----------------------------- MODULE LogRetention -----------------------------
(***************************************************************************)
(* The log files of several runs in one directory (logging.py): each run   *)
(* makes its file with its first record, after it has removed the files    *)
(* written longest ago (_remove_old_logs).  Nothing keeps two runs from    *)
(* doing so at once, while others write, rename or end.                    *)
(*                                                                         *)
(* A file's modification time is that of its run's last record: a clock    *)
(* that ticks with every record.  Two records at the same time, which the  *)
(* names would tell apart, do not occur here.                              *)
(***************************************************************************)
EXTENDS Naturals, FiniteSets

CONSTANTS
  Run,        \* runs of ezhpcy that log to the directory
  Past,       \* those that ended before, and left their files
  KeepLogs,   \* `keep`: the files to keep, a run's own included
  MaxWrites   \* bound: records written to files

ASSUME RetentionAssumption ==
  /\ IsFiniteSet(Run) /\ Past \subseteq Run
  /\ KeepLogs \in Nat \ {0} /\ MaxWrites \in Nat /\ Cardinality(Past) <= MaxWrites

\* A run's file has its start and its process in its name, so that only its label
\* changes: from none to the profile or alias.
Label == {"none", "label"}
Name == Run \X Label

VARIABLES
  windows,  \* (fixed) a file that its run has open cannot be removed
  clock,    \* records written so far
  pc,       \* where the run is with its file
  label,    \* the label in `baseFilename`
  there,    \* the run's file is in the directory, under that label
  written,  \* when the run last wrote, if only to a removed file
  todo,     \* names of its glob still to look at
  seen,     \* the modification times it has read, 0 for none
  victims,  \* names still to remove
  before,   \* (history) `written` when the run listed the directory
  extra     \* (history) runs whose file came since then, or could not be removed

listVars == <<todo, seen, victims>>
retentionVars == <<windows, clock, pc, label, there, written, listVars, before, extra>>

NoTimes == [n \in Name |-> 0]
NameOf(r) == <<r, label[r]>>
Files == {NameOf(r) : r \in {q \in Run : there[q]}}

TypeOKRetention ==
  /\ windows \in BOOLEAN /\ clock \in 0 .. MaxWrites
  /\ pc \in [Run -> {"quiet", "listing", "removing", "writing", "closed", "renamed",
                     "done"}]
  /\ label \in [Run -> Label] /\ there \in [Run -> BOOLEAN]
  /\ written \in [Run -> 0 .. MaxWrites]
  /\ todo \in [Run -> SUBSET Name] /\ victims \in [Run -> SUBSET Name]
  /\ seen \in [Run -> [Name -> 0 .. MaxWrites]]
  /\ before \in [Run -> [Run -> 0 .. MaxWrites]] /\ extra \in [Run -> SUBSET Run]

InitRetention ==
  /\ windows \in BOOLEAN /\ clock = Cardinality(Past)
  /\ pc = [r \in Run |-> IF r \in Past THEN "done" ELSE "quiet"]
  /\ label = [r \in Run |-> "none"]
  /\ there = [r \in Run |-> r \in Past]
  /\ written \in [Run -> 0 .. clock]
  /\ \A r \in Run : written[r] = 0 <=> r \notin Past
  /\ \A r, q \in Past : written[r] = written[q] => r = q
  /\ todo = [r \in Run |-> {}] /\ seen = [r \in Run |-> NoTimes]
  /\ victims = [r \in Run |-> {}]
  /\ before = [r \in Run |-> [q \in Run |-> 0]] /\ extra = [r \in Run |-> {}]

\* Runs that have listed the directory and not yet made their file.
Pruning == {r \in Run : pc[r] \in {"listing", "removing"}}

\* A file of r comes into the directory, unseen by those.
Comes(r) == extra' = [q \in Run |-> IF q = r \/ q \notin Pruning THEN {} ELSE extra[q] \cup {r}]

\* r is done with pruning.
Ends(r, next) ==
  /\ pc' = [pc EXCEPT ![r] = next]
  /\ todo' = [todo EXCEPT ![r] = {}]
  /\ seen' = [seen EXCEPT ![r] = NoTimes]
  /\ victims' = [victims EXCEPT ![r] = {}]
  /\ before' = [before EXCEPT ![r] = [q \in Run |-> 0]]

\* r writes a record now.
Ticks(r) ==
  /\ clock < MaxWrites
  /\ clock' = clock + 1
  /\ written' = [written EXCEPT ![r] = clock + 1]

-----------------------------------------------------------------------------
(* The first record: the old files are removed, and the file is made. *)

\* `glob`.
ListLogs(r) ==
  /\ pc[r] = "quiet"
  /\ todo' = [todo EXCEPT ![r] = Files]
  /\ before' = [before EXCEPT ![r] = written]
  /\ extra' = [extra EXCEPT ![r] = {}]
  /\ pc' = [pc EXCEPT ![r] = "listing"]
  /\ UNCHANGED <<windows, clock, label, there, written, seen, victims>>

\* `stat`, of one file after the other; one that is gone is left out.
StatLog(r) ==
  /\ pc[r] = "listing"
  /\ \E n \in todo[r] :
       /\ todo' = [todo EXCEPT ![r] = @ \ {n}]
       /\ seen' = [seen EXCEPT ![r][n] = IF n \in Files THEN written[n[1]] ELSE 0]
  /\ UNCHANGED <<windows, clock, pc, label, there, written, victims, before, extra>>

\* Those of the files looked at that were written after n.
Newer(r, n) == {m \in Name : seen[r][m] > seen[r][n]}

\* Mutant of Excess: one more is kept.
ExcessByOne(r) ==
  {n \in Name : seen[r][n] # 0 /\ Cardinality(Newer(r, n)) >= KeepLogs}

\* Mutant of Excess: the sort is not reversed.
ExcessOfNewest(r) ==
  {n \in Name :
     /\ seen[r][n] # 0
     /\ Cardinality({m \in Name : seen[r][m] \in 1 .. seen[r][n] - 1}) >= KeepLogs - 1}

\* `logs[keep:]`, of the logs sorted by when they were written, latest first: one less
\* than `keep` are kept, for the run's own comes.
Excess(r) ==
  {n \in Name : seen[r][n] # 0 /\ Cardinality(Newer(r, n)) >= KeepLogs - 1}

SortLogs(r) ==
  /\ pc[r] = "listing" /\ todo[r] = {}
  /\ victims' = [victims EXCEPT ![r] = Excess(r)]
  /\ pc' = [pc EXCEPT ![r] = "removing"]
  /\ UNCHANGED <<windows, clock, label, there, written, todo, seen, before, extra>>

Removable(n) == n \in Files /\ ~ (windows /\ pc[n[1]] = "writing")

\* `unlink`, of the latest of them first, or nothing if that fails.
RemoveLog(r) ==
  /\ pc[r] = "removing"
  /\ \E n \in victims[r] :
       /\ Newer(r, n) \cap victims[r] = {}
       /\ victims' = [victims EXCEPT ![r] = @ \ {n}]
       /\ there' = [there EXCEPT ![n[1]] = @ /\ ~ Removable(n)]
       /\ extra' = [extra EXCEPT ![r] = IF n \in Files /\ ~ Removable(n) THEN @ \cup {n[1]} ELSE @]
  /\ UNCHANGED <<windows, clock, pc, label, written, todo, seen, before>>

\* `_open`, and the record is written.
OpenLog(r) ==
  /\ pc[r] = "removing" /\ victims[r] = {}
  /\ Ticks(r) /\ Comes(r)
  /\ there' = [there EXCEPT ![r] = TRUE]
  /\ Ends(r, "writing")
  /\ UNCHANGED <<windows, label>>

\* The directory or the file cannot be made: the run logs to no file.
OpenFails(r) ==
  /\ \/ pc[r] = "quiet"
     \/ pc[r] = "removing" /\ victims[r] = {}
  /\ Ends(r, "done")
  /\ UNCHANGED <<windows, clock, label, there, written, extra>>

-----------------------------------------------------------------------------
(* A run with a file. *)

\* Another record, if only to a file that is no longer in the directory.
WriteLog(r) ==
  /\ pc[r] = "writing"
  /\ Ticks(r)
  /\ UNCHANGED <<windows, pc, label, there, listVars, before, extra>>

\* `relabel`: before the file is made, it is only called otherwise.
RelabelUnmade(r) ==
  /\ pc[r] = "quiet" /\ label[r] = "none"
  /\ label' = [label EXCEPT ![r] = "label"]
  /\ UNCHANGED <<windows, clock, pc, there, written, listVars, before, extra>>

\* A file that is made is closed ...
CloseToRelabel(r) ==
  /\ pc[r] = "writing" /\ label[r] = "none"
  /\ pc' = [pc EXCEPT ![r] = "closed"]
  /\ UNCHANGED <<windows, clock, label, there, written, listVars, before, extra>>

\* ... renamed, unless it is gone ...
RenameLog(r) ==
  /\ pc[r] = "closed"
  /\ IF there[r]
       THEN label' = [label EXCEPT ![r] = "label"] /\ Comes(r)
       ELSE UNCHANGED <<label, extra>>
  /\ pc' = [pc EXCEPT ![r] = "renamed"]
  /\ UNCHANGED <<windows, clock, there, written, listVars, before>>

\* ... and opened to append, which makes it anew if it is gone.
Reopen(r) ==
  /\ pc[r] = "renamed"
  /\ IF there[r]
       THEN UNCHANGED <<clock, there, written, extra>>
       ELSE Ticks(r) /\ Comes(r) /\ there' = [there EXCEPT ![r] = TRUE]
  /\ pc' = [pc EXCEPT ![r] = "writing"]
  /\ UNCHANGED <<windows, label, listVars, before>>

\* The run ends, or is killed, and leaves its file.
EndRun(r) ==
  /\ pc[r] \notin {"quiet", "done"}
  /\ Ends(r, "done")
  /\ UNCHANGED <<windows, clock, label, there, written, extra>>

NextRetention ==
  \E r \in Run :
    \/ ListLogs(r) \/ StatLog(r) \/ SortLogs(r) \/ RemoveLog(r) \/ OpenLog(r) \/ OpenFails(r)
    \/ WriteLog(r) \/ RelabelUnmade(r) \/ CloseToRelabel(r) \/ RenameLog(r) \/ Reopen(r)
    \/ EndRun(r)

SpecRetention == InitRetention /\ [][NextRetention]_retentionVars

-----------------------------------------------------------------------------
(* Properties *)

Opens(r) == pc[r] = "removing" /\ pc'[r] = "writing"

Removes(r, q) == there[q] /\ ~ there'[q] /\ victims'[r] # victims[r]

\* A run that makes its file leaves no more than `keep`, its own included, but for the
\* files that came, or got their name, since it listed them, and those it could not
\* remove: however many runs prune at once, none counts on another to do it.
KeepsFew ==
  [][\A r \in Run : Opens(r) =>
       Cardinality(Files') <= KeepLogs + Cardinality(extra[r])]_retentionVars

\* "So that a long tunnel's log outlives the runs started after it": a log is removed
\* only after `keep` - 1 other runs wrote later than its run had written when the
\* directory was listed, even if others remove, write or rename logs meanwhile.
OutlivedByMany ==
  [][\A r, q \in Run : Removes(r, q) =>
       Cardinality({p \in Run \ {q} : written[p] > before[r][q]}) >= KeepLogs - 1]_retentionVars

\* The log of a running tunnel outlives the runs started after it, without that
\* proviso: what the comment says, and the code does not keep.
LongTunnelKeepsLog ==
  [][\A r, q \in Run : Removes(r, q) => pc[q] # "writing"]_retentionVars
=============================================================================
