------------------------------ MODULE LogRecords ------------------------------
(***************************************************************************)
(* Where log records end up (logging.py): every thread hands its records   *)
(* to the output thread, with the handlers there are at that moment; the   *)
(* terminal's handler keeps some records back and brings them out before   *)
(* an error (_Replay); the log file is made with its first record, renamed *)
(* while it is written (relabel), and replaced (configure_log_file).       *)
(*                                                                         *)
(* The classes of records: "low" is below the terminal's level, "kept" too *)
(* and marked REPLAY_ON_ERROR, "info" is shown, "error" is an error.       *)
(***************************************************************************)
EXTENDS Naturals, Sequences, FiniteSets, SequencesExt

CONSTANTS
  Capacity,    \* REPLAYED_RECORDS: the records kept for the next error
  MaxRecords,  \* bound: records logged
  MaxFiles     \* bound: calls of configure_log_file

ASSUME LogAssumption ==
  Capacity \in Nat \ {0} /\ MaxRecords \in Nat /\ MaxFiles \in Nat

Class == {"low", "kept", "info", "error"}
Log == 1 .. MaxFiles

VARIABLES
  records,   \* the records handed over: their class, and the file to write them to
  done,      \* how many of them the output thread has dealt with
  kept,      \* `_Replay.kept`
  terminal,  \* the records on the terminal
  forgotten, \* (history) the records last dealt with when `kept` was emptied
  contents,  \* the records in each log file
  stream,    \* each file's stream: none, open, closed, for renaming or for good
  failed,    \* the file could not be made
  current,   \* `_file_handler`, or 0
  files,     \* calls of configure_log_file so far
  main,      \* what the main thread is in the middle of
  mark,      \* the records its `flush_output` waits for
  previous   \* the file that configure_log_file replaces, or 0

vars == <<records, done, kept, terminal, forgotten, contents, stream, failed, current,
          files, main, mark, previous>>

mainVars == <<main, mark, previous>>
terminalVars == <<kept, terminal, forgotten>>
fileVars == <<contents, stream, failed>>

Init ==
  /\ records = <<>> /\ done = 0
  /\ kept = <<>> /\ terminal = <<>> /\ forgotten = {}
  /\ contents = [f \in Log |-> <<>>]
  /\ stream = [f \in Log |-> "none"]
  /\ failed = [f \in Log |-> FALSE]
  /\ current = 0 /\ files = 0
  /\ main = "idle" /\ mark = 0 /\ previous = 0

\* `_OutputHandler.emit`, from any thread: a record that no log would write, and that
\* is not to be kept, is not handed over.
Emit(class) ==
  /\ Len(records) < MaxRecords
  /\ class = "low" => current # 0
  /\ records' = Append(records, [class |-> class, to |-> current])
  /\ UNCHANGED <<done, terminalVars, fileVars, current, files, mainVars>>

------------------------------------------------------------------------------
(* The output thread *)

\* Mutant of Latest: the deque has no `maxlen`.
AllOf(s, n) == s

\* What a deque with `maxlen` n keeps of s.
Latest(s, n) == SubSeq(s, IF Len(s) > n THEN Len(s) - n + 1 ELSE 1, Len(s))

\* `_Replay.emit`, of a record below the terminal's level.
Keep(id, class) ==
  /\ kept' = IF class = "kept" THEN Latest(Append(kept, id), Capacity) ELSE kept
  /\ UNCHANGED terminal

\* Mutant of ShowError: what is kept comes out after the error.
ShowErrorFirst(id) == terminal' = Append(terminal, id) \o kept /\ kept' = <<>>

\* `_Replay.emit`, of an error: first what is kept, which is then gone.
ShowError(id) == terminal' = Append(terminal \o kept, id) /\ kept' = <<>>

\* `_Replay.emit`.
Replay(id, class) ==
  \/ class \in {"low", "kept"} /\ Keep(id, class)
  \/ class = "info" /\ terminal' = Append(terminal, id) /\ UNCHANGED kept
  \/ class = "error" /\ ShowError(id)

\* Mutant of HandlerFree: `relabel` does not hold off `emit`.
HandlerAlwaysFree(f) == TRUE

\* The file's handler has not been acquired by `relabel`.
HandlerFree(f) == ~ (main = "renaming" /\ f = current)

\* `_FileHandler.emit`: the first record makes the file, or fails to, once, which is
\* itself logged.
WriteToFile(id, f) ==
  /\ HandlerFree(f)
  /\ \/ /\ ~ failed[f]
        /\ contents' = [contents EXCEPT ![f] = IF stream[f] = "renaming" THEN @
                                              ELSE Append(@, id)]
        /\ stream' = [stream EXCEPT ![f] =
             CASE @ = "none" -> "open" [] @ = "closed" -> "reopened" [] OTHER -> @]
        /\ UNCHANGED <<records, failed>>
     \/ /\ ~ failed[f] /\ stream[f] = "none"
        /\ failed' = [failed EXCEPT ![f] = TRUE]
        /\ records' = Append(records, [class |-> "info", to |-> current])
        /\ UNCHANGED <<contents, stream>>
     \/ failed[f] /\ UNCHANGED <<records, fileVars>>

\* `_write`: the record goes to the terminal, and to the file it was logged for.
WriteRecord ==
  /\ done < Len(records)
  /\ done' = done + 1
  /\ LET record == records[done + 1]
     IN  /\ Replay(done + 1, record.class)
         /\ IF record.to = 0 THEN UNCHANGED <<records, fileVars>>
            ELSE WriteToFile(done + 1, record.to)
  /\ UNCHANGED <<forgotten, current, files, mainVars>>

------------------------------------------------------------------------------
(* The main thread *)

\* `flush_output` hands over an event, and waits until the output thread sets it: the
\* records handed over before are written, those that come meanwhile may not be.
Flush(next) == mark' = Len(records) /\ main' = next
Flushed == done >= mark

\* `configure_logging`: the records so far are written first ...
ConfigureLogging ==
  /\ main = "idle"
  /\ Flush("configuring")
  /\ UNCHANGED <<records, done, terminalVars, fileVars, current, files, previous>>

\* ... and those kept to be shown before an error are dropped.
DropKept ==
  /\ main = "configuring" /\ Flushed
  /\ kept' = <<>> /\ forgotten' = forgotten \union {done}
  /\ main' = "idle"
  /\ UNCHANGED <<records, done, terminal, fileVars, current, files, mark, previous>>

\* `configure_log_file`: after a flush ...
ConfigureLogFile ==
  /\ main = "idle" /\ files < MaxFiles
  /\ files' = files + 1
  /\ Flush("switching")
  /\ UNCHANGED <<records, done, terminalVars, fileVars, current, previous>>

\* ... records go to the new file, or to none without a directory ...
SwitchFile ==
  /\ main = "switching" /\ Flushed
  /\ current' \in {0, files}
  /\ IF current = 0 THEN main' = "idle" /\ UNCHANGED mark ELSE Flush("closing")
  /\ previous' = current
  /\ UNCHANGED <<records, done, terminalVars, fileVars, files>>

\* ... and after another flush the previous file is closed.
ClosePrevious ==
  /\ main = "closing" /\ Flushed
  /\ stream' = [stream EXCEPT ![previous] = "closed"]
  /\ main' = "idle" /\ previous' = 0
  /\ UNCHANGED <<records, done, terminalVars, contents, failed, current, files, mark>>

\* `relabel`, of a file that is made: its stream is closed ...
StartRelabel ==
  /\ main = "idle" /\ current # 0 /\ stream[current] = "open"
  /\ stream' = [stream EXCEPT ![current] = "renaming"]
  /\ main' = "renaming"
  /\ UNCHANGED <<records, done, terminalVars, contents, failed, current, files, mark, previous>>

\* ... and opened again, to append, whether or not the file could be renamed.
EndRelabel ==
  /\ main = "renaming"
  /\ stream' = [stream EXCEPT ![current] = "open"]
  /\ main' = "idle"
  /\ UNCHANGED <<records, done, terminalVars, contents, failed, current, files, mark, previous>>

Next ==
  \/ \E class \in Class : Emit(class)
  \/ WriteRecord \/ ConfigureLogging \/ DropKept
  \/ ConfigureLogFile \/ SwitchFile \/ ClosePrevious
  \/ StartRelabel \/ EndRelabel

Spec == Init /\ [][Next]_vars

------------------------------------------------------------------------------
(* Properties *)

\* Records, files and counters have their types, and only so many records are kept.
TypeOK ==
  /\ records \in Seq([class : Class, to : 0 .. MaxFiles])
  /\ done \in 0 .. Len(records) /\ forgotten \subseteq 0 .. done
  /\ kept \in Seq(1 .. done) /\ Len(kept) <= Capacity
  /\ terminal \in Seq(1 .. done)
  /\ contents \in [Log -> Seq(1 .. done)]
  /\ stream \in [Log -> {"none", "open", "renaming", "closed", "reopened"}]
  /\ failed \in [Log -> BOOLEAN] /\ current \in 0 .. MaxFiles /\ files \in 0 .. MaxFiles
  /\ main \in {"idle", "configuring", "switching", "closing", "renaming"}
  /\ mark \in 0 .. Len(records) /\ previous \in 0 .. MaxFiles

ClassOf(i) == records[i].class
KeptBetween(a, b) == {c \in a + 1 .. b - 1 : ClassOf(c) = "kept"}
Before(i, j) ==
  \E x, y \in 1 .. Len(terminal) : x < y /\ terminal[x] = i /\ terminal[y] = j

\* The records kept for an error are on the terminal before the first error after
\* them, unless more than Capacity came in between or logging was configured anew:
\* no more, no less.
ErrorsShowContext ==
  \A b \in 1 .. done : \A a \in 1 .. b - 1 :
    ClassOf(b) = "error" /\ ClassOf(a) = "kept"
      /\ (\A c \in a + 1 .. b - 1 : ClassOf(c) # "error")
      /\ (\A d \in forgotten : d < a \/ d >= b) =>
        (Before(a, b) <=> Cardinality(KeptBetween(a, b)) < Capacity)

\* What is shown on the terminal is shown once, and a record that is never kept back
\* comes in the order of logging.
TerminalInOrder ==
  /\ IsInjective(terminal)
  /\ \A i, j \in 1 .. done :
       {ClassOf(i), ClassOf(j)} \subseteq {"info", "error"} /\ i < j => Before(i, j)

\* The terminal tells an error with what led to it, and nothing out of order.
TerminalIsRight == ErrorsShowContext /\ TerminalInOrder

\* A log file has every record that was logged for it, once and in order, whether the
\* file is renamed or replaced meanwhile, if it could be made at all.
FileIsComplete ==
  \A f \in Log :
    /\ \A x, y \in 1 .. Len(contents[f]) : x < y => contents[f][x] < contents[f][y]
    /\ Range(contents[f]) =
         IF failed[f] THEN {} ELSE {i \in 1 .. done : records[i].to = f}

\* A file that was replaced is not opened again by a record that comes late.
ReplacedStaysClosed == \A f \in Log : stream[f] # "reopened"

\* Every log file ends with the records logged for it, complete and closed.
FilesAreRight == FileIsComplete /\ ReplacedStaysClosed

==============================================================================
