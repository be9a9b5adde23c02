---------------------------- MODULE ConsoleOutput ----------------------------
(***************************************************************************)
(* The CLI's output (console.py): the output thread and its queue, the     *)
(* threads that hand it records and wait for it to flush, the live display *)
(* it draws, the prompts that hide the display (cli/utils/prompt.py), and  *)
(* the second Ctrl+C (cli/tunnel.py), whose signal handler runs between    *)
(* any two steps of the main thread.                                       *)
(*                                                                         *)
(* What a thread is in the middle of is a sequence of operations, the next *)
(* one first.  A signal handler puts its own in front of them.             *)
(***************************************************************************)
EXTENDS Naturals, Sequences, FiniteSets

CONSTANTS
  Workers,       \* threads other than the main thread that log and print
  MaxRecords,    \* bound: records logged, other than the handler's
  MaxDisplays,   \* bound: live_display blocks
  SignalsInLock  \* a signal may arrive while the main thread holds _output_started

ASSUME ConsoleAssumption ==
  /\ Workers \cap {"main", "output", "none"} = {}
  /\ MaxRecords \in Nat /\ MaxDisplays \in Nat
  /\ SignalsInLock \in BOOLEAN

User == Workers \cup {"main"}
Thread == User \cup {"output"}

VARIABLES
  queue,    \* `writes`: what was handed over and is not called yet
  todo,     \* what is left of the operations each thread is in the middle of
  lock,     \* who holds `_output_started`, and for which operation
  set,      \* the events of flushes that have been set
  started,  \* the output thread exists
  handed,   \* records handed over
  written,  \* ... and dealt with by the output thread
  taking,   \* the terminal takes output
  live,     \* the display of the live_display block, or 0
  blocks,   \* live_display blocks entered so far
  shown,    \* `_OutputThread._live`, or 0
  failed,   \* `_OutputThread._failed`, or 0
  broken,   \* displays that ever failed to draw
  armed,    \* the tunnel's handler of Ctrl+C is installed
  presses,  \* Ctrl+C, within the block
  flushed,  \* the handler's flush returned because all was written
  exited    \* the process is over

displayVars == <<live, blocks, shown, failed, broken, armed>>

vars == <<queue, todo, lock, set, started, handed, written, taking, displayVars,
          presses, flushed, exited>>

Free == <<"none", 0>>

Init ==
  /\ queue = <<>>
  /\ todo = [t \in Thread |-> <<>>]
  /\ lock = Free
  /\ set = {}
  /\ started = FALSE
  /\ handed = 0 /\ written = 0
  /\ taking = TRUE
  /\ live = 0 /\ blocks = 0 /\ shown = 0 /\ failed = 0 /\ broken = {} /\ armed = FALSE
  /\ presses = 0 /\ flushed = FALSE /\ exited = FALSE

------------------------------------------------------------------------------
(* Operations a thread is made of *)

Hand(what, arg)  == [op |-> "hand", what |-> what, arg |-> arg]
Flush            == [op |-> "flush", timed |-> FALSE]
TimedFlush       == [op |-> "flush", timed |-> TRUE]
Wait(event, timed) == [op |-> "wait", event |-> event, timed |-> timed]
Write(after)     == [op |-> "write", after |-> after]
Ask              == [op |-> "ask"]
Arm              == [op |-> "arm"]
Exit             == [op |-> "exit"]

\* Mutant of PrintText: it does not flush.
PrintUnflushed(after) == <<Write(after)>>

\* `_Console.print`: flush, then write to the terminal, after the `after` records
\* that were handed over before.
PrintText(after) == <<Flush, Write(after)>>

\* `ask`, within `live_display_paused`.
Prompt ==
  IF live = 0 THEN <<Flush, Ask>>
  ELSE <<Flush, Hand("hide", live), Flush, Ask, Hand("show", live)>>

\* Mutant of Quit: the flush has all the time it takes.
QuitFlushes ==
  <<Hand("record", 0), Hand("hide", live), Flush, Exit>>

\* The handler of the second Ctrl+C: the warning, hide_live_display, a flush that
\* gives up soon, os._exit.
Quit ==
  <<Hand("record", 0), Hand("hide", live), TimedFlush, Exit>>

AtOp(t, op) == todo[t] # <<>> /\ Head(todo[t]).op = op
Doing(t) == Head(todo[t])
Then(t, ops) == todo' = [todo EXCEPT ![t] = ops \o Tail(@)]
Begin(t, ops) ==
  /\ ~ exited /\ todo[t] = <<>>
  /\ todo' = [todo EXCEPT ![t] = ops]

\* Which operation of the thread holds the lock: a handler's come on top.
Holder(t) == <<t, Len(todo[t])>>

\* Mutant of ReturnsAtOnce: a flush in the output thread waits for itself.
ReturnsBeforeStart(t) == ~ started

\* `flush_output` has nothing to wait for.
ReturnsAtOnce(t) == ~ started \/ t = "output"

\* `flush_output`, without waiting.
FlushNothing(t) ==
  /\ ~ exited /\ AtOp(t, "flush") /\ ReturnsAtOnce(t)
  /\ Then(t, <<>>)
  /\ flushed' = (flushed \/ Doing(t).timed)
  /\ UNCHANGED <<queue, lock, set, started, handed, written, taking, displayVars,
                 presses, exited>>

\* Mutant of TakeLock: the thread is not remembered.
TakeLockForgets(t) ==
  /\ ~ exited /\ lock = Free
  /\ AtOp(t, "hand") \/ (AtOp(t, "flush") /\ ~ ReturnsAtOnce(t))
  /\ lock' = Holder(t)
  /\ UNCHANGED <<queue, todo, set, started, handed, written, taking, displayVars,
                 presses, flushed, exited>>

\* `write_later` takes the lock in `_output_thread` ...
TakeLock(t) ==
  /\ ~ exited /\ lock = Free
  /\ AtOp(t, "hand") \/ (AtOp(t, "flush") /\ ~ ReturnsAtOnce(t))
  /\ lock' = Holder(t)
  /\ started' = TRUE
  /\ UNCHANGED <<queue, todo, set, handed, written, taking, displayVars, presses,
                 flushed, exited>>

\* ... gives it back, and puts the item at the end of the queue.  A flush then
\* waits for its own item.
PutItem(t) ==
  /\ ~ exited /\ lock = Holder(t)
  /\ lock' = Free
  /\ \/ /\ AtOp(t, "hand")
        /\ LET record == Doing(t).what = "record"
           IN  /\ queue' = Append(queue, [what |-> Doing(t).what,
                                          arg |-> IF record THEN handed + 1 ELSE Doing(t).arg])
               /\ handed' = handed + IF record THEN 1 ELSE 0
        /\ Then(t, <<>>)
     \/ /\ AtOp(t, "flush")
        /\ queue' = Append(queue, [what |-> "set", arg |-> Holder(t)])
        /\ Then(t, <<Wait(Holder(t), Doing(t).timed)>>)
        /\ UNCHANGED handed
  /\ UNCHANGED <<set, started, written, taking, displayVars, presses, flushed, exited>>

\* The event a flush waits for is set, or its time is over.
Waited(t) ==
  /\ ~ exited /\ AtOp(t, "wait")
  /\ \/ /\ Doing(t).event \in set
        /\ set' = set \ {Doing(t).event}
        /\ flushed' = (flushed \/ Doing(t).timed)
     \/ Doing(t).timed /\ UNCHANGED <<set, flushed>>
  /\ Then(t, <<>>)
  /\ UNCHANGED <<queue, lock, started, handed, written, taking, displayVars, presses, exited>>

\* A thread writes to the terminal itself; the output thread, a record.
WriteDirectly(t) ==
  /\ ~ exited /\ AtOp(t, "write") /\ taking
  /\ Then(t, <<>>)
  /\ written' = written + IF t = "output" THEN 1 ELSE 0
  /\ UNCHANGED <<queue, lock, set, started, handed, taking, displayVars, presses,
                 flushed, exited>>

\* The user answers the prompt, or interrupts it.
Answer ==
  /\ ~ exited /\ AtOp("main", "ask")
  /\ Then("main", <<>>)
  /\ UNCHANGED <<queue, lock, set, started, handed, written, taking, displayVars,
                 presses, flushed, exited>>

EndProcess ==
  /\ ~ exited /\ AtOp("main", "exit")
  /\ exited' = TRUE
  /\ UNCHANGED <<queue, todo, lock, set, started, handed, written, taking, displayVars,
                 presses, flushed>>

ThreadStep(t) ==
  FlushNothing(t) \/ TakeLock(t) \/ PutItem(t) \/ Waited(t) \/ WriteDirectly(t)

------------------------------------------------------------------------------
(* What the main thread and another one do *)

idle == <<queue, lock, set, started, handed, written, taking, presses, flushed, exited>>

\* `_OutputHandler.emit`: a record is logged from either thread.
Log(t) ==
  /\ handed < MaxRecords
  /\ Begin(t, <<Hand("record", 0)>>)
  /\ UNCHANGED <<idle, displayVars>>

PrintFrom(t) ==
  /\ Begin(t, PrintText(handed))
  /\ UNCHANGED <<idle, displayVars>>

AskUser ==
  /\ Begin("main", Prompt)
  /\ UNCHANGED <<idle, displayVars>>

\* `live_display`: the block is entered ...
EnterDisplay ==
  /\ live = 0 /\ blocks < MaxDisplays
  /\ blocks' = blocks + 1 /\ live' = blocks + 1
  /\ Begin("main", <<Hand("show", blocks + 1), Arm>>)
  /\ UNCHANGED <<idle, shown, failed, broken, armed>>

\* ... the handler of Ctrl+C is installed within it ...
InstallHandler ==
  /\ ~ exited /\ AtOp("main", "arm")
  /\ Then("main", <<>>)
  /\ armed' = TRUE
  /\ UNCHANGED <<idle, live, blocks, shown, failed, broken>>

\* ... and left.
LeaveDisplay ==
  /\ live # 0
  /\ live' = 0 /\ armed' = FALSE
  /\ Begin("main", <<Hand("hide", live)>>)
  /\ UNCHANGED <<idle, blocks, shown, failed, broken>>

\* Mutant of Finish: the process exits with its output thread behind.
FinishUnflushed ==
  /\ live = 0 /\ \A t \in Workers : todo[t] = <<>>
  /\ Begin("main", <<Exit>>)
  /\ UNCHANGED <<idle, displayVars>>

\* The command is over, and so are its threads: `main` flushes before it exits.
Finish ==
  /\ live = 0 /\ \A t \in Workers : todo[t] = <<>>
  /\ Begin("main", <<Flush, Exit>>)
  /\ UNCHANGED <<idle, displayVars>>

\* Ctrl+C within the block, which is where the tunnel's handler is installed.  A
\* prompt has a handler of its own.  The first press only stops the session.
Interrupt ==
  /\ ~ exited /\ armed /\ presses < 2 /\ ~ AtOp("main", "ask")
  /\ SignalsInLock \/ lock[1] # "main"
  /\ presses' = presses + 1
  /\ todo' = IF presses = 0 THEN todo ELSE [todo EXCEPT !["main"] = Quit \o @]
  /\ UNCHANGED <<queue, lock, set, started, handed, written, taking, displayVars,
                 flushed, exited>>

\* The worker threads are over before the main thread's last flush.
Finishing ==
  /\ todo["main"] # <<>> /\ presses < 2
  /\ todo["main"][Len(todo["main"])] = Exit

------------------------------------------------------------------------------
(* The output thread *)

\* The output thread takes the next item when it is done with the last one.
Take(what) ==
  /\ ~ exited /\ todo["output"] = <<>> /\ queue # <<>>
  /\ Head(queue).what = what
  /\ queue' = Tail(queue)

\* A record is written by a handler that prints to the console.
TakeRecord ==
  /\ Take("record")
  /\ todo' = [todo EXCEPT !["output"] = PrintText(Head(queue).arg - 1)]
  /\ UNCHANGED <<lock, set, started, handed, written, taking, displayVars, presses,
                 flushed, exited>>

\* A record that cannot be written: the error is printed (`_call`), and that's it.
RecordFails ==
  /\ Take("record") /\ taking
  /\ written' = written + 1
  /\ UNCHANGED <<todo, lock, set, started, handed, taking, displayVars, presses,
                 flushed, exited>>

SetEvent ==
  /\ Take("set")
  /\ set' = set \cup {Head(queue).arg}
  /\ UNCHANGED <<todo, lock, started, handed, written, taking, displayVars, presses,
                 flushed, exited>>

output == <<todo, lock, set, started, handed, written, taking, live, blocks, armed,
            presses, flushed, exited>>

\* `show`: not if one is shown, nor one that failed before; and only if it can
\* be drawn.
Show ==
  /\ Take("show")
  /\ LET d == Head(queue).arg
     IN  \/ (shown # 0 \/ d = failed) /\ UNCHANGED <<shown, failed, broken>>
         \/ /\ shown = 0 /\ d # failed /\ taking
            /\ \/ shown' = d /\ UNCHANGED <<failed, broken>>
               \/ failed' = d /\ broken' = broken \cup {d} /\ UNCHANGED shown
  /\ UNCHANGED output

\* `hide`: the display is erased, if it is the one shown.
Hide ==
  /\ Take("hide")
  /\ \/ shown # Head(queue).arg /\ UNCHANGED shown
     \/ shown = Head(queue).arg /\ taking /\ shown' = 0
  /\ UNCHANGED <<output, failed, broken>>

\* Mutant of RedrawFails: the failed display is not remembered.
RedrawFailsQuietly ==
  /\ ~ exited /\ todo["output"] = <<>> /\ shown # 0 /\ taking
  /\ broken' = broken \cup {shown} /\ shown' = 0
  /\ UNCHANGED <<output, queue, failed>>

\* `_redraw`, between two items: what is drawn may fail.
RedrawFails ==
  /\ ~ exited /\ todo["output"] = <<>> /\ shown # 0 /\ taking
  /\ failed' = shown /\ broken' = broken \cup {shown} /\ shown' = 0
  /\ UNCHANGED <<output, queue>>

OutputStep == TakeRecord \/ RecordFails \/ SetEvent \/ Show \/ Hide

\* The terminal stops taking output, or takes it again.
Terminal ==
  /\ ~ exited
  /\ taking' = ~ taking
  /\ UNCHANGED <<queue, todo, lock, set, started, handed, written, displayVars, presses,
                 flushed, exited>>

Next ==
  \/ \E t \in Thread : ThreadStep(t)
  \/ \E t \in User : ~ Finishing /\ (Log(t) \/ PrintFrom(t))
  \/ AskUser \/ Answer \/ EnterDisplay \/ InstallHandler \/ LeaveDisplay \/ Finish \/ EndProcess
  \/ Interrupt \/ OutputStep \/ RedrawFails \/ Terminal

\* Threads run; one that is blocked on the terminal goes on once it takes output,
\* and a flush gives up when its time is over.
Fairness ==
  /\ \A t \in Workers : SF_vars(ThreadStep(t))
  /\ SF_vars(ThreadStep("main") \/ EndProcess \/ InstallHandler)
  /\ SF_vars(ThreadStep("output") \/ OutputStep)

Spec == Init /\ [][Next]_vars /\ Fairness

------------------------------------------------------------------------------
(* Properties *)

\* The event of a flush is named by the thread that waits for it and the operation.
Event == Thread \X Nat
Display == 1 .. MaxDisplays

\* What is handed over, and what threads do.
Item ==
  [what : {"record"}, arg : Nat] \cup [what : {"set"}, arg : Event]
    \cup [what : {"show", "hide"}, arg : Display]

Op ==
  [op : {"hand"}, what : {"record"}, arg : {0}]
    \cup [op : {"hand"}, what : {"show", "hide"}, arg : Display]
    \cup [op : {"flush"}, timed : BOOLEAN]
    \cup [op : {"wait"}, event : Event, timed : BOOLEAN]
    \cup [op : {"write"}, after : Nat]
    \cup [op : {"ask", "arm", "exit"}]

\* Queues, operations, counters and displays have their types, the output thread
\* exists before anything waits for it, and no more is written than was handed over.
TypeOK ==
  /\ queue \in Seq(Item) /\ todo \in [Thread -> Seq(Op)]
  /\ lock \in {Free} \cup (User \X Nat) /\ set \in SUBSET Event
  /\ started \in BOOLEAN /\ (queue # <<>> => started)
  /\ handed \in Nat /\ written \in 0 .. handed
  /\ live \in 0 .. MaxDisplays /\ blocks \in 0 .. MaxDisplays
  /\ shown \in 0 .. MaxDisplays /\ failed \in 0 .. MaxDisplays /\ broken \subseteq Display
  /\ taking \in BOOLEAN /\ armed \in BOOLEAN /\ presses \in 0 .. 2
  /\ flushed \in BOOLEAN /\ exited \in BOOLEAN

\* What a thread prints, and what the output thread writes, comes after every record
\* that was handed over before the print (console.py: "flushes first").
PrintComesAfter ==
  \A t \in Thread : AtOp(t, "write") => written >= Doing(t).after

\* No live display is on the terminal while a prompt waits for the user, and none
\* can appear: it would write over what they type.
HiddenAtPrompt ==
  AtOp("main", "ask") =>
    shown = 0 /\ \A i \in 1 .. Len(queue) : queue[i].what # "show"

\* A display that failed to draw is never shown again, although each prompt asks
\* for it to be shown once more.
FailedStaysHidden == shown \notin broken

\* A display outlives its block only until the output thread gets to hide it: once
\* nothing is left to do, the display shown, if any, is the one of the block.
HiddenAfterBlock ==
  todo["main"] = <<>> /\ queue = <<>> => shown \in {0, live}

\* The display is hidden whenever it must be: while the user is asked, for good once it
\* failed to draw, and after its block.
HiddenWhenDue == HiddenAtPrompt /\ FailedStaysHidden /\ HiddenAfterBlock

\* A process that finishes has written every record and hidden its display; one that
\* quits at the second Ctrl+C has, unless the terminal took nothing for too long.
ExitsClean ==
  exited /\ (presses < 2 \/ flushed) =>
    shown = 0 /\ (presses < 2 => written = handed)

\* A flush returns if the terminal takes output again and again: the output thread
\* never waits for the thread that waits for it.
FlushReturns ==
  []<>taking =>
    \A t \in User : AtOp(t, "wait") ~> (exited \/ ~ AtOp(t, "wait"))

\* The second Ctrl+C quits at once, whether or not the terminal takes output.
SecondInterruptQuits == (presses = 2) ~> exited

==============================================================================
