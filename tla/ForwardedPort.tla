---------------------------- MODULE ForwardedPort ----------------------------
(***************************************************************************)
(* The loopback port that a tunnel serves on: ForwardedPort and _Forwarder *)
(* of ssh.py.  Every connection to it gets a channel of its own over the   *)
(* login connection, opened by a task while the client may already hang    *)
(* up.  The port counts the connections for the status panel.              *)
(***************************************************************************)
EXTENDS Integers, FiniteSets

CONSTANT Conn     \* connections that clients make to the port

ASSUME ConnAssumption == IsFiniteSet(Conn)

VARIABLES
  listening,  \* the asyncio server accepts connections
  login,      \* the login connection is up
  local,      \* the client's side of a connection: its _Forwarder
  task,       \* its `_open_channel`
  chan,       \* its channel, and the SSHForwarder at the channel's end
  reading,    \* connections whose client is being read
  count       \* self._connections, as `on_connections` reports it

portVars == <<listening, login, local, task, chan, reading, count>>

TypeOKPort ==
  /\ listening \in BOOLEAN
  /\ login \in BOOLEAN
  /\ local \in [Conn -> {"none", "open", "closed"}]
  /\ task \in [Conn -> {"idle", "opening", "confirmed", "done"}]
  /\ chan \in [Conn -> {"none", "open", "closed"}]
  /\ reading \subseteq Conn
  /\ count \in Nat

InitPort ==
  /\ listening = TRUE
  /\ login = TRUE
  /\ local = [c \in Conn |-> "none"]
  /\ task = [c \in Conn |-> "idle"]
  /\ chan = [c \in Conn |-> "none"]
  /\ reading = {}
  /\ count = 0

-----------------------------------------------------------------------------
\* Mutant of CloseLocal: every close counts the connection out.
CloseLocalAgain(c) ==
  /\ local' = [local EXCEPT ![c] = "closed"]
  /\ count' = count - 1
  /\ reading' = reading \ {c}

\* `_Forwarder.close` counts a connection out the first time only.
CloseLocal(c) ==
  /\ local' = [local EXCEPT ![c] = "closed"]
  /\ count' = IF local[c] = "closed" THEN count ELSE count - 1
  /\ reading' = reading \ {c}

\* `connection_made`: the connection counts, its reading is paused, and a task
\* opens its channel.
Accept(c) ==
  /\ listening /\ local[c] = "none"
  /\ local' = [local EXCEPT ![c] = "open"]
  /\ task' = [task EXCEPT ![c] = "opening"]
  /\ count' = count + 1
  /\ UNCHANGED <<listening, login, chan, reading>>

\* The login node confirms the channel: `session_factory` makes its end, and the
\* two ends know each other.
ChannelConfirmed(c) ==
  /\ login /\ task[c] = "opening"
  /\ task' = [task EXCEPT ![c] = "confirmed"]
  /\ chan' = [chan EXCEPT ![c] = "open"]
  /\ UNCHANGED <<listening, login, local, reading, count>>

\* `_open_channel` goes on after its await: it starts to read, or closes the
\* channel of a client that hung up meanwhile.
ChannelOpened(c) ==
  /\ task[c] = "confirmed"
  /\ task' = [task EXCEPT ![c] = "done"]
  /\ IF local[c] = "open"
       THEN reading' = reading \cup {c} /\ UNCHANGED chan
       ELSE chan' = [chan EXCEPT ![c] = "closed"] /\ UNCHANGED reading
  /\ UNCHANGED <<listening, login, local, count>>

\* Mutant of ChannelFails: the client is left waiting.
ChannelFailsQuietly(c) ==
  /\ task[c] = "opening"
  /\ task' = [task EXCEPT ![c] = "done"]
  /\ UNCHANGED <<listening, login, local, chan, reading, count>>

\* The channel could not be opened.
ChannelFails(c) ==
  /\ task[c] = "opening"
  /\ task' = [task EXCEPT ![c] = "done"]
  /\ CloseLocal(c)
  /\ UNCHANGED <<listening, login, chan>>

\* The client hangs up: its end closes, and the channel's end, if the two are
\* already joined, with it.
ClientHangsUp(c) ==
  /\ local[c] = "open"
  /\ CloseLocal(c)
  /\ chan' = [chan EXCEPT ![c] = IF @ = "open" THEN "closed" ELSE @]
  /\ UNCHANGED <<listening, login, task>>

\* The worker closes the channel: its end closes, and the client's with it.
ChannelCloses(c) ==
  /\ chan[c] = "open"
  /\ chan' = [chan EXCEPT ![c] = "closed"]
  /\ CloseLocal(c)
  /\ UNCHANGED <<listening, login, task>>

\* `close`: new connections are refused, open ones stay.
ClosePort ==
  /\ listening
  /\ listening' = FALSE
  /\ UNCHANGED <<login, local, task, chan, reading, count>>

\* The login connection ends; its callback closes the port.
LoginCloses ==
  /\ login
  /\ login' = FALSE
  /\ listening' = FALSE
  /\ UNCHANGED <<local, task, chan, reading, count>>

NextPort ==
  \/ \E c \in Conn : \/ Accept(c) \/ ChannelConfirmed(c) \/ ChannelOpened(c)
                     \/ ChannelFails(c) \/ ClientHangsUp(c) \/ ChannelCloses(c)
  \/ ClosePort
  \/ LoginCloses

\* The event loop resumes a task whose await is over, and asyncssh ends every
\* channel, open or opening, of a login connection that ended.
FairnessPort ==
  \A c \in Conn : /\ WF_portVars(ChannelOpened(c))
                  /\ WF_portVars(~login /\ ChannelFails(c))
                  /\ WF_portVars(~login /\ ChannelCloses(c))

SpecPort == InitPort /\ [][NextPort]_portVars /\ FairnessPort

-----------------------------------------------------------------------------
OpenConnections == {c \in Conn : local[c] = "open"}

\* The count the panel shows is the number of clients connected, in whichever
\* order a client, its channel and the task that joins them come to an end.
CountIsExact == count = Cardinality(OpenConnections)

\* Once the task is over, client and channel are both there or both gone: no
\* channel is left open for a client that hung up while it was being opened,
\* and no client waits at a channel that is gone.
EndsTogether ==
  \A c \in Conn : task[c] = "done" => (local[c] = "open" <=> chan[c] = "open")

\* Nothing a client sends is read before there is a channel to send it to, and
\* every client with a channel is read.
ReadsIntoChannel ==
  \A c \in Conn : c \in reading <=> task[c] = "done" /\ chan[c] = "open"

\* In whichever order the client, the channel and the task that joins them end, and
\* however often `close` is called: the panel's count stays exact, neither end is
\* left without the other, and nothing is read that has nowhere to go.
PortIsSound == CountIsExact /\ EndsTogether /\ ReadsIntoChannel

\* A login connection that ended leaves no client waiting.
LoginEndsConnections == ~login ~> OpenConnections = {}
=============================================================================
