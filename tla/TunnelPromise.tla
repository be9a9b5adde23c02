---------------------------- MODULE TunnelPromise ----------------------------
(***************************************************************************)
(* What a tunnel session promises whoever starts it, without how: it has   *)
(* its alias from before it acquires anything else to after it let go of   *)
(* everything else, it serves only while it is watched, the first cause    *)
(* that stops it is final, and a tunnel that stopped or broke is over soon,*)
(* leaving nothing behind but what the user was told of.                   *)
(***************************************************************************)
CONSTANTS
  Alias,        \* the one that goes last: nobody else has the alias meanwhile
  Guards,       \* those that watch a tunnel that serves
  Entry,        \* what OpenSSH finds the tunnel by
  Links,        \* what may break, or end of itself, while the tunnel serves
  Vital,        \* the links a tunnel cannot serve without
  Deferred,     \* what may still come to be while the tunnel stops
  Causes        \* what stops a tunnel

VARIABLES
  state,    \* "starting", "serving", "stopping", "gone" or "killed"
  cause,    \* what stopped it; "none" for what happened before `_stop` was called
  left,     \* what exists because of the session
  excused   \* what it no longer answers for: the user was told of it

vars == <<state, cause, left, excused>>

Init ==
  /\ state = "starting"
  /\ cause = "none"
  /\ left = {}
  /\ excused = {}

\* The alias is let go of when nothing is left that the user was not told of, and
\* what was excused stays so for as long as it exists.
Orderly ==
  /\ Alias \in left \ left' => left' \subseteq excused'
  /\ \A r \in excused \ excused' : r \notin left'

\* While it starts, a tunnel acquires this and that, the alias before the rest.
Acquire ==
  /\ state = "starting" /\ UNCHANGED <<state, cause>>
  /\ left' # {} => Alias \in left'
  /\ Orderly

\* It serves once everything that guards it is there, and OpenSSH finds it or the
\* user was told that it cannot.
Serve ==
  /\ state = "starting" /\ state' = "serving"
  /\ cause' = cause
  /\ {Alias} \cup Guards \subseteq left'
  /\ Entry \in left' \cup excused'
  /\ Orderly

\* A link may break while it serves; nothing else goes away.
Break ==
  /\ state = "serving" /\ UNCHANGED <<state, cause>>
  /\ left' \subseteq left /\ excused \subseteq excused'
  /\ left \ left' \subseteq Links

Stop ==
  /\ state \in {"starting", "serving"} /\ state' = "stopping"
  /\ cause' \in Causes \cup {"none"}
  /\ left' \subseteq left
  /\ Orderly

\* The first cause is the one that is reported.
Unwind ==
  /\ state = "stopping" /\ state' = state
  /\ IF cause = "none" THEN cause' \in Causes \cup {"none"} ELSE cause' = cause
  /\ left' \subseteq left \cup Deferred
  /\ Orderly

End ==
  /\ state = "stopping" /\ state' = "gone"
  /\ left \subseteq excused
  /\ UNCHANGED <<cause, left, excused>>

\* What was given up on may still happen.
Linger ==
  /\ state = "gone" /\ UNCHANGED <<state, cause>>
  /\ left' \subseteq excused'
  /\ Orderly

\* The second Ctrl+C.
Kill ==
  /\ state \in {"starting", "serving", "stopping"} /\ state' = "killed"
  /\ left' \subseteq left /\ excused' \subseteq excused
  /\ cause' = cause

Next ==
  \/ Acquire \/ Serve \/ Break \/ Stop \/ Unwind \/ End \/ Linger \/ Kill

Over == state \in {"gone", "killed"}

\* A tunnel that stops is over soon, and so is one that lost a vital link.
EndsSoon ==
  /\ state = "stopping" ~> Over
  /\ state = "serving" /\ ~(Vital \subseteq left) ~> Over

Safe == Init /\ [][Next]_vars

Spec == Safe /\ EndsSoon
=============================================================================
