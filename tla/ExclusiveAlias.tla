---------------------------- MODULE ExclusiveAlias ----------------------------
(***************************************************************************)
(* What Host aliases are to the tunnels that serve them, without lock      *)
(* files, probes and threads: at most one tunnel owns an alias, only its   *)
(* owner sends `ssh <alias>` anywhere, and nobody else's tunnel is reached *)
(* while a tunnel serves the alias, unless it warned.                      *)
(***************************************************************************)
CONSTANTS Alias, Tunnel, AliasOf, None

VARIABLES
  owner,    \* the tunnel that owns an alias
  target,   \* the tunnel that `ssh <alias>` reaches
  serving,  \* the tunnels that serve
  warned    \* those that warned that `ssh` will not reach them

vars == <<owner, target, serving, warned>>

Init ==
  /\ owner = [a \in Alias |-> None]
  /\ target = [a \in Alias |-> None]
  /\ serving = {}
  /\ warned = {}

Take(t) ==
  /\ owner[AliasOf[t]] = None
  /\ owner' = [owner EXCEPT ![AliasOf[t]] = t]
  /\ UNCHANGED <<target, serving, warned>>

Owns(t) == owner[AliasOf[t]] = t

\* The alias leads to its owner.
Publish(t) ==
  /\ Owns(t)
  /\ target' = [target EXCEPT ![AliasOf[t]] = t]
  /\ UNCHANGED <<owner, serving, warned>>

Warn(t) ==
  /\ Owns(t)
  /\ warned' = warned \cup {t}
  /\ UNCHANGED <<owner, target, serving>>

Serve(t) ==
  /\ Owns(t)
  /\ target[AliasOf[t]] \in {t, None} \/ t \in warned
  /\ serving' = serving \cup {t}
  /\ UNCHANGED <<owner, target, warned>>

\* An alias may come to lead nowhere: its tunnel withdraws, or a prune removes it.
Vanish(a) ==
  /\ target' = [target EXCEPT ![a] = None]
  /\ UNCHANGED <<owner, serving, warned>>

\* A tunnel stops serving before it lets go of its alias; one that dies does both.
Cease(t) ==
  /\ Owns(t)
  /\ serving' = serving \ {t}
  /\ UNCHANGED <<owner, target, warned>>

Release(t) ==
  /\ Owns(t)
  /\ owner' = [owner EXCEPT ![AliasOf[t]] = None]
  /\ serving' = serving \ {t}
  /\ UNCHANGED <<target, warned>>

Next ==
  \/ \E t \in Tunnel : Take(t) \/ Publish(t) \/ Warn(t) \/ Serve(t) \/ Cease(t) \/ Release(t)
  \/ \E a \in Alias : Vanish(a)

Spec == Init /\ [][Next]_vars
=============================================================================
