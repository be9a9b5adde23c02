------------------------------ MODULE HostBlocks ------------------------------
(***************************************************************************)
(* The Host blocks that tunnels publish for OpenSSH, and the alias locks   *)
(* that say whose they are: tunnel/ssh_config.py over tunnel/lock.py, as   *)
(* the sessions of several processes and `ezhpcy doctor` use them.         *)
(*                                                                         *)
(* A tunnel publishes and withdraws its block in threads.  A session that  *)
(* gives up on such a thread after its timeout goes on without it, and the *)
(* thread keeps running: SlowThreads allows that.                          *)
(***************************************************************************)
EXTENDS FiniteSets

CONSTANTS
  Alias,        \* Host aliases
  Tunnel,       \* processes that run `ezhpcy tunnel`, each for one alias
  Doctor,       \* processes that run `ezhpcy doctor`
  AliasOf,      \* the alias of a tunnel
  SlowThreads,  \* a thread may outlast the time its session gives it
  None

ASSUME ProcessAssumption ==
  /\ Tunnel \cap Doctor = {}
  /\ AliasOf \in [Tunnel -> Alias]
  /\ SlowThreads \in BOOLEAN
  /\ None \notin Tunnel \cup Doctor \cup Alias

Process == Tunnel \cup Doctor

VARIABLES
  pc,       \* the main task of a tunnel
  lock,     \* who has an alias's lock, and what for
  created,  \* aliases whose lock file exists; nothing removes one
  block,    \* the tunnel that wrote `active-<alias>.conf`, if the file exists
  prune,    \* `prune_stale_active_configs`, and what comes after it
  todo,     \* files of its glob, or aliases, still to look at
  at,       \* the alias it looks at
  withdraw, \* tunnels with a `withdraw_host` thread running
  warned    \* tunnels that warned that `ssh` will not reach them

vars == <<pc, lock, created, block, prune, todo, at, withdraw, warned>>

pruneVars == <<prune, todo, at>>

\* Main task: "probing" before its session starts, then "cleared" or "away" for good;
\* "locked" with the lock until the port is forwarded, then "publishing", "serving",
\* "withdrawing", "unlocking".
MainState == {"idle", "probing", "away", "cleared", "locked", "publishing", "serving",
              "withdrawing", "unlocking", "refused", "gone", "dead"}

Running(t) == pc[t] \in {"locked", "publishing", "serving", "withdrawing", "unlocking"}

PruneState == {"idle", "scan", "next", "probe", "probed", "unlink",
               "write", "check", "resolve", "lookup", "looking"}

Free == [by |-> None, tunnel |-> FALSE]

TypeOK ==
  /\ pc \in [Tunnel -> MainState]
  /\ lock \in [Alias -> [by : Process \cup {None}, tunnel : BOOLEAN]]
  /\ created \subseteq Alias
  /\ block \in [Alias -> Tunnel \cup {None}]
  /\ prune \in [Process -> PruneState]
  /\ todo \in [Process -> SUBSET Alias]
  /\ at \in [Process -> Alias \cup {None}]
  /\ withdraw \subseteq Tunnel
  /\ warned \subseteq Tunnel

Init ==
  /\ pc = [t \in Tunnel |-> "idle"]
  /\ lock = [a \in Alias |-> Free]
  /\ created = {}
  /\ block = [a \in Alias |-> None]
  /\ prune = [p \in Process |-> "idle"]
  /\ todo = [p \in Process |-> {}]
  /\ at = [p \in Process |-> None]
  /\ withdraw = {}
  /\ warned = {}

-----------------------------------------------------------------------------
(***************************************************************************)
(* `alias_lock`: the lock, at once or never.  Opening it creates its file. *)
(***************************************************************************)

\* Mutant of AcquireLock: a held lock is no obstacle.
AcquireHeldLock(t) ==
  /\ pc[t] = "cleared"
  /\ created' = created \cup {AliasOf[t]}
  /\ lock' = [lock EXCEPT ![AliasOf[t]] = [by |-> t, tunnel |-> TRUE]]
  /\ pc' = [pc EXCEPT ![t] = "locked"]
  /\ UNCHANGED <<block, pruneVars, withdraw, warned>>

AcquireLock(t) ==
  /\ pc[t] = "cleared"
  /\ created' = created \cup {AliasOf[t]}
  /\ IF lock[AliasOf[t]] = Free
       THEN /\ lock' = [lock EXCEPT ![AliasOf[t]] = [by |-> t, tunnel |-> TRUE]]
            /\ pc' = [pc EXCEPT ![t] = "locked"]
       ELSE /\ pc' = [pc EXCEPT ![t] = "refused"]
            /\ UNCHANGED lock
  /\ UNCHANGED <<block, pruneVars, withdraw, warned>>

\* The last cleanup step of the session.
ReleaseLock(t) ==
  /\ pc[t] = "unlocking"
  /\ pc' = [pc EXCEPT ![t] = "gone"]
  /\ lock' = [lock EXCEPT ![AliasOf[t]] = Free]
  /\ UNCHANGED <<created, block, pruneVars, withdraw, warned>>

-----------------------------------------------------------------------------
(***************************************************************************)
(* `prune_stale_active_configs`, by a tunnel that publishes its block (in  *)
(* a thread) or by a doctor.                                               *)
(***************************************************************************)

\* The glob, read once.
Scan(p) ==
  /\ prune[p] = "scan"
  /\ todo' = [todo EXCEPT ![p] = {a \in Alias : block[a] # None}]
  /\ prune' = [prune EXCEPT ![p] = "next"]
  /\ UNCHANGED <<pc, lock, created, block, at, withdraw, warned>>

\* The next file, or the end of the loop: a tunnel then writes its own block, a
\* doctor has OpenSSH resolve the alias of every profile.
NextFile(p) ==
  /\ prune[p] = "next"
  /\ \/ \E a \in todo[p] :
          /\ at' = [at EXCEPT ![p] = a]
          /\ todo' = [todo EXCEPT ![p] = @ \ {a}]
          /\ prune' = [prune EXCEPT ![p] = "probe"]
     \/ /\ todo[p] = {}
        /\ at' = at
        /\ IF p \in Tunnel
             THEN /\ prune' = [prune EXCEPT ![p] = "write"]
                  /\ todo' = todo
             ELSE /\ prune' = [prune EXCEPT ![p] = "resolve"]
                  /\ todo' = [todo EXCEPT ![p] = Alias]
  /\ UNCHANGED <<pc, lock, created, block, withdraw, warned>>

\* `alias_locked` takes the lock to find out whether it is free.  An alias
\* without a lock file never had a tunnel.
Probe(p) ==
  /\ prune[p] = "probe"
  /\ IF at[p] \notin created
       THEN prune' = [prune EXCEPT ![p] = "unlink"] /\ UNCHANGED lock
       ELSE IF lock[at[p]] = Free
         THEN /\ lock' = [lock EXCEPT ![at[p]] = [by |-> p, tunnel |-> FALSE]]
              /\ prune' = [prune EXCEPT ![p] = "probed"]
         ELSE prune' = [prune EXCEPT ![p] = "next"] /\ UNCHANGED lock
  /\ UNCHANGED <<pc, created, block, todo, at, withdraw, warned>>

ProbeReleases(p) ==
  /\ prune[p] = "probed"
  /\ lock' = [lock EXCEPT ![at[p]] = Free]
  /\ prune' = [prune EXCEPT ![p] = "unlink"]
  /\ UNCHANGED <<pc, created, block, todo, at, withdraw, warned>>

Unlink(p) ==
  /\ prune[p] = "unlink"
  /\ block' = [block EXCEPT ![at[p]] = None]
  /\ prune' = [prune EXCEPT ![p] = "next"]
  /\ UNCHANGED <<pc, lock, created, todo, at, withdraw, warned>>

\* Mutant of WriteBlock: a block that is there already is kept.
WriteMissingBlock(t) ==
  /\ prune[t] = "write"
  /\ block' = [block EXCEPT ![AliasOf[t]] = IF @ = None THEN t ELSE @]
  /\ prune' = [prune EXCEPT ![t] = "idle"]
  /\ UNCHANGED <<pc, lock, created, todo, at, withdraw, warned>>

\* `write_active_host_config`: an atomic replace.  It may fail, with a warning.
WriteBlock(t) ==
  /\ prune[t] = "write"
  /\ \/ /\ block' = [block EXCEPT ![AliasOf[t]] = t]
        /\ prune' = [prune EXCEPT ![t] = "check"]
        /\ UNCHANGED warned
     \/ /\ warned' = warned \cup {t}
        /\ prune' = [prune EXCEPT ![t] = "idle"]
        /\ UNCHANGED block
  /\ UNCHANGED <<pc, lock, created, todo, at, withdraw>>

\* `check_host_resolution`: a warning if OpenSSH does not get the tunnel's block.
\* (It may also find something else in the user's own configuration.)
CheckBlock(t) ==
  /\ prune[t] = "check"
  /\ \/ block[AliasOf[t]] = t /\ UNCHANGED warned
     \/ warned' = warned \cup {t}
  /\ prune' = [prune EXCEPT ![t] = "idle"]
  /\ UNCHANGED <<pc, lock, created, block, todo, at, withdraw>>

PruneStep(p) ==
  Scan(p) \/ NextFile(p) \/ Probe(p) \/ ProbeReleases(p) \/ Unlink(p)

DoctorStarts(d) ==
  /\ prune[d] = "idle"
  /\ prune' = [prune EXCEPT ![d] = "scan"]
  /\ UNCHANGED <<pc, lock, created, block, todo, at, withdraw, warned>>

\* `probe_alias`, before a tunnel's session starts: what a doctor does, for one alias
\* and without pruning.
ProbeAlias(t) ==
  /\ pc[t] = "idle"
  /\ pc' = [pc EXCEPT ![t] = "probing"]
  /\ todo' = [todo EXCEPT ![t] = {AliasOf[t]}]
  /\ prune' = [prune EXCEPT ![t] = "resolve"]
  /\ UNCHANGED <<lock, created, block, at, withdraw, warned>>

\* `resolution_problem`: `ssh -G` reads the block of a tunnel, or the probe's own
\* block after it, which is fine.  (What the user's own configuration may hide is
\* left out: such a tunnel does not start.)
Resolve(p) ==
  /\ prune[p] = "resolve"
  /\ \/ \E a \in todo[p] :
          /\ at' = [at EXCEPT ![p] = a]
          /\ todo' = [todo EXCEPT ![p] = @ \ {a}]
          /\ prune' = [prune EXCEPT ![p] = IF block[a] = None THEN "resolve" ELSE "lookup"]
          /\ UNCHANGED pc
     \/ /\ todo[p] = {}
        /\ prune' = [prune EXCEPT ![p] = "idle"]
        /\ pc' = IF p \in Tunnel THEN [pc EXCEPT ![p] = "cleared"] ELSE pc
        /\ UNCHANGED <<todo, at>>
  /\ UNCHANGED <<lock, created, block, withdraw, warned>>

\* The block is stale: a doctor reports it and goes on, a tunnel's start ends.
Stale(p) ==
  IF p \in Tunnel
    THEN prune' = [prune EXCEPT ![p] = "idle"] /\ pc' = [pc EXCEPT ![p] = "away"]
    ELSE prune' = [prune EXCEPT ![p] = "resolve"] /\ UNCHANGED pc

\* It got a tunnel's block: `alias_locked` says whether the tunnel still runs.
LookUp(p) ==
  /\ prune[p] = "lookup"
  /\ \/ /\ at[p] \notin created
        /\ Stale(p) /\ UNCHANGED lock
     \/ /\ at[p] \in created /\ lock[at[p]] = Free
        /\ lock' = [lock EXCEPT ![at[p]] = [by |-> p, tunnel |-> FALSE]]
        /\ prune' = [prune EXCEPT ![p] = "looking"] /\ UNCHANGED pc
     \/ /\ at[p] \in created /\ lock[at[p]] # Free
        /\ prune' = [prune EXCEPT ![p] = "resolve"] /\ UNCHANGED <<pc, lock>>
  /\ UNCHANGED <<created, block, todo, at, withdraw, warned>>

LookUpReleases(p) ==
  /\ prune[p] = "looking"
  /\ lock' = [lock EXCEPT ![at[p]] = Free]
  /\ Stale(p)
  /\ UNCHANGED <<created, block, todo, at, withdraw, warned>>

ResolveStep(p) == Resolve(p) \/ LookUp(p) \/ LookUpReleases(p)

-----------------------------------------------------------------------------
(***************************************************************************)
(* A tunnel's session, as far as its lock and its block go.                *)
(***************************************************************************)

StartPublish(t) ==
  /\ pc[t] = "locked"
  /\ pc' = [pc EXCEPT ![t] = "publishing"]
  /\ prune' = [prune EXCEPT ![t] = "scan"]
  /\ UNCHANGED <<lock, created, block, todo, at, withdraw, warned>>

Serve(t) ==
  /\ pc[t] = "publishing" /\ prune[t] = "idle"
  /\ pc' = [pc EXCEPT ![t] = "serving"]
  /\ UNCHANGED <<lock, created, block, pruneVars, withdraw, warned>>

\* The session stops.  `_finish` waits for the thread that publishes, unless
\* that takes too long.
StopTunnel(t) ==
  /\ \/ /\ pc[t] = "locked"
        /\ pc' = [pc EXCEPT ![t] = "unlocking"]
        /\ UNCHANGED withdraw
     \/ /\ pc[t] \in {"publishing", "serving"}
        /\ prune[t] = "idle" \/ SlowThreads
        /\ pc' = [pc EXCEPT ![t] = "withdrawing"]
        /\ withdraw' = withdraw \cup {t}
  /\ UNCHANGED <<lock, created, block, pruneVars, warned>>

\* `withdraw_host` unlinks whatever is there, or fails with a warning.
WithdrawHost(t) ==
  /\ t \in withdraw
  /\ \/ block' = [block EXCEPT ![AliasOf[t]] = None]
     \/ block' = block
  /\ withdraw' = withdraw \ {t}
  /\ UNCHANGED <<pc, lock, created, pruneVars, warned>>

\* Mutant of Withdrawn: the session does not wait for the thread.
WithdrawnAtOnce(t) ==
  /\ pc[t] = "withdrawing"
  /\ pc' = [pc EXCEPT ![t] = "unlocking"]
  /\ UNCHANGED <<lock, created, block, pruneVars, withdraw, warned>>

\* The cleanup step ends with its thread, or times out.
Withdrawn(t) ==
  /\ pc[t] = "withdrawing"
  /\ t \notin withdraw \/ SlowThreads
  /\ pc' = [pc EXCEPT ![t] = "unlocking"]
  /\ UNCHANGED <<lock, created, block, pruneVars, withdraw, warned>>

\* The process dies (a kill, a second Ctrl+C): the OS frees every lock it has.
Crash(p) ==
  /\ IF p \in Tunnel
       THEN (Running(p) \/ pc[p] = "probing") /\ pc' = [pc EXCEPT ![p] = "dead"]
       ELSE prune[p] # "idle" /\ UNCHANGED pc
  /\ lock' = [a \in Alias |-> IF lock[a].by = p THEN Free ELSE lock[a]]
  /\ prune' = [prune EXCEPT ![p] = "idle"]
  /\ todo' = [todo EXCEPT ![p] = {}]
  /\ withdraw' = withdraw \ {p}
  /\ UNCHANGED <<created, block, at, warned>>

Next ==
  \/ \E t \in Tunnel : \/ ProbeAlias(t) \/ AcquireLock(t) \/ StartPublish(t)
                       \/ WriteBlock(t) \/ CheckBlock(t) \/ Serve(t) \/ StopTunnel(t)
                       \/ WithdrawHost(t) \/ Withdrawn(t) \/ ReleaseLock(t)
  \/ \E d \in Doctor : DoctorStarts(d)
  \/ \E p \in Process : PruneStep(p) \/ ResolveStep(p) \/ Crash(p)

Spec == Init /\ [][Next]_vars

-----------------------------------------------------------------------------
(***************************************************************************)
(* What the locks and the blocks promise.                                  *)
(***************************************************************************)

\* "One running tunnel per SSH host alias": from taking the lock to releasing it
\* last of all, and whatever doctors probe meanwhile.
OneTunnelPerAlias ==
  \A t, u \in Tunnel :
    AliasOf[t] = AliasOf[u] /\ Running(t) /\ Running(u) => t = u

\* "A free lock means no tunnel serves the alias, and a Host block left for it is
\* stale": a lock that no tunnel has is that of an alias without a running tunnel.
FreeLockMeansStale ==
  \A t \in Tunnel : Running(t) => lock[AliasOf[t]] = [by |-> t, tunnel |-> TRUE]

\* OpenSSH is never sent to another tunnel's port: the block of an alias with a
\* serving tunnel is that tunnel's, or gone, whatever earlier tunnels left.
NoForeignBlock ==
  \A t \in Tunnel :
    pc[t] = "serving" /\ t \notin warned => block[AliasOf[t]] \in {t, None}

\* "The alias lock makes it ours": a tunnel that withdraws its block never removes
\* that of another running tunnel.
WithdrawRemovesOwn ==
  [][\A t, u \in Tunnel :
       t \in withdraw \ withdraw' /\ t # u /\ Running(u) =>
         (block[AliasOf[t]] = u => block'[AliasOf[t]] = u)]_vars

-----------------------------------------------------------------------------
(***************************************************************************)
(* ExclusiveAlias, in terms of the lock files and the blocks.              *)
(***************************************************************************)

Exclusive == INSTANCE ExclusiveAlias WITH
  owner   <- [a \in Alias |-> IF lock[a].tunnel THEN lock[a].by ELSE None],
  target  <- block,
  serving <- {t \in Tunnel : pc[t] = "serving"}

\* The lock files and the blocks, with every probe, prune and crash, are an
\* exclusive alias: no step of theirs is anything else.
ImplementsExclusiveAlias == Exclusive!Spec

-----------------------------------------------------------------------------
(***************************************************************************)
(* What the comments claim and the code does not keep.                     *)
(***************************************************************************)

\* "Remove the Host blocks of tunnels that no longer run": and of no other.
PruneSparesServing ==
  \A t \in Tunnel :
    pc[t] = "serving" /\ t \notin warned => block[AliasOf[t]] = t

\* "A tunnel killed before it could remove its block leaves it behind, with its alias
\* lock free, so the next tunnel start, or `ezhpcy doctor`, removes it": a start for
\* the same alias that finds it does not end with the block still there.
NextStartRemovesStale ==
  [][\A t \in Tunnel :
       pc'[t] = "away" /\ pc[t] # "away" =>
         block'[AliasOf[t]] = None \/ lock[AliasOf[t]].tunnel]_vars

\* "Raises `TunnelError` at once if another tunnel holds it."
RefusedByTunnelOnly ==
  [][\A t \in Tunnel :
       pc[t] = "cleared" /\ pc'[t] = "refused" => lock[AliasOf[t]].tunnel]_vars
=============================================================================
