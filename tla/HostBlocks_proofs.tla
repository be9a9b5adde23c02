-------------------------- MODULE HostBlocks_proofs --------------------------
(***************************************************************************)
(* The alias lock keeps tunnels apart: for any number of aliases, tunnels  *)
(* and doctors, and whether or not threads outlast their sessions.         *)
(***************************************************************************)
EXTENDS HostBlocks, TLAPS

LooksAt == {"probe", "probed", "unlink", "lookup", "looking"}

HasProbeLock == {"probed", "looking"}

\* Who looks at a file looks at an alias, and who has found its lock free has
\* that lock, until it lets go of it.
ProbeHasLock ==
  \A p \in Process :
    /\ prune[p] \in LooksAt => at[p] \in Alias
    /\ prune[p] \in HasProbeLock => lock[at[p]] = [by |-> p, tunnel |-> FALSE]

\* The inductive invariant of the locks.  ProbeHasLock is what keeps a probe
\* that lets go of a lock from freeing a lock that a tunnel has taken since.
LockInv == TypeOK /\ FreeLockMeansStale /\ ProbeHasLock

-----------------------------------------------------------------------------
\* A lock that somebody has is not free.
LEMMA HeldIsNotFree ==
  ASSUME NEW p \in Process, NEW b \in BOOLEAN
  PROVE  [by |-> p, tunnel |-> b] # Free
BY ProcessAssumption DEF Free, Process

\* A lock says who has it, and tells a tunnel from a probe.
LEMMA LocksDiffer ==
  ASSUME NEW p \in Process, NEW q \in Process, NEW b \in BOOLEAN
  PROVE  /\ [by |-> p, tunnel |-> b] = [by |-> q, tunnel |-> b] => p = q
         /\ [by |-> p, tunnel |-> TRUE] # [by |-> q, tunnel |-> FALSE]
<1>1. /\ [by |-> p, tunnel |-> b].by = p
      /\ [by |-> q, tunnel |-> b].by = q
  OBVIOUS
<1>2. /\ [by |-> p, tunnel |-> TRUE].tunnel = TRUE
      /\ [by |-> q, tunnel |-> FALSE].tunnel = FALSE
  OBVIOUS
<1> QED
  BY <1>1, <1>2, Zenon

\* What the locks can be set to.
LEMMA LockTypes ==
  /\ Free \in [by : Process \cup {None}, tunnel : BOOLEAN]
  /\ \A p \in Process : \A b \in BOOLEAN :
       [by |-> p, tunnel |-> b] \in [by : Process \cup {None}, tunnel : BOOLEAN]
BY DEF Free

\* Setting one lock leaves a function of locks.
LEMMA SetLock ==
  ASSUME NEW L, NEW f \in [Alias -> L], NEW a, NEW x \in L
  PROVE  [f EXCEPT ![a] = x] \in [Alias -> L]
OBVIOUS

\* The invariant holds before any tunnel starts.
LEMMA InitLockInv == Init => LockInv
BY ProcessAssumption
DEF Init, LockInv, TypeOK, FreeLockMeansStale, ProbeHasLock, LooksAt, HasProbeLock,
    Running, Free, Process, MainState, PruneState

\* Every step keeps the types.
LEMMA NextTypeOK ==
  ASSUME LockInv, [Next]_vars
  PROVE  TypeOK'
<1> USE ProcessAssumption DEF MainState, PruneState, pruneVars
<1>0. TypeOK
  BY DEF LockInv
<1>t. Tunnel \subseteq Process /\ Doctor \subseteq Process
  BY DEF Process
<1>1. ASSUME NEW t \in Tunnel, AcquireLock(t) PROVE TypeOK'
  <2>1. AliasOf[t] \in Alias
    OBVIOUS
  <2>2. lock' \in [Alias -> [by : Process \cup {None}, tunnel : BOOLEAN]]
    <3>1. [by |-> t, tunnel |-> TRUE] \in [by : Process \cup {None}, tunnel : BOOLEAN]
      BY <1>t, LockTypes
    <3> QED
      BY <1>0, <1>1, <3>1 DEF TypeOK, AcquireLock
  <2> QED
    BY <1>0, <1>1, <2>1, <2>2 DEF TypeOK, AcquireLock
<1>2. ASSUME NEW t \in Tunnel, StartPublish(t) \/ Serve(t) PROVE TypeOK'
  BY <1>0, <1>t, <1>2 DEF TypeOK, StartPublish, Serve
<1>3. ASSUME NEW t \in Tunnel, WriteBlock(t) \/ CheckBlock(t) PROVE TypeOK'
  BY <1>0, <1>t, <1>3 DEF TypeOK, WriteBlock, CheckBlock
<1>4. ASSUME NEW t \in Tunnel, StopTunnel(t) PROVE TypeOK'
  BY <1>0, <1>t, <1>4 DEF TypeOK, StopTunnel
<1>5. ASSUME NEW t \in Tunnel, WithdrawHost(t) \/ Withdrawn(t) PROVE TypeOK'
  BY <1>0, <1>t, <1>5 DEF TypeOK, WithdrawHost, Withdrawn
<1>6. ASSUME NEW t \in Tunnel, ReleaseLock(t) PROVE TypeOK'
  BY <1>0, <1>t, <1>6, LockTypes DEF TypeOK, ReleaseLock
<1>15. ASSUME NEW t \in Tunnel, ProbeAlias(t) PROVE TypeOK'
  BY <1>0, <1>t, <1>15 DEF TypeOK, ProbeAlias
<1>16. ASSUME NEW d \in Doctor, DoctorStarts(d) PROVE TypeOK'
  BY <1>0, <1>t, <1>16 DEF TypeOK, DoctorStarts
<1>7. ASSUME NEW p \in Process, ResolveStep(p) PROVE TypeOK'
  <2>1. CASE Resolve(p)
    <3>1. prune' \in [Process -> PruneState] /\ pc' \in [Tunnel -> MainState]
      BY <1>0, <2>1 DEF TypeOK, Resolve
    <3>2. todo' \in [Process -> SUBSET Alias] /\ at' \in [Process -> Alias \cup {None}]
      BY <1>0, <2>1 DEF TypeOK, Resolve
    <3>3. UNCHANGED <<lock, created, block, withdraw, warned>>
      BY <2>1 DEF Resolve
    <3> QED
      BY <1>0, <3>1, <3>2, <3>3 DEF TypeOK
  <2>2. CASE LookUp(p) \/ LookUpReleases(p)
    <3>1. /\ [by |-> p, tunnel |-> FALSE] \in [by : Process \cup {None}, tunnel : BOOLEAN]
          /\ Free \in [by : Process \cup {None}, tunnel : BOOLEAN]
      BY <1>t, LockTypes
    <3>2. \/ lock' = lock
          \/ lock' = [lock EXCEPT ![at[p]] = [by |-> p, tunnel |-> FALSE]]
          \/ lock' = [lock EXCEPT ![at[p]] = Free]
      BY <2>2 DEF LookUp, LookUpReleases
    <3>3. lock \in [Alias -> [by : Process \cup {None}, tunnel : BOOLEAN]]
      BY <1>0 DEF TypeOK
    <3>4. lock' \in [Alias -> [by : Process \cup {None}, tunnel : BOOLEAN]]
      <4> DEFINE L == [by : Process \cup {None}, tunnel : BOOLEAN]
      <4>1. \A x \in L : [lock EXCEPT ![at[p]] = x] \in [Alias -> L]
        BY <3>3, SetLock
      <4> HIDE DEF L
      <4> QED
        BY <3>1, <3>2, <3>3, <4>1 DEF L
    <3>5. prune' \in [Process -> PruneState] /\ pc' \in [Tunnel -> MainState]
      BY <1>0, <2>2 DEF TypeOK, LookUp, LookUpReleases, Stale
    <3>6. UNCHANGED <<created, block, todo, at, withdraw, warned>>
      BY <2>2 DEF LookUp, LookUpReleases
    <3> QED
      BY <1>0, <3>4, <3>5, <3>6 DEF TypeOK
  <2> QED
    BY <1>7, <2>1, <2>2 DEF ResolveStep
<1>8. ASSUME NEW p \in Process, Scan(p) PROVE TypeOK'
  BY <1>0, <1>t, <1>8 DEF TypeOK, Scan
<1>9. ASSUME NEW p \in Process, NextFile(p) PROVE TypeOK'
  <2>1. prune' \in [Process -> PruneState]
    BY <1>0, <1>9 DEF TypeOK, NextFile
  <2>2. todo' \in [Process -> SUBSET Alias] /\ at' \in [Process -> Alias \cup {None}]
    BY <1>0, <1>9 DEF TypeOK, NextFile
  <2>3. UNCHANGED <<pc, lock, created, block, withdraw, warned>>
    BY <1>9 DEF NextFile
  <2> QED
    BY <1>0, <2>1, <2>2, <2>3 DEF TypeOK
<1>10. ASSUME NEW p \in Process, Probe(p) PROVE TypeOK'
  <2>1. lock' \in [Alias -> [by : Process \cup {None}, tunnel : BOOLEAN]]
    <3>1. [by |-> p, tunnel |-> FALSE] \in [by : Process \cup {None}, tunnel : BOOLEAN]
      BY LockTypes
    <3>2. lock' = lock \/ lock' = [lock EXCEPT ![at[p]] = [by |-> p, tunnel |-> FALSE]]
      BY <1>10 DEF Probe
    <3>3. lock \in [Alias -> [by : Process \cup {None}, tunnel : BOOLEAN]]
      BY <1>0 DEF TypeOK
    <3> QED
      BY <3>1, <3>2, <3>3, SetLock, Zenon
  <2> QED
    BY <1>0, <1>10, <2>1 DEF TypeOK, Probe
<1>11. ASSUME NEW p \in Process, ProbeReleases(p) PROVE TypeOK'
  BY <1>0, <1>t, <1>11, LockTypes DEF TypeOK, ProbeReleases
<1>12. ASSUME NEW p \in Process, Unlink(p) PROVE TypeOK'
  BY <1>0, <1>t, <1>12 DEF TypeOK, Unlink
<1>13. ASSUME NEW p \in Process, Crash(p) PROVE TypeOK'
  <2>1. lock' \in [Alias -> [by : Process \cup {None}, tunnel : BOOLEAN]]
    <3>1. lock' = [a \in Alias |-> IF lock[a].by = p THEN Free ELSE lock[a]]
      BY <1>13 DEF Crash
    <3> QED
      BY <1>0, <3>1, LockTypes DEF TypeOK
  <2>2. pc' \in [Tunnel -> MainState]
    BY <1>0, <1>13 DEF TypeOK, Crash
  <2> QED
    BY <1>0, <1>13, <2>1, <2>2 DEF TypeOK, Crash
<1>14. ASSUME UNCHANGED vars PROVE TypeOK'
  BY <1>0, <1>14 DEF TypeOK, vars
<1> QED
  BY <1>1, <1>2, <1>3, <1>4, <1>5, <1>6, <1>7, <1>8, <1>9, <1>10, <1>11,
     <1>12, <1>13, <1>14, <1>15, <1>16 DEF Next, PruneStep

\* Every step keeps the locks with those they belong to.
LEMMA NextLockInv == LockInv /\ [Next]_vars => LockInv'
<1> SUFFICES ASSUME LockInv, [Next]_vars PROVE LockInv'
  OBVIOUS
<1>0. TypeOK'
  BY NextTypeOK
<1> DEFINE Locks == FreeLockMeansStale /\ ProbeHasLock
<1> USE DEF LockInv, LooksAt, HasProbeLock
<1>1. ASSUME NEW t \in Tunnel, AcquireLock(t) PROVE Locks'
  <2> DEFINE a == AliasOf[t]
  <2>1. a \in Alias
    BY ProcessAssumption
  <2>2. CASE lock[a] = Free
    <3>1. lock' = [lock EXCEPT ![a] = [by |-> t, tunnel |-> TRUE]]
          /\ pc' = [pc EXCEPT ![t] = "locked"] /\ UNCHANGED pruneVars
      BY <1>1, <2>2 DEF AcquireLock
    <3>2. \A u \in Tunnel : Running(u) => AliasOf[u] # a
      BY <2>2, HeldIsNotFree DEF FreeLockMeansStale, Process
    <3>3. FreeLockMeansStale'
      <4> SUFFICES ASSUME NEW u \in Tunnel, Running(u)'
                   PROVE  lock'[AliasOf[u]] = [by |-> u, tunnel |-> TRUE]
        BY DEF FreeLockMeansStale
      <4>1. CASE u = t
        BY <2>1, <3>1, <4>1 DEF TypeOK
      <4>2. CASE u # t
        <5>1. Running(u)
          BY <3>1, <4>2 DEF Running, TypeOK
        <5> QED
          BY <3>1, <3>2, <5>1, ProcessAssumption DEF FreeLockMeansStale, TypeOK
      <4> QED
        BY <4>1, <4>2
    <3>4. \A p \in Process : prune[p] \in HasProbeLock => at[p] # a
      BY <2>2, HeldIsNotFree DEF ProbeHasLock
    <3>5. ProbeHasLock'
      BY <2>1, <3>1, <3>4 DEF ProbeHasLock, TypeOK, pruneVars
    <3> QED
      BY <3>3, <3>5
  <2>3. CASE lock[a] # Free
    BY <1>1, <2>3
    DEF AcquireLock, pruneVars, FreeLockMeansStale, ProbeHasLock, Running, TypeOK
  <2> QED
    BY <2>2, <2>3
<1>2. ASSUME NEW t \in Tunnel, StartPublish(t) \/ Serve(t) PROVE Locks'
  BY <1>2 DEF StartPublish, Serve, pruneVars, FreeLockMeansStale, ProbeHasLock,
              Running, TypeOK, Process
<1>3. ASSUME NEW t \in Tunnel, WriteBlock(t) \/ CheckBlock(t) PROVE Locks'
  BY <1>3 DEF WriteBlock, CheckBlock, FreeLockMeansStale, ProbeHasLock, Running,
              TypeOK, Process
<1>4. ASSUME NEW t \in Tunnel, StopTunnel(t) PROVE Locks'
  BY <1>4 DEF StopTunnel, pruneVars, FreeLockMeansStale, ProbeHasLock, Running,
              TypeOK
<1>5. ASSUME NEW t \in Tunnel, WithdrawHost(t) \/ Withdrawn(t) PROVE Locks'
  BY <1>5 DEF WithdrawHost, Withdrawn, pruneVars, FreeLockMeansStale,
              ProbeHasLock, Running, TypeOK
<1>6. ASSUME NEW t \in Tunnel, ReleaseLock(t) PROVE Locks'
  <2> DEFINE a == AliasOf[t]
  <2>1. a \in Alias /\ lock[a] = [by |-> t, tunnel |-> TRUE]
    BY <1>6, ProcessAssumption DEF ReleaseLock, FreeLockMeansStale, Running
  <2>2. \A u \in Tunnel : Running(u) /\ u # t => AliasOf[u] # a
    BY <2>1, LocksDiffer DEF FreeLockMeansStale, Process
  <2>3. \A p \in Process : prune[p] \in HasProbeLock => at[p] # a
    BY <2>1, LocksDiffer DEF ProbeHasLock, Process
  <2>4. /\ lock' = [lock EXCEPT ![a] = Free]
        /\ pc' = [pc EXCEPT ![t] = "gone"] /\ UNCHANGED pruneVars
    BY <1>6 DEF ReleaseLock
  <2>5. FreeLockMeansStale'
    BY <2>2, <2>4 DEF FreeLockMeansStale, Running, TypeOK
  <2>6. ProbeHasLock'
    BY <2>3, <2>4 DEF ProbeHasLock, TypeOK, pruneVars
  <2> QED
    BY <2>5, <2>6
<1>15. ASSUME NEW p \in Process, Stale(p)
       PROVE  /\ \A t \in Tunnel : Running(t)' => Running(t)
              /\ \A q \in Process : q # p => prune'[q] = prune[q]
              /\ prune'[p] \notin LooksAt
  BY <1>15 DEF Stale, Running, TypeOK
<1>16. ASSUME NEW p \in Process, LookUp(p) PROVE Locks'
  <2>1. at[p] \in Alias
    BY <1>16 DEF LookUp, ProbeHasLock
  <2>2. CASE at[p] \in created /\ lock[at[p]] = Free
    <3>1. /\ lock' = [lock EXCEPT ![at[p]] = [by |-> p, tunnel |-> FALSE]]
          /\ prune' = [prune EXCEPT ![p] = "looking"] /\ UNCHANGED <<pc, at>>
      BY <1>16, <2>2 DEF LookUp
    <3>2. \A u \in Tunnel : Running(u) => AliasOf[u] # at[p]
      BY <2>2, HeldIsNotFree DEF FreeLockMeansStale, Process
    <3>3. \A q \in Process : prune[q] \in HasProbeLock => at[q] # at[p]
      BY <2>2, HeldIsNotFree DEF ProbeHasLock
    <3>4. FreeLockMeansStale'
      BY <3>1, <3>2 DEF FreeLockMeansStale, Running, TypeOK
    <3>5. ProbeHasLock'
      BY <2>1, <3>1, <3>3 DEF ProbeHasLock, TypeOK
    <3> QED
      BY <3>4, <3>5
  <2>3. CASE ~(at[p] \in created /\ lock[at[p]] = Free)
    <3>1. /\ UNCHANGED <<lock, at>>
          /\ Stale(p) \/ (UNCHANGED pc /\ prune' = [prune EXCEPT ![p] = "resolve"])
      BY <1>16, <2>3 DEF LookUp
    <3>2. /\ \A t \in Tunnel : Running(t)' => Running(t)
          /\ \A q \in Process : q # p => prune'[q] = prune[q]
          /\ prune'[p] \notin LooksAt
      BY <1>15, <3>1 DEF Running, TypeOK
    <3>3. FreeLockMeansStale'
      BY <3>1, <3>2 DEF FreeLockMeansStale
    <3>4. ProbeHasLock'
      BY <3>1, <3>2 DEF ProbeHasLock
    <3> QED
      BY <3>3, <3>4
  <2> QED
    BY <2>2, <2>3
<1>17. ASSUME NEW p \in Process, LookUpReleases(p) PROVE Locks'
  <2>1. at[p] \in Alias /\ lock[at[p]] = [by |-> p, tunnel |-> FALSE]
    BY <1>17 DEF LookUpReleases, ProbeHasLock
  <2>2. \A u \in Tunnel : Running(u) => AliasOf[u] # at[p]
    BY <2>1, LocksDiffer DEF FreeLockMeansStale, Process
  <2>3. \A q \in Process : prune[q] \in HasProbeLock /\ q # p => at[q] # at[p]
    BY <2>1, LocksDiffer DEF ProbeHasLock
  <2>4. lock' = [lock EXCEPT ![at[p]] = Free] /\ Stale(p) /\ UNCHANGED at
    BY <1>17 DEF LookUpReleases
  <2>5. FreeLockMeansStale'
    BY <1>15, <2>2, <2>4 DEF FreeLockMeansStale, TypeOK
  <2>6. ProbeHasLock'
    <3>1. \A q \in Process : prune'[q] \in LooksAt => q # p /\ prune'[q] = prune[q]
      BY <1>15, <2>4
    <3> QED
      BY <2>1, <2>3, <2>4, <3>1 DEF ProbeHasLock, TypeOK
  <2> QED
    BY <2>5, <2>6
<1>18. ASSUME NEW t \in Tunnel, ProbeAlias(t) PROVE Locks'
  BY <1>18 DEF ProbeAlias, FreeLockMeansStale, ProbeHasLock, Running, TypeOK, Process
<1>19. ASSUME NEW d \in Doctor, DoctorStarts(d) PROVE Locks'
  BY <1>19 DEF DoctorStarts, FreeLockMeansStale, ProbeHasLock, Running, TypeOK, Process
<1>7. ASSUME NEW p \in Process, ResolveStep(p) PROVE Locks'
  <2>1. CASE Resolve(p)
    <3>1. /\ UNCHANGED lock
          /\ \A t \in Tunnel : Running(t)' => Running(t)
      BY <2>1 DEF Resolve, Running, TypeOK
    <3>2. /\ \A q \in Process : q # p => prune'[q] = prune[q] /\ at'[q] = at[q]
          /\ prune'[p] \in LooksAt => prune'[p] = "lookup" /\ at'[p] \in Alias
      BY <2>1 DEF Resolve, TypeOK
    <3>3. ProbeHasLock'
      BY <3>1, <3>2 DEF ProbeHasLock
    <3> QED
      BY <3>1, <3>3 DEF FreeLockMeansStale
  <2> QED
    BY <1>7, <1>16, <1>17, <2>1 DEF ResolveStep
<1>8. ASSUME NEW p \in Process, Scan(p) PROVE Locks'
  BY <1>8 DEF Scan, FreeLockMeansStale, ProbeHasLock, Running, TypeOK
<1>9. ASSUME NEW p \in Process, NextFile(p) PROVE Locks'
  BY <1>9 DEF NextFile, FreeLockMeansStale, ProbeHasLock, Running, TypeOK
<1>10. ASSUME NEW p \in Process, Probe(p) PROVE Locks'
  <2>1. at[p] \in Alias
    BY <1>10 DEF Probe, ProbeHasLock
  <2>2. CASE at[p] \in created /\ lock[at[p]] = Free
    <3>1. /\ lock' = [lock EXCEPT ![at[p]] = [by |-> p, tunnel |-> FALSE]]
          /\ prune' = [prune EXCEPT ![p] = "probed"] /\ UNCHANGED <<pc, at>>
      BY <1>10, <2>2 DEF Probe
    <3>2. \A u \in Tunnel : Running(u) => AliasOf[u] # at[p]
      BY <2>2, HeldIsNotFree DEF FreeLockMeansStale, Process
    <3>3. \A q \in Process : prune[q] \in HasProbeLock => at[q] # at[p]
      BY <2>2, HeldIsNotFree DEF ProbeHasLock
    <3>4. FreeLockMeansStale'
      BY <3>1, <3>2 DEF FreeLockMeansStale, Running, TypeOK
    <3>5. ProbeHasLock'
      BY <2>1, <3>1, <3>3 DEF ProbeHasLock, TypeOK
    <3> QED
      BY <3>4, <3>5
  <2>3. CASE ~(at[p] \in created /\ lock[at[p]] = Free)
    BY <1>10, <2>1, <2>3
    DEF Probe, FreeLockMeansStale, ProbeHasLock, Running, TypeOK
  <2> QED
    BY <2>2, <2>3
<1>11. ASSUME NEW p \in Process, ProbeReleases(p) PROVE Locks'
  <2>1. at[p] \in Alias /\ lock[at[p]] = [by |-> p, tunnel |-> FALSE]
    BY <1>11 DEF ProbeReleases, ProbeHasLock
  <2>2. \A u \in Tunnel : Running(u) => AliasOf[u] # at[p]
    BY <2>1, LocksDiffer DEF FreeLockMeansStale, Process
  <2>3. \A q \in Process : prune[q] \in HasProbeLock /\ q # p => at[q] # at[p]
    BY <2>1, LocksDiffer DEF ProbeHasLock
  <2>4. /\ lock' = [lock EXCEPT ![at[p]] = Free]
        /\ prune' = [prune EXCEPT ![p] = "unlink"] /\ UNCHANGED <<pc, at>>
    BY <1>11 DEF ProbeReleases
  <2>5. FreeLockMeansStale'
    BY <2>2, <2>4 DEF FreeLockMeansStale, Running, TypeOK
  <2>6. ProbeHasLock'
    BY <2>1, <2>3, <2>4 DEF ProbeHasLock, TypeOK
  <2> QED
    BY <2>5, <2>6
<1>12. ASSUME NEW p \in Process, Unlink(p) PROVE Locks'
  BY <1>12 DEF Unlink, FreeLockMeansStale, ProbeHasLock, Running, TypeOK
<1>13. ASSUME NEW p \in Process, Crash(p) PROVE Locks'
  <2>1. /\ lock' = [a \in Alias |-> IF lock[a].by = p THEN Free ELSE lock[a]]
        /\ prune' = [prune EXCEPT ![p] = "idle"] /\ UNCHANGED at
    BY <1>13 DEF Crash
  <2>2. \A u \in Tunnel : Running(u)' => Running(u) /\ u # p
    BY <1>13, ProcessAssumption DEF Crash, Running, TypeOK, Process
  <2>3. FreeLockMeansStale'
    BY <2>1, <2>2, ProcessAssumption DEF FreeLockMeansStale, Running
  <2>4. ProbeHasLock'
    <3> SUFFICES ASSUME NEW q \in Process,
                        prune'[q] \in LooksAt
                 PROVE  /\ at[q] \in Alias
                        /\ prune'[q] \in HasProbeLock =>
                             lock'[at[q]] = [by |-> q, tunnel |-> FALSE]
      BY <2>1 DEF ProbeHasLock
    <3>1. q # p /\ prune'[q] = prune[q] /\ at[q] \in Alias
      BY <2>1 DEF ProbeHasLock, TypeOK
    <3> QED
      BY <2>1, <3>1 DEF ProbeHasLock
  <2> QED
    BY <2>3, <2>4
<1>14. ASSUME UNCHANGED vars PROVE Locks'
  BY <1>14 DEF vars, FreeLockMeansStale, ProbeHasLock, Running
<1> QED
  BY <1>0, <1>1, <1>2, <1>3, <1>4, <1>5, <1>6, <1>7, <1>8, <1>9, <1>10, <1>11,
     <1>12, <1>13, <1>14, <1>18, <1>19 DEF Next, PruneStep

\* One lock, one tunnel.
LEMMA LockInvExclusive == LockInv => OneTunnelPerAlias
<1> SUFFICES ASSUME LockInv, NEW t \in Tunnel, NEW u \in Tunnel,
                    AliasOf[t] = AliasOf[u], Running(t), Running(u)
             PROVE  t = u
  BY DEF OneTunnelPerAlias
<1>1. [by |-> t, tunnel |-> TRUE] = [by |-> u, tunnel |-> TRUE]
  BY DEF LockInv, FreeLockMeansStale
<1> QED
  BY <1>1, LocksDiffer DEF Process

\* The lock invariant holds of every state.
THEOREM LockInvariance == Spec => []LockInv
BY InitLockInv, NextLockInv, PTL DEF Spec

\* Every variable keeps its type.
THEOREM TypeCorrect == Spec => []TypeOK
<1>1. LockInv => TypeOK
  BY DEF LockInv
<1> QED
  BY <1>1, LockInvariance, PTL

\* `alias_locked` is right about a free lock: from taking its lock to releasing
\* it, a tunnel has it, whatever probes, crashes and late threads do meanwhile.
THEOREM FreeLockCorrect == Spec => []FreeLockMeansStale
<1>1. LockInv => FreeLockMeansStale
  BY DEF LockInv
<1> QED
  BY <1>1, LockInvariance, PTL

\* `alias_lock` admits one tunnel per alias.
THEOREM MutualExclusion == Spec => []OneTunnelPerAlias
BY LockInvExclusive, LockInvariance, PTL

-----------------------------------------------------------------------------
(***************************************************************************)
(* The blocks, when no thread outlasts its session.                        *)
(***************************************************************************)

\* A block carries the name of the alias it was written for.
BlockNamesAlias ==
  \A a \in Alias : \A u \in Tunnel : block[a] = u => AliasOf[u] = a

Resolving == {"resolve", "lookup", "looking"}

\* The threads of a session run while its main task waits for them, and the probe of
\* its alias is over before it.
ThreadsAwaited ==
  \A t \in Tunnel : /\ prune[t] \in Resolving => pc[t] = "probing"
                    /\ prune[t] \notin Resolving \cup {"idle"} => pc[t] = "publishing"
                    /\ t \in withdraw => pc[t] = "withdrawing"

\* From the end of `publish_host` on, the alias has the tunnel's block or none.
BlockIsOwn ==
  \A t \in Tunnel :
    /\ pc[t] = "serving" \/ (pc[t] = "publishing" /\ prune[t] \in {"check", "idle"})
    /\ t \notin warned
    => block[AliasOf[t]] \in {t, None}

\* The inductive invariant of the blocks.
BlockInv == LockInv /\ BlockNamesAlias /\ ThreadsAwaited /\ BlockIsOwn

\* No block, no thread, to begin with.
LEMMA InitBlockInv == Init => BlockInv
BY InitLockInv, ProcessAssumption
DEF Init, BlockInv, BlockNamesAlias, ThreadsAwaited, BlockIsOwn, Process, Resolving

\* Every step keeps the blocks with their tunnels.
LEMMA NextBlockInv ==
  ASSUME ~SlowThreads
  PROVE  BlockInv /\ [Next]_vars => BlockInv'
<1> SUFFICES ASSUME BlockInv, [Next]_vars PROVE BlockInv'
  OBVIOUS
<1> DEFINE Blocks == BlockNamesAlias /\ ThreadsAwaited /\ BlockIsOwn
<1>0. LockInv'
  BY NextLockInv DEF BlockInv
<1>t. TypeOK /\ BlockNamesAlias /\ ThreadsAwaited /\ BlockIsOwn
  BY DEF BlockInv, LockInv
<1>a. \A t \in Tunnel : AliasOf[t] \in Alias /\ t \in Process /\ t # None
  BY ProcessAssumption DEF Process
<1> USE <1>t, <1>a DEF TypeOK, BlockNamesAlias, ThreadsAwaited, BlockIsOwn, pruneVars,
                       Resolving
<1>1. ASSUME NEW t \in Tunnel, AcquireLock(t) PROVE Blocks'
  BY <1>1 DEF AcquireLock
<1>2. ASSUME NEW t \in Tunnel, StartPublish(t) \/ Serve(t) PROVE Blocks'
  BY <1>2 DEF StartPublish, Serve
<1>3. ASSUME NEW t \in Tunnel, WriteBlock(t) PROVE Blocks'
  <2>1. pc[t] = "publishing" /\ Running(t)
    BY <1>3 DEF WriteBlock, Running
  <2>2. \A u \in Tunnel : pc[u] \in {"publishing", "serving"} /\ u # t =>
                            AliasOf[u] # AliasOf[t]
    BY <2>1, LockInvExclusive DEF OneTunnelPerAlias, Running, BlockInv
  <2> QED
    BY <1>3, <2>1, <2>2 DEF WriteBlock
<1>4. ASSUME NEW t \in Tunnel, StopTunnel(t) PROVE Blocks'
  BY <1>4 DEF StopTunnel
<1>5. ASSUME NEW t \in Tunnel, WithdrawHost(t) \/ Withdrawn(t) PROVE Blocks'
  BY <1>5 DEF WithdrawHost, Withdrawn
<1>6. ASSUME NEW t \in Tunnel, ReleaseLock(t) PROVE Blocks'
  BY <1>6 DEF ReleaseLock
<1>15. ASSUME NEW t \in Tunnel, CheckBlock(t) PROVE Blocks'
  BY <1>15 DEF CheckBlock
<1>16. ASSUME NEW d \in Doctor, DoctorStarts(d) PROVE Blocks'
  <2>1. d \notin Tunnel
    BY ProcessAssumption
  <2> QED
    BY <1>16, <2>1 DEF DoctorStarts, Process
<1>17. ASSUME NEW t \in Tunnel, ProbeAlias(t) PROVE Blocks'
  BY <1>17 DEF ProbeAlias
<1>7. ASSUME NEW p \in Process, ResolveStep(p) PROVE Blocks'
  <2>1. CASE Resolve(p)
    BY <2>1 DEF Resolve
  <2>2. CASE LookUp(p)
    BY <2>2 DEF LookUp, Stale
  <2>3. CASE LookUpReleases(p)
    BY <2>3 DEF LookUpReleases, Stale
  <2> QED
    BY <1>7, <2>1, <2>2, <2>3 DEF ResolveStep
<1>8. ASSUME NEW p \in Process, Scan(p) PROVE Blocks'
  BY <1>8 DEF Scan
<1>9. ASSUME NEW p \in Process, NextFile(p) PROVE Blocks'
  BY <1>9 DEF NextFile
<1>10. ASSUME NEW p \in Process, Probe(p) PROVE Blocks'
  BY <1>10 DEF Probe
<1>11. ASSUME NEW p \in Process, ProbeReleases(p) PROVE Blocks'
  BY <1>11 DEF ProbeReleases
<1>12. ASSUME NEW p \in Process, Unlink(p) PROVE Blocks'
  BY <1>12 DEF Unlink
<1>13. ASSUME NEW p \in Process, Crash(p) PROVE Blocks'
  BY <1>13 DEF Crash
<1>14. ASSUME UNCHANGED vars PROVE Blocks'
  BY <1>14 DEF vars
<1> QED
  BY <1>0, <1>1, <1>2, <1>3, <1>4, <1>5, <1>6, <1>7, <1>8, <1>9, <1>10, <1>11,
     <1>12, <1>13, <1>14, <1>15, <1>16, <1>17 DEF Next, PruneStep, BlockInv

\* When no thread outlasts its session, OpenSSH finds at a serving tunnel's
\* alias that tunnel's block or none: no block that an earlier tunnel left, and
\* none that a stopping one writes late.
THEOREM OwnBlock ==
  ASSUME ~SlowThreads
  PROVE  Spec => []NoForeignBlock
<1>1. Spec => []BlockInv
  BY InitBlockInv, NextBlockInv, PTL DEF Spec
<1>2. BlockInv => NoForeignBlock
  BY DEF BlockInv, BlockIsOwn, NoForeignBlock
<1> QED
  BY <1>1, <1>2, PTL

\* When no thread outlasts its session, the lock makes the block that
\* `withdraw_host` removes the tunnel's own: no other running tunnel loses one.
THEOREM OwnWithdrawal ==
  ASSUME ~SlowThreads
  PROVE  Spec => WithdrawRemovesOwn
<1> DEFINE Kept ==
      \A t, u \in Tunnel :
        t \in withdraw \ withdraw' /\ t # u /\ Running(u) =>
          (block[AliasOf[t]] = u => block'[AliasOf[t]] = u)
<1>1. Spec => []BlockInv
  BY InitBlockInv, NextBlockInv, PTL DEF Spec
<1>2. BlockInv /\ [Next]_vars => [Kept]_vars
  <2> SUFFICES ASSUME BlockInv, NEW t \in Tunnel, NEW u \in Tunnel,
                      t \in withdraw, t # u, Running(u), block[AliasOf[t]] = u
               PROVE  FALSE
    OBVIOUS
  <2>1. Running(t) /\ AliasOf[u] = AliasOf[t]
    BY ProcessAssumption
    DEF BlockInv, ThreadsAwaited, BlockNamesAlias, Running
  <2> QED
    BY <2>1, LockInvExclusive DEF BlockInv, OneTunnelPerAlias
<1>3. [][Kept]_vars => WithdrawRemovesOwn
  BY PTL DEF WithdrawRemovesOwn
<1> QED
  BY <1>1, <1>2, <1>3, PTL DEF Spec

-----------------------------------------------------------------------------
(***************************************************************************)
(* The locks and the blocks are an exclusive alias.                        *)
(***************************************************************************)

\* A tunnel only ever takes the lock of its own alias.
OwnLock ==
  \A a \in Alias : lock[a].tunnel => lock[a].by \in Tunnel /\ AliasOf[lock[a].by] = a

ExclusiveInv == BlockInv /\ OwnLock

Owner == [a \in Alias |-> IF lock[a].tunnel THEN lock[a].by ELSE None]

Serving == {t \in Tunnel : pc[t] = "serving"}

\* What the fields of a lock are.
LEMMA LockFields ==
  /\ Free.by = None /\ Free.tunnel = FALSE
  /\ \A p \in Process : \A b \in BOOLEAN :
       [by |-> p, tunnel |-> b].by = p /\ [by |-> p, tunnel |-> b].tunnel = b
BY DEF Free

\* One lock changes hands: so does the alias, and no other.
LEMMA OwnerAfter ==
  ASSUME TypeOK, NEW a \in Alias, NEW l, lock' = [lock EXCEPT ![a] = l]
  PROVE  Owner' = [Owner EXCEPT ![a] = IF l.tunnel THEN l.by ELSE None]
BY DEF Owner, TypeOK

\* A step that takes a lock to look at it, or gives it back, leaves the aliases with
\* their owners.
LEMMA ProbeKeepsOwner ==
  ASSUME TypeOK, NEW a \in Alias, NEW l,
         lock' = [lock EXCEPT ![a] = l],
         ~lock[a].tunnel, ~l.tunnel
  PROVE  Owner' = Owner
BY DEF Owner, TypeOK

\* Every step keeps the locks with the tunnels of their aliases.
LEMMA NextOwnLock ==
  ASSUME LockInv, OwnLock, [Next]_vars
  PROVE  OwnLock'
<1>0. TypeOK /\ ProbeHasLock
  BY DEF LockInv
<1>t. Tunnel \subseteq Process /\ Doctor \subseteq Process
  BY DEF Process
<1> SUFFICES ASSUME NEW a \in Alias, lock'[a].tunnel
             PROVE  lock'[a].by \in Tunnel /\ AliasOf[lock'[a].by] = a
  BY DEF OwnLock
<1>1. CASE UNCHANGED lock
  BY <1>1 DEF OwnLock
<1>2. ASSUME NEW t \in Tunnel, AcquireLock(t) PROVE lock'[a].by \in Tunnel /\ AliasOf[lock'[a].by] = a
  <2>1. CASE lock' = [lock EXCEPT ![AliasOf[t]] = [by |-> t, tunnel |-> TRUE]]
    BY <1>0, <1>t, <2>1, LockFields, ProcessAssumption DEF OwnLock, TypeOK
  <2> QED
    BY <1>1, <1>2, <2>1 DEF AcquireLock
<1>3. ASSUME NEW b \in Alias, NEW l, lock' = [lock EXCEPT ![b] = l], l.tunnel = FALSE
      PROVE  lock'[a].by \in Tunnel /\ AliasOf[lock'[a].by] = a
  BY <1>0, <1>3 DEF OwnLock, TypeOK
<1>4. ASSUME NEW t \in Tunnel, ReleaseLock(t) PROVE lock'[a].by \in Tunnel /\ AliasOf[lock'[a].by] = a
  BY <1>3, <1>4, LockFields, ProcessAssumption DEF ReleaseLock
<1>5. ASSUME NEW p \in Process, Probe(p) \/ ProbeReleases(p) \/ LookUp(p) \/ LookUpReleases(p)
      PROVE  lock'[a].by \in Tunnel /\ AliasOf[lock'[a].by] = a
  <2>1. at[p] \in Alias
    BY <1>0, <1>5 DEF ProbeHasLock, LooksAt, Probe, ProbeReleases, LookUp, LookUpReleases
  <2>2. \/ UNCHANGED lock
        \/ lock' = [lock EXCEPT ![at[p]] = [by |-> p, tunnel |-> FALSE]]
        \/ lock' = [lock EXCEPT ![at[p]] = Free]
    BY <1>5 DEF Probe, ProbeReleases, LookUp, LookUpReleases
  <2> QED
    BY <1>1, <1>3, <2>1, <2>2, LockFields
<1>6. ASSUME NEW p \in Process, Crash(p) PROVE lock'[a].by \in Tunnel /\ AliasOf[lock'[a].by] = a
  BY <1>6, LockFields DEF Crash, OwnLock
<1> QED
  BY <1>1, <1>2, <1>4, <1>5, <1>6, <1>t
  DEF Next, PruneStep, ResolveStep, vars, StartPublish, WriteBlock, CheckBlock, Serve,
      StopTunnel, WithdrawHost, Withdrawn, Scan, NextFile, Unlink, DoctorStarts,
      ProbeAlias, Resolve

-----------------------------------------------------------------------------
\* What Exclusive's variables are.
LEMMA Mapping ==
  /\ Exclusive!vars = <<Owner, block, Serving, warned>>
  /\ Exclusive!vars' = <<Owner', block', Serving', warned'>>
BY DEF Exclusive!vars, Owner, Serving

\* A running tunnel owns its alias.
LEMMA RunningOwns ==
  ASSUME LockInv, NEW t \in Tunnel, Running(t)
  PROVE  Exclusive!Owns(t)
BY LockFields, ProcessAssumption DEF Exclusive!Owns, LockInv, FreeLockMeansStale, Process

\* No tunnel owns an alias at first.
LEMMA InitExclusive == Init => Exclusive!Init
BY LockFields DEF Init, Exclusive!Init

\* Every step is one of an exclusive alias, or none of its business.
LEMMA StepExclusive ==
  ASSUME ExclusiveInv, [Next]_vars
  PROVE  [Exclusive!Next]_(Exclusive!vars)
<1> DEFINE Steps == Exclusive!Next \/ UNCHANGED <<Owner, block, Serving, warned>>
<1>0. TypeOK /\ LockInv /\ ProbeHasLock /\ BlockIsOwn /\ ThreadsAwaited /\ OwnLock
  BY DEF ExclusiveInv, BlockInv, LockInv
<1>t. Tunnel \subseteq Process /\ Doctor \subseteq Process
  BY DEF Process
<1>p. \A t \in Tunnel : AliasOf[t] \in Alias
  BY ProcessAssumption
<1>o. UNCHANGED lock => Owner' = Owner
  BY DEF Owner
<1>s. UNCHANGED pc => Serving' = Serving
  BY DEF Serving
<1>1. ASSUME NEW t \in Tunnel, AcquireLock(t) PROVE Steps
  <2>1. CASE lock[AliasOf[t]] = Free
    <3>1. Owner' = [Owner EXCEPT ![AliasOf[t]] = t]
      <4>1. lock' = [lock EXCEPT ![AliasOf[t]] = [by |-> t, tunnel |-> TRUE]]
        BY <1>1, <2>1 DEF AcquireLock
      <4> QED
        BY <1>0, <1>t, <1>p, <4>1, OwnerAfter, LockFields
    <3>2. Owner[AliasOf[t]] = None
      BY <1>p, <2>1, LockFields DEF Owner
    <3>3. Serving' = Serving /\ UNCHANGED <<block, warned>>
      BY <1>0, <1>1, <2>1 DEF AcquireLock, Serving, TypeOK
    <3> QED
      BY <3>1, <3>2, <3>3 DEF Exclusive!Next, Exclusive!Take, Owner, Serving
  <2>2. CASE lock[AliasOf[t]] # Free
    <3>1. Serving' = Serving /\ UNCHANGED <<lock, block, warned>>
      BY <1>0, <1>1, <2>2 DEF AcquireLock, Serving, TypeOK
    <3> QED
      BY <1>o, <3>1
  <2> QED
    BY <2>1, <2>2
<1>2. ASSUME NEW t \in Tunnel, StartPublish(t) PROVE Steps
  <2>1. Serving' = Serving /\ UNCHANGED <<lock, block, warned>>
    BY <1>0, <1>2 DEF StartPublish, Serving, TypeOK
  <2> QED
    BY <1>o, <2>1
<1>3. ASSUME NEW t \in Tunnel, WriteBlock(t) PROVE Steps
  <2>1. Exclusive!Owns(t)
    BY <1>0, <1>3, RunningOwns DEF WriteBlock, ThreadsAwaited, Resolving, Running
  <2>2. Owner' = Owner /\ Serving' = Serving
    BY <1>3, <1>o, <1>s DEF WriteBlock
  <2>3. \/ block' = [block EXCEPT ![AliasOf[t]] = t] /\ UNCHANGED warned
        \/ warned' = warned \cup {t} /\ UNCHANGED block
    BY <1>3 DEF WriteBlock
  <2> QED
    BY <2>1, <2>2, <2>3
    DEF Exclusive!Next, Exclusive!Publish, Exclusive!Warn, Owner, Serving
<1>4. ASSUME NEW t \in Tunnel, CheckBlock(t) PROVE Steps
  <2>1. Exclusive!Owns(t)
    BY <1>0, <1>4, RunningOwns DEF CheckBlock, ThreadsAwaited, Resolving, Running
  <2>2. Owner' = Owner /\ Serving' = Serving /\ UNCHANGED block
    BY <1>4, <1>o, <1>s DEF CheckBlock
  <2>3. UNCHANGED warned \/ warned' = warned \cup {t}
    BY <1>4 DEF CheckBlock
  <2> QED
    BY <2>1, <2>2, <2>3 DEF Exclusive!Next, Exclusive!Warn, Owner, Serving
<1>5. ASSUME NEW t \in Tunnel, Serve(t) PROVE Steps
  <2>1. Exclusive!Owns(t)
    BY <1>0, <1>5, RunningOwns DEF Serve, Running
  <2>2. block[AliasOf[t]] \in {t, None} \/ t \in warned
    BY <1>0, <1>5 DEF Serve, BlockIsOwn
  <2>3. Serving' = Serving \cup {t}
    BY <1>0, <1>5 DEF Serve, Serving, TypeOK
  <2>4. Owner' = Owner /\ UNCHANGED <<block, warned>>
    BY <1>5, <1>o DEF Serve
  <2> QED
    BY <2>1, <2>2, <2>3, <2>4 DEF Exclusive!Next, Exclusive!Serve, Owner, Serving
<1>6. ASSUME NEW t \in Tunnel, StopTunnel(t) PROVE Steps
  <2>1. Exclusive!Owns(t)
    BY <1>0, <1>6, RunningOwns DEF StopTunnel, Running
  <2>2. Serving' = Serving \ {t}
    BY <1>0, <1>6 DEF StopTunnel, Serving, TypeOK
  <2>3. Owner' = Owner /\ UNCHANGED <<block, warned>>
    BY <1>6, <1>o DEF StopTunnel
  <2> QED
    BY <2>1, <2>2, <2>3 DEF Exclusive!Next, Exclusive!Cease, Owner, Serving
<1>7. ASSUME NEW t \in Tunnel, WithdrawHost(t) PROVE Steps
  <2>1. Owner' = Owner /\ Serving' = Serving /\ UNCHANGED warned
    BY <1>7, <1>o, <1>s DEF WithdrawHost
  <2>2. UNCHANGED block \/ block' = [block EXCEPT ![AliasOf[t]] = None]
    BY <1>7 DEF WithdrawHost
  <2> QED
    BY <1>p, <2>1, <2>2 DEF Exclusive!Next, Exclusive!Vanish, Owner, Serving
<1>8. ASSUME NEW t \in Tunnel, Withdrawn(t) PROVE Steps
  <2>1. Serving' = Serving /\ UNCHANGED <<lock, block, warned>>
    BY <1>0, <1>8 DEF Withdrawn, Serving, TypeOK
  <2> QED
    BY <1>o, <2>1
<1>9. ASSUME NEW t \in Tunnel, ReleaseLock(t) PROVE Steps
  <2>1. Exclusive!Owns(t)
    BY <1>0, <1>9, RunningOwns DEF ReleaseLock, Running
  <2>2. Owner' = [Owner EXCEPT ![AliasOf[t]] = None]
    BY <1>0, <1>9, <1>p, OwnerAfter, LockFields DEF ReleaseLock
  <2>3. Serving' = Serving \ {t} /\ UNCHANGED <<block, warned>>
    BY <1>0, <1>9 DEF ReleaseLock, Serving, TypeOK
  <2> QED
    BY <2>1, <2>2, <2>3 DEF Exclusive!Next, Exclusive!Release, Owner, Serving
<1>10. ASSUME NEW p \in Process,
              Probe(p) \/ ProbeReleases(p) \/ LookUp(p) \/ LookUpReleases(p)
       PROVE  Steps
  <2>1. Serving' = Serving /\ UNCHANGED <<block, warned>>
    <3>1. CASE UNCHANGED pc
      BY <1>10, <1>s, <3>1 DEF Probe, ProbeReleases, LookUp, LookUpReleases
    <3>2. CASE Stale(p)
      <4>1. prune[p] \in Resolving /\ UNCHANGED <<block, warned>>
        BY <1>10, <3>2, <1>0
        DEF Probe, ProbeReleases, LookUp, LookUpReleases, Resolving, Stale, TypeOK
      <4>2. p \in Tunnel => pc[p] = "probing"
        BY <1>0, <4>1 DEF ThreadsAwaited
      <4> QED
        BY <1>0, <1>s, <3>2, <4>1, <4>2 DEF Stale, Serving, TypeOK
    <3> QED
      BY <1>10, <3>1, <3>2 DEF Probe, ProbeReleases, LookUp, LookUpReleases
  <2>2. at[p] \in Alias
    BY <1>0, <1>10
    DEF ProbeHasLock, LooksAt, Probe, ProbeReleases, LookUp, LookUpReleases
  <2>3. CASE Probe(p) \/ LookUp(p)
    <3>1. \/ UNCHANGED lock
          \/ /\ lock[at[p]] = Free
             /\ lock' = [lock EXCEPT ![at[p]] = [by |-> p, tunnel |-> FALSE]]
      BY <2>3 DEF Probe, LookUp
    <3> QED
      BY <1>0, <1>o, <2>1, <2>2, <3>1, ProbeKeepsOwner, LockFields
  <2>4. CASE ProbeReleases(p) \/ LookUpReleases(p)
    <3>1. /\ lock[at[p]] = [by |-> p, tunnel |-> FALSE]
          /\ lock' = [lock EXCEPT ![at[p]] = Free]
      BY <1>0, <2>4 DEF ProbeReleases, LookUpReleases, ProbeHasLock, HasProbeLock
    <3> QED
      BY <1>0, <2>1, <2>2, <3>1, ProbeKeepsOwner, LockFields
  <2> QED
    BY <1>10, <2>3, <2>4
<1>11. ASSUME NEW p \in Process, Unlink(p) PROVE Steps
  <2>1. Owner' = Owner /\ Serving' = Serving /\ UNCHANGED warned
    BY <1>11, <1>o, <1>s DEF Unlink
  <2>2. at[p] \in Alias /\ block' = [block EXCEPT ![at[p]] = None]
    BY <1>0, <1>11 DEF Unlink, ProbeHasLock, LooksAt
  <2> QED
    BY <2>1, <2>2 DEF Exclusive!Next, Exclusive!Vanish, Owner, Serving
<1>12. ASSUME NEW p \in Process, Crash(p) PROVE Steps
  <2>1. lock' = [a \in Alias |-> IF lock[a].by = p THEN Free ELSE lock[a]]
        /\ UNCHANGED <<block, warned>>
    BY <1>12 DEF Crash
  <2>4. p \in Tunnel => pc' = [pc EXCEPT ![p] = "dead"]
    BY <1>12 DEF Crash
  <2>2. CASE p \in Tunnel /\ Owner[AliasOf[p]] = p
    <3>1. lock[AliasOf[p]].by = p
      BY <1>p, <2>2, ProcessAssumption DEF Owner
    <3>2. Exclusive!Owns(p)
      BY <2>2 DEF Exclusive!Owns, Owner
    <3>3. Owner' = [Owner EXCEPT ![AliasOf[p]] = None]
      <4>1. ASSUME NEW a \in Alias
            PROVE  Owner'[a] = IF a = AliasOf[p] THEN None ELSE Owner[a]
        <5>1. CASE lock[a].by = p
          <6>1. Owner'[a] = None
            BY <2>1, <5>1, LockFields DEF Owner
          <6>2. a = AliasOf[p] \/ Owner[a] = None
            BY <1>0, <5>1 DEF Owner, OwnLock
          <6> QED
            BY <6>1, <6>2
        <5>2. CASE lock[a].by # p
          <6>1. a # AliasOf[p]
            BY <3>1, <5>2
          <6>2. Owner'[a] = Owner[a]
            BY <2>1, <5>2 DEF Owner
          <6> QED
            BY <6>1, <6>2
        <5> QED
          BY <5>1, <5>2
      <4>2. Owner = [a \in Alias |-> Owner[a]] /\ Owner' = [a \in Alias |-> Owner'[a]]
        BY DEF Owner
      <4> QED
        BY <4>1, <4>2
    <3>4. Serving' = Serving \ {p}
      BY <1>0, <2>2, <2>4 DEF Serving, TypeOK
    <3> QED
      BY <2>1, <2>2, <3>2, <3>3, <3>4 DEF Exclusive!Next, Exclusive!Release, Owner, Serving
  <2>3. CASE ~(p \in Tunnel /\ Owner[AliasOf[p]] = p)
    <3>1. \A a \in Alias : lock[a].by = p => ~lock[a].tunnel
      BY <1>0, <2>3 DEF OwnLock, Owner
    <3>2. Owner' = Owner
      BY <2>1, <3>1, LockFields DEF Owner
    <3>3. p \in Tunnel => ~Running(p)
      BY <1>0, <1>p, <2>3, LockFields DEF LockInv, FreeLockMeansStale, Owner
    <3>4. Serving' = Serving
      BY <1>0, <1>s, <1>12, <2>4, <3>3 DEF Crash, Serving, TypeOK, Running
    <3> QED
      BY <2>1, <3>2, <3>4
  <2> QED
    BY <2>2, <2>3
<1>13. ASSUME NEW p \in Process, Scan(p) \/ NextFile(p) PROVE Steps
  BY <1>13, <1>o, <1>s DEF Scan, NextFile
<1>14. ASSUME NEW d \in Doctor, DoctorStarts(d) PROVE Steps
  BY <1>14, <1>o, <1>s DEF DoctorStarts
<1>17. ASSUME NEW t \in Tunnel, ProbeAlias(t) PROVE Steps
  <2>1. Serving' = Serving /\ UNCHANGED <<lock, block, warned>>
    BY <1>0, <1>17 DEF ProbeAlias, Serving, TypeOK
  <2> QED
    BY <1>o, <2>1
<1>18. ASSUME NEW p \in Process, Resolve(p) PROVE Steps
  <2>1. p \in Tunnel => pc[p] = "probing"
    BY <1>0, <1>18 DEF Resolve, ThreadsAwaited, Resolving
  <2>2. Serving' = Serving /\ UNCHANGED <<lock, block, warned>>
    BY <1>0, <1>18, <2>1 DEF Resolve, Serving, TypeOK
  <2> QED
    BY <1>o, <2>2
<1>15. ASSUME UNCHANGED vars PROVE Steps
  BY <1>15, <1>o, <1>s DEF vars
<1>16. Steps
  BY <1>1, <1>2, <1>3, <1>4, <1>5, <1>6, <1>7, <1>8, <1>9, <1>10, <1>11, <1>12,
     <1>13, <1>14, <1>15, <1>17, <1>18, <1>t DEF Next, PruneStep, ResolveStep
<1> QED
  BY <1>16, Mapping

\* When no thread outlasts its session, the locks and the blocks are an exclusive
\* alias: one owner at a time, whom alone `ssh <alias>` is ever newly sent to, and
\* who serves only an alias that leads to it, or nowhere, or with a warning.
THEOREM ExclusiveCorrect ==
  ASSUME ~SlowThreads
  PROVE  Spec => ImplementsExclusiveAlias
<1>1. Init => ExclusiveInv
  BY InitBlockInv, LockFields DEF Init, ExclusiveInv, OwnLock
<1>2. ExclusiveInv /\ [Next]_vars => ExclusiveInv'
  BY NextBlockInv, NextOwnLock DEF ExclusiveInv, BlockInv
<1>3. ExclusiveInv /\ [Next]_vars => [Exclusive!Next]_(Exclusive!vars)
  BY StepExclusive
<1> QED
  BY <1>1, <1>2, <1>3, InitExclusive, PTL
  DEF Spec, ImplementsExclusiveAlias, Exclusive!Spec
=============================================================================
