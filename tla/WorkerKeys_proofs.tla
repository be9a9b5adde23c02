--------------------------- MODULE WorkerKeys_proofs ---------------------------
(***************************************************************************)
(* That keys are never mixed, for any number of provisioning runs that     *)
(* race, fail and are killed.                                              *)
(***************************************************************************)
EXTENDS WorkerKeys, TLAPS

\* A run's name is neither of the words for a file without a key.
LEMMA Names == "absent" \notin Run /\ "empty" \notin Run
BY WorkerKeysAssumption

Place ==
  Over \cup {"look", "compare", "again", "create", "fill", "open", "publish", "restrict",
             "read", "retain", "truncate", "rewrite", "authorize", "put", "putPrivate",
             "putPublic", "validate"}

\* The types of what the keys depend on.
KeyTypes ==
  /\ private \in [Pair -> File] /\ public \in [Pair -> File]
  /\ at \in [Run -> Place] /\ pair \in [Run -> Pair]
  /\ client \in [Run -> File]

\* A run that has created the private key file, and not yet written the public one.
Making(r) == at[r] \in {"fill", "open", "publish"}

\* It found no file, so that nobody else is at that pair, and its key is in it.
MakersAlone ==
  /\ \A r \in Run :
       /\ at[r] = "fill" => private[pair[r]] = "empty"
       /\ at[r] \in {"open", "publish"} => private[pair[r]] = r
  /\ \A r, q \in Run : Making(r) /\ Making(q) /\ pair[r] = pair[q] => r = q

\* There is no public key without its private key.
PublicHasPrivate ==
  \A x \in Pair : Whole(public[x]) => private[x] = public[x]

KeyInv == KeyTypes /\ MakersAlone /\ PublicHasPrivate /\ AuthorizedKeyIsOurs

-----------------------------------------------------------------------------
LEMMA InitKeys == Init => KeyInv
<1> SUFFICES ASSUME Init PROVE KeyInv
  OBVIOUS
<1>1. KeyTypes
  BY DEF Init, KeyTypes, Place, File, Pair
<1>2. MakersAlone /\ AuthorizedKeyIsOurs
  BY DEF Init, MakersAlone, Making, AuthorizedKeyIsOurs
<1>3. PublicHasPrivate
  BY Names DEF Init, PublicHasPrivate, Whole
<1> QED
  BY <1>1, <1>2, <1>3 DEF KeyInv

\* What a run does to its own place, and to nothing that the keys depend on.
Moves(r, there) ==
  /\ at' = [at EXCEPT ![r] = there]
  /\ UNCHANGED <<private, public, client>>

Handing == {"put", "putPrivate", "putPublic", "validate"}

\* It makes no key, and the client key that it hands on, if it has one, is as it was.
LEMMA MovesKeepKeys ==
  ASSUME KeyInv, NEW r \in Run, NEW there \in Place, Moves(r, there),
         there \notin {"fill", "open", "publish"},
         there \in Handing => at[r] \in Handing,
         pair' \in [Run -> Pair], \A q \in Run : q # r => pair'[q] = pair[q]
  PROVE  KeyInv'
<1>1. KeyTypes'
  BY DEF KeyInv, KeyTypes, Moves
<1>2. MakersAlone'
  BY DEF KeyInv, KeyTypes, Moves, MakersAlone, Making
<1>3. PublicHasPrivate'
  BY DEF KeyInv, Moves, PublicHasPrivate, Whole
<1>4. AuthorizedKeyIsOurs'
  BY DEF KeyInv, KeyTypes, Moves, AuthorizedKeyIsOurs, Whole, Handing
<1> QED
  BY <1>1, <1>2, <1>3, <1>4 DEF KeyInv

LEMMA StepKeys ==
  ASSUME KeyInv, NEW r \in Run, Step(r)
  PROVE  KeyInv'
<1> USE Names DEF fileVars, readVars
<1>0. /\ pair[r] \in Pair /\ pair \in [Run -> Pair]
      /\ public["client"] \in File
  BY DEF KeyInv, KeyTypes, Pair
<1>1. CASE LookAtPrivate(r)
  <2>1. PICK there \in {"compare"} : Moves(r, there)
    BY <1>1 DEF LookAtPrivate, From, Moves
  <2>2. pair' = pair
    BY <1>1 DEF LookAtPrivate, From
  <2> QED
    BY <1>0, <2>1, <2>2, MovesKeepKeys DEF Place, Over, Handing
<1>2. CASE LookAtPublic(r)
  <2>1. PICK there \in {"again", "failed"} : Moves(r, there)
    BY <1>2 DEF LookAtPublic, From, Moves
  <2>2. pair' = pair
    BY <1>2 DEF LookAtPublic, From
  <2> QED
    BY <1>0, <2>1, <2>2, MovesKeepKeys DEF Place, Over, Handing
<1>3. CASE LookAgain(r)
  <2>1. PICK there \in {"create", "restrict"} : Moves(r, there)
    BY <1>3 DEF LookAgain, From, Moves
  <2>2. pair' = pair
    BY <1>3 DEF LookAgain, From
  <2> QED
    BY <1>0, <2>1, <2>2, MovesKeepKeys DEF Place, Over, Handing
<1>4. CASE CreatePrivate(r)
  <2>1. CASE private[pair[r]] # "absent"
    <3>1. Moves(r, "failed") /\ UNCHANGED pair
      BY <1>4, <2>1 DEF CreatePrivate, From, Moves
    <3> QED
      BY <1>0, <3>1, MovesKeepKeys DEF Place, Over, Handing
  <2>2. CASE private[pair[r]] = "absent"
    <3>1. /\ at' = [at EXCEPT ![r] = "fill"]
          /\ private' = [private EXCEPT ![pair[r]] = "empty"]
          /\ UNCHANGED <<public, pair, client>>
      BY <1>4, <2>2 DEF CreatePrivate, From
    <3>2. KeyTypes'
      BY <3>1 DEF KeyInv, KeyTypes, File, Place
    <3>3. \A q \in Run : Making(q) => pair[q] # pair[r]
      BY <2>2 DEF KeyInv, MakersAlone, Making
    <3>4. MakersAlone'
      BY <1>0, <3>1, <3>3 DEF KeyInv, KeyTypes, MakersAlone, Making
    <3>5. PublicHasPrivate'
      BY <2>2, <3>1 DEF KeyInv, KeyTypes, PublicHasPrivate, Whole
    <3>6. AuthorizedKeyIsOurs'
      BY <2>2, <3>1 DEF KeyInv, KeyTypes, AuthorizedKeyIsOurs, Whole, Pair
    <3> QED
      BY <3>2, <3>4, <3>5, <3>6 DEF KeyInv
  <2> QED
    BY <2>1, <2>2
<1>5. CASE FillPrivate(r)
  <2>1. /\ at[r] = "fill" /\ at' = [at EXCEPT ![r] = "open"]
        /\ private' = [private EXCEPT ![pair[r]] = r]
        /\ UNCHANGED <<public, pair, client>>
    BY <1>5 DEF FillPrivate, From
  <2>2. private[pair[r]] = "empty"
    BY <2>1 DEF KeyInv, MakersAlone
  <2>3. KeyTypes'
    BY <2>1 DEF KeyInv, KeyTypes, File, Place
  <2>4. \A q \in Run : q # r /\ Making(q) => pair[q] # pair[r]
    BY <2>1 DEF KeyInv, MakersAlone, Making
  <2>5. MakersAlone'
    BY <1>0, <2>1, <2>4 DEF KeyInv, KeyTypes, MakersAlone, Making
  <2>6. PublicHasPrivate'
    BY <2>1, <2>2 DEF KeyInv, KeyTypes, PublicHasPrivate, Whole
  <2>7. AuthorizedKeyIsOurs'
    BY <2>1, <2>2 DEF KeyInv, KeyTypes, AuthorizedKeyIsOurs, Whole, Pair
  <2> QED
    BY <2>3, <2>5, <2>6, <2>7 DEF KeyInv
<1>6. CASE OpenPublic(r)
  <2>1. /\ at[r] = "open" /\ at' = [at EXCEPT ![r] = "publish"]
        /\ public' = [public EXCEPT ![pair[r]] = "empty"]
        /\ UNCHANGED <<private, pair, client>>
    BY <1>6 DEF OpenPublic, From
  <2>2. private[pair[r]] = r
    BY <2>1 DEF KeyInv, MakersAlone
  <2>3. KeyTypes'
    BY <2>1 DEF KeyInv, KeyTypes, File, Place
  <2>4. MakersAlone'
    BY <2>1, <2>2 DEF KeyInv, KeyTypes, MakersAlone, Making
  <2>5. PublicHasPrivate'
    BY <2>1, <2>2 DEF KeyInv, KeyTypes, PublicHasPrivate, Whole
  <2>6. AuthorizedKeyIsOurs'
    BY <2>1 DEF KeyInv, KeyTypes, AuthorizedKeyIsOurs, Whole
  <2> QED
    BY <2>3, <2>4, <2>5, <2>6 DEF KeyInv
<1>7. CASE WritePublic(r)
  <2>1. /\ at[r] = "publish" /\ at' = [at EXCEPT ![r] = "restrict"]
        /\ public' = [public EXCEPT ![pair[r]] = r]
        /\ UNCHANGED <<private, pair, client>>
    BY <1>7 DEF WritePublic, From
  <2>2. private[pair[r]] = r
    BY <2>1 DEF KeyInv, MakersAlone
  <2>3. KeyTypes'
    BY <2>1 DEF KeyInv, KeyTypes, File, Place
  <2>4. MakersAlone'
    BY <2>1, <2>2 DEF KeyInv, KeyTypes, MakersAlone, Making
  <2>5. PublicHasPrivate'
    BY <2>1, <2>2 DEF KeyInv, KeyTypes, PublicHasPrivate, Whole
  <2>6. AuthorizedKeyIsOurs'
    BY <2>1 DEF KeyInv, KeyTypes, AuthorizedKeyIsOurs, Whole
  <2> QED
    BY <2>3, <2>4, <2>5, <2>6 DEF KeyInv
<1>8. CASE Restrict(r)
  <2>1. PICK there \in {"failed", "look", "read"} : Moves(r, there)
    BY <1>8 DEF Restrict, From, Moves
  <2>2. pair' = [pair EXCEPT ![r] = "host"]
    BY <1>8 DEF Restrict
  <2>3. pair' \in [Run -> Pair] /\ \A q \in Run : q # r => pair'[q] = pair[q]
    BY <1>0, <2>2 DEF Pair
  <2> QED
    BY <2>1, <2>3, MovesKeepKeys DEF Place, Over, Handing
<1>9. CASE ReadHostKey(r)
  <2>1. PICK there \in {"retain", "failed"} : Moves(r, there)
    BY <1>9 DEF ReadHostKey, From, Moves
  <2>2. pair' = pair
    BY <1>9 DEF ReadHostKey, From
  <2> QED
    BY <1>0, <2>1, <2>2, MovesKeepKeys DEF Place, Over, Handing
<1>10. CASE ReadKnownHosts(r)
  <2>1. PICK there \in {"truncate"} : Moves(r, there)
    BY <1>10 DEF ReadKnownHosts, From, Moves
  <2>2. pair' = pair
    BY <1>10 DEF ReadKnownHosts, From
  <2> QED
    BY <1>0, <2>1, <2>2, MovesKeepKeys DEF Place, Over, Handing
<1>11. CASE TruncateKnownHosts(r)
  <2>1. PICK there \in {"rewrite"} : Moves(r, there)
    BY <1>11 DEF TruncateKnownHosts, From, Moves
  <2>2. pair' = pair
    BY <1>11 DEF TruncateKnownHosts, From
  <2> QED
    BY <1>0, <2>1, <2>2, MovesKeepKeys DEF Place, Over, Handing
<1>12. CASE RewriteKnownHosts(r)
  <2>1. PICK there \in {"authorize"} : Moves(r, there)
    BY <1>12 DEF RewriteKnownHosts, From, Moves
  <2>2. pair' = pair
    BY <1>12 DEF RewriteKnownHosts, From
  <2> QED
    BY <1>0, <2>1, <2>2, MovesKeepKeys DEF Place, Over, Handing
<1>13. CASE AuthorizedKey(r)
  <2>1. /\ at' = [at EXCEPT ![r] = IF Whole(public["client"]) THEN "put" ELSE "failed"]
        /\ client' = [client EXCEPT ![r] = public["client"]]
        /\ UNCHANGED <<private, public, pair>>
    BY <1>13 DEF AuthorizedKey, From
  <2>2. KeyTypes'
    BY <1>0, <2>1 DEF KeyInv, KeyTypes, Place, Over
  <2>3. MakersAlone'
    BY <2>1 DEF KeyInv, KeyTypes, MakersAlone, Making
  <2>4. PublicHasPrivate'
    BY <2>1 DEF KeyInv, PublicHasPrivate, Whole
  <2>5. Whole(public["client"]) => private["client"] = public["client"]
    BY DEF KeyInv, PublicHasPrivate, Pair
  <2>6. AuthorizedKeyIsOurs'
    BY <2>1, <2>5 DEF KeyInv, KeyTypes, AuthorizedKeyIsOurs, Whole
  <2> QED
    BY <2>2, <2>3, <2>4, <2>6 DEF KeyInv
<1>14. CASE OpenRemote(r)
  <2>1. PICK there \in {"putPrivate", "failed"} : Moves(r, there)
    BY <1>14 DEF OpenRemote, From, Moves
  <2>2. pair' = pair /\ at[r] = "put"
    BY <1>14 DEF OpenRemote, From
  <2> QED
    BY <1>0, <2>1, <2>2, MovesKeepKeys DEF Place, Over, Handing
<1>15. CASE PutPrivate(r)
  <2>1. PICK there \in {"putPublic"} : Moves(r, there)
    BY <1>15 DEF PutPrivate, From, Moves
  <2>2. pair' = pair /\ at[r] = "putPrivate"
    BY <1>15 DEF PutPrivate, From
  <2> QED
    BY <1>0, <2>1, <2>2, MovesKeepKeys DEF Place, Over, Handing
<1>16. CASE PutPublic(r)
  <2>1. PICK there \in {"validate", "failed"} : Moves(r, there)
    BY <1>16 DEF PutPublic, From, Moves
  <2>2. pair' = pair /\ at[r] = "putPublic"
    BY <1>16 DEF PutPublic, From
  <2> QED
    BY <1>0, <2>1, <2>2, MovesKeepKeys DEF Place, Over, Handing
<1>17. CASE Validate(r)
  <2>1. PICK there \in {"done", "failed"} : Moves(r, there)
    BY <1>17 DEF Validate, From, Moves
  <2>2. pair' = pair
    BY <1>17 DEF Validate, From
  <2> QED
    BY <1>0, <2>1, <2>2, MovesKeepKeys DEF Place, Over, Handing
<1> QED
  BY <1>1, <1>2, <1>3, <1>4, <1>5, <1>6, <1>7, <1>8, <1>9,
     <1>10, <1>11, <1>12, <1>13, <1>14, <1>15, <1>16, <1>17 DEF Step

LEMMA CrashKeys ==
  ASSUME KeyInv, NEW r \in Run, Crash(r)
  PROVE  KeyInv'
<1>1. Moves(r, "killed") /\ UNCHANGED pair
  BY DEF Crash, Moves, fileVars, readVars
<1>2. pair \in [Run -> Pair]
  BY DEF KeyInv, KeyTypes
<1> QED
  BY <1>1, <1>2, MovesKeepKeys DEF Place, Over, Handing

\* Nobody is at a pair that is removed.
LEMMA RemoveKeys ==
  ASSUME KeyInv, NEW x \in Pair, RemovePair(x)
  PROVE  KeyInv'
<1>1. /\ private' = [private EXCEPT ![x] = "absent"]
      /\ public' = [public EXCEPT ![x] = "absent"]
      /\ UNCHANGED <<at, pair, client>>
      /\ \A r \in Run : Going(r) => at[r] = "look"
  BY DEF RemovePair, readVars
<1>2. KeyTypes'
  BY <1>1 DEF KeyInv, KeyTypes, File
<1>3. \A r \in Run : ~ Making(r) /\ at[r] \notin Handing
  BY <1>1 DEF Going, Over, Making, Handing
<1>4. MakersAlone' /\ AuthorizedKeyIsOurs'
  BY <1>1, <1>3 DEF MakersAlone, Making, AuthorizedKeyIsOurs, Handing
<1>5. PublicHasPrivate'
  BY <1>1, Names DEF KeyInv, KeyTypes, PublicHasPrivate, Whole
<1> QED
  BY <1>2, <1>4, <1>5 DEF KeyInv

LEMMA NextKeys == KeyInv /\ [Next]_vars => KeyInv'
<1> SUFFICES ASSUME KeyInv, [Next]_vars PROVE KeyInv'
  OBVIOUS
<1>1. CASE PruneAll \/ UNCHANGED vars
  <2>1. UNCHANGED <<private, public, at, pair, client>>
    BY <1>1 DEF PruneAll, vars, fileVars, readVars
  <2> QED
    BY <2>1
    DEF KeyInv, KeyTypes, MakersAlone, Making, PublicHasPrivate, AuthorizedKeyIsOurs, Whole
<1> QED
  BY <1>1, StepKeys, CrashKeys, RemoveKeys DEF Next

\* However many runs create, read, fail, are killed and have pairs removed at once, a
\* public key is never found with another private key, and what sshd is told to
\* authorize is the key that OpenSSH will use.
THEOREM KeysCorrect == Spec => []KeysAreSound
<1>1. KeyInv => KeysAreSound
  BY DEF KeyInv, PublicHasPrivate, KeysAreSound, PairsMatch
<1> QED
  BY <1>1, InitKeys, NextKeys, PTL DEF Spec

-----------------------------------------------------------------------------
(***************************************************************************)
(* What a completed run leaves behind.                                     *)
(***************************************************************************)

\* Who is making a pair finds no public key of it.
NoKeyYet == \A r \in Run : Making(r) => ~ Whole(public[pair[r]])

\* A run that has read the host key, and is not over.
Pinning(r) ==
  at[r] \in {"retain", "truncate", "rewrite", "authorize"} \cup Handing

\* The host key pair is in use: it was handed out, or will be.
InUse == standing \/ \E r \in Run : Pinning(r)

\* It is whole then, and the key that was read is its.
HostKeyStays ==
  /\ InUse => Whole(private["host"]) /\ public["host"] = private["host"]
  /\ \A r \in Run : Pinning(r) => hostKey[r] = private["host"]

Somebody(places) == \E r \in Run : at[r] \in places

\* It is the one that is pinned, unless known_hosts is being rewritten.
PinIsHostKey ==
  standing \/ Somebody({"authorize"} \cup Handing) =>
    known.pin = private["host"] \/ Somebody({"rewrite"})

\* It is the private key on the login node, unless that is being written, or was removed.
RemoteIsHostKey ==
  standing \/ Somebody({"putPublic", "validate"}) =>
    \/ remote.private \in {"absent", private["host"]}
    \/ remote.private = "empty" /\ Somebody({"putPrivate"})

\* So is the public key.
RemoteIsWhole ==
  (standing \/ Somebody({"validate"})) /\ remote.private # "absent" =>
    remote.public = private["host"] \/ Somebody({"putPrivate", "putPublic"})

\* As long as no run was killed.
NobodyKilled == \A r \in Run : at[r] # "killed"

Left ==
  /\ HostKeyStays /\ PinIsHostKey /\ RemoteIsHostKey /\ RemoteIsWhole
  /\ standing => remote.private # "absent"

LeftBehind == NobodyKilled => Left

LEMMA InitType == Init => TypeOK
<1> SUFFICES ASSUME Init PROVE TypeOK
  OBVIOUS
<1> USE DEF Init, File, Pair, Over
<1>1. {private, public} \subseteq [Pair -> File] /\ {hostKey, client} \subseteq [Run -> File]
  OBVIOUS
<1>2. known \in [pin : File, others : BOOLEAN]
  OBVIOUS
<1>3. copy \in [Run -> [pin : File, others : BOOLEAN]]
  BY <1>2
<1>4. remote \in [private : File, public : File] /\ pair \in [Run -> Pair]
  OBVIOUS
<1>5. saw \in [Run -> BOOLEAN] /\ standing \in BOOLEAN
  OBVIOUS
<1>6. crashes \in 0 .. MaxCrashes
  BY WorkerKeysAssumption
<1> QED
  BY <1>1, <1>2, <1>3, <1>4, <1>5, <1>6 DEF TypeOK

\* Where a run goes.
Goes(r, here, there) ==
  at[r] = here /\ at'[r] = there /\ \A q \in Run \ {r} : at'[q] = at[q]

LEMMA FromGoes ==
  ASSUME TypeOK, NEW r \in Run, NEW here, NEW there, From(r, here, there)
  PROVE  Goes(r, here, there)
BY DEF TypeOK, From, Goes

\* The types of the parts.
LEMMA Parts ==
  ASSUME TypeOK
  PROVE  /\ private \in [Pair -> File] /\ public \in [Pair -> File]
         /\ at \in [Run -> Place] /\ pair \in [Run -> Pair]
         /\ known \in [pin : File, others : BOOLEAN]
         /\ copy \in [Run -> [pin : File, others : BOOLEAN]]
         /\ remote \in [private : File, public : File]
         /\ hostKey \in [Run -> File] /\ client \in [Run -> File]
BY DEF TypeOK, Place

LEMMA StepType ==
  ASSUME TypeOK, NEW r \in Run, Step(r)
  PROVE  TypeOK'
<1> USE DEF fileVars, readVars, From
<1>0. /\ r \in File /\ "empty" \in File /\ "absent" \in File
      /\ private["client"] \in File /\ private["host"] \in File
      /\ public["client"] \in File /\ public["host"] \in File
      /\ pair[r] \in Pair /\ "host" \in Pair /\ hostKey[r] \in File
      /\ copy[r] \in [pin : File, others : BOOLEAN]
  BY Parts DEF File, Pair
<1>1. CASE LookAtPrivate(r)
  BY <1>1 DEF LookAtPrivate, TypeOK
<1>2. CASE LookAtPublic(r)
  BY <1>2 DEF LookAtPublic, TypeOK, Over
<1>3. CASE LookAgain(r)
  BY <1>3 DEF LookAgain, TypeOK
<1>4. CASE CreatePrivate(r)
  BY <1>0, <1>4 DEF CreatePrivate, TypeOK, Over
<1>5. CASE FillPrivate(r)
  BY <1>0, <1>5 DEF FillPrivate, TypeOK
<1>6. CASE OpenPublic(r)
  BY <1>0, <1>6 DEF OpenPublic, TypeOK
<1>7. CASE WritePublic(r)
  BY <1>0, <1>7 DEF WritePublic, TypeOK
<1>8. CASE Restrict(r)
  BY <1>0, <1>8 DEF Restrict, TypeOK, Over, Pair
<1>9. CASE ReadHostKey(r)
  BY <1>0, <1>9 DEF ReadHostKey, TypeOK, Over
<1>10. CASE ReadKnownHosts(r)
  BY <1>0, <1>10 DEF ReadKnownHosts, TypeOK
<1>11. CASE TruncateKnownHosts(r)
  BY <1>0, <1>11 DEF TruncateKnownHosts, TypeOK
<1>12. CASE RewriteKnownHosts(r)
  BY <1>0, <1>12 DEF RewriteKnownHosts, TypeOK
<1>13. CASE AuthorizedKey(r)
  BY <1>0, <1>13 DEF AuthorizedKey, TypeOK, Over
<1>14. CASE OpenRemote(r)
  BY <1>0, <1>14 DEF OpenRemote, TypeOK, Over
<1>15. CASE PutPrivate(r)
  BY <1>0, <1>15 DEF PutPrivate, TypeOK
<1>16. CASE PutPublic(r)
  BY <1>0, <1>16 DEF PutPublic, TypeOK, Over
<1>17. CASE Validate(r)
  BY <1>17 DEF Validate, TypeOK, Over
<1> QED
  BY <1>1, <1>2, <1>3, <1>4, <1>5, <1>6, <1>7, <1>8, <1>9,
     <1>10, <1>11, <1>12, <1>13, <1>14, <1>15, <1>16, <1>17 DEF Step

LEMMA NextType == TypeOK /\ [Next]_vars => TypeOK'
<1> SUFFICES ASSUME TypeOK, [Next]_vars PROVE TypeOK'
  OBVIOUS
<1>1. ASSUME NEW r \in Run, Crash(r) PROVE TypeOK'
  BY <1>1, WorkerKeysAssumption DEF Crash, TypeOK, fileVars, readVars, Over
<1>2. ASSUME NEW x \in Pair, RemovePair(x) PROVE TypeOK'
  <2>1. private' \in [Pair -> File] /\ public' \in [Pair -> File]
    BY <1>2, Parts DEF RemovePair, File
  <2>2. /\ standing' = FALSE
        /\ UNCHANGED <<known, remote, at, pair, readVars, crashes>>
    BY <1>2 DEF RemovePair
  <2> QED
    BY <2>1, <2>2 DEF TypeOK, readVars
<1>3. CASE PruneAll
  BY <1>3 DEF PruneAll, TypeOK, readVars, File
<1>4. CASE UNCHANGED vars
  BY <1>4 DEF vars, TypeOK, fileVars, readVars
<1> QED
  BY <1>1, <1>2, <1>3, <1>4, StepType DEF Next

\* Files, keys and places have their types, and nothing is pinned before both pairs were
\* seen to.
THEOREM TypeCorrect == Spec => []TypeOK
BY InitType, NextType, PTL DEF Spec

-----------------------------------------------------------------------------
\* Nobody makes a pair whose public key is there: its private key would be, too.
LEMMA NextNoKey ==
  ASSUME TypeOK, KeyInv, NoKeyYet, [Next]_vars
  PROVE  NoKeyYet'
<1> USE Names DEF fileVars, readVars, NoKeyYet, Making, Whole
<1>1. ASSUME NEW r \in Run, Step(r) PROVE NoKeyYet'
  <2> USE <1>1, Parts DEF From
  <2>1. CASE CreatePrivate(r)
    <3>1. private[pair[r]] = "absent" => public[pair[r]] \notin Run
      BY DEF KeyInv, PublicHasPrivate
    <3> QED
      BY <2>1, <3>1 DEF CreatePrivate
  <2>2. CASE FillPrivate(r)
    BY <2>2 DEF FillPrivate
  <2>3. CASE OpenPublic(r)
    BY <2>3 DEF OpenPublic
  <2>4. CASE WritePublic(r)
    <3>1. \A q \in Run : q # r /\ Making(q) => pair[q] # pair[r]
      BY <2>4 DEF WritePublic, KeyInv, MakersAlone
    <3> QED
      BY <2>4, <3>1 DEF WritePublic
  <2>5. CASE Restrict(r)
    BY <2>5 DEF Restrict
  <2>6. CASE LookAtPrivate(r) \/ LookAtPublic(r) \/ LookAgain(r)
    BY <2>6 DEF LookAtPrivate, LookAtPublic, LookAgain
  <2>7. CASE ReadHostKey(r) \/ ReadKnownHosts(r) \/ TruncateKnownHosts(r)
             \/ RewriteKnownHosts(r) \/ AuthorizedKey(r)
    BY <2>7 DEF ReadHostKey, ReadKnownHosts, TruncateKnownHosts, RewriteKnownHosts,
                AuthorizedKey
  <2>8. CASE OpenRemote(r) \/ PutPrivate(r) \/ PutPublic(r) \/ Validate(r)
    BY <2>8 DEF OpenRemote, PutPrivate, PutPublic, Validate
  <2> QED
    BY <2>1, <2>2, <2>3, <2>4, <2>5, <2>6, <2>7, <2>8 DEF Step
<1>2. ASSUME NEW r \in Run, Crash(r) PROVE NoKeyYet'
  BY <1>2, Parts DEF Crash
<1>3. ASSUME NEW x \in Pair, RemovePair(x) PROVE NoKeyYet'
  BY <1>3, Parts DEF RemovePair, Going, Over
<1>4. CASE PruneAll \/ UNCHANGED vars
  BY <1>4 DEF PruneAll, vars
<1> QED
  BY <1>1, <1>2, <1>3, <1>4 DEF Next

-----------------------------------------------------------------------------
\* Nothing was left behind if nobody has come as far, or what was is removed.
LEMMA NothingLeft ==
  ASSUME ~ InUse'
  PROVE  Left'
BY DEF InUse, Pinning, Left, HostKeyStays, PinIsHostKey, RemoteIsHostKey, RemoteIsWhole,
       Somebody, Handing

\* A run that has not come as far changes nothing of it.
LEMMA Outside ==
  ASSUME TypeOK, Left, NEW r \in Run, ~ Pinning(r), ~ Pinning(r)',
         \A q \in Run \ {r} : at'[q] = at[q],
         private'["host"] = private["host"], public'["host"] = public["host"],
         hostKey'= hostKey \/ hostKey' = [hostKey EXCEPT ![r] = public["host"]],
         UNCHANGED <<known, remote, standing>>
  PROVE  Left'
<1> USE DEF Pinning, Handing, Somebody
<1>1. \A q \in Run : Pinning(q)' <=> Pinning(q)
  OBVIOUS
<1>2. InUse' <=> InUse
  BY <1>1 DEF InUse
<1>3. \A q \in Run : Pinning(q)' => hostKey'[q] = hostKey[q]
  BY Parts
<1>4. HostKeyStays'
  <2> HIDE DEF Pinning
  <2> QED
    BY <1>1, <1>2, <1>3 DEF Left, HostKeyStays, Whole
<1>5. PinIsHostKey'
  BY DEF Left, PinIsHostKey
<1>6. RemoteIsHostKey'
  BY DEF Left, RemoteIsHostKey
<1>7. RemoteIsWhole'
  BY DEF Left, RemoteIsWhole
<1> QED
  BY <1>4, <1>5, <1>6, <1>7 DEF Left

\* Nobody makes a host key pair that is in use, so that it stays.
LEMMA MakersLeft ==
  ASSUME TypeOK, KeyInv, NoKeyYet, Left, NEW r \in Run,
         CreatePrivate(r) \/ FillPrivate(r) \/ OpenPublic(r) \/ WritePublic(r)
  PROVE  Left'
<1> USE Names, Parts DEF fileVars, readVars, From
<1>1. /\ ~ Pinning(r) /\ ~ Pinning(r)' /\ \A q \in Run \ {r} : at'[q] = at[q]
      /\ UNCHANGED <<known, remote, standing, hostKey, pair>>
  BY DEF CreatePrivate, FillPrivate, OpenPublic, WritePublic, Pinning, Handing
<1>2. \/ UNCHANGED <<private, public>>
      \/ private[pair[r]] \in {"absent", "empty"} \/ ~ Whole(public[pair[r]])
  BY DEF CreatePrivate, FillPrivate, OpenPublic, WritePublic, KeyInv, MakersAlone, NoKeyYet,
         Making
<1>3. CASE UNCHANGED <<private, public>>
  BY <1>1, <1>3, Outside
<1>4. CASE pair[r] # "host"
  <2>1. private'["host"] = private["host"] /\ public'["host"] = public["host"]
    BY <1>4 DEF CreatePrivate, FillPrivate, OpenPublic, WritePublic, Pair
  <2> QED
    BY <1>1, <2>1, Outside
<1>5. CASE pair[r] = "host" /\ ~ UNCHANGED <<private, public>>
  <2>1. ~ InUse
    BY <1>2, <1>5 DEF Left, HostKeyStays, Whole
  <2>2. ~ InUse'
    BY <1>1, <2>1 DEF InUse, Pinning
  <2> QED
    BY <2>2, NothingLeft
<1> QED
  BY <1>3, <1>4, <1>5

\* A run that goes on, having read the host key, leaves that key as it is.
LEMMA HostKeyKept ==
  ASSUME HostKeyStays, NEW r \in Run, Pinning(r),
         \A q \in Run \ {r} : at'[q] = at[q],
         standing' \in {standing, TRUE}, UNCHANGED <<private, public, hostKey>>
  PROVE  /\ HostKeyStays' /\ Whole(private["host"])
         /\ public["host"] = private["host"] /\ hostKey[r] = private["host"]
<1>1. InUse
  BY DEF InUse
<1>2. \A q \in Run : Pinning(q)' => Pinning(q)
  BY DEF Pinning
<1> QED
  BY <1>1, <1>2 DEF HostKeyStays, Whole

LEMMA PinningLeft ==
  ASSUME TypeOK, KeyInv, Left, NEW r \in Run,
         \/ ReadHostKey(r) \/ ReadKnownHosts(r) \/ TruncateKnownHosts(r)
         \/ RewriteKnownHosts(r) \/ AuthorizedKey(r)
  PROVE  Left'
<1> USE Names, Parts DEF fileVars, readVars, Goes
<1>1. CASE ReadHostKey(r)
  <2>1. Goes(r, "read", IF Whole(public["host"]) THEN "retain" ELSE "failed")
    BY <1>1, FromGoes DEF ReadHostKey
  <2>2. /\ hostKey' = [hostKey EXCEPT ![r] = public["host"]]
        /\ UNCHANGED <<private, public, known, remote, standing>>
    BY <1>1 DEF ReadHostKey
  <2>3. CASE ~ Whole(public["host"])
    BY <2>1, <2>2, <2>3, Outside DEF Pinning, Handing
  <2>4. CASE Whole(public["host"])
    <3>1. public["host"] = private["host"]
      BY <2>4 DEF KeyInv, PublicHasPrivate, Pair
    <3>2. \A q \in Run \ {r} : (Pinning(q)' <=> Pinning(q)) /\ hostKey'[q] = hostKey[q]
      BY <2>1, <2>2 DEF Pinning
    <3>3. hostKey'[r] = private["host"]
      BY <2>2, <3>1
    <3>4. HostKeyStays'
      BY <2>2, <2>4, <3>1, <3>2, <3>3 DEF Left, HostKeyStays, Whole
    <3>5. PinIsHostKey' /\ RemoteIsHostKey' /\ RemoteIsWhole'
      BY <2>1, <2>2, <2>4
      DEF Left, PinIsHostKey, RemoteIsHostKey, RemoteIsWhole, Somebody, Handing
    <3> QED
      BY <2>2, <3>4, <3>5 DEF Left
  <2> QED
    BY <2>3, <2>4
<1>2. CASE ReadKnownHosts(r)
  <2>1. /\ Goes(r, "retain", "truncate")
        /\ UNCHANGED <<private, public, hostKey, known, remote, standing>>
    BY <1>2, FromGoes DEF ReadKnownHosts
  <2>2. HostKeyStays'
    BY <2>1, HostKeyKept DEF Left, Pinning
  <2>3. PinIsHostKey' /\ RemoteIsHostKey' /\ RemoteIsWhole'
    BY <2>1 DEF Left, PinIsHostKey, RemoteIsHostKey, RemoteIsWhole, Somebody, Handing
  <2> QED
    BY <2>1, <2>2, <2>3 DEF Left
<1>3. CASE TruncateKnownHosts(r)
  <2>1. /\ Goes(r, "truncate", "rewrite")
        /\ UNCHANGED <<private, public, hostKey, remote, standing>>
    BY <1>3, FromGoes DEF TruncateKnownHosts
  <2>2. HostKeyStays'
    BY <2>1, HostKeyKept DEF Left, Pinning
  <2>3. PinIsHostKey'
    BY <2>1 DEF PinIsHostKey, Somebody
  <2>4. RemoteIsHostKey' /\ RemoteIsWhole'
    BY <2>1 DEF Left, RemoteIsHostKey, RemoteIsWhole, Somebody
  <2> QED
    BY <2>1, <2>2, <2>3, <2>4 DEF Left
<1>4. CASE RewriteKnownHosts(r)
  <2>1. /\ Goes(r, "rewrite", "authorize")
        /\ UNCHANGED <<private, public, hostKey, remote, standing>>
    BY <1>4, FromGoes DEF RewriteKnownHosts
  <2>2. HostKeyStays' /\ hostKey[r] = private["host"]
    BY <2>1, HostKeyKept DEF Left, Pinning
  <2>3. known'.pin = hostKey[r]
    BY <1>4 DEF RewriteKnownHosts
  <2>4. PinIsHostKey'
    BY <2>1, <2>2, <2>3 DEF PinIsHostKey
  <2>5. RemoteIsHostKey' /\ RemoteIsWhole'
    BY <2>1 DEF Left, RemoteIsHostKey, RemoteIsWhole, Somebody
  <2> QED
    BY <2>1, <2>2, <2>4, <2>5 DEF Left
<1>5. CASE AuthorizedKey(r)
  <2>1. PICK there \in {"put", "failed"} : Goes(r, "authorize", there)
    BY <1>5, FromGoes DEF AuthorizedKey
  <2>2. UNCHANGED <<private, public, hostKey, known, remote, standing>>
    BY <1>5 DEF AuthorizedKey
  <2>3. HostKeyStays'
    BY <2>1, <2>2, HostKeyKept DEF Left, Pinning
  <2>4. PinIsHostKey' /\ RemoteIsHostKey' /\ RemoteIsWhole'
    BY <2>1, <2>2
    DEF Left, PinIsHostKey, RemoteIsHostKey, RemoteIsWhole, Somebody, Handing
  <2> QED
    BY <2>2, <2>3, <2>4 DEF Left
<1> QED
  BY <1>1, <1>2, <1>3, <1>4, <1>5

\* What is put on the login node is the local host key, whoever puts it.
LEMMA HandingLeft ==
  ASSUME TypeOK, Left, NEW r \in Run,
         OpenRemote(r) \/ PutPrivate(r) \/ PutPublic(r) \/ Validate(r)
  PROVE  Left'
<1> USE Names, Parts DEF fileVars, readVars
<1>1. CASE OpenRemote(r)
  <2>1. UNCHANGED <<private, public, hostKey, known, standing>>
    BY <1>1 DEF OpenRemote
  <2>2. PICK there : Goes(r, "put", there)
    BY <1>1, FromGoes DEF OpenRemote
  <2>3. HostKeyStays' /\ private["host"] # "absent"
    BY <2>1, <2>2, HostKeyKept DEF Left, Pinning, Handing, Goes, Whole
  <2>4. Goes(r, "put", "putPrivate") /\ remote' = [remote EXCEPT !.private = "empty"]
    BY <1>1, <2>3, FromGoes DEF OpenRemote
  <2>5. remote'.private = "empty" /\ remote'.public = remote.public
    BY <2>4
  <2>6. PinIsHostKey'
    BY <2>1, <2>4 DEF Left, PinIsHostKey, Somebody, Handing, Goes
  <2>7. RemoteIsHostKey' /\ RemoteIsWhole'
    BY <2>4, <2>5 DEF RemoteIsHostKey, RemoteIsWhole, Somebody, Goes
  <2> QED
    BY <2>3, <2>5, <2>6, <2>7 DEF Left
<1>2. CASE PutPrivate(r)
  <2>1. /\ Goes(r, "putPrivate", "putPublic")
        /\ UNCHANGED <<private, public, hostKey, known, standing>>
    BY <1>2, FromGoes DEF PutPrivate
  <2>2. HostKeyStays' /\ private["host"] # "absent"
    BY <2>1, HostKeyKept DEF Left, Pinning, Handing, Goes, Whole
  <2>3. /\ remote'.private = IF remote.private = "absent" THEN "absent" ELSE private["host"]
        /\ remote'.public = remote.public
    BY <1>2 DEF PutPrivate
  <2>4. PinIsHostKey'
    BY <2>1 DEF Left, PinIsHostKey, Somebody, Handing, Goes
  <2>5. RemoteIsHostKey' /\ RemoteIsWhole'
    BY <2>1, <2>3 DEF RemoteIsHostKey, RemoteIsWhole, Somebody, Goes
  <2>6. standing' => remote'.private # "absent"
    BY <2>1, <2>2, <2>3 DEF Left
  <2> QED
    BY <2>2, <2>4, <2>5, <2>6 DEF Left
<1>3. CASE PutPublic(r)
  <2>1. UNCHANGED <<private, public, hostKey, known, standing>>
    BY <1>3 DEF PutPublic
  <2>2. PICK there \in {"failed", "validate"} : Goes(r, "putPublic", there)
    BY <1>3, FromGoes DEF PutPublic
  <2>3. HostKeyStays' /\ public["host"] = private["host"] /\ private["host"] # "absent"
    BY <2>1, <2>2, HostKeyKept DEF Left, Pinning, Handing, Goes, Whole
  <2>4. /\ remote'.private = remote.private
        /\ remote.private = "absent" \/ remote'.public = private["host"]
    BY <1>3, <2>3 DEF PutPublic
  <2>5. PinIsHostKey'
    BY <2>1, <2>2 DEF Left, PinIsHostKey, Somebody, Handing, Goes
  <2>6. RemoteIsHostKey'
    BY <2>1, <2>2, <2>4 DEF Left, RemoteIsHostKey, Somebody, Goes
  <2>7. RemoteIsWhole'
    BY <2>1, <2>4 DEF RemoteIsWhole
  <2> QED
    BY <2>1, <2>3, <2>4, <2>5, <2>6, <2>7 DEF Left
<1>4. CASE Validate(r)
  <2>1. UNCHANGED <<private, public, hostKey, known, remote>>
    BY <1>4 DEF Validate
  <2>2. PICK there \in {"failed", "done"} : Goes(r, "validate", there)
    BY <1>4, FromGoes DEF Validate
  <2>3. standing' \in {standing, TRUE} /\ (standing' => standing \/ remote.private # "absent")
    <3>1. standing' = (standing \/ Whole(remote.private))
      BY <1>4 DEF Validate
    <3>2. standing \in BOOLEAN
      BY DEF TypeOK
    <3> QED
      BY <3>1, <3>2, Names DEF Whole
  <2>4. HostKeyStays'
    BY <2>1, <2>2, <2>3, HostKeyKept DEF Left, Pinning, Handing, Goes
  <2>5. PinIsHostKey'
    BY <2>1, <2>2 DEF Left, PinIsHostKey, Somebody, Handing, Goes
  <2>6. RemoteIsHostKey'
    BY <2>1, <2>2 DEF Left, RemoteIsHostKey, Somebody, Goes
  <2>7. RemoteIsWhole'
    BY <2>1, <2>2 DEF Left, RemoteIsWhole, Somebody, Goes
  <2> QED
    BY <2>1, <2>3, <2>4, <2>5, <2>6, <2>7 DEF Left
<1> QED
  BY <1>1, <1>2, <1>3, <1>4

LEMMA NextLeft ==
  ASSUME TypeOK, KeyInv, NoKeyYet, LeftBehind, [Next]_vars
  PROVE  LeftBehind'
<1> USE Names, Parts DEF fileVars, readVars
<1> SUFFICES ASSUME NobodyKilled' PROVE Left'
  BY DEF LeftBehind
<1>1. NobodyKilled
  <2> SUFFICES ASSUME NEW q \in Run, at[q] = "killed" PROVE at'[q] = "killed"
    BY DEF NobodyKilled
  <2>1. ASSUME NEW r \in Run, Step(r) PROVE at'[q] = "killed"
    BY <2>1
    DEF Step, LookAtPrivate, LookAtPublic, LookAgain, CreatePrivate, FillPrivate, OpenPublic,
        WritePublic, Restrict, ReadHostKey, ReadKnownHosts, TruncateKnownHosts,
        RewriteKnownHosts, AuthorizedKey, OpenRemote, PutPrivate, PutPublic, Validate, From
  <2>2. ASSUME NEW r \in Run, Crash(r) PROVE at'[q] = "killed"
    BY <2>2 DEF Crash
  <2> QED
    BY <2>1, <2>2 DEF Next, RemovePair, PruneAll, vars
<1>2. Left
  BY <1>1 DEF LeftBehind
<1>3. ASSUME NEW r \in Run, Step(r) PROVE Left'
  <2>1. CASE LookAtPrivate(r) \/ LookAtPublic(r) \/ LookAgain(r) \/ Restrict(r)
    <3>1. /\ ~ Pinning(r) /\ ~ Pinning(r)' /\ \A q \in Run \ {r} : at'[q] = at[q]
          /\ UNCHANGED <<private, public, known, remote, standing, hostKey>>
      BY <2>1
      DEF LookAtPrivate, LookAtPublic, LookAgain, Restrict, From, Pinning, Handing
    <3> QED
      BY <1>2, <3>1, Outside
  <2> QED
    BY <1>2, <1>3, <2>1, MakersLeft, PinningLeft, HandingLeft DEF Step
<1>4. ASSUME NEW r \in Run, Crash(r) PROVE Left'
  BY <1>4 DEF Crash, NobodyKilled
<1>5. ASSUME NEW x \in Pair, RemovePair(x) PROVE Left'
  <2>1. ~ InUse'
    BY <1>5 DEF RemovePair, InUse, Pinning, Handing, Going, Over
  <2> QED
    BY <2>1, NothingLeft
<1>6. CASE PruneAll
  <2>1. /\ remote'.private = "absent" /\ ~ standing'
        /\ UNCHANGED <<private, public, known, at, hostKey>>
    BY <1>6 DEF PruneAll
  <2>2. HostKeyStays'
    BY <1>2, <2>1 DEF Left, HostKeyStays, InUse, Pinning, Whole
  <2>3. PinIsHostKey' /\ RemoteIsHostKey' /\ RemoteIsWhole'
    BY <1>2, <2>1 DEF Left, PinIsHostKey, RemoteIsHostKey, RemoteIsWhole, Somebody
  <2> QED
    BY <2>1, <2>2, <2>3 DEF Left
<1>7. CASE UNCHANGED vars
  BY <1>2, <1>7
  DEF vars, Left, HostKeyStays, InUse, Pinning, Whole, PinIsHostKey, RemoteIsHostKey,
      RemoteIsWhole, Somebody
<1> QED
  BY <1>3, <1>4, <1>5, <1>6, <1>7 DEF Next

\* What a completed run leaves behind works together, however many others raced it, failed,
\* or were made void by the removal of a pair or of the directory on the login node: the
\* login node has the whole local host key pair, and that host key is pinned.
THEOREM ProvisionCorrect == Spec => []ProvisionedMatches
<1> DEFINE Inv == TypeOK /\ KeyInv /\ NoKeyYet /\ LeftBehind
<1>1. Init => Inv
  <2> SUFFICES ASSUME Init PROVE Inv
    OBVIOUS
  <2>1. ~ InUse
    BY DEF Init, InUse, Pinning, Handing
  <2>2. LeftBehind
    BY <2>1 DEF LeftBehind, Left, InUse, Pinning, Handing, HostKeyStays, PinIsHostKey,
                RemoteIsHostKey, RemoteIsWhole, Somebody
  <2>3. NoKeyYet
    BY DEF Init, NoKeyYet, Making
  <2> QED
    BY <2>2, <2>3, InitType, InitKeys
<1>2. Inv /\ [Next]_vars => Inv'
  BY NextType, NextKeys, NextNoKey, NextLeft
<1>3. Inv => ProvisionedMatches
  <2> SUFFICES ASSUME Inv, standing, \A r \in Run : at[r] \in {"done", "failed", "look"}
               PROVE  /\ Whole(private["host"])
                      /\ remote = [private |-> private["host"], public |-> private["host"]]
                      /\ known.pin = private["host"]
    BY DEF ProvisionedMatches
  <2>1. Left
    BY DEF LeftBehind, NobodyKilled
  <2>2. Whole(private["host"]) /\ known.pin = private["host"]
    BY <2>1 DEF Left, HostKeyStays, InUse, PinIsHostKey, Somebody
  <2>3. remote.private = private["host"]
    BY <2>1 DEF Left, RemoteIsHostKey, Somebody
  <2>4. remote.public = private["host"]
    BY <2>1 DEF Left, RemoteIsWhole, Somebody
  <2>5. remote = [private |-> remote.private, public |-> remote.public]
    BY Parts
  <2> QED
    BY <2>2, <2>3, <2>4, <2>5
<1> QED
  BY <1>1, <1>2, <1>3, PTL DEF Spec
==============================================================================
