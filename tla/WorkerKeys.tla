------------------------------ MODULE WorkerKeys ------------------------------
(***************************************************************************)
(* The worker's SSH credentials: creating the client and the host key pair *)
(* on this machine and pinning the host key (provision_local.py), and      *)
(* copying the host key pair to the login node (provision_host.py).        *)
(* `ezhpcy provision` and tunnels that provision by themselves run at the  *)
(* same time, on the same files, and any of them may be killed between two *)
(* steps.  A file is opened empty and written afterwards.                  *)
(***************************************************************************)
EXTENDS Naturals, FiniteSets

CONSTANTS
  Run,         \* provisioning runs; the keys a run generates bear its name
  MaxCrashes   \* bound: runs that are killed

ASSUME WorkerKeysAssumption ==
  /\ MaxCrashes \in Nat
  /\ "absent" \notin Run /\ "empty" \notin Run

Pair == {"client", "host"}
File == Run \cup {"absent", "empty"}

VARIABLES
  private,   \* the private key file of each pair
  public,    \* the public key file of each pair
  known,     \* known_hosts: the pinned key, and whether unrelated lines are there
  remote,    \* the host key pair on the login node
  at,        \* where each run is
  pair,      \* the pair it is at
  saw,       \* it saw the private key file
  hostKey,   \* the host public key it read
  copy,      \* what it read from known_hosts
  client,    \* the client key it returned for sshd to authorize
  crashes,   \* runs killed so far
  standing   \* a run has completed, and nothing it did was removed since

fileVars == <<private, public, known, remote>>
readVars == <<saw, hostKey, copy, client>>
vars == <<fileVars, at, pair, readVars, crashes, standing>>

Init ==
  /\ private = [x \in Pair |-> "absent"]
  /\ public = [x \in Pair |-> "absent"]
  /\ known = [pin |-> "absent", others |-> TRUE]
  /\ remote = [private |-> "absent", public |-> "absent"]
  /\ at = [r \in Run |-> "look"]
  /\ pair = [r \in Run |-> "client"]
  /\ saw = [r \in Run |-> FALSE]
  /\ hostKey = [r \in Run |-> "absent"]
  /\ copy = [r \in Run |-> known]
  /\ client = [r \in Run |-> "absent"]
  /\ crashes = 0 /\ standing = FALSE

Over == {"done", "failed", "killed"}
Going(r) == at[r] \notin Over
From(r, here, there) == at[r] = here /\ at' = [at EXCEPT ![r] = there]
Whole(f) == f \in Run

------------------------------------------------------------------------------
(* ensure_local_keys: _ensure_key_pair, for the client and then for the host *)

LookAtPrivate(r) ==
  /\ From(r, "look", "compare")
  /\ saw' = [saw EXCEPT ![r] = private[pair[r]] # "absent"]
  /\ UNCHANGED <<fileVars, pair, hostKey, copy, client, crashes, standing>>

\* Only one of the two files is there: the pair is incomplete.
LookAtPublic(r) ==
  /\ LET there == public[pair[r]] # "absent"
     IN  From(r, "compare", IF saw[r] = there THEN "again" ELSE "failed")
  /\ UNCHANGED <<fileVars, pair, readVars, crashes, standing>>

LookAgain(r) ==
  /\ From(r, "again", IF private[pair[r]] = "absent" THEN "create" ELSE "restrict")
  /\ UNCHANGED <<fileVars, pair, readVars, crashes, standing>>

\* Mutant of CreatePrivate: a file that has appeared meanwhile is opened.
CreateOrOpen(r) ==
  /\ From(r, "create", "fill")
  /\ private' = [private EXCEPT ![pair[r]] = "empty"]
  /\ UNCHANGED <<public, known, remote, pair, readVars, crashes, standing>>

\* The private key file is created, unless one has appeared meanwhile (O_EXCL).
CreatePrivate(r) ==
  \/ /\ private[pair[r]] = "absent"
     /\ From(r, "create", "fill")
     /\ private' = [private EXCEPT ![pair[r]] = "empty"]
     /\ UNCHANGED <<public, known, remote, pair, readVars, crashes, standing>>
  \/ /\ private[pair[r]] # "absent"
     /\ From(r, "create", "failed")
     /\ UNCHANGED <<fileVars, pair, readVars, crashes, standing>>

FillPrivate(r) ==
  /\ From(r, "fill", "open")
  /\ private' = [private EXCEPT ![pair[r]] = r]
  /\ UNCHANGED <<public, known, remote, pair, readVars, crashes, standing>>

OpenPublic(r) ==
  /\ From(r, "open", "publish")
  /\ public' = [public EXCEPT ![pair[r]] = "empty"]
  /\ UNCHANGED <<private, known, remote, pair, readVars, crashes, standing>>

WritePublic(r) ==
  /\ From(r, "publish", "restrict")
  /\ public' = [public EXCEPT ![pair[r]] = r]
  /\ UNCHANGED <<private, known, remote, pair, readVars, crashes, standing>>

\* Mutant of Restrict: the host key pair is passed over.
RestrictClientOnly(r) ==
  /\ From(r, "restrict", IF public[pair[r]] = "absent" THEN "failed" ELSE "read")
  /\ UNCHANGED <<fileVars, pair, readVars, crashes, standing>>

\* The modes of both files are set, so both must be there.
Restrict(r) ==
  /\ IF "absent" \in {private[pair[r]], public[pair[r]]} THEN From(r, "restrict", "failed")
     ELSE From(r, "restrict", IF pair[r] = "client" THEN "look" ELSE "read")
  /\ pair' = [pair EXCEPT ![r] = "host"]
  /\ UNCHANGED <<fileVars, readVars, crashes, standing>>

------------------------------------------------------------------------------
(* pin_host_key and authorized_key *)

\* The host public key is read; one that is missing or malformed is an error.
ReadHostKey(r) ==
  /\ From(r, "read", IF Whole(public["host"]) THEN "retain" ELSE "failed")
  /\ hostKey' = [hostKey EXCEPT ![r] = public["host"]]
  /\ UNCHANGED <<fileVars, pair, saw, copy, client, crashes, standing>>

\* The lines of known_hosts are read, ...
ReadKnownHosts(r) ==
  /\ From(r, "retain", "truncate")
  /\ copy' = [copy EXCEPT ![r] = known]
  /\ UNCHANGED <<fileVars, pair, saw, hostKey, client, crashes, standing>>

\* ... the file is opened for writing, which empties it, ...
TruncateKnownHosts(r) ==
  /\ From(r, "truncate", "rewrite")
  /\ known' = [pin |-> "absent", others |-> FALSE]
  /\ UNCHANGED <<private, public, remote, pair, readVars, crashes, standing>>

\* ... and written: the lines of other hosts, and the new pin.
RewriteKnownHosts(r) ==
  /\ From(r, "rewrite", "authorize")
  /\ known' = [copy[r] EXCEPT !.pin = hostKey[r]]
  /\ UNCHANGED <<private, public, remote, pair, readVars, crashes, standing>>

\* `authorized_key`: the client public key is read; it must be a key.
AuthorizedKey(r) ==
  /\ From(r, "authorize", IF Whole(public["client"]) THEN "put" ELSE "failed")
  /\ client' = [client EXCEPT ![r] = public["client"]]
  /\ UNCHANGED <<fileVars, pair, saw, hostKey, copy, crashes, standing>>

------------------------------------------------------------------------------
(* provision_sshd_files: the host key pair on the login node *)

\* `sftp.put` of the private key: the remote file is opened ...
OpenRemote(r) ==
  /\ From(r, "put", IF private["host"] = "absent" THEN "failed" ELSE "putPrivate")
  /\ remote' = IF private["host"] = "absent" THEN remote
                 ELSE [remote EXCEPT !.private = "empty"]
  /\ UNCHANGED <<private, public, known, pair, readVars, crashes, standing>>

\* ... and written with what the local file holds.
PutPrivate(r) ==
  /\ From(r, "putPrivate", "putPublic")
  /\ remote' = IF remote.private = "absent" THEN remote
                 ELSE [remote EXCEPT !.private = private["host"]]
  /\ UNCHANGED <<private, public, known, pair, readVars, crashes, standing>>

\* The public key follows, unless the directory is gone.
PutPublic(r) ==
  /\ LET gone == remote.private = "absent" \/ public["host"] = "absent"
     IN  /\ From(r, "putPublic", IF gone THEN "failed" ELSE "validate")
         /\ remote' = IF gone THEN remote ELSE [remote EXCEPT !.public = public["host"]]
  /\ UNCHANGED <<private, public, known, pair, readVars, crashes, standing>>

\* Mutant of Validate: the configuration is not tried out.
ValidateNothing(r) ==
  /\ From(r, "validate", "done")
  /\ standing' = TRUE
  /\ UNCHANGED <<fileVars, pair, readVars, crashes>>

\* `sshd -t` on the login node, which reads the host key.
Validate(r) ==
  /\ From(r, "validate", IF Whole(remote.private) THEN "done" ELSE "failed")
  /\ standing' = (standing \/ Whole(remote.private))
  /\ UNCHANGED <<fileVars, pair, readVars, crashes>>

------------------------------------------------------------------------------
(* Around the runs *)

\* A run is killed, or loses its connection to the login node.
Crash(r) ==
  /\ Going(r) /\ crashes < MaxCrashes
  /\ at' = [at EXCEPT ![r] = "killed"]
  /\ crashes' = crashes + 1
  /\ UNCHANGED <<fileVars, pair, readVars, standing>>

Creating(r) == at[r] \in {"create", "fill", "open", "publish", "restrict"}

\* The user removes an incomplete or malformed pair, as they are told to, once no
\* run is in the middle of creating one.
RemovePair(x) ==
  /\ \E file \in {private[x], public[x]} : ~ Whole(file)
  /\ private[x] # public[x]
  /\ \E r \in Run : at[r] = "failed"
  /\ \A r \in Run : Going(r) => at[r] = "look" /\ pair[r] = "client"
  /\ private' = [private EXCEPT ![x] = "absent"]
  /\ public' = [public EXCEPT ![x] = "absent"]
  /\ standing' = FALSE
  /\ UNCHANGED <<known, remote, at, pair, readVars, crashes>>

\* `prune_all_remote_data` removes the directory on the login node.
PruneAll ==
  /\ remote' = [private |-> "absent", public |-> "absent"]
  /\ standing' = FALSE
  /\ UNCHANGED <<private, public, known, at, pair, readVars, crashes>>

Step(r) ==
  \/ LookAtPrivate(r) \/ LookAtPublic(r) \/ LookAgain(r) \/ CreatePrivate(r)
  \/ FillPrivate(r) \/ OpenPublic(r) \/ WritePublic(r) \/ Restrict(r)
  \/ ReadHostKey(r) \/ ReadKnownHosts(r) \/ TruncateKnownHosts(r)
  \/ RewriteKnownHosts(r) \/ AuthorizedKey(r)
  \/ OpenRemote(r) \/ PutPrivate(r) \/ PutPublic(r) \/ Validate(r)

Next ==
  \/ \E r \in Run : Step(r) \/ Crash(r)
  \/ \E x \in Pair : RemovePair(x)
  \/ PruneAll

Spec == Init /\ [][Next]_vars

------------------------------------------------------------------------------
(* Properties *)

\* Files, keys and program counters have their types, and both pairs have been seen
\* to before anything is pinned.
TypeOK ==
  /\ {private, public} \subseteq [Pair -> File]
  /\ known \in [pin : File, others : BOOLEAN] /\ copy \in [Run -> [pin : File, others : BOOLEAN]]
  /\ remote \in [private : File, public : File]
  /\ at \in [Run -> Over \cup {"look", "compare", "again", "create", "fill", "open",
       "publish", "restrict", "read", "retain", "truncate", "rewrite", "authorize", "put",
       "putPrivate", "putPublic", "validate"}]
  /\ pair \in [Run -> Pair] /\ saw \in [Run -> BOOLEAN]
  /\ \A r \in Run : at[r] = "read" => pair[r] = "host"
  /\ {hostKey, client} \subseteq [Run -> File]
  /\ crashes \in 0 .. MaxCrashes /\ standing \in BOOLEAN

\* The two keys of a pair belong together whenever both are there, however runs that
\* find no pair race to create it.
PairsMatch ==
  \A x \in Pair : Whole(private[x]) /\ Whole(public[x]) => private[x] = public[x]

\* A run that completes hands sshd the client key of this machine, which is whole.
AuthorizedKeyIsOurs ==
  \A r \in Run : at[r] \in {"put", "putPrivate", "putPublic", "validate"} =>
    Whole(client[r]) /\ client[r] = private["client"]

\* The pairs are sound: their keys match, and sshd is told the one that OpenSSH uses.
KeysAreSound == PairsMatch /\ AuthorizedKeyIsOurs

\* After a completed run, unless a run was killed or is under way, the worker's host
\* key on the login node is the local one, and it is the one pinned for OpenSSH.
ProvisionedMatches ==
  standing /\ (\A r \in Run : at[r] \in {"done", "failed", "look"}) =>
    /\ Whole(private["host"])
    /\ remote = [private |-> private["host"], public |-> private["host"]]
    /\ known.pin = private["host"]

\* What `pin_host_key` says of itself: it keeps unrelated hosts in known_hosts, once
\* no run is rewriting the file.
PinKeepsUnrelated ==
  (\A r \in Run : at[r] # "rewrite") => known.others

==============================================================================
