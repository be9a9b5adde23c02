------------------------ MODULE LoginConnection_proofs ------------------------
(***************************************************************************)
(* The login connection: that logging in guards passwords and the known    *)
(* hosts file, for any number of processes and host keys, and that the     *)
(* port served over the connection keeps its count and its ends, for every *)
(* finite set of clients.                                                  *)
(***************************************************************************)
EXTENDS LoginPrompts, ForwardedPort, FiniteSetTheorems, TLAPS

\* What is appended to a sequence is added to what is in it.
LEMMA RangeAppend ==
  ASSUME NEW S, NEW s \in Seq(S), NEW e \in S
  PROVE  Range(Append(s, e)) = Range(s) \cup {e}
<1>1. /\ DOMAIN Append(s, e) = DOMAIN s \cup {Len(s) + 1}
      /\ \A i \in DOMAIN s : Append(s, e)[i] = s[i]
      /\ Append(s, e)[Len(s) + 1] = e
  OBVIOUS
<1> QED
  BY <1>1 DEF Range

\* Nothing is in the empty sequence.
LEMMA RangeEmpty == Range(<<>>) = {}
BY DEF Range

\* What is in a sequence of elements of a set is in that set.
LEMMA RangeType ==
  ASSUME NEW S, NEW s \in Seq(S)
  PROVE  Range(s) \subseteq S
BY DEF Range

-----------------------------------------------------------------------------
(***************************************************************************)
(* What the two steps that decide about passwords come to.                 *)
(***************************************************************************)

\* A source stated on the command line or configured before the keyring is read or
\* fails: it is never passed over.
LEMMA ResolveEffect ==
  ASSUME NEW p \in Process, ResolvePassword(p)
  PROVE  \E w \in {"profile", None}, b \in BOOLEAN, c \in BOOLEAN, there \in {"failed", "load"} :
           /\ From(p, "resolve", there)
           /\ password' = [password EXCEPT ![p] = w]
           /\ profile' = [profile EXCEPT ![p] = b]
           /\ stated' = [stated EXCEPT ![p] = c]
           /\ UNCHANGED <<fileVars, prompting, trustVars, attempts, sent>>
           /\ w = None \/ b
           /\ there = "load" /\ c => b
<1>1. PICK cli \in {"none", "password", "file", "fd", "keyring"},
           configured \in SUBSET {"fd", "file", "keyring"} :
        \E outcome \in ReadSource(FirstSource(cli, configured), prompting[p]) :
          /\ From(p, "resolve", IF outcome = "error" THEN "failed" ELSE "load")
          /\ profile' = [profile EXCEPT ![p] = outcome = "read"]
          /\ password' = [password EXCEPT ![p] = IF outcome = "read" THEN "profile" ELSE None]
          /\ stated' = [stated EXCEPT ![p] =
               IF cli = "none" THEN configured \ {"keyring"} # {} ELSE cli # "keyring"]
          /\ UNCHANGED <<fileVars, prompting, trustVars, attempts, sent>>
  BY DEF ResolvePassword
<1>2. PICK outcome \in ReadSource(FirstSource(cli, configured), prompting[p]) :
          /\ From(p, "resolve", IF outcome = "error" THEN "failed" ELSE "load")
          /\ profile' = [profile EXCEPT ![p] = outcome = "read"]
          /\ password' = [password EXCEPT ![p] = IF outcome = "read" THEN "profile" ELSE None]
          /\ stated' = [stated EXCEPT ![p] =
               IF cli = "none" THEN configured \ {"keyring"} # {} ELSE cli # "keyring"]
          /\ UNCHANGED <<fileVars, prompting, trustVars, attempts, sent>>
  BY <1>1
<1> DEFINE c == IF cli = "none" THEN configured \ {"keyring"} # {} ELSE cli # "keyring"
           b == outcome = "read"
           w == IF outcome = "read" THEN "profile" ELSE None
           there == IF outcome = "error" THEN "failed" ELSE "load"
<1>3. c => FirstSource(cli, configured) \in {"password", "file", "fd"}
  BY DEF FirstSource
<1>4. c => outcome \in {"read", "error"}
  BY <1>2, <1>3 DEF ReadSource
<1>5. there = "load" /\ c => b
  BY <1>4
<1>6. w = None \/ b
  OBVIOUS
<1>7. /\ w \in {"profile", None} /\ b \in BOOLEAN /\ c \in BOOLEAN
      /\ there \in {"failed", "load"}
  OBVIOUS
<1>8. /\ From(p, "resolve", there)
      /\ password' = [password EXCEPT ![p] = w]
      /\ profile' = [profile EXCEPT ![p] = b]
      /\ stated' = [stated EXCEPT ![p] = c]
      /\ UNCHANGED <<fileVars, prompting, trustVars, attempts, sent>>
  BY <1>2
<1> HIDE DEF c, b, w, there
<1> QED
  BY <1>5, <1>6, <1>7, <1>8

\* A password is sent only if there is one; a user is asked only if the profile has
\* none, prompting is allowed, the server offers it and attempts are left.
LEMMA DeniedEffect ==
  ASSUME NEW p \in Process, NEW k \in Key, PermissionDenied(p, k)
  PROVE  /\ k \in known[p] /\ pc[p] = "connect"
         /\ sent' = sent \/ (password[p] # None /\ sent' = [sent EXCEPT ![p] = Append(@, k)])
         /\ \/ From(p, "connect", "failed") /\ UNCHANGED attempts
            \/ /\ From(p, "connect", "askPassword")
               /\ ~ profile[p] /\ prompting[p] /\ attempts[p] < PASSWORD_ATTEMPTS
               /\ attempts' = [attempts EXCEPT ![p] = @ + 1]
         /\ UNCHANGED <<fileVars, resolveVars, password, trustVars>>
<1>1. \E offered \in BOOLEAN :
        /\ k \in Trusted(p)
        /\ sent' = IF offered /\ password[p] # None
                     THEN [sent EXCEPT ![p] = Append(@, k)] ELSE sent
        /\ \/ ~ MayAsk(p, offered) /\ From(p, "connect", "failed") /\ UNCHANGED attempts
           \/ /\ MayAsk(p, offered) /\ From(p, "connect", "askPassword")
              /\ attempts' = [attempts EXCEPT ![p] = @ + 1]
        /\ UNCHANGED <<fileVars, resolveVars, password, trustVars>>
  BY DEF PermissionDenied
<1> QED
  BY <1>1, Zenon DEF Trusted, MayAsk, From

-----------------------------------------------------------------------------
(***************************************************************************)
(* Types.                                                                  *)
(***************************************************************************)

\* A process that is at a key has one.
KeyAtHand ==
  \A p \in Process : pc[p] \in {"askKey", "append", "write"} => key[p] \in Key

\* A process about to write a line puts a newline before it, or the file ends with
\* one: no process takes a newline away.
LineEndSeen ==
  \A p \in Process : pc[p] = "write" => ended \/ newline[p]

TypeInv == TypeOK /\ KeyAtHand /\ LineEndSeen

\* Every process starts with values of the right types.
LEMMA InitType == Init => TypeInv
<1> SUFFICES ASSUME Init PROVE TypeInv
  OBVIOUS
<1>1. userFile \subseteq Key
  BY DEF Init
<1>2. ownFile \in Seq(Key \cup {None})
  <2>1. CASE ownFile = <<>>
    BY <2>1
  <2>2. CASE \E k \in Key : ownFile = <<k>>
    BY <2>2
  <2> QED
    BY <2>1, <2>2 DEF Init
<1>3. ended \in BOOLEAN
  <2>1. (ownFile = <<>> /\ ended \in {TRUE}) \/ ended \in BOOLEAN
    BY Zenon DEF Init
  <2> QED
    BY <2>1
<1> QED
  BY <1>1, <1>2, <1>3 DEF Init, TypeInv, TypeOK, KeyAtHand, LineEndSeen, PASSWORD_ATTEMPTS, KeyAskedMax

\* No step of a process spoils a type.
LEMMA StepType ==
  ASSUME TypeInv, NEW p \in Process, Step(p)
  PROVE  TypeInv'
<1>1. CASE ResolvePassword(p)
  <2>1. PICK w \in {"profile", None}, b \in BOOLEAN, c \in BOOLEAN, there \in {"failed", "load"} :
          /\ From(p, "resolve", there)
          /\ password' = [password EXCEPT ![p] = w]
          /\ profile' = [profile EXCEPT ![p] = b]
          /\ stated' = [stated EXCEPT ![p] = c]
          /\ UNCHANGED <<fileVars, prompting, trustVars, attempts, sent>>
    BY <1>1, ResolveEffect
  <2> QED
    BY <2>1 DEF TypeInv, TypeOK, KeyAtHand, LineEndSeen, From, fileVars, trustVars
<1>2. CASE LoadKnownHosts(p)
  <2>1. Range(ownFile) \ {None} \subseteq Key
    BY RangeType DEF TypeInv, TypeOK
  <2>2. known' \in [Process -> SUBSET Key]
    BY <1>2, <2>1 DEF LoadKnownHosts, TypeInv, TypeOK
  <2> QED
    BY <1>2, <2>2 DEF LoadKnownHosts, TypeInv, TypeOK, KeyAtHand, LineEndSeen, From, fileVars, resolveVars
<1>3. ASSUME NEW k \in Key, HostKeyNotVerifiable(p, k) PROVE  TypeInv'
  <2> DEFINE Asks == IF keyAsked[p] = KeyAskedMax THEN KeyAskedMax ELSE keyAsked[p] + 1
  <2>1. Asks \in 0 .. KeyAskedMax
    <3>1. keyAsked[p] \in 0 .. 2
      BY DEF TypeInv, TypeOK, KeyAskedMax
    <3> QED
      BY <3>1 DEF KeyAskedMax
  <2>2. CASE From(p, "connect", "failed") /\ UNCHANGED <<key, keyAsked>>
    BY <1>3, <2>2 DEF HostKeyNotVerifiable, TypeInv, TypeOK, KeyAtHand, LineEndSeen, From, fileVars, resolveVars
  <2>3. CASE /\ From(p, "connect", "askKey")
             /\ key' = [key EXCEPT ![p] = k]
             /\ keyAsked' = [keyAsked EXCEPT ![p] = Asks]
    <3> HIDE DEF Asks
    <3> QED
      BY <1>3, <2>1, <2>3
      DEF HostKeyNotVerifiable, TypeInv, TypeOK, KeyAtHand, LineEndSeen, From, fileVars, resolveVars
  <2>4. keyAsked' = [keyAsked EXCEPT ![p] = Asks] \/ UNCHANGED keyAsked
    BY <1>3 DEF HostKeyNotVerifiable
  <2> QED
    BY <1>3, <2>2, <2>3, <2>4 DEF HostKeyNotVerifiable
<1>4. ASSUME NEW k \in Key, LoginByKey(p, k) PROVE  TypeInv'
  BY <1>4 DEF LoginByKey, Trusted, TypeInv, TypeOK, KeyAtHand, LineEndSeen, From, fileVars, resolveVars, trustVars,
      PASSWORD_ATTEMPTS, KeyAskedMax
<1>5. ASSUME NEW k \in Key, LoginByPassword(p, k) PROVE  TypeInv'
  BY <1>5 DEF LoginByPassword, Trusted, TypeInv, TypeOK, KeyAtHand, LineEndSeen, From, fileVars, resolveVars, trustVars,
      PASSWORD_ATTEMPTS, KeyAskedMax
<1>6. ASSUME NEW k \in Key, PermissionDenied(p, k) PROVE  TypeInv'
  <2>1. /\ sent' = sent \/ (password[p] # None /\ sent' = [sent EXCEPT ![p] = Append(@, k)])
        /\ \/ From(p, "connect", "failed") /\ UNCHANGED attempts
           \/ /\ From(p, "connect", "askPassword")
              /\ attempts[p] < PASSWORD_ATTEMPTS
              /\ attempts' = [attempts EXCEPT ![p] = @ + 1]
        /\ UNCHANGED <<fileVars, resolveVars, password, trustVars>>
    BY <1>6, DeniedEffect, Zenon
  <2>2. sent' \in [Process -> Seq(Key)]
    <3>1. Append(sent[p], k) \in Seq(Key)
      BY DEF TypeInv, TypeOK
    <3> QED
      BY <2>1, <3>1 DEF TypeInv, TypeOK
  <2>3. attempts' \in [Process -> 0 .. PASSWORD_ATTEMPTS]
    <3>1. attempts \in [Process -> 0 .. 3]
      BY DEF TypeInv, TypeOK, PASSWORD_ATTEMPTS
    <3> QED
      BY <2>1, <3>1 DEF PASSWORD_ATTEMPTS
  <2>4. /\ pc' \in {[pc EXCEPT ![p] = "failed"], [pc EXCEPT ![p] = "askPassword"]}
        /\ pc[p] = "connect"
    BY <2>1 DEF From
  <2> QED
    BY <2>1, <2>2, <2>3, <2>4
    DEF TypeInv, TypeOK, KeyAtHand, LineEndSeen, fileVars, resolveVars, trustVars
<1>7. CASE AcceptKey(p)
  BY <1>7 DEF AcceptKey, TypeInv, TypeOK, KeyAtHand, LineEndSeen, From, fileVars, resolveVars, trustVars,
      PASSWORD_ATTEMPTS, KeyAskedMax
<1>8. CASE FindLineEnd(p)
  BY <1>8 DEF FindLineEnd, TypeInv, TypeOK, KeyAtHand, LineEndSeen, From, fileVars, resolveVars, trustVars,
      PASSWORD_ATTEMPTS, KeyAskedMax
<1>9. CASE WriteLine(p)
  <2>1. Appended(key[p], newline[p]) \in Seq(Key \cup {None})
    <3>1. Append(ownFile, key[p]) \in Seq(Key \cup {None})
      BY <1>9 DEF WriteLine, From, TypeInv, TypeOK, KeyAtHand
    <3> QED
      BY <1>9, <3>1 DEF WriteLine, From, Appended, TypeInv, LineEndSeen
  <2> QED
    BY <1>9, <2>1 DEF WriteLine, TypeInv, TypeOK, KeyAtHand, LineEndSeen, From, resolveVars
<1>10. CASE SaveFails(p)
  BY <1>10 DEF SaveFails, TypeInv, TypeOK, KeyAtHand, LineEndSeen, From, fileVars, resolveVars, trustVars,
      PASSWORD_ATTEMPTS, KeyAskedMax
<1>11. CASE EnterPassword(p)
  BY <1>11 DEF EnterPassword, TypeInv, TypeOK, KeyAtHand, LineEndSeen, From, fileVars, resolveVars, trustVars,
      PASSWORD_ATTEMPTS, KeyAskedMax
<1>12. CASE ConnectFails(p)
  BY <1>12 DEF ConnectFails, TypeInv, TypeOK, KeyAtHand, LineEndSeen, From, fileVars, resolveVars, trustVars,
      PASSWORD_ATTEMPTS, KeyAskedMax
<1>13. CASE GiveUp(p)
  BY <1>13 DEF GiveUp, TypeInv, TypeOK, KeyAtHand, LineEndSeen, From, fileVars, resolveVars, trustVars,
      PASSWORD_ATTEMPTS, KeyAskedMax
<1> QED
  BY <1>1, <1>2, <1>3, <1>4, <1>5, <1>6, <1>7, <1>8, <1>9, <1>10, <1>11, <1>12, <1>13
  DEF Step

\* Nor does any step of the system.
LEMMA NextType == TypeInv /\ [Next]_vars => TypeInv'
<1> SUFFICES ASSUME TypeInv, [Next]_vars PROVE TypeInv'
  OBVIOUS
<1>1. CASE UNCHANGED vars
  BY <1>1 DEF TypeInv, TypeOK, KeyAtHand, LineEndSeen, vars, fileVars, resolveVars, trustVars
<1> QED
  BY <1>1, StepType DEF Next

\* Every variable keeps its type; a key about to be trusted is one (KeyAtHand).
THEOREM TypeCorrect == Spec => []TypeOK
<1>1. TypeInv => TypeOK
  BY DEF TypeInv
<1> QED
  BY <1>1, InitType, NextType, PTL DEF Spec

-----------------------------------------------------------------------------
(***************************************************************************)
(* The known hosts file.                                                   *)
(***************************************************************************)

\* A line is written as a whole: if the writer saw no newline at the end, it brings
\* one, and otherwise the file still ends with one.
LEMMA WriteEffect ==
  ASSUME TypeInv, NEW p \in Process, WriteLine(p)
  PROVE  key[p] \in Key /\ Range(ownFile') = Range(ownFile) \cup {key[p]}
<1>1. key[p] \in Key /\ ownFile' = Append(ownFile, key[p])
  BY DEF WriteLine, From, Appended, TypeInv, KeyAtHand, LineEndSeen
<1>2. ownFile \in Seq(Key \cup {None})
  BY DEF TypeInv, TypeOK
<1>3. Range(Append(ownFile, key[p])) = Range(ownFile) \cup {key[p]}
  BY <1>1, <1>2, RangeAppend
<1> QED
  BY <1>1, <1>3

\* Nothing but WriteLine changes the known hosts file.
LEMMA OnlyWriteLineWrites ==
  ASSUME NEW p \in Process, Step(p), ~ WriteLine(p)
  PROVE  UNCHANGED ownFile
<1>1. CASE ResolvePassword(p)
  <2>1. PICK w \in {"profile", None}, b \in BOOLEAN, c \in BOOLEAN, there \in {"failed", "load"} :
          /\ From(p, "resolve", there)
          /\ password' = [password EXCEPT ![p] = w]
          /\ profile' = [profile EXCEPT ![p] = b]
          /\ stated' = [stated EXCEPT ![p] = c]
          /\ UNCHANGED <<fileVars, prompting, trustVars, attempts, sent>>
          /\ w = None \/ b
          /\ there = "load" /\ c => b
    BY <1>1, ResolveEffect
  <2> QED
    BY <2>1 DEF fileVars
<1>2. CASE LoadKnownHosts(p)
  BY <1>2 DEF LoadKnownHosts, fileVars
<1>3. ASSUME NEW k \in Key, HostKeyNotVerifiable(p, k) PROVE UNCHANGED ownFile
  BY <1>3 DEF HostKeyNotVerifiable, fileVars
<1>4. ASSUME NEW k \in Key, LoginByKey(p, k) PROVE UNCHANGED ownFile
  BY <1>4 DEF LoginByKey, fileVars
<1>5. ASSUME NEW k \in Key, LoginByPassword(p, k) PROVE UNCHANGED ownFile
  BY <1>5 DEF LoginByPassword, fileVars
<1>6. ASSUME NEW k \in Key, PermissionDenied(p, k) PROVE UNCHANGED ownFile
  <2>1. /\ k \in known[p] /\ pc[p] = "connect"
        /\ sent' = sent \/ (password[p] # None /\ sent' = [sent EXCEPT ![p] = Append(@, k)])
        /\ \/ From(p, "connect", "failed") /\ UNCHANGED attempts
           \/ /\ From(p, "connect", "askPassword")
              /\ ~ profile[p] /\ prompting[p] /\ attempts[p] < PASSWORD_ATTEMPTS
              /\ attempts' = [attempts EXCEPT ![p] = @ + 1]
        /\ UNCHANGED <<fileVars, resolveVars, password, trustVars>>
    BY <1>6, DeniedEffect, Zenon
  <2> QED
    BY <2>1 DEF fileVars
<1>7. CASE AcceptKey(p)
  BY <1>7 DEF AcceptKey, fileVars
<1>8. CASE FindLineEnd(p)
  BY <1>8 DEF FindLineEnd, fileVars
<1>9. CASE WriteLine(p)
  BY <1>9
<1>10. CASE SaveFails(p)
  BY <1>10 DEF SaveFails, fileVars
<1>11. CASE EnterPassword(p)
  BY <1>11 DEF EnterPassword, fileVars
<1>12. CASE ConnectFails(p)
  BY <1>12 DEF ConnectFails, fileVars
<1>13. CASE GiveUp(p)
  BY <1>13 DEF GiveUp, fileVars
<1> QED
  BY <1>1, <1>2, <1>3, <1>4, <1>5, <1>6, <1>7, <1>8, <1>9, <1>10, <1>11, <1>12, <1>13
  DEF Step

\* No step makes two lines run into each other.
LEMMA NextLines ==
  TypeInv /\ LinesAreWhole /\ [Next]_vars => LinesAreWhole'
<1> SUFFICES ASSUME TypeInv, LinesAreWhole, [Next]_vars PROVE LinesAreWhole'
  OBVIOUS
<1>1. CASE UNCHANGED vars
  BY <1>1 DEF LinesAreWhole, vars, fileVars
<1>2. ASSUME NEW p \in Process, Step(p) PROVE LinesAreWhole'
  <2>1. CASE WriteLine(p)
    BY <2>1, WriteEffect, NoneAssumption DEF LinesAreWhole
  <2>2. CASE ~ WriteLine(p)
    BY <1>2, <2>2, OnlyWriteLineWrites DEF LinesAreWhole
  <2> QED
    BY <2>1, <2>2
<1> QED
  BY <1>1, <1>2 DEF Next

\* The file starts with whole lines.
LEMMA InitLines == Init => LinesAreWhole
<1> SUFFICES ASSUME Init PROVE LinesAreWhole
  OBVIOUS
<1>1. CASE ownFile = <<>>
  BY <1>1, RangeEmpty DEF LinesAreWhole
<1>2. ASSUME NEW k \in Key, ownFile = <<k>> PROVE LinesAreWhole
  BY <1>2, NoneAssumption DEF LinesAreWhole, Range
<1> QED
  BY <1>1, <1>2 DEF Init

\* No line of the known hosts file ever runs into another one, for any number of
\* processes that append to it at once.
THEOREM LinesCorrect == Spec => []LinesAreWhole
BY InitLines, NextLines, InitType, NextType, PTL DEF Spec

-----------------------------------------------------------------------------
(***************************************************************************)
(* Trust.                                                                  *)
(***************************************************************************)

\* The keys a process has a reason to trust.
Reason(p) == userFile \cup Range(ownFile) \cup accepted[p]

\* What a process knows, and what it sent a password to, it has a reason to trust;
\* a key it is about to write was accepted.
TrustInv ==
  \A p \in Process :
    /\ known[p] \subseteq Reason(p)
    /\ Range(sent[p]) \subseteq Reason(p)
    /\ pc[p] \in {"append", "write"} => key[p] \in accepted[p]

\* No reason to trust a key goes away.
LEMMA ReasonsStay ==
  ASSUME TypeInv, NEW p \in Process, Step(p), NEW q \in Process
  PROVE  Reason(q) \subseteq Reason(q)'
<1>1. Range(ownFile) \subseteq Range(ownFile')
  BY WriteEffect, OnlyWriteLineWrites
<1>2. accepted[q] \subseteq accepted'[q] /\ userFile' = userFile
  <2>1. CASE ResolvePassword(p)
    <3>1. PICK w \in {"profile", None}, b \in BOOLEAN, c \in BOOLEAN, there \in {"failed", "load"} :
            /\ From(p, "resolve", there)
            /\ password' = [password EXCEPT ![p] = w]
            /\ profile' = [profile EXCEPT ![p] = b]
            /\ stated' = [stated EXCEPT ![p] = c]
            /\ UNCHANGED <<fileVars, prompting, trustVars, attempts, sent>>
            /\ w = None \/ b
            /\ there = "load" /\ c => b
      BY <2>1, ResolveEffect
    <3> QED
      BY <3>1 DEF fileVars, trustVars
  <2>2. CASE LoadKnownHosts(p)
    BY <2>2 DEF LoadKnownHosts, fileVars, trustVars
  <2>3. ASSUME NEW k \in Key, HostKeyNotVerifiable(p, k)
        PROVE  accepted[q] \subseteq accepted'[q] /\ userFile' = userFile
    BY <2>3 DEF HostKeyNotVerifiable, fileVars, trustVars
  <2>4. ASSUME NEW k \in Key, LoginByKey(p, k)
        PROVE  accepted[q] \subseteq accepted'[q] /\ userFile' = userFile
    BY <2>4 DEF LoginByKey, fileVars, trustVars
  <2>5. ASSUME NEW k \in Key, LoginByPassword(p, k)
        PROVE  accepted[q] \subseteq accepted'[q] /\ userFile' = userFile
    BY <2>5 DEF LoginByPassword, fileVars, trustVars
  <2>6. ASSUME NEW k \in Key, PermissionDenied(p, k)
        PROVE  accepted[q] \subseteq accepted'[q] /\ userFile' = userFile
    BY <2>6, DeniedEffect DEF fileVars, trustVars
  <2>7. CASE AcceptKey(p)
    BY <2>7 DEF AcceptKey, fileVars, trustVars, TypeInv, TypeOK
  <2>8. CASE FindLineEnd(p)
    BY <2>8 DEF FindLineEnd, fileVars, trustVars
  <2>9. CASE WriteLine(p)
    BY <2>9 DEF WriteLine, fileVars, trustVars
  <2>10. CASE SaveFails(p)
    BY <2>10 DEF SaveFails, fileVars, trustVars
  <2>11. CASE EnterPassword(p)
    BY <2>11 DEF EnterPassword, fileVars, trustVars
  <2>12. CASE ConnectFails(p)
    BY <2>12 DEF ConnectFails, fileVars, trustVars
  <2>13. CASE GiveUp(p)
    BY <2>13 DEF GiveUp, fileVars, trustVars
  <2> QED
    BY <2>1, <2>2, <2>3, <2>4, <2>5, <2>6, <2>7, <2>8, <2>9, <2>10, <2>11, <2>12, <2>13
    DEF Step
<1> QED
  BY <1>1, <1>2 DEF Reason

\* A process comes to know a key from the files or from its user only.
LEMMA StepTrust ==
  ASSUME TypeInv, TrustInv, NEW p \in Process, Step(p)
  PROVE  TrustInv'
<1> DEFINE Kept == \A q \in Process : Reason(q) \subseteq Reason(q)'
<1>0. Kept
  BY ReasonsStay
<1> HIDE DEF Kept
<1>1. CASE ResolvePassword(p)
  <2>1. PICK w \in {"profile", None}, b \in BOOLEAN, c \in BOOLEAN, there \in {"failed", "load"} :
          /\ From(p, "resolve", there)
          /\ password' = [password EXCEPT ![p] = w]
          /\ profile' = [profile EXCEPT ![p] = b]
          /\ stated' = [stated EXCEPT ![p] = c]
          /\ UNCHANGED <<fileVars, prompting, trustVars, attempts, sent>>
          /\ w = None \/ b
          /\ there = "load" /\ c => b
    BY <1>1, ResolveEffect
  <2> QED
    BY <1>0, <2>1 DEF TrustInv, Kept, TypeInv, TypeOK, fileVars, resolveVars, trustVars, From
<1>2. CASE LoadKnownHosts(p)
  <2>1. known'[p] \subseteq Reason(p) /\ \A q \in Process \ {p} : known'[q] = known[q]
    BY <1>2 DEF LoadKnownHosts, Reason, TypeInv, TypeOK
  <2> QED
    BY <1>0, <1>2, <2>1 DEF LoadKnownHosts, TrustInv, Kept, TypeInv, TypeOK, fileVars, resolveVars, trustVars, From
<1>3. ASSUME NEW k \in Key, HostKeyNotVerifiable(p, k) PROVE TrustInv'
  <2>1. pc'[p] \notin {"append", "write"} /\ \A q \in Process \ {p} : pc'[q] = pc[q]
    BY <1>3 DEF HostKeyNotVerifiable, From, TypeInv, TypeOK
  <2>2. \A q \in Process \ {p} : key'[q] = key[q]
    BY <1>3 DEF HostKeyNotVerifiable, TypeInv, TypeOK
  <2>3. UNCHANGED <<known, accepted, sent>>
    BY <1>3 DEF HostKeyNotVerifiable
  <2> QED
    BY <1>0, <2>1, <2>2, <2>3 DEF TrustInv, Kept
<1>4. ASSUME NEW k \in Key, LoginByKey(p, k) PROVE TrustInv'
  BY <1>4, <1>0 DEF LoginByKey, TrustInv, Kept, TypeInv, TypeOK, fileVars, resolveVars, trustVars, From
<1>5. ASSUME NEW k \in Key, LoginByPassword(p, k) PROVE TrustInv'
  <2>1. Range(Append(sent[p], k)) = Range(sent[p]) \cup {k}
    BY RangeAppend DEF TypeInv, TypeOK
  <2>2. \A q \in Process : Range(sent'[q]) \subseteq Reason(q)
    BY <1>5, <2>1 DEF LoginByPassword, Trusted, TrustInv, TypeInv, TypeOK
  <2> QED
    BY <1>0, <1>5, <2>2 DEF LoginByPassword, TrustInv, Kept, TypeInv, TypeOK, fileVars, resolveVars, trustVars, From
<1>6. ASSUME NEW k \in Key, PermissionDenied(p, k) PROVE TrustInv'
  <2>1. /\ k \in known[p] /\ pc[p] = "connect"
        /\ sent' = sent \/ (password[p] # None /\ sent' = [sent EXCEPT ![p] = Append(@, k)])
        /\ \/ From(p, "connect", "failed") /\ UNCHANGED attempts
           \/ /\ From(p, "connect", "askPassword")
              /\ ~ profile[p] /\ prompting[p] /\ attempts[p] < PASSWORD_ATTEMPTS
              /\ attempts' = [attempts EXCEPT ![p] = @ + 1]
        /\ UNCHANGED <<fileVars, resolveVars, password, trustVars>>
    BY <1>6, DeniedEffect, Zenon
  <2>2. Range(Append(sent[p], k)) = Range(sent[p]) \cup {k}
    BY RangeAppend DEF TypeInv, TypeOK
  <2>3. \A q \in Process : Range(sent'[q]) \subseteq Reason(q)
    <3>1. CASE sent' = sent
      BY <3>1 DEF TrustInv
    <3>2. CASE sent' = [sent EXCEPT ![p] = Append(@, k)]
      BY <2>1, <2>2, <3>2 DEF TrustInv, TypeInv, TypeOK
    <3> QED
      BY <2>1, <3>1, <3>2
  <2>4. pc'[p] \notin {"append", "write"} /\ \A q \in Process \ {p} : pc'[q] = pc[q]
    BY <2>1 DEF From, TypeInv, TypeOK
  <2> QED
    BY <1>0, <2>1, <2>3, <2>4 DEF TrustInv, Kept, trustVars
<1>7. CASE AcceptKey(p)
  <2>1. accepted' = [accepted EXCEPT ![p] = @ \cup {key[p]}]
    BY <1>7 DEF AcceptKey
  <2> QED
    BY <1>0, <1>7, <2>1 DEF AcceptKey, TrustInv, Kept, TypeInv, TypeOK, fileVars, resolveVars, trustVars, From
<1>8. CASE FindLineEnd(p)
  BY <1>8, <1>0 DEF FindLineEnd, TrustInv, Kept, TypeInv, TypeOK, fileVars, resolveVars, trustVars, From
<1>9. CASE WriteLine(p)
  <2>1. key[p] \in Reason(p)
    BY <1>9 DEF WriteLine, From, TrustInv, Reason
  <2>2. \A q \in Process : known'[q] \subseteq Reason(q)
    BY <1>9, <2>1 DEF WriteLine, TrustInv, TypeInv, TypeOK
  <2> QED
    BY <1>0, <1>9, <2>2 DEF WriteLine, TrustInv, Kept, TypeInv, TypeOK, fileVars, resolveVars, trustVars, From
<1>10. CASE SaveFails(p)
  <2>1. key[p] \in Reason(p)
    BY <1>10 DEF SaveFails, From, TrustInv, Reason
  <2>2. \A q \in Process : known'[q] \subseteq Reason(q)
    BY <1>10, <2>1 DEF SaveFails, TrustInv, TypeInv, TypeOK
  <2> QED
    BY <1>0, <1>10, <2>2 DEF SaveFails, TrustInv, Kept, TypeInv, TypeOK, fileVars, resolveVars, trustVars, From
<1>11. CASE EnterPassword(p)
  BY <1>11, <1>0 DEF EnterPassword, TrustInv, Kept, TypeInv, TypeOK, fileVars, resolveVars, trustVars, From
<1>12. CASE ConnectFails(p)
  BY <1>12, <1>0 DEF ConnectFails, TrustInv, Kept, TypeInv, TypeOK, fileVars, resolveVars, trustVars, From
<1>13. CASE GiveUp(p)
  BY <1>13, <1>0 DEF GiveUp, TrustInv, Kept, TypeInv, TypeOK, fileVars, resolveVars, trustVars, From
<1> QED
  BY <1>1, <1>2, <1>3, <1>4, <1>5, <1>6, <1>7, <1>8, <1>9, <1>10, <1>11, <1>12, <1>13
  DEF Step

\* Nor does a step of another process, or none, take a reason away.
LEMMA NextTrust ==
  TypeInv /\ TrustInv /\ [Next]_vars => TrustInv'
<1> SUFFICES ASSUME TypeInv, TrustInv, [Next]_vars PROVE TrustInv'
  OBVIOUS
<1>1. CASE UNCHANGED vars
  BY <1>1 DEF TrustInv, Reason, vars, fileVars, trustVars
<1> QED
  BY <1>1, StepTrust DEF Next

\* At first nothing is known and nothing was sent.
LEMMA InitTrust == Init => TrustInv
BY RangeEmpty DEF Init, TrustInv, Reason

-----------------------------------------------------------------------------
(***************************************************************************)
(* Tries.                                                                  *)
(***************************************************************************)

\* A password in hand has not been sent: there is room for it, and for the one the
\* user is being asked for.
TriesInv ==
  \A p \in Process :
    /\ pc[p] \in {"resolve", "load"} => sent[p] = <<>>
    /\ pc[p] = "load" => password[p] = None \/ profile[p]
    /\ pc[p] \in {"connect", "askKey", "append", "write"} /\ password[p] # None =>
         /\ profile[p] => Len(sent[p]) = 0
         /\ ~ profile[p] => Len(sent[p]) + 1 <= attempts[p]
    /\ pc[p] = "askPassword" => ~ profile[p] /\ Len(sent[p]) + 1 <= attempts[p]
    /\ profile[p] => Len(sent[p]) <= 1
    /\ ~ profile[p] => Len(sent[p]) <= attempts[p]

\* Processes log in one by one: what holds of each is lost only by its own step.
Others(p) ==
  \A q \in Process \ {p} :
    /\ pc'[q] = pc[q] /\ sent'[q] = sent[q] /\ password'[q] = password[q]
    /\ profile'[q] = profile[q] /\ attempts'[q] = attempts[q]
    /\ stated'[q] = stated[q] /\ prompting'[q] = prompting[q]

\* A step of one process leaves the passwords of the others alone.
LEMMA OthersStay ==
  ASSUME TypeInv, NEW p \in Process, Step(p)
  PROVE  Others(p)
<1>1. CASE ResolvePassword(p)
  <2>1. PICK w \in {"profile", None}, b \in BOOLEAN, c \in BOOLEAN, there \in {"failed", "load"} :
          /\ From(p, "resolve", there)
          /\ password' = [password EXCEPT ![p] = w]
          /\ profile' = [profile EXCEPT ![p] = b]
          /\ stated' = [stated EXCEPT ![p] = c]
          /\ UNCHANGED <<fileVars, prompting, trustVars, attempts, sent>>
          /\ w = None \/ b
          /\ there = "load" /\ c => b
    BY <1>1, ResolveEffect
  <2> QED
    BY <2>1 DEF Others, TypeInv, TypeOK, fileVars, resolveVars, trustVars, From
<1>2. CASE LoadKnownHosts(p)
  BY <1>2 DEF LoadKnownHosts, Others, TypeInv, TypeOK, fileVars, resolveVars, trustVars, From
<1>3. ASSUME NEW k \in Key, HostKeyNotVerifiable(p, k) PROVE Others(p)
  <2>1. \A q \in Process \ {p} : pc'[q] = pc[q]
    BY <1>3 DEF HostKeyNotVerifiable, From, TypeInv, TypeOK
  <2> QED
    BY <1>3, <2>1 DEF HostKeyNotVerifiable, Others, resolveVars
<1>4. ASSUME NEW k \in Key, LoginByKey(p, k) PROVE Others(p)
  BY <1>4 DEF LoginByKey, Others, TypeInv, TypeOK, fileVars, resolveVars, trustVars, From
<1>5. ASSUME NEW k \in Key, LoginByPassword(p, k) PROVE Others(p)
  BY <1>5 DEF LoginByPassword, Others, TypeInv, TypeOK, fileVars, resolveVars, trustVars, From
<1>6. ASSUME NEW k \in Key, PermissionDenied(p, k) PROVE Others(p)
  <2>1. /\ k \in known[p] /\ pc[p] = "connect"
        /\ sent' = sent \/ (password[p] # None /\ sent' = [sent EXCEPT ![p] = Append(@, k)])
        /\ \/ From(p, "connect", "failed") /\ UNCHANGED attempts
           \/ /\ From(p, "connect", "askPassword")
              /\ ~ profile[p] /\ prompting[p] /\ attempts[p] < PASSWORD_ATTEMPTS
              /\ attempts' = [attempts EXCEPT ![p] = @ + 1]
        /\ UNCHANGED <<fileVars, resolveVars, password, trustVars>>
    BY <1>6, DeniedEffect, Zenon
  <2>2. \A q \in Process \ {p} : sent'[q] = sent[q]
    BY <2>1 DEF TypeInv, TypeOK
  <2>3. \A q \in Process \ {p} : pc'[q] = pc[q] /\ attempts'[q] = attempts[q]
    BY <2>1 DEF From, TypeInv, TypeOK
  <2> QED
    BY <2>1, <2>2, <2>3 DEF Others, resolveVars
<1>7. CASE AcceptKey(p)
  BY <1>7 DEF AcceptKey, Others, TypeInv, TypeOK, fileVars, resolveVars, trustVars, From
<1>8. CASE FindLineEnd(p)
  BY <1>8 DEF FindLineEnd, Others, TypeInv, TypeOK, fileVars, resolveVars, trustVars, From
<1>9. CASE WriteLine(p)
  BY <1>9 DEF WriteLine, Others, TypeInv, TypeOK, fileVars, resolveVars, trustVars, From
<1>10. CASE SaveFails(p)
  BY <1>10 DEF SaveFails, Others, TypeInv, TypeOK, fileVars, resolveVars, trustVars, From
<1>11. CASE EnterPassword(p)
  BY <1>11 DEF EnterPassword, Others, TypeInv, TypeOK, fileVars, resolveVars, trustVars, From
<1>12. CASE ConnectFails(p)
  BY <1>12 DEF ConnectFails, Others, TypeInv, TypeOK, fileVars, resolveVars, trustVars, From
<1>13. CASE GiveUp(p)
  BY <1>13 DEF GiveUp, Others, TypeInv, TypeOK, fileVars, resolveVars, trustVars, From
<1> QED
  BY <1>1, <1>2, <1>3, <1>4, <1>5, <1>6, <1>7, <1>8, <1>9, <1>10, <1>11, <1>12, <1>13
  DEF Step

\* A password is sent only from the hand, and asked for only once it is empty.
LEMMA StepTries ==
  ASSUME TypeInv, TriesInv, NEW p \in Process, Step(p)
  PROVE  TriesInv'
<1>0. Others(p)
  BY OthersStay
<1>t. sent[p] \in Seq(Key) /\ Len(sent[p]) \in Nat /\ attempts[p] \in 0 .. 3
  BY DEF TypeInv, TypeOK, PASSWORD_ATTEMPTS
<1>1. CASE ResolvePassword(p)
  <2>1. PICK w \in {"profile", None}, b \in BOOLEAN, c \in BOOLEAN, there \in {"failed", "load"} :
          /\ From(p, "resolve", there)
          /\ password' = [password EXCEPT ![p] = w]
          /\ profile' = [profile EXCEPT ![p] = b]
          /\ stated' = [stated EXCEPT ![p] = c]
          /\ UNCHANGED <<fileVars, prompting, trustVars, attempts, sent>>
          /\ w = None \/ b
          /\ there = "load" /\ c => b
    BY <1>1, ResolveEffect
  <2>2. pc'[p] \in {"load", "failed"} /\ sent'[p] = <<>> /\ attempts'[p] = attempts[p]
    BY <2>1 DEF From, TriesInv, TypeInv, TypeOK
  <2>3. password'[p] = None \/ profile'[p]
    BY <2>1 DEF TypeInv, TypeOK
  <2> QED
    BY <1>0, <1>t, <2>2, <2>3 DEF TriesInv, Others
<1>2. CASE LoadKnownHosts(p)
  BY <1>2, <1>0, <1>t DEF LoadKnownHosts, TriesInv, Others, TypeInv, TypeOK, fileVars, resolveVars, trustVars, From
<1>3. ASSUME NEW k \in Key, HostKeyNotVerifiable(p, k) PROVE TriesInv'
  <2>1. pc[p] = "connect" /\ pc'[p] \in {"failed", "askKey"}
    BY <1>3 DEF HostKeyNotVerifiable, From, TypeInv, TypeOK
  <2>2. UNCHANGED <<profile, attempts, sent, password>>
    BY <1>3 DEF HostKeyNotVerifiable, resolveVars
  <2> QED
    BY <1>0, <2>1, <2>2 DEF TriesInv, Others
<1>4. ASSUME NEW k \in Key, LoginByKey(p, k) PROVE TriesInv'
  BY <1>4, <1>0, <1>t DEF LoginByKey, TriesInv, Others, TypeInv, TypeOK, fileVars, resolveVars, trustVars, From
<1>5. ASSUME NEW k \in Key, LoginByPassword(p, k) PROVE TriesInv'
  <2>1. Len(sent'[p]) = Len(sent[p]) + 1 /\ pc'[p] = "connected" /\ pc[p] = "connect"
    BY <1>t, <1>5 DEF LoginByPassword, From, TypeInv, TypeOK
  <2>2. password[p] # None /\ UNCHANGED <<profile, attempts>>
    BY <1>5 DEF LoginByPassword, resolveVars
  <2> QED
    BY <1>0, <1>t, <2>1, <2>2 DEF TriesInv, Others
<1>6. ASSUME NEW k \in Key, PermissionDenied(p, k) PROVE TriesInv'
  <2>1. /\ k \in known[p] /\ pc[p] = "connect"
        /\ sent' = sent \/ (password[p] # None /\ sent' = [sent EXCEPT ![p] = Append(@, k)])
        /\ \/ From(p, "connect", "failed") /\ UNCHANGED attempts
           \/ /\ From(p, "connect", "askPassword")
              /\ ~ profile[p] /\ prompting[p] /\ attempts[p] < PASSWORD_ATTEMPTS
              /\ attempts' = [attempts EXCEPT ![p] = @ + 1]
        /\ UNCHANGED <<fileVars, resolveVars, password, trustVars>>
    BY <1>6, DeniedEffect, Zenon
  <2>2. Len(Append(sent[p], k)) = Len(sent[p]) + 1
    BY <1>t
  <2>3. \/ sent'[p] = sent[p]
        \/ password[p] # None /\ Len(sent'[p]) = Len(sent[p]) + 1
    BY <2>1, <2>2 DEF TypeInv, TypeOK
  <2>4. \/ pc'[p] = "failed" /\ attempts'[p] = attempts[p]
        \/ /\ pc'[p] = "askPassword" /\ ~ profile[p]
           /\ attempts'[p] = attempts[p] + 1
    BY <2>1 DEF From, TypeInv, TypeOK
  <2>5. profile' = profile
    BY <2>1 DEF resolveVars
  <2> QED
    BY <1>0, <1>t, <2>1, <2>3, <2>4, <2>5 DEF TriesInv, Others
<1>7. CASE AcceptKey(p)
  BY <1>7, <1>0, <1>t DEF AcceptKey, TriesInv, Others, TypeInv, TypeOK, fileVars, resolveVars, trustVars, From
<1>8. CASE FindLineEnd(p)
  BY <1>8, <1>0, <1>t DEF FindLineEnd, TriesInv, Others, TypeInv, TypeOK, fileVars, resolveVars, trustVars, From
<1>9. CASE WriteLine(p)
  BY <1>9, <1>0, <1>t DEF WriteLine, TriesInv, Others, TypeInv, TypeOK, fileVars, resolveVars, trustVars, From
<1>10. CASE SaveFails(p)
  BY <1>10, <1>0, <1>t DEF SaveFails, TriesInv, Others, TypeInv, TypeOK, fileVars, resolveVars, trustVars, From
<1>11. CASE EnterPassword(p)
  BY <1>11, <1>0, <1>t DEF EnterPassword, TriesInv, Others, TypeInv, TypeOK, fileVars, resolveVars, trustVars, From
<1>12. CASE ConnectFails(p)
  BY <1>12, <1>0, <1>t DEF ConnectFails, TriesInv, Others, TypeInv, TypeOK, fileVars, resolveVars, trustVars, From
<1>13. CASE GiveUp(p)
  BY <1>13, <1>0, <1>t DEF GiveUp, TriesInv, Others, TypeInv, TypeOK, fileVars, resolveVars, trustVars, From
<1> QED
  BY <1>1, <1>2, <1>3, <1>4, <1>5, <1>6, <1>7, <1>8, <1>9, <1>10, <1>11, <1>12, <1>13
  DEF Step

\* So no step of the system sends one too often.
LEMMA NextTries == TypeInv /\ TriesInv /\ [Next]_vars => TriesInv'
<1> SUFFICES ASSUME TypeInv, TriesInv, [Next]_vars PROVE TriesInv'
  OBVIOUS
<1>1. CASE UNCHANGED vars
  BY <1>1 DEF TriesInv, vars, resolveVars
<1> QED
  BY <1>1, StepTries DEF Next

\* At first no password was sent.
LEMMA InitTries == Init => TriesInv
BY DEF Init, TriesInv

\* Whatever the login nodes present and the user answers, a password goes only to a
\* host that is trusted for a reason, and no more often than it may.
THEOREM GuardCorrect == Spec => []PasswordIsGuarded
<1>1. TrustInv => PasswordToTrustedHost
  BY DEF TrustInv, Reason, PasswordToTrustedHost
<1>2. TypeInv /\ TriesInv => PasswordTriesBounded
  <2> SUFFICES ASSUME TypeInv, TriesInv, NEW p \in Process
               PROVE  /\ Len(sent[p]) <= IF profile[p] THEN 1 ELSE attempts[p]
                      /\ attempts[p] <= PASSWORD_ATTEMPTS
    BY DEF PasswordTriesBounded
  <2>1. Len(sent[p]) <= IF profile[p] THEN 1 ELSE attempts[p]
    BY DEF TriesInv
  <2>2. attempts[p] \in 0 .. 3
    BY DEF TypeInv, TypeOK, PASSWORD_ATTEMPTS
  <2> QED
    BY <2>1, <2>2 DEF PASSWORD_ATTEMPTS
<1>3. TypeInv /\ TrustInv /\ TriesInv => PasswordIsGuarded
  BY <1>1, <1>2 DEF PasswordIsGuarded
<1> QED
  BY <1>3, InitType, NextType, InitTrust, NextTrust, InitTries, NextTries, PTL DEF Spec

-----------------------------------------------------------------------------
(***************************************************************************)
(* The prompt.                                                             *)
(***************************************************************************)

\* A stated source that did not fail gave a password, and a profile's password is not
\* asked for again.
PromptInv ==
  \A p \in Process :
    /\ pc[p] = "resolve" => attempts[p] = 0
    /\ pc[p] \notin {"resolve", "failed"} /\ stated[p] => profile[p]
    /\ attempts[p] > 0 => prompting[p] /\ ~ stated[p]

\* Only a process whose user stated no source goes on to ask.
LEMMA StepPrompt ==
  ASSUME TypeInv, PromptInv, NEW p \in Process, Step(p)
  PROVE  PromptInv'
<1>0. Others(p)
  BY OthersStay
<1>1. CASE ResolvePassword(p)
  <2>1. PICK w \in {"profile", None}, b \in BOOLEAN, c \in BOOLEAN, there \in {"failed", "load"} :
          /\ From(p, "resolve", there)
          /\ password' = [password EXCEPT ![p] = w]
          /\ profile' = [profile EXCEPT ![p] = b]
          /\ stated' = [stated EXCEPT ![p] = c]
          /\ UNCHANGED <<fileVars, prompting, trustVars, attempts, sent>>
          /\ w = None \/ b
          /\ there = "load" /\ c => b
    BY <1>1, ResolveEffect
  <2>2. /\ pc'[p] \in {"load", "failed"} /\ attempts'[p] = 0
        /\ pc'[p] = "load" /\ stated'[p] => profile'[p]
    BY <2>1 DEF From, PromptInv, TypeInv, TypeOK
  <2> QED
    BY <1>0, <2>2 DEF PromptInv, Others
<1>2. CASE LoadKnownHosts(p)
  BY <1>2, <1>0 DEF LoadKnownHosts, PromptInv, Others, TypeInv, TypeOK, fileVars, resolveVars, trustVars, From
<1>3. ASSUME NEW k \in Key, HostKeyNotVerifiable(p, k) PROVE PromptInv'
  <2>1. pc[p] = "connect" /\ pc'[p] \in {"failed", "askKey"}
    BY <1>3 DEF HostKeyNotVerifiable, From, TypeInv, TypeOK
  <2>2. UNCHANGED <<prompting, stated, profile, attempts>>
    BY <1>3 DEF HostKeyNotVerifiable, resolveVars
  <2> QED
    BY <1>0, <2>1, <2>2 DEF PromptInv, Others
<1>4. ASSUME NEW k \in Key, LoginByKey(p, k) PROVE PromptInv'
  BY <1>4, <1>0 DEF LoginByKey, PromptInv, Others, TypeInv, TypeOK, fileVars, resolveVars, trustVars, From
<1>5. ASSUME NEW k \in Key, LoginByPassword(p, k) PROVE PromptInv'
  BY <1>5, <1>0 DEF LoginByPassword, PromptInv, Others, TypeInv, TypeOK, fileVars, resolveVars, trustVars, From
<1>6. ASSUME NEW k \in Key, PermissionDenied(p, k) PROVE PromptInv'
  <2>1. /\ k \in known[p] /\ pc[p] = "connect"
        /\ sent' = sent \/ (password[p] # None /\ sent' = [sent EXCEPT ![p] = Append(@, k)])
        /\ \/ From(p, "connect", "failed") /\ UNCHANGED attempts
           \/ /\ From(p, "connect", "askPassword")
              /\ ~ profile[p] /\ prompting[p] /\ attempts[p] < PASSWORD_ATTEMPTS
              /\ attempts' = [attempts EXCEPT ![p] = @ + 1]
        /\ UNCHANGED <<fileVars, resolveVars, password, trustVars>>
    BY <1>6, DeniedEffect, Zenon
  <2>2. \/ pc'[p] = "failed" /\ attempts'[p] = attempts[p]
        \/ pc'[p] = "askPassword" /\ ~ profile[p] /\ prompting[p]
    BY <2>1 DEF From, TypeInv, TypeOK
  <2>3. UNCHANGED <<prompting, stated, profile>>
    BY <2>1 DEF resolveVars
  <2> QED
    BY <1>0, <2>1, <2>2, <2>3 DEF PromptInv, Others
<1>7. CASE AcceptKey(p)
  BY <1>7, <1>0 DEF AcceptKey, PromptInv, Others, TypeInv, TypeOK, fileVars, resolveVars, trustVars, From
<1>8. CASE FindLineEnd(p)
  BY <1>8, <1>0 DEF FindLineEnd, PromptInv, Others, TypeInv, TypeOK, fileVars, resolveVars, trustVars, From
<1>9. CASE WriteLine(p)
  BY <1>9, <1>0 DEF WriteLine, PromptInv, Others, TypeInv, TypeOK, fileVars, resolveVars, trustVars, From
<1>10. CASE SaveFails(p)
  BY <1>10, <1>0 DEF SaveFails, PromptInv, Others, TypeInv, TypeOK, fileVars, resolveVars, trustVars, From
<1>11. CASE EnterPassword(p)
  BY <1>11, <1>0 DEF EnterPassword, PromptInv, Others, TypeInv, TypeOK, fileVars, resolveVars, trustVars, From
<1>12. CASE ConnectFails(p)
  BY <1>12, <1>0 DEF ConnectFails, PromptInv, Others, TypeInv, TypeOK, fileVars, resolveVars, trustVars, From
<1>13. CASE GiveUp(p)
  BY <1>13, <1>0 DEF GiveUp, PromptInv, Others, TypeInv, TypeOK, fileVars, resolveVars, trustVars, From
<1> QED
  BY <1>1, <1>2, <1>3, <1>4, <1>5, <1>6, <1>7, <1>8, <1>9, <1>10, <1>11, <1>12, <1>13
  DEF Step

\* So it is with every step of the system.
LEMMA NextPrompt == TypeInv /\ PromptInv /\ [Next]_vars => PromptInv'
<1> SUFFICES ASSUME TypeInv, PromptInv, [Next]_vars PROVE PromptInv'
  OBVIOUS
<1>1. CASE UNCHANGED vars
  BY <1>1 DEF PromptInv, vars, resolveVars
<1> QED
  BY <1>1, StepPrompt DEF Next

\* At first nobody was asked.
LEMMA InitPrompt == Init => PromptInv
BY DEF Init, PromptInv

\* No user who gave a password, a file or a descriptor is ever asked for one.
THEOREM PromptCorrect == Spec => []PromptIsLastResort
<1>1. PromptInv => PromptIsLastResort
  BY DEF PromptInv, PromptIsLastResort
<1> QED
  BY <1>1, InitType, NextType, InitPrompt, NextPrompt, PTL DEF Spec

-----------------------------------------------------------------------------
(***************************************************************************)
(* The end.                                                                *)
(***************************************************************************)

\* Once a process asked about a key, it never comes to connect without knowing one:
\* the key is trusted even if it cannot be saved.
AskedOnce ==
  \A p \in Process :
    /\ pc[p] \in {"resolve", "load"} => keyAsked[p] = 0
    /\ pc[p] \in {"connect", "askPassword"} /\ known[p] = {} => keyAsked[p] = 0

\* At first nobody was asked about a key.
LEMMA InitAsked == Init => AskedOnce
BY DEF Init, AskedOnce

\* Prompts are bounded in number, and a step that shows none leaves their number.
LEMMA PromptsBounded ==
  ASSUME TypeInv, NEW p \in Process
  PROVE  /\ PromptsLeft(p) \in Nat
         /\ UNCHANGED <<keyAsked, attempts>> => PromptsLeft(p)' = PromptsLeft(p)
<1>1. attempts[p] \in 0 .. 3 /\ keyAsked[p] \in 0 .. 2
  BY DEF TypeInv, TypeOK, PASSWORD_ATTEMPTS, KeyAskedMax
<1>2. PromptsLeft(p) \in Nat
  BY <1>1 DEF PromptsLeft, PASSWORD_ATTEMPTS
<1> QED
  BY <1>2 DEF PromptsLeft, PASSWORD_ATTEMPTS

\* A step of a process brings it nearer to its end, and no other process moves.
LEMMA StepAsked ==
  ASSUME TypeInv, AskedOnce, NEW p \in Process, Step(p)
  PROVE  /\ AskedOnce'
         /\ \A q \in Process \ {p} : pc'[q] = pc[q]
         /\ StepsLeft(p)' < StepsLeft(p)
<1> DEFINE Goal == /\ AskedOnce'
                   /\ \A q \in Process \ {p} : pc'[q] = pc[q]
                   /\ StepsLeft(p)' < StepsLeft(p)
<1>b. /\ PromptsLeft(p) \in Nat
      /\ UNCHANGED <<keyAsked, attempts>> => PromptsLeft(p)' = PromptsLeft(p)
  BY PromptsBounded
<1>n. StepsLeft(p)' = CASE pc'[p] \in {"connected", "failed"} -> 0
    [] pc'[p] = "connect"                 -> PromptsLeft(p)' + 1
    [] pc'[p] \in {"load", "write", "askPassword"} -> PromptsLeft(p)' + 2
    [] pc'[p] \in {"resolve", "append"}   -> PromptsLeft(p)' + 3
    [] pc'[p] = "askKey"                  -> PromptsLeft(p)' + 4
  BY DEF StepsLeft
<1>1. CASE ResolvePassword(p)
  <2>1. PICK w \in {"profile", None}, b \in BOOLEAN, c \in BOOLEAN, there \in {"failed", "load"} :
          /\ From(p, "resolve", there)
          /\ password' = [password EXCEPT ![p] = w]
          /\ profile' = [profile EXCEPT ![p] = b]
          /\ stated' = [stated EXCEPT ![p] = c]
          /\ UNCHANGED <<fileVars, prompting, trustVars, attempts, sent>>
          /\ w = None \/ b
          /\ there = "load" /\ c => b
    BY <1>1, ResolveEffect
  <2>2. pc[p] = "resolve" /\ pc'[p] \in {"load", "failed"} /\ UNCHANGED <<keyAsked, attempts, known>>
    BY <2>1 DEF From, TypeInv, TypeOK, trustVars
  <2>3. \A q \in Process \ {p} : pc'[q] = pc[q]
    BY <2>1 DEF From, TypeInv, TypeOK
  <2>4. AskedOnce'
    BY <2>2, <2>3 DEF AskedOnce
  <2>5. StepsLeft(p)' < StepsLeft(p)
    BY <1>b, <1>n, <2>2 DEF StepsLeft
  <2> QED
    BY <2>3, <2>4, <2>5
<1>2. CASE LoadKnownHosts(p)
  <2>1. pc[p] = "load" /\ pc' = [pc EXCEPT ![p] = "connect"] /\ UNCHANGED <<keyAsked, attempts>>
    BY <1>2 DEF LoadKnownHosts, From, trustVars
  <2>2. \A q \in Process \ {p} : known'[q] = known[q]
    BY <1>2 DEF LoadKnownHosts, TypeInv, TypeOK
  <2>3. keyAsked[p] = 0
    BY <2>1 DEF AskedOnce
  <2>4. AskedOnce' /\ \A q \in Process \ {p} : pc'[q] = pc[q]
    BY <2>1, <2>2, <2>3 DEF AskedOnce, TypeInv, TypeOK
  <2>5. StepsLeft(p)' < StepsLeft(p)
    <3>1. pc[p] = "load" /\ pc'[p] = "connect"
      BY <2>1 DEF TypeInv, TypeOK
    <3> QED
      BY <1>b, <1>n, <2>1, <3>1 DEF StepsLeft
  <2> QED
    BY <2>4, <2>5
<1>3. ASSUME NEW k \in Key, HostKeyNotVerifiable(p, k) PROVE Goal
  <2>1. CASE From(p, "connect", "failed") /\ UNCHANGED <<key, keyAsked>>
    <3>1. /\ pc[p] = "connect" /\ pc'[p] = "failed" /\ UNCHANGED <<keyAsked, known>>
          /\ \A q \in Process \ {p} : pc'[q] = pc[q]
      BY <1>3, <2>1 DEF HostKeyNotVerifiable, From, TypeInv, TypeOK
    <3>2. AskedOnce'
      BY <3>1 DEF AskedOnce
    <3> QED
      BY <1>b, <1>n, <3>1, <3>2 DEF StepsLeft
  <2>2. CASE known[p] = {} /\ From(p, "connect", "askKey")
    <3>1. /\ pc[p] = "connect" /\ pc'[p] = "askKey" /\ UNCHANGED <<attempts, known>>
          /\ \A q \in Process \ {p} : pc'[q] = pc[q]
      BY <1>3, <2>2 DEF HostKeyNotVerifiable, From, TypeInv, TypeOK
    <3>2. keyAsked[p] = 0
      BY <2>2, <3>1 DEF AskedOnce
    <3>3. keyAsked' = [keyAsked EXCEPT ![p] = 1]
      BY <1>3, <2>2, <3>2 DEF HostKeyNotVerifiable, From, KeyAskedMax
    <3>4. AskedOnce'
      BY <3>1, <3>3 DEF AskedOnce, TypeInv, TypeOK
    <3>5. attempts[p] \in 0 .. 3
      BY DEF TypeInv, TypeOK, PASSWORD_ATTEMPTS
    <3>6. keyAsked'[p] = 1
      BY <3>3 DEF TypeInv, TypeOK
    <3>7. PromptsLeft(p)' = PromptsLeft(p) - 4
      BY <3>1, <3>2, <3>5, <3>6 DEF PromptsLeft, PASSWORD_ATTEMPTS
    <3> QED
      BY <1>b, <1>n, <3>1, <3>4, <3>7 DEF StepsLeft
  <2> QED
    BY <1>3, <2>1, <2>2 DEF HostKeyNotVerifiable
<1>4. ASSUME NEW k \in Key, LoginByKey(p, k) PROVE Goal
  <2>1. pc[p] = "connect" /\ pc' = [pc EXCEPT ![p] = "connected"] /\ UNCHANGED <<keyAsked, attempts>>
    BY <1>4 DEF LoginByKey, From, trustVars
  <2>2. UNCHANGED known
    BY <1>4 DEF LoginByKey, trustVars
  <2>4. AskedOnce' /\ \A q \in Process \ {p} : pc'[q] = pc[q]
    BY <2>1, <2>2 DEF AskedOnce, TypeInv, TypeOK
  <2>5. StepsLeft(p)' < StepsLeft(p)
    <3>1. pc[p] = "connect" /\ pc'[p] = "connected"
      BY <2>1 DEF TypeInv, TypeOK
    <3> QED
      BY <1>b, <1>n, <2>1, <3>1 DEF StepsLeft
  <2> QED
    BY <2>4, <2>5
<1>5. ASSUME NEW k \in Key, LoginByPassword(p, k) PROVE Goal
  <2>1. pc[p] = "connect" /\ pc' = [pc EXCEPT ![p] = "connected"] /\ UNCHANGED <<keyAsked, attempts>>
    BY <1>5 DEF LoginByPassword, From, trustVars
  <2>2. UNCHANGED known
    BY <1>5 DEF LoginByPassword, trustVars
  <2>4. AskedOnce' /\ \A q \in Process \ {p} : pc'[q] = pc[q]
    BY <2>1, <2>2 DEF AskedOnce, TypeInv, TypeOK
  <2>5. StepsLeft(p)' < StepsLeft(p)
    <3>1. pc[p] = "connect" /\ pc'[p] = "connected"
      BY <2>1 DEF TypeInv, TypeOK
    <3> QED
      BY <1>b, <1>n, <2>1, <3>1 DEF StepsLeft
  <2> QED
    BY <2>4, <2>5
<1>6. ASSUME NEW k \in Key, PermissionDenied(p, k) PROVE Goal
  <2>1. /\ k \in known[p] /\ pc[p] = "connect"
        /\ sent' = sent \/ (password[p] # None /\ sent' = [sent EXCEPT ![p] = Append(@, k)])
        /\ \/ From(p, "connect", "failed") /\ UNCHANGED attempts
           \/ /\ From(p, "connect", "askPassword")
              /\ ~ profile[p] /\ prompting[p] /\ attempts[p] < PASSWORD_ATTEMPTS
              /\ attempts' = [attempts EXCEPT ![p] = @ + 1]
        /\ UNCHANGED <<fileVars, resolveVars, password, trustVars>>
    BY <1>6, DeniedEffect, Zenon
  <2>2. UNCHANGED <<keyAsked, known>>
    BY <2>1 DEF trustVars
  <2>3. \A q \in Process \ {p} : pc'[q] = pc[q]
    BY <2>1 DEF From, TypeInv, TypeOK
  <2>4. \/ pc'[p] = "failed"
        \/ /\ pc'[p] = "askPassword" /\ attempts[p] < PASSWORD_ATTEMPTS
           /\ attempts'[p] = attempts[p] + 1
    BY <2>1 DEF From, TypeInv, TypeOK
  <2>5. AskedOnce'
    BY <2>1, <2>2, <2>3, <2>4 DEF AskedOnce
  <2>6. StepsLeft(p) = PromptsLeft(p) + 1
    BY <2>1 DEF StepsLeft
  <2>7. CASE pc'[p] = "failed"
    BY <1>b, <1>n, <2>3, <2>5, <2>6, <2>7
  <2>8. CASE /\ pc'[p] = "askPassword" /\ attempts[p] < PASSWORD_ATTEMPTS
             /\ attempts'[p] = attempts[p] + 1
    <3>1. attempts[p] \in 0 .. 3
      BY DEF TypeInv, TypeOK, PASSWORD_ATTEMPTS
    <3>2. PromptsLeft(p)' = PromptsLeft(p) - 2
      BY <2>2, <2>8, <3>1 DEF PromptsLeft, PASSWORD_ATTEMPTS
    <3> QED
      BY <1>b, <1>n, <2>3, <2>5, <2>6, <2>8, <3>2
  <2> QED
    BY <2>4, <2>7, <2>8
<1>7. CASE AcceptKey(p)
  <2>1. pc[p] = "askKey" /\ pc' = [pc EXCEPT ![p] = "append"] /\ UNCHANGED <<keyAsked, attempts>>
    BY <1>7 DEF AcceptKey, From, trustVars
  <2>2. UNCHANGED known
    BY <1>7 DEF AcceptKey, trustVars
  <2>4. AskedOnce' /\ \A q \in Process \ {p} : pc'[q] = pc[q]
    BY <2>1, <2>2 DEF AskedOnce, TypeInv, TypeOK
  <2>5. StepsLeft(p)' < StepsLeft(p)
    <3>1. pc[p] = "askKey" /\ pc'[p] = "append"
      BY <2>1 DEF TypeInv, TypeOK
    <3> QED
      BY <1>b, <1>n, <2>1, <3>1 DEF StepsLeft
  <2> QED
    BY <2>4, <2>5
<1>8. CASE FindLineEnd(p)
  <2>1. pc[p] = "append" /\ pc' = [pc EXCEPT ![p] = "write"] /\ UNCHANGED <<keyAsked, attempts>>
    BY <1>8 DEF FindLineEnd, From, trustVars
  <2>2. UNCHANGED known
    BY <1>8 DEF FindLineEnd, trustVars
  <2>4. AskedOnce' /\ \A q \in Process \ {p} : pc'[q] = pc[q]
    BY <2>1, <2>2 DEF AskedOnce, TypeInv, TypeOK
  <2>5. StepsLeft(p)' < StepsLeft(p)
    <3>1. pc[p] = "append" /\ pc'[p] = "write"
      BY <2>1 DEF TypeInv, TypeOK
    <3> QED
      BY <1>b, <1>n, <2>1, <3>1 DEF StepsLeft
  <2> QED
    BY <2>4, <2>5
<1>9. CASE WriteLine(p)
  <2>1. pc[p] = "write" /\ pc' = [pc EXCEPT ![p] = "connect"] /\ UNCHANGED <<keyAsked, attempts>>
    BY <1>9 DEF WriteLine, From, trustVars
  <2>2. \A q \in Process \ {p} : known'[q] = known[q]
    BY <1>9 DEF WriteLine, TypeInv, TypeOK
  <2>3. known'[p] # {}
    BY <1>9 DEF WriteLine, TypeInv, TypeOK
  <2>4. AskedOnce' /\ \A q \in Process \ {p} : pc'[q] = pc[q]
    BY <2>1, <2>2, <2>3 DEF AskedOnce, TypeInv, TypeOK
  <2>5. StepsLeft(p)' < StepsLeft(p)
    <3>1. pc[p] = "write" /\ pc'[p] = "connect"
      BY <2>1 DEF TypeInv, TypeOK
    <3> QED
      BY <1>b, <1>n, <2>1, <3>1 DEF StepsLeft
  <2> QED
    BY <2>4, <2>5
<1>10. CASE SaveFails(p)
  <2>1. pc[p] = "append" /\ pc' = [pc EXCEPT ![p] = "connect"] /\ UNCHANGED <<keyAsked, attempts>>
    BY <1>10 DEF SaveFails, From, trustVars
  <2>2. \A q \in Process \ {p} : known'[q] = known[q]
    BY <1>10 DEF SaveFails, TypeInv, TypeOK
  <2>3. known'[p] # {}
    BY <1>10 DEF SaveFails, TypeInv, TypeOK
  <2>4. AskedOnce' /\ \A q \in Process \ {p} : pc'[q] = pc[q]
    BY <2>1, <2>2, <2>3 DEF AskedOnce, TypeInv, TypeOK
  <2>5. StepsLeft(p)' < StepsLeft(p)
    <3>1. pc[p] = "append" /\ pc'[p] = "connect"
      BY <2>1 DEF TypeInv, TypeOK
    <3> QED
      BY <1>b, <1>n, <2>1, <3>1 DEF StepsLeft
  <2> QED
    BY <2>4, <2>5
<1>11. CASE EnterPassword(p)
  <2>1. pc[p] = "askPassword" /\ pc' = [pc EXCEPT ![p] = "connect"] /\ UNCHANGED <<keyAsked, attempts>>
    BY <1>11 DEF EnterPassword, From, trustVars
  <2>2. UNCHANGED known
    BY <1>11 DEF EnterPassword, trustVars
  <2>4. AskedOnce' /\ \A q \in Process \ {p} : pc'[q] = pc[q]
    BY <2>1, <2>2 DEF AskedOnce, TypeInv, TypeOK
  <2>5. StepsLeft(p)' < StepsLeft(p)
    <3>1. pc[p] = "askPassword" /\ pc'[p] = "connect"
      BY <2>1 DEF TypeInv, TypeOK
    <3> QED
      BY <1>b, <1>n, <2>1, <3>1 DEF StepsLeft
  <2> QED
    BY <2>4, <2>5
<1>12. CASE ConnectFails(p)
  <2>1. pc[p] = "connect" /\ pc' = [pc EXCEPT ![p] = "failed"] /\ UNCHANGED <<keyAsked, attempts>>
    BY <1>12 DEF ConnectFails, From, trustVars
  <2>2. UNCHANGED known
    BY <1>12 DEF ConnectFails, trustVars
  <2>4. AskedOnce' /\ \A q \in Process \ {p} : pc'[q] = pc[q]
    BY <2>1, <2>2 DEF AskedOnce, TypeInv, TypeOK
  <2>5. StepsLeft(p)' < StepsLeft(p)
    <3>1. pc[p] = "connect" /\ pc'[p] = "failed"
      BY <2>1 DEF TypeInv, TypeOK
    <3> QED
      BY <1>b, <1>n, <2>1, <3>1 DEF StepsLeft
  <2> QED
    BY <2>4, <2>5
<1>13. CASE GiveUp(p)
  <2>1. /\ pc[p] \in {"askKey", "askPassword"} /\ pc' = [pc EXCEPT ![p] = "failed"]
        /\ UNCHANGED <<keyAsked, attempts, known>>
    BY <1>13 DEF GiveUp, From, trustVars
  <2>2. pc'[p] = "failed" /\ \A q \in Process \ {p} : pc'[q] = pc[q]
    BY <2>1 DEF TypeInv, TypeOK
  <2>4. AskedOnce'
    BY <2>1, <2>2 DEF AskedOnce
  <2>5. StepsLeft(p)' < StepsLeft(p)
    BY <1>b, <1>n, <2>1, <2>2 DEF StepsLeft
  <2> QED
    BY <2>2, <2>4, <2>5
<1> QED
  BY <1>1, <1>2, <1>3, <1>4, <1>5, <1>6, <1>7, <1>8, <1>9, <1>10, <1>11, <1>12, <1>13
  DEF Step

\* Every login ends, for any number of processes, keys and answers: each step of a
\* process leaves it fewer to take.
THEOREM RunsDown == Spec => LoginRunsDown
<1> DEFINE RunsInv == TypeInv /\ AskedOnce
           Down == \A p \in Process : pc'[p] # pc[p] => StepsLeft(p)' < StepsLeft(p)
<1>1. RunsInv /\ [Next]_vars => RunsInv' /\ [Down]_vars
  <2> SUFFICES ASSUME RunsInv, [Next]_vars PROVE RunsInv' /\ [Down]_vars
    OBVIOUS
  <2>1. CASE UNCHANGED vars
    BY <2>1, NextType DEF AskedOnce, vars, trustVars
  <2>2. ASSUME NEW p \in Process, Step(p) PROVE RunsInv' /\ Down
    BY <2>2, StepType, StepAsked
  <2> QED
    BY <2>1, <2>2 DEF Next
<1>2. Init => RunsInv
  BY InitType, InitAsked
<1> QED
  BY <1>1, <1>2, PTL DEF Spec, LoginRunsDown

-----------------------------------------------------------------------------
(***************************************************************************)
(* The port that a tunnel serves on: ForwardedPort.                        *)
(***************************************************************************)

\* How far a connection's client, its task and its channel can be apart: there
\* is no channel before the login node confirms it, and a client that is still
\* there when its channel is confirmed keeps that channel.
Joined ==
  \A c \in Conn :
    /\ local[c] = "none" <=> task[c] = "idle"
    /\ task[c] \in {"idle", "opening"} => chan[c] = "none"
    /\ task[c] = "confirmed" /\ local[c] = "open" => chan[c] = "open"

\* The inductive invariant.
PortInv == TypeOKPort /\ CountIsExact /\ Joined /\ EndsTogether /\ ReadsIntoChannel

-----------------------------------------------------------------------------
\* The open connections are finitely many, so their number is a number.
LEMMA OpenFinite ==
  /\ IsFiniteSet(OpenConnections)
  /\ Cardinality(OpenConnections) \in Nat
<1>1. OpenConnections \in SUBSET Conn
  BY DEF OpenConnections
<1>2. IsFiniteSet(OpenConnections)
  BY <1>1, FS_Subset, ConnAssumption
<1> QED
  BY <1>2, FS_CardinalityType

\* `connection_made` counts the connection it opens.
LEMMA AcceptCounts ==
  ASSUME NEW c \in Conn, TypeOKPort, CountIsExact, local[c] = "none",
         local' = [local EXCEPT ![c] = "open"], count' = count + 1
  PROVE  count' \in Nat /\ CountIsExact'
<1>1. OpenConnections' = OpenConnections \cup {c}
  BY DEF OpenConnections, TypeOKPort
<1>2. c \notin OpenConnections
  BY DEF OpenConnections
<1>3. Cardinality(OpenConnections') = Cardinality(OpenConnections) + 1
  BY <1>1, <1>2, OpenFinite, FS_AddElement
<1> QED
  BY <1>3, OpenFinite DEF CountIsExact

\* `close` counts a connection out once, however often it is called, and the
\* count never drops below zero.
LEMMA CloseCounts ==
  ASSUME NEW c \in Conn, TypeOKPort, CountIsExact, local[c] # "none", CloseLocal(c)
  PROVE  /\ local' \in [Conn -> {"none", "open", "closed"}]
         /\ reading' \subseteq Conn
         /\ count' \in Nat
         /\ CountIsExact'
<1>1. OpenConnections' = OpenConnections \ {c}
  BY DEF OpenConnections, CloseLocal, TypeOKPort
<1>2. c \in OpenConnections <=> local[c] # "closed"
  BY DEF OpenConnections, TypeOKPort
<1>3. /\ IsFiniteSet(OpenConnections \ {c})
      /\ Cardinality(OpenConnections \ {c}) =
           IF c \in OpenConnections THEN Cardinality(OpenConnections) - 1
                                    ELSE Cardinality(OpenConnections)
  BY OpenFinite, FS_RemoveElement
<1>4. Cardinality(OpenConnections \ {c}) \in Nat
  BY <1>3, FS_CardinalityType
<1>5. count' = Cardinality(OpenConnections \ {c})
  BY <1>2, <1>3, OpenFinite DEF CountIsExact, CloseLocal
<1>6. local' \in [Conn -> {"none", "open", "closed"}] /\ reading' \subseteq Conn
  BY DEF CloseLocal, TypeOKPort
<1> QED
  BY <1>1, <1>4, <1>5, <1>6 DEF CountIsExact

\* A step that leaves every client's side alone leaves the count exact.
LEMMA CountUnchanged ==
  ASSUME CountIsExact, UNCHANGED <<local, count>>
  PROVE  CountIsExact'
BY DEF CountIsExact, OpenConnections

-----------------------------------------------------------------------------
\* The port starts without connections.
LEMMA InitPortInv == InitPort => PortInv
<1> SUFFICES ASSUME InitPort PROVE PortInv
  OBVIOUS
<1>1. OpenConnections = {}
  BY DEF InitPort, OpenConnections
<1>2. CountIsExact
  BY <1>1, FS_EmptySet DEF InitPort, CountIsExact
<1> QED
  BY <1>2 DEF InitPort, PortInv, TypeOKPort, Joined, EndsTogether, ReadsIntoChannel

\* Every step of the port, a client, a channel or a task keeps the invariant.
LEMMA NextPortInv == PortInv /\ [NextPort]_portVars => PortInv'
<1> SUFFICES ASSUME PortInv, [NextPort]_portVars PROVE PortInv'
  OBVIOUS
<1> USE DEF PortInv
<1>1. ASSUME NEW c \in Conn, Accept(c) PROVE PortInv'
  <2>1. count' \in Nat /\ CountIsExact'
    BY <1>1, AcceptCounts DEF Accept
  <2>2. TypeOKPort'
    BY <1>1, <2>1 DEF Accept, TypeOKPort
  <2> QED
    BY <1>1, <2>1, <2>2
    DEF Accept, TypeOKPort, Joined, EndsTogether, ReadsIntoChannel
<1>2. ASSUME NEW c \in Conn, ChannelConfirmed(c) PROVE PortInv'
  <2>1. CountIsExact'
    BY <1>2, CountUnchanged DEF ChannelConfirmed
  <2> QED
    BY <1>2, <2>1
    DEF ChannelConfirmed, TypeOKPort, Joined, EndsTogether, ReadsIntoChannel
<1>3. ASSUME NEW c \in Conn, ChannelOpened(c) PROVE PortInv'
  <2>1. CountIsExact'
    BY <1>3, CountUnchanged DEF ChannelOpened
  <2> QED
    BY <1>3, <2>1
    DEF ChannelOpened, TypeOKPort, Joined, EndsTogether, ReadsIntoChannel
<1>4. ASSUME NEW c \in Conn, ChannelFails(c) PROVE PortInv'
  <2>1. local[c] # "none" /\ CloseLocal(c)
    BY <1>4 DEF ChannelFails, Joined
  <2>2. count' \in Nat /\ CountIsExact'
    BY <2>1, CloseCounts
  <2> QED
    BY <1>4, <2>2
    DEF ChannelFails, CloseLocal, TypeOKPort, Joined, EndsTogether, ReadsIntoChannel
<1>5. ASSUME NEW c \in Conn, ClientHangsUp(c) PROVE PortInv'
  <2>1. local[c] # "none" /\ CloseLocal(c)
    BY <1>5 DEF ClientHangsUp
  <2>2. count' \in Nat /\ CountIsExact'
    BY <2>1, CloseCounts
  <2> QED
    BY <1>5, <2>2
    DEF ClientHangsUp, CloseLocal, TypeOKPort, Joined, EndsTogether, ReadsIntoChannel
<1>6. ASSUME NEW c \in Conn, ChannelCloses(c) PROVE PortInv'
  <2>1. local[c] # "none" /\ CloseLocal(c)
    BY <1>6 DEF ChannelCloses, Joined
  <2>2. count' \in Nat /\ CountIsExact'
    BY <2>1, CloseCounts
  <2> QED
    BY <1>6, <2>2
    DEF ChannelCloses, CloseLocal, TypeOKPort, Joined, EndsTogether, ReadsIntoChannel
<1>7. ASSUME ClosePort \/ LoginCloses \/ UNCHANGED portVars PROVE PortInv'
  <2>1. CountIsExact'
    BY <1>7, CountUnchanged DEF ClosePort, LoginCloses, portVars
  <2> QED
    BY <1>7, <2>1
    DEF ClosePort, LoginCloses, portVars, TypeOKPort, Joined, EndsTogether, ReadsIntoChannel
<1> QED
  BY <1>1, <1>2, <1>3, <1>4, <1>5, <1>6, <1>7 DEF NextPort

\* The invariant holds of every state of the port.
THEOREM PortInvHolds == SpecPort => []PortInv
BY InitPortInv, NextPortInv, PTL DEF SpecPort

\* Every variable keeps its type; the number of connections the panel shows is
\* never negative.
THEOREM PortTypeCorrect == SpecPort => []TypeOKPort
<1>1. PortInv => TypeOKPort
  BY DEF PortInv
<1> QED
  BY <1>1, PortInvHolds, PTL

\* `on_connections` is told the number of clients connected, whichever of a
\* client, its channel and the task that joins them ends first.
THEOREM CountCorrect == SpecPort => []CountIsExact
<1>1. PortInv => CountIsExact
  BY DEF PortInv
<1> QED
  BY <1>1, PortInvHolds, PTL

\* `_open_channel` leaves no channel behind for a client that hung up while it
\* waited, and `close` no client at a channel that is gone.
THEOREM EndsCorrect == SpecPort => []EndsTogether
<1>1. PortInv => EndsTogether
  BY DEF PortInv
<1> QED
  BY <1>1, PortInvHolds, PTL

\* A client is read exactly while it has a channel that takes what it sends.
THEOREM ReadingCorrect == SpecPort => []ReadsIntoChannel
<1>1. PortInv => ReadsIntoChannel
  BY DEF PortInv
<1> QED
  BY <1>1, PortInvHolds, PTL

\* The port is sound: its count is exact, its ends end together, and nothing is
\* read before it has a channel.
THEOREM PortSound == SpecPort => []PortIsSound
<1>1. PortInv => PortIsSound
  BY DEF PortInv, PortIsSound
<1> QED
  BY <1>1, PortInvHolds, PTL
=============================================================================
