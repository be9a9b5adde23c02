----------------------------- MODULE LoginPrompts -----------------------------
(***************************************************************************)
(* Logging in to the login node: `resolve_password` (cli/_password.py) and *)
(* then `connect_interactive` (cli/utils/ssh.py), which connects, asks for *)
(* an unknown host key or for a password once the connection has failed,   *)
(* and connects again.  Several EzHPCy processes of a user log in to one   *)
(* host, whose name may lead to login nodes with different keys, and share *)
(* EzHPCy's own known hosts file.                                          *)
(***************************************************************************)
EXTENDS Naturals, Sequences, FiniteSets, SequencesExt

CONSTANTS
  Process,  \* the EzHPCy processes logging in
  Key,      \* host keys the login nodes may present
  None      \* no key, no password; in a file, a line no key can be read from

ASSUME NoneAssumption == None \notin Key

PASSWORD_ATTEMPTS == 3

VARIABLES
  userFile,   \* keys of the host in ~/.ssh/known_hosts
  ownFile,    \* lines of EzHPCy's known hosts file
  ended,      \* its last line ends with a newline
  pc,         \* where each process is
  prompting,  \* password_prompt
  stated,     \* the password is to be read from a file, a descriptor or an option
  profile,    \* conn_info.password is set
  password,   \* the password given to the next connection
  known,      \* `_KnownHosts`: the keys of the host the process has read or added
  key,        \* the key the user is asked about
  newline,    \* `_append_line` saw that the last line lacks its newline
  attempts,   \* password_attempts
  keyAsked,   \* host key prompts so far, counted up to KeyAskedMax
  accepted,   \* keys the user of the process accepted
  sent        \* keys of the hosts that were sent a password, in order

KeyAskedMax == 2   \* bound: enough to tell once from more often

resolveVars == <<prompting, stated, profile>>
fileVars == <<userFile, ownFile, ended>>
trustVars == <<known, key, newline, keyAsked, accepted>>

vars == <<fileVars, pc, resolveVars, password, trustVars, attempts, sent>>

Init ==
  /\ userFile \in {{}} \cup {{k} : k \in Key}
  /\ ownFile \in {<<>>} \cup {<<k>> : k \in Key}
  /\ ended \in IF ownFile = <<>> THEN {TRUE} ELSE BOOLEAN
  /\ pc = [p \in Process |-> "resolve"]
  /\ prompting \in [Process -> BOOLEAN]
  /\ stated = [p \in Process |-> FALSE]
  /\ profile = [p \in Process |-> FALSE]
  /\ password = [p \in Process |-> None]
  /\ known = [p \in Process |-> {}]
  /\ key = [p \in Process |-> None]
  /\ newline = [p \in Process |-> FALSE]
  /\ attempts = [p \in Process |-> 0]
  /\ keyAsked = [p \in Process |-> 0]
  /\ accepted = [p \in Process |-> {}]
  /\ sent = [p \in Process |-> <<>>]

From(p, here, there) ==
  /\ pc[p] = here
  /\ pc' = [pc EXCEPT ![p] = there]

------------------------------------------------------------------------------
(* The password *)

\* What reading from a source may come to: a file or a descriptor cannot be read,
\* and a keyring without the password is passed over if prompting is allowed.
ReadSource(source, prompt) ==
  CASE source = "none"     -> {"absent"}
    [] source = "password" -> {"read"}
    [] source = "keyring"  -> {"read", IF prompt THEN "absent" ELSE "error"}
    [] OTHER               -> {"read", "error"}

\* Mutant of FirstSource: the keyring is consulted first.
KeyringFirst(cli, configured) ==
  IF "keyring" \in configured THEN "keyring" ELSE cli

\* The source consulted: the one given on the command line, or else the first of
\* the configured ones.
FirstSource(cli, configured) ==
  CASE cli # "none"                              -> cli
    [] cli = "none" /\ "fd" \in configured       -> "fd"
    [] cli = "none" /\ configured = {}           -> "none"
    [] cli = "none" /\ configured = {"keyring"}  -> "keyring"
    [] OTHER                                     -> "file"

\* `resolve_password`, before anything connects.
ResolvePassword(p) ==
  \E cli \in {"none", "password", "file", "fd", "keyring"},
     configured \in SUBSET {"fd", "file", "keyring"} :
    \E outcome \in ReadSource(FirstSource(cli, configured), prompting[p]) :
      /\ From(p, "resolve", IF outcome = "error" THEN "failed" ELSE "load")
      /\ profile' = [profile EXCEPT ![p] = outcome = "read"]
      /\ password' = [password EXCEPT ![p] = IF outcome = "read" THEN "profile" ELSE None]
      /\ stated' = [stated EXCEPT ![p] =
           IF cli = "none" THEN configured \ {"keyring"} # {} ELSE cli # "keyring"]
      /\ UNCHANGED <<fileVars, prompting, trustVars, attempts, sent>>

------------------------------------------------------------------------------
(* Host keys *)

\* `_KnownHosts.load`: either file may be missing or unreadable, which is logged
\* and passed over, and so is a line no key can be read from.
LoadKnownHosts(p) ==
  /\ From(p, "load", "connect")
  /\ \E user, own \in BOOLEAN :
       known' = [known EXCEPT ![p] =
         (IF user THEN userFile ELSE {}) \cup (IF own THEN Range(ownFile) \ {None} ELSE {})]
  /\ UNCHANGED <<fileVars, resolveVars, password, key, newline, keyAsked, accepted,
                 attempts, sent>>

\* `combined`: the keys asyncssh accepts in the connection.
Trusted(p) == known[p]

\* A login node presents a key that is not trusted, so asyncssh gives up on the
\* connection.  A host known with another key is refused; for an unknown one
\* `connect_interactive` goes on to ask.
HostKeyNotVerifiable(p, k) ==
  /\ k \notin Trusted(p)
  /\ \/ /\ known[p] # {}
        /\ From(p, "connect", "failed")
        /\ UNCHANGED <<key, keyAsked>>
     \/ /\ known[p] = {}
        /\ From(p, "connect", "askKey")
        /\ key' = [key EXCEPT ![p] = k]
        /\ keyAsked' = [keyAsked EXCEPT ![p] = IF @ = KeyAskedMax THEN @ ELSE @ + 1]
  /\ UNCHANGED <<fileVars, resolveVars, password, known, newline, accepted, attempts, sent>>

\* The user accepts the key at the prompt of `_accept_host_key`.
AcceptKey(p) ==
  /\ From(p, "askKey", "append")
  /\ accepted' = [accepted EXCEPT ![p] = @ \cup {key[p]}]
  /\ UNCHANGED <<fileVars, resolveVars, password, known, key, newline, keyAsked, attempts, sent>>

\* `_append_line` opens the file and looks at its last byte ...
FindLineEnd(p) ==
  /\ From(p, "append", "write")
  /\ newline' = [newline EXCEPT ![p] = ~ ended]
  /\ UNCHANGED <<fileVars, resolveVars, password, known, key, keyAsked, accepted, attempts, sent>>

\* The file after the line is written at its end: right after a line without its
\* newline, neither can be read.
Appended(k, separated) ==
  IF ended \/ separated THEN Append(ownFile, k)
  ELSE [ownFile EXCEPT ![Len(ownFile)] = None]

\* Mutant of WriteLine: the newline is not looked for.
WriteLineOnly(p) ==
  /\ From(p, "write", "connect")
  /\ ownFile' = Appended(key[p], FALSE)
  /\ ended' = TRUE
  /\ known' = [known EXCEPT ![p] = @ \cup {key[p]}]
  /\ UNCHANGED <<userFile, resolveVars, password, key, newline, keyAsked, accepted,
                 attempts, sent>>

\* ... and writes the line at the end, wherever that is by now.
WriteLine(p) ==
  /\ From(p, "write", "connect")
  /\ ownFile' = Appended(key[p], newline[p])
  /\ ended' = TRUE
  /\ known' = [known EXCEPT ![p] = @ \cup {key[p]}]
  /\ UNCHANGED <<userFile, resolveVars, password, key, newline, keyAsked, accepted,
                 attempts, sent>>

\* Mutant of SaveFails: a key that was not saved is not trusted either.
SaveFailsUntrusted(p) ==
  /\ From(p, "append", "connect")
  /\ UNCHANGED <<fileVars, resolveVars, password, trustVars, attempts, sent>>

\* The line cannot be saved: the key is trusted for this connection only.
SaveFails(p) ==
  /\ From(p, "append", "connect")
  /\ known' = [known EXCEPT ![p] = @ \cup {key[p]}]
  /\ UNCHANGED <<fileVars, resolveVars, password, key, newline, keyAsked, accepted,
                 attempts, sent>>

------------------------------------------------------------------------------
(* Authentication *)

\* A key or the agent logs in, without a password.
LoginByKey(p, k) ==
  /\ k \in Trusted(p)
  /\ From(p, "connect", "connected")
  /\ UNCHANGED <<fileVars, resolveVars, password, trustVars, attempts, sent>>

\* The server asks for a password and takes the one it is sent.
LoginByPassword(p, k) ==
  /\ k \in Trusted(p) /\ password[p] # None
  /\ From(p, "connect", "connected")
  /\ sent' = [sent EXCEPT ![p] = Append(@, k)]
  /\ UNCHANGED <<fileVars, resolveVars, password, trustVars, attempts>>

\* Mutant of MayAsk: a password of the profile that is refused is asked for.
MayAskAnyway(p, offered) ==
  prompting[p] /\ offered /\ attempts[p] < PASSWORD_ATTEMPTS

\* What `connect_interactive` checks before it asks for a password.
MayAsk(p, offered) ==
  ~ profile[p] /\ prompting[p] /\ offered /\ attempts[p] < PASSWORD_ATTEMPTS

\* No way in, with the password or without: `connect_interactive` gives up or asks
\* for a password, if the server offered to take one.
PermissionDenied(p, k) ==
  \E offered \in BOOLEAN :
    /\ k \in Trusted(p)
    /\ sent' = IF offered /\ password[p] # None
                 THEN [sent EXCEPT ![p] = Append(@, k)] ELSE sent
    /\ \/ ~ MayAsk(p, offered) /\ From(p, "connect", "failed") /\ UNCHANGED attempts
       \/ /\ MayAsk(p, offered) /\ From(p, "connect", "askPassword")
          /\ attempts' = [attempts EXCEPT ![p] = @ + 1]
    /\ UNCHANGED <<fileVars, resolveVars, password, trustVars>>

\* The user types a password at the prompt.
EnterPassword(p) ==
  /\ From(p, "askPassword", "connect")
  /\ password' = [password EXCEPT ![p] = "typed"]
  /\ UNCHANGED <<fileVars, resolveVars, trustVars, attempts, sent>>

\* The host cannot be reached or answers with an error of its own, among them that
\* it has no key to ask about.
ConnectFails(p) ==
  /\ From(p, "connect", "failed")
  /\ UNCHANGED <<fileVars, resolveVars, password, trustVars, attempts, sent>>

\* At a prompt (`ask`) the user refuses the key, or presses Ctrl+C, which is raised
\* at once: the event loop runs nothing meanwhile.
GiveUp(p) ==
  /\ From(p, "askKey", "failed") \/ From(p, "askPassword", "failed")
  /\ UNCHANGED <<fileVars, resolveVars, password, trustVars, attempts, sent>>

Step(p) ==
  \/ ResolvePassword(p) \/ LoadKnownHosts(p)
  \/ \E k \in Key : \/ HostKeyNotVerifiable(p, k) \/ LoginByKey(p, k)
                    \/ LoginByPassword(p, k) \/ PermissionDenied(p, k)
  \/ AcceptKey(p) \/ FindLineEnd(p) \/ WriteLine(p) \/ SaveFails(p)
  \/ EnterPassword(p) \/ ConnectFails(p) \/ GiveUp(p)

Next == \E p \in Process : Step(p)

Spec == Init /\ [][Next]_vars

------------------------------------------------------------------------------
(* Properties *)

\* Files, passwords, counters and program counters have their types.
TypeOK ==
  /\ userFile \subseteq Key /\ ownFile \in Seq(Key \cup {None}) /\ ended \in BOOLEAN
  /\ pc \in [Process -> {"resolve", "load", "connect", "askKey", "append", "write",
                         "askPassword", "connected", "failed"}]
  /\ prompting \in [Process -> BOOLEAN] /\ stated \in [Process -> BOOLEAN]
  /\ profile \in [Process -> BOOLEAN] /\ newline \in [Process -> BOOLEAN]
  /\ password \in [Process -> {None, "profile", "typed"}]
  /\ known \in [Process -> SUBSET Key] /\ key \in [Process -> Key \cup {None}]
  /\ attempts \in [Process -> 0 .. PASSWORD_ATTEMPTS]
  /\ keyAsked \in [Process -> 0 .. KeyAskedMax]
  /\ accepted \in [Process -> SUBSET Key] /\ sent \in [Process -> Seq(Key)]

\* A password is only ever sent to a host whose key is in a known hosts file or was
\* accepted by the user of this very process, although `connect_interactive` starts
\* over after each prompt and may meet another login node each time.
PasswordToTrustedHost ==
  \A p \in Process :
    Range(sent[p]) \subseteq userFile \cup Range(ownFile) \cup accepted[p]

\* A password from the profile is sent at most once, a typed one at most three
\* times, and the first password typed is sent after a connection without one.
PasswordTriesBounded ==
  \A p \in Process :
    /\ Len(sent[p]) <= IF profile[p] THEN 1 ELSE attempts[p]
    /\ attempts[p] <= PASSWORD_ATTEMPTS

\* Passwords are guarded: they go to trusted keys only, and not too often, which could
\* lock the account.
PasswordIsGuarded == PasswordToTrustedHost /\ PasswordTriesBounded

\* The prompt is the last resort of `resolve_password`: with a password file, a
\* descriptor or a password given, no password is asked for.
PromptIsLastResort ==
  \A p \in Process : attempts[p] > 0 => prompting[p] /\ ~ stated[p]

\* No line of EzHPCy's known hosts file runs into another one, although processes
\* look for the last newline and write at different moments.
LinesAreWhole == None \notin Range(ownFile)

\* The prompts a process may still show, weighted by the steps that each leads to.
PromptsLeft(p) ==
  (IF keyAsked[p] = 0 THEN 4 ELSE 0) + 2 * (PASSWORD_ATTEMPTS - attempts[p])

\* An upper bound of the steps that a process may still take.
StepsLeft(p) ==
  CASE pc[p] \in {"connected", "failed"} -> 0
    [] pc[p] = "connect"                 -> PromptsLeft(p) + 1
    [] pc[p] \in {"load", "write", "askPassword"} -> PromptsLeft(p) + 2
    [] pc[p] \in {"resolve", "append"}   -> PromptsLeft(p) + 3
    [] pc[p] = "askKey"                  -> PromptsLeft(p) + 4

\* Every login ends, however often `connect_interactive` starts over and whatever the
\* login nodes and the user answer: each step leaves fewer to take.
LoginRunsDown ==
  [][\A p \in Process : pc'[p] # pc[p] => StepsLeft(p)' < StepsLeft(p)]_vars

==============================================================================
