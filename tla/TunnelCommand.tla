----------------------------- MODULE TunnelCommand -----------------------------
(***************************************************************************)
(* What `ezhpcy tunnel` makes of the configuration and of its options      *)
(* before a session starts: profiles that inherit from one another         *)
(* (config.py), the options on top of them (cli/_resolve.py), what must be *)
(* set, what must not be set together, the alias (cli/tunnel.py), and what *)
(* the submission asks the scheduler for.                                  *)
(*                                                                         *)
(* A table sets some settings, each to a value.  "user" stands for the     *)
(* host too, "prompt" for the password settings that the top level may     *)
(* set, "resource" and "lsf" for any of the `resources` and `lsf` tables.  *)
(***************************************************************************)
EXTENDS Naturals, Sequences, FiniteSets, SequencesExt

CONSTANTS
  Profile,   \* names of the configured profiles
  Unknown,   \* a name that no profile has
  Configs,   \* configurations to look at: [top, tables, inherit]
  Commands,  \* command lines: [profile, options, alias]
  None

Setting == {"prompt", "password", "user", "type", "mode", "command", "resource", "lsf"}

\* What a table of settings may hold; a mode is one of two.
IsTable(t) ==
  /\ DOMAIN t \subseteq Setting
  /\ "mode" \in DOMAIN t => t["mode"] \in {"BATCH", "INTERACTIVE"}

ASSUME CommandAssumption ==
  /\ IsFiniteSet(Profile) /\ Unknown \notin Profile /\ None \notin Profile \cup {Unknown}
  /\ \A c \in Configs :
       /\ DOMAIN c.top \subseteq {"prompt", "password"}
       /\ DOMAIN c.tables = Profile /\ \A p \in Profile : IsTable(c.tables[p])
       /\ c.inherit \in [Profile -> Profile \cup {Unknown, None}]
  /\ \A c \in Commands :
       /\ c.profile \in Profile \cup {Unknown, None}
       /\ DOMAIN c.options \subseteq {"user", "type", "mode", "command", "resource"}
       /\ IsTable(c.options)

VARIABLES
  top,      \* (fixed) the settings outside the profiles
  tables,   \* (fixed) each profile's own settings
  inherit,  \* (fixed) the profile that each inherits, or None
  given,    \* (fixed) the command line
  pc,       \* how far the command is: from "load" to "session", or an "error"
  values,   \* the settings so far
  alias,    \* the alias to serve, or None
  request   \* what the submission asks the scheduler for

commandVars == <<top, tables, inherit, given, pc, values, alias, request>>
configVars == <<top, tables, inherit, given>>

InitCommand ==
  /\ \E c \in Configs : top = c.top /\ tables = c.tables /\ inherit = c.inherit
  /\ given \in Commands
  /\ pc = "load" /\ values = <<>> /\ alias = None /\ request = <<>>

-----------------------------------------------------------------------------
(* Inheritance *)

\* A round of `inheritance_chain`'s loop, which ends with None, a name that no profile
\* has, or one that is in the chain already.
GoesOn(chain) == inherit[Last(chain)] \in Profile \ Range(chain)
Extended(chain) == IF GoesOn(chain) THEN Append(chain, inherit[Last(chain)]) ELSE chain

\* `inheritance_chain`: the profile, then the one it inherits, and so on, after as many
\* rounds as there are profiles.
InheritanceChain(p) ==
  LET chain[n \in Nat] == IF n = 0 THEN <<p>> ELSE Extended(chain[n - 1])
  IN  chain[Cardinality(Profile)]

\* It raises an error.
BadChain(p) == inherit[Last(InheritanceChain(p))] # None

\* Settings put over others.
Over(upper, lower) ==
  [s \in DOMAIN upper \cup DOMAIN lower |-> IF s \in DOMAIN upper THEN upper[s] ELSE lower[s]]

\* The top level's settings, with each profile's put over those before it.
Merged(chain) ==
  LET merged[n \in 0 .. Len(chain)] ==
        IF n = 0 THEN top ELSE Over(tables[chain[n]], merged[n - 1])
  IN  merged[Len(chain)]

\* Mutant of ResolveProfile: the chain is not reversed, so that ancestors win.
ResolveUnreversed(p) == Merged(InheritanceChain(p))

\* `resolve_profile`: from the top level, through the ancestors, to the profile.
ResolveProfile(p) == Merged(Reverse(InheritanceChain(p)))

\* Mutant of StoredPassword: only the profile and the top level are looked at.
StoredPasswordHere(p) ==
  "password" \in DOMAIN top \cup (IF p = None THEN {} ELSE DOMAIN tables[p])

\* `reject_stored_password`.
StoredPassword(p) ==
  \/ "password" \in DOMAIN top
  \/ p # None /\ \E name \in Range(InheritanceChain(p)) : "password" \in DOMAIN tables[name]

-----------------------------------------------------------------------------
(* The command *)

Fails == pc' = "error" /\ UNCHANGED <<configVars, values, alias, request>>

Goes(next) == pc' = next /\ UNCHANGED configVars

\* `validate_profiles`: every profile must resolve, the ones not asked for too.
LoadConfig ==
  /\ pc = "load"
  /\ IF \E p \in Profile : BadChain(p) THEN Fails
     ELSE Goes("profile") /\ UNCHANGED <<values, alias, request>>

\* `resolve_profile_config`: of a profile, or of the top level alone.
ResolveProfileConfig ==
  /\ pc = "profile"
  /\ IF given.profile = Unknown \/ StoredPassword(given.profile) THEN Fails
     ELSE /\ values' = IF given.profile = None THEN top ELSE ResolveProfile(given.profile)
          /\ Goes("connection") /\ UNCHANGED <<alias, request>>

\* `with_cli_options`, and the CLI values of `connection_from_cli`: options win.
WithOptions(settings) ==
  Over([s \in settings \cap DOMAIN given.options |-> given.options[s]], values)

\* `connection_from_cli`: a user and a host must be set, and the password source work.
ConnectionFromCLI ==
  /\ pc = "connection"
  /\ \/ /\ "user" \in DOMAIN WithOptions({"user"})
        /\ values' = WithOptions({"user"})
        /\ Goes("scheduler") /\ UNCHANGED <<alias, request>>
     \/ Fails

\* The other options, and the settings that a tunnel needs.
ApplyOptions ==
  /\ pc = "scheduler"
  /\ LET applied == WithOptions({"type", "mode", "command", "resource"})
     IN  IF {"type", "mode"} \subseteq DOMAIN applied
           THEN /\ values' = applied
                /\ Goes("submission") /\ UNCHANGED <<alias, request>>
           ELSE Fails

Own(s) == given.profile # None /\ s \in DOMAIN tables[given.profile]

SubmissionSettings == IF values["type"] = "LSF" THEN {"resource", "lsf"} ELSE {"resource"}

\* Mutant of Conflicts: an option alone is no conflict.
ConflictsWithProfile == \E s \in SubmissionSettings : Own(s)

\* What is asked for, not inherited, and the submission command would drop.
Conflicts == \E s \in SubmissionSettings : Own(s) \/ s \in DOMAIN given.options

\* `_check_interactive_submission_command`.
CheckSubmissionCommand ==
  /\ pc = "submission"
  /\ IF "command" \in DOMAIN values /\ (values["mode"] = "BATCH" \/ Conflicts) THEN Fails
     ELSE Goes("alias") /\ UNCHANGED <<values, alias, request>>

\* The alias is the name of another profile.
TakesProfileName(a) == a \in Profile /\ a # given.profile

\* `alias_digest`, as the settings that it is made from: no two lists of settings have
\* the same digest.
Digest == [s \in DOMAIN values \ {"prompt", "password"} |-> values[s]]

\* `_resolve_ssh_host`.  An alias may also not be one.
ResolveSSHHost ==
  /\ pc = "alias"
  /\ LET a == IF given.alias # None THEN given.alias
              ELSE IF given.profile # None THEN given.profile ELSE Digest
     IN  \/ /\ ~ TakesProfileName(a)
            /\ alias' = a
            /\ Goes("probe") /\ UNCHANGED <<values, request>>
         \/ (TakesProfileName(a) \/ given.alias # None) /\ Fails

\* What `submit_batch` and `submit_interactive` build their command from.
Request ==
  LET used == IF "command" \in DOMAIN values /\ values["mode"] = "INTERACTIVE"
                THEN {"command"} ELSE SubmissionSettings
  IN  [s \in used \cap DOMAIN values |-> values[s]]

\* The credentials are there, or to be provisioned, and `ssh <alias>` will get the
\* tunnel's block: the session starts, and submits.
StartSession ==
  /\ pc = "probe"
  /\ \/ request' = Request /\ Goes("session") /\ UNCHANGED <<values, alias>>
     \/ Fails

NextCommand ==
  \/ LoadConfig \/ ResolveProfileConfig \/ ConnectionFromCLI \/ ApplyOptions
  \/ CheckSubmissionCommand \/ ResolveSSHHost \/ StartSession

SpecCommand == InitCommand /\ [][NextCommand]_commandVars

-----------------------------------------------------------------------------
(* Properties *)

\* The profile, those it inherits one after the other, and then None for ever.
Lineage[n \in Nat] ==
  IF n = 0 THEN given.profile
  ELSE IF Lineage[n - 1] \in Profile THEN inherit[Lineage[n - 1]] ELSE None

Generations == 0 .. Cardinality(Profile)

SetBy(n, s) == Lineage[n] \in Profile /\ s \in DOMAIN tables[Lineage[n]]

\* No option aside, the setting s comes from the nearest that sets it: the profile,
\* what that inherits, the top level.
Inherited(s, value) ==
  IF \E n \in Generations : SetBy(n, s)
    THEN \E n \in Generations : /\ SetBy(n, s) /\ \A m \in 0 .. n - 1 : ~ SetBy(m, s)
                                /\ value = tables[Lineage[n]][s]
    ELSE s \in DOMAIN top /\ value = top[s]

\* The command line is nearer than all of these.
NearestSets(s, value) ==
  IF s \in DOMAIN given.options THEN value = given.options[s] ELSE Inherited(s, value)

\* Somebody sets s.
IsSet(s) ==
  s \in DOMAIN given.options \cup DOMAIN top \/ \E n \in Generations : SetBy(n, s)

\* Once options are applied, each setting is what the nearest to set it says, and
\* what nobody sets is not set: in whatever order profiles inherit and override.
NearestWins ==
  pc \in {"submission", "alias", "probe", "session"} =>
    \A s \in Setting :
      /\ s \in DOMAIN values => NearestSets(s, values[s])
      /\ s \notin DOMAIN values => ~ IsSet(s)

\* "Passwords must not be stored in configuration files", also those that a nearer
\* profile overrides; but "one profile's mistake mustn't keep the others from running".
StoredPasswordStops ==
  [][pc = "profile" =>
       (pc' = "error" <=>
          \/ given.profile = Unknown \/ "password" \in DOMAIN top
          \/ \E n \in Generations : SetBy(n, "password"))]_commandVars

Asked(s) == s \in DOMAIN given.options \/ SetBy(0, s)

\* "Asking for one explicitly ... is an error rather than silently getting something
\* else": what the options or the profile itself ask of the submission, a submission
\* command included, is in the request, with the value asked for.
NothingAskedIsDropped ==
  pc = "session" =>
    \A s \in {"command"} \cup SubmissionSettings :
      Asked(s) => s \in DOMAIN request /\ NearestSets(s, request[s])

=============================================================================
