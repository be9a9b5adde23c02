---------------------------- MODULE MCTunnelCommand ----------------------------
(***************************************************************************)
(* TunnelCommand for TLC: three profiles, and two families of              *)
(* configurations, one for what inheritance does with the connection and   *)
(* its passwords, one for what a submission command replaces.              *)
(***************************************************************************)
EXTENDS TunnelCommand, TLC

CONSTANTS p, q, r

\* A table by what it sets; a value says where it was set, so that any mix-up shows.
Sets(S, source) == [s \in S |-> source]

Scheduling(type, mode) ==
  (IF type = None THEN <<>> ELSE "type" :> type) @@ (IF mode = None THEN <<>> ELSE "mode" :> mode)

\* What there is to inherit from: nobody, one another, oneself, a name that is no profile.
Inherits == [Profile -> Profile \cup {Unknown, None}]

LineageOnly == {p :> q @@ q :> r @@ r :> None, p :> q @@ q :> None @@ r :> q}

ConnectionConfigs ==
  {[top |-> Sets(T, "top"), inherit |-> h,
    tables |-> [n \in Profile |-> Sets(IF n = r THEN R ELSE IF n = q THEN Q ELSE P, n)
                                  @@ Scheduling("LSF", "BATCH")]] :
     T \in SUBSET {"prompt", "password"}, h \in LineageOnly,
     P \in SUBSET {"prompt", "user"}, Q \in SUBSET {"prompt", "password", "user"},
     R \in SUBSET {"prompt", "password", "user"}}

InheritanceConfigs ==
  {[top |-> <<>>, inherit |-> h,
    tables |-> [n \in Profile |-> Sets({"user"}, n) @@ Scheduling("LSF", "BATCH")]] : h \in Inherits}

SubmissionConfigs ==
  {[top |-> <<>>, inherit |-> p :> h @@ q :> None @@ r :> None,
    tables |-> p :> (Sets(P, "p") @@ Scheduling(t, m))
            @@ q :> (Sets(Q \cup {"user"}, "q") @@ Scheduling("LSF", n))
            @@ r :> <<>>] :
     h \in {None, q}, t \in {None, "LSF", "PBS"}, m \in {None, "BATCH", "INTERACTIVE"},
     n \in {"BATCH", "INTERACTIVE"}, P \in SUBSET {"user", "command", "resource", "lsf"},
     Q \in SUBSET {"command", "resource", "lsf"}}

MCConfigs == ConnectionConfigs \cup InheritanceConfigs \cup SubmissionConfigs

MCCommands ==
  {[profile |-> n, alias |-> a, options |-> Sets(S, "cli") @@ Scheduling(t, m)] :
     n \in Profile \cup {Unknown, None}, a \in {None, q}, S \in SUBSET {"user", "command", "resource"},
     t \in {None, "PBS"}, m \in {None, "INTERACTIVE"}}
=============================================================================
