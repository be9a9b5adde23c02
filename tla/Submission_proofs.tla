--------------------------- MODULE Submission_proofs ---------------------------
(***************************************************************************)
(* What a tunnel asks the scheduler for is what the configuration and the  *)
(* options say (TunnelCommand), for any profiles; and what its session     *)
(* knows of the interactive job is so: its ID, that it is over, succeeded  *)
(* or runs, and its output (SchedulerJob), for any split of the output and *)
(* any course of the job.                                                  *)
(***************************************************************************)
EXTENDS TunnelCommand, SchedulerJob, FiniteSetTheorems, FunctionTheorems, SequenceTheorems,
        WellFoundedInduction, TLAPS

\* A nonempty set of naturals has a least member.
LEMMA Least ==
  ASSUME NEW T \in SUBSET Nat, T # {}
  PROVE  \E n \in T : \A m \in T : n <= m
<1>1. \E n \in T : \A m \in T : <<m, n>> \notin OpToRel(<, Nat)
  BY WFMin, NatLessThanWellFounded, Zenon
<1>2. \E n \in T : \A m \in T : ~ (m < n)
  BY <1>1, Zenon DEF OpToRel
<1> QED
  BY <1>2

\* What is in the set of 0 and every successor of what is in it, is all naturals.
LEMMA Induct ==
  ASSUME NEW T, 0 \in T, \A n \in Nat : n \in T => n + 1 \in T
  PROVE  Nat \subseteq T
<1> SUFFICES ASSUME Nat \ T # {} PROVE FALSE
  OBVIOUS
<1>1. PICK n \in Nat \ T : \A m \in Nat \ T : n <= m
  BY Least
<1>2. n # 0 /\ n - 1 \in Nat /\ n - 1 \notin Nat \ T
  BY <1>1
<1> QED
  BY <1>1, <1>2

\* Rounds: a function that is a at 0 and then what g makes of its value before.
Rounds(f, S, a, g) ==
  f \in [Nat -> S] /\ f[0] = a /\ \A n \in Nat : f[n + 1] = g[f[n]]

\* Such a function as far as n.
UpTo(h, n, S, a, g) ==
  h \in [0 .. n -> S] /\ h[0] = a /\ \A i \in 0 .. n : i # n => h[i + 1] = g[h[i]]

\* Two of them agree as far as both go.
LEMMA SameUpTo ==
  ASSUME NEW S, NEW a \in S, NEW g \in [S -> S], NEW n \in Nat, NEW m \in Nat,
         NEW h, NEW k, UpTo(h, n, S, a, g), UpTo(k, m, S, a, g)
  PROVE  \A i \in Nat : i <= n /\ i <= m => h[i] = k[i]
<1> DEFINE T == {i \in Nat : i <= n /\ i <= m => h[i] = k[i]}
<1>1. 0 \in T BY DEF UpTo
<1>2. ASSUME NEW i \in Nat, i \in T PROVE i + 1 \in T
  <2>1. ASSUME i + 1 <= n, i + 1 <= m PROVE h[i + 1] = k[i + 1]
    <3>1. h[i] = k[i] BY <1>2, <2>1
    <3>2. i \in 0 .. n /\ i # n /\ i \in 0 .. m /\ i # m BY <2>1
    <3> QED BY <3>1, <3>2 DEF UpTo
  <2> QED BY <2>1
<1> HIDE DEF T
<1>3. Nat \subseteq T BY <1>1, <1>2, Induct
<1> QED BY <1>3 DEF T

\* There is one as far as any n.
LEMMA SomeUpTo ==
  ASSUME NEW S, NEW a \in S, NEW g \in [S -> S]
  PROVE  \A n \in Nat : \E h : UpTo(h, n, S, a, g)
<1> DEFINE T == {n \in Nat : \E h : UpTo(h, n, S, a, g)}
<1>1. 0 \in T
  <2>1. UpTo([i \in 0 .. 0 |-> a], 0, S, a, g) BY DEF UpTo
  <2> QED BY <2>1
<1>2. ASSUME NEW n \in Nat, n \in T PROVE n + 1 \in T
  <2>1. PICK h : UpTo(h, n, S, a, g) BY <1>2
  <2> DEFINE k == [i \in 0 .. n + 1 |-> IF i = n + 1 THEN g[h[n]] ELSE h[i]]
  <2>2. h \in [0 .. n -> S] /\ h[0] = a BY <2>1 DEF UpTo
  <2>3. k \in [0 .. n + 1 -> S] BY <2>2
  <2>4. k[0] = a BY <2>2
  <2>5. ASSUME NEW i \in 0 .. n + 1, i # n + 1 PROVE k[i + 1] = g[k[i]]
    <3>1. CASE i = n BY <3>1
    <3>2. CASE i # n
      <4>1. i \in 0 .. n /\ i + 1 \in 0 .. n + 1 /\ i + 1 # n + 1 BY <3>2, <2>5
      <4>2. h[i + 1] = g[h[i]] BY <2>1, <3>2, <4>1 DEF UpTo
      <4> QED BY <4>1, <4>2, <2>5
    <3> QED BY <3>1, <3>2
  <2> HIDE DEF k
  <2>6. UpTo(k, n + 1, S, a, g) BY <2>3, <2>4, <2>5 DEF UpTo
  <2> QED BY <2>6
<1> HIDE DEF T
<1>3. Nat \subseteq T BY <1>1, <1>2, Induct
<1> QED BY <1>3 DEF T

\* There is one for all naturals: a definition by such a recursion defines a function.
LEMMA RoundsExist ==
  ASSUME NEW S, NEW a \in S, NEW g \in [S -> S]
  PROVE  \E f : Rounds(f, S, a, g)
<1> DEFINE h(n) == CHOOSE k : UpTo(k, n, S, a, g)
           f == [n \in Nat |-> h(n)[n]]
<1>1. \A n \in Nat : UpTo(h(n), n, S, a, g) BY SomeUpTo
<1> HIDE DEF h
<1>2. ASSUME NEW n \in Nat PROVE f[n] \in S
  BY <1>1 DEF UpTo
<1>3. f[0] = a BY <1>1 DEF UpTo
<1>4. ASSUME NEW n \in Nat PROVE f[n + 1] = g[f[n]]
  <2>1. UpTo(h(n + 1), n + 1, S, a, g) /\ UpTo(h(n), n, S, a, g) BY <1>1
  <2>2. h(n + 1)[n] = h(n)[n] BY <2>1, SameUpTo
  <2>3. h(n + 1)[n + 1] = g[h(n + 1)[n]] BY <2>1 DEF UpTo
  <2> QED BY <2>2, <2>3
<1> HIDE DEF f
<1>5. f \in [Nat -> S] BY <1>2 DEF f
<1>6. Rounds(f, S, a, g) BY <1>3, <1>4, <1>5 DEF Rounds
<1> QED BY <1>6

-----------------------------------------------------------------------------
\* The configuration is one of those to look at.
Configured ==
  /\ DOMAIN top \subseteq {"prompt", "password"}
  /\ DOMAIN tables = Profile /\ \A p \in Profile : IsTable(tables[p])
  /\ inherit \in [Profile -> Profile \cup {Unknown, None}]
  /\ given.profile \in Profile \cup {Unknown, None}
  /\ DOMAIN given.options \subseteq {"user", "type", "mode", "command", "resource"}
  /\ IsTable(given.options)

\* A round of the loop makes a chain of profiles of one.
LEMMA ExtendedType ==
  ASSUME Configured, NEW c \in Seq(Profile)
  PROVE  Extended(c) \in Seq(Profile)
<1>1. CASE GoesOn(c)
  <2>1. inherit[Last(c)] \in Profile BY <1>1 DEF GoesOn
  <2> QED BY <1>1, <2>1 DEF Extended
<1>2. CASE ~ GoesOn(c) BY <1>2 DEF Extended
<1> QED BY <1>1, <1>2

\* w[n] is the chain after n rounds.
ChainRounds(w, p) ==
  /\ w \in [Nat -> Seq(Profile)] /\ w[0] = <<p>>
  /\ \A n \in Nat : w[n + 1] = Extended(w[n])

\* `inheritance_chain` is such rounds.
LEMMA ChainIsRounds ==
  ASSUME Configured, NEW p \in Profile
  PROVE  \E w : ChainRounds(w, p) /\ InheritanceChain(p) = w[Cardinality(Profile)]
<1> DEFINE g == [c \in Seq(Profile) |-> Extended(c)]
           Body(w) == [n \in Nat |-> IF n = 0 THEN <<p>> ELSE Extended(w[n - 1])]
           w == CHOOSE v : v = Body(v)
<1>1. g \in [Seq(Profile) -> Seq(Profile)] BY ExtendedType
<1>2. <<p>> \in Seq(Profile) OBVIOUS
<1>3. PICK f : Rounds(f, Seq(Profile), <<p>>, g)
  <2> HIDE DEF g
  <2> QED BY <1>1, <1>2, RoundsExist
<1>4. f = Body(f)
  <2>1. f \in [Nat -> Seq(Profile)] /\ f[0] = <<p>> BY <1>3 DEF Rounds
  <2>2. ASSUME NEW n \in Nat, n # 0 PROVE f[n] = Extended(f[n - 1])
    <3>1. n - 1 \in Nat /\ (n - 1) + 1 = n BY <2>2
    <3>2. f[n] = g[f[n - 1]] BY <1>3, <3>1 DEF Rounds
    <3> QED BY <2>1, <3>1, <3>2
  <2> QED BY <2>1, <2>2
<1>5. w = Body(w) BY <1>4
<1>6. InheritanceChain(p) = w[Cardinality(Profile)] BY DEF InheritanceChain
<1> HIDE DEF w
<1>7. \A n \in Nat : w[n + 1] = Extended(w[n])
  <2> TAKE n \in Nat
  <2>1. n + 1 \in Nat /\ n + 1 # 0 /\ (n + 1) - 1 = n OBVIOUS
  <2> QED BY <1>5, <2>1
<1>8. w[0] = <<p>> BY <1>5
<1>9. \A n \in Nat : w[n] \in Seq(Profile)
  <2> DEFINE T == {n \in Nat : w[n] \in Seq(Profile)}
  <2>1. 0 \in T BY <1>2, <1>8
  <2>2. ASSUME NEW n \in Nat, n \in T PROVE n + 1 \in T
    <3>1. Extended(w[n]) \in Seq(Profile) BY <2>2, ExtendedType
    <3>2. w[n + 1] = Extended(w[n]) BY <1>7
    <3>3. n + 1 \in Nat OBVIOUS
    <3> QED BY <3>1, <3>2, <3>3, Zenon
  <2> HIDE DEF T
  <2>3. Nat \subseteq T BY <2>1, <2>2, Induct
  <2> QED BY <2>3 DEF T
<1>10. w \in [Nat -> Seq(Profile)]
  <2>1. w = [n \in Nat |-> w[n]] BY <1>5
  <2> QED BY <1>9, <2>1
<1> QED BY <1>6, <1>7, <1>8, <1>10 DEF ChainRounds

\* What the lineage is made by.
LineageRounds(l) ==
  /\ l[0] = given.profile
  /\ \A n \in Nat : l[n + 1] = IF l[n] \in Profile THEN inherit[l[n]] ELSE None

\* The lineage, from which the properties tell the nearest setting, is well defined.
LEMMA LineageIsRounds ==
  ASSUME Configured
  PROVE  LineageRounds(Lineage)
<1> DEFINE S == Profile \cup {Unknown, None}
           g == [x \in S |-> IF x \in Profile THEN inherit[x] ELSE None]
           Body(w) == [n \in Nat |-> IF n = 0 THEN given.profile
                                     ELSE IF w[n - 1] \in Profile THEN inherit[w[n - 1]]
                                     ELSE None]
<1>1. g \in [S -> S] BY DEF Configured
<1>2. given.profile \in S BY DEF Configured
<1>3. PICK f : Rounds(f, S, given.profile, g)
  <2> HIDE DEF g, S
  <2> QED BY <1>1, <1>2, RoundsExist
<1>4. f = Body(f)
  <2>1. f \in [Nat -> S] /\ f[0] = given.profile BY <1>3 DEF Rounds
  <2>2. ASSUME NEW n \in Nat, n # 0
        PROVE  f[n] = IF f[n - 1] \in Profile THEN inherit[f[n - 1]] ELSE None
    <3>1. n - 1 \in Nat /\ (n - 1) + 1 = n BY <2>2
    <3>2. f[n] = g[f[n - 1]] BY <1>3, <3>1 DEF Rounds
    <3>3. f[n - 1] \in S BY <2>1, <3>1
    <3> QED BY <3>2, <3>3
  <2> HIDE DEF g, S
  <2> QED BY <2>1, <2>2
<1>5. Lineage = Body(Lineage)
  <2>1. Lineage = CHOOSE v : v = Body(v) BY DEF Lineage
  <2> HIDE DEF Body
  <2> QED BY <1>4, <2>1
<1>6. \A n \in Nat : Lineage[n + 1] = IF Lineage[n] \in Profile THEN inherit[Lineage[n]] ELSE None
  <2> TAKE n \in Nat
  <2>1. n + 1 \in Nat /\ n + 1 # 0 /\ (n + 1) - 1 = n OBVIOUS
  <2> QED BY <1>5, <2>1
<1> QED BY <1>5, <1>6 DEF LineageRounds

-----------------------------------------------------------------------------
\* c is the beginning of the lineage, and holds no profile twice.
Ancestry(c) ==
  /\ c \in Seq(Profile) /\ Len(c) \in Nat \ {0}
  /\ \A i \in 1 .. Len(c) : c[i] = Lineage[i - 1]
  /\ \A i, j \in 1 .. Len(c) : c[i] = c[j] => i = j

\* None and the unknown name are no profiles, and the profiles are so many.
LEMMA NoneIsNoProfile ==
  None \notin Profile /\ Unknown \notin Profile /\ Cardinality(Profile) \in Nat
  BY CommandAssumption, FS_CardinalityType

\* A round that goes on adds the next of the lineage, which is not in the chain yet.
LEMMA GoingOn ==
  ASSUME Configured, NEW c, Ancestry(c), GoesOn(c)
  PROVE  /\ Extended(c) = Append(c, Lineage[Len(c)]) /\ Ancestry(Extended(c))
         /\ Len(Extended(c)) = Len(c) + 1
<1> DEFINE name == inherit[Last(c)]
<1>1. c \in Seq(Profile) /\ Len(c) \in Nat /\ Len(c) >= 1 BY DEF Ancestry
<1>2. name \in Profile /\ \A i \in 1 .. Len(c) : c[i] # name
  BY <1>1 DEF GoesOn, Range
<1>3. name = Lineage[Len(c)]
  <2>1. Last(c) = Lineage[Len(c) - 1] /\ Last(c) \in Profile
    BY <1>1 DEF Ancestry, Last
  <2>2. Len(c) - 1 \in Nat /\ (Len(c) - 1) + 1 = Len(c) BY <1>1
  <2> QED BY <2>1, <2>2, LineageIsRounds DEF LineageRounds
<1>4. Extended(c) = Append(c, name) BY DEF Extended
<1> DEFINE d == Append(c, name)
<1> HIDE DEF name
<1>5. /\ d \in Seq(Profile) /\ Len(d) = Len(c) + 1 /\ d[Len(c) + 1] = name
      /\ \A i \in 1 .. Len(c) : d[i] = c[i]
  BY <1>1, <1>2
<1> HIDE DEF d
<1>6. \A i \in 1 .. Len(d) : i \in 1 .. Len(c) \/ i = Len(c) + 1
  BY <1>1, <1>5
<1>7. \A i \in 1 .. Len(d) : d[i] = Lineage[i - 1]
  <2> TAKE i \in 1 .. Len(d)
  <2>1. CASE i \in 1 .. Len(c) BY <1>5, <2>1 DEF Ancestry
  <2>2. CASE i = Len(c) + 1
    <3>1. i - 1 = Len(c) BY <1>1, <2>2
    <3> QED BY <1>3, <1>5, <2>2, <3>1
  <2> QED BY <1>6, <2>1, <2>2
<1>8. \A i, j \in 1 .. Len(d) : d[i] = d[j] => i = j
  <2> SUFFICES ASSUME NEW i \in 1 .. Len(d), NEW j \in 1 .. Len(d), d[i] = d[j] PROVE i = j
    OBVIOUS
  <2>1. CASE i \in 1 .. Len(c) /\ j \in 1 .. Len(c) BY <1>5, <2>1 DEF Ancestry
  <2>2. CASE i = Len(c) + 1 /\ j \in 1 .. Len(c) BY <1>2, <1>5, <2>2
  <2>3. CASE j = Len(c) + 1 /\ i \in 1 .. Len(c) BY <1>2, <1>5, <2>3
  <2> QED BY <1>6, <2>1, <2>2, <2>3
<1>9. Len(d) \in Nat \ {0} BY <1>1, <1>5
<1>10. Ancestry(d) BY <1>5, <1>7, <1>8, <1>9 DEF Ancestry
<1> QED BY <1>3, <1>4, <1>5, <1>10 DEF d

\* A chain is no longer than there are profiles.
LEMMA AncestryFits ==
  ASSUME NEW c, Ancestry(c)
  PROVE  Len(c) <= Cardinality(Profile)
<1>1. c \in [1 .. Len(c) -> Profile] /\ Len(c) \in Nat BY DEF Ancestry
<1>2. c \in Injection(1 .. Len(c), Profile)
  <2>1. \A i, j \in 1 .. Len(c) : c[i] = c[j] => i = j BY DEF Ancestry
  <2> QED BY <1>1, <2>1, Fun_IsInj
<1>3. Cardinality(1 .. Len(c)) = Len(c)
  <2>1. Len(c) \in Int /\ ~ 1 > Len(c) /\ Len(c) - 1 + 1 = Len(c) BY DEF Ancestry
  <2> QED BY <2>1, FS_Interval
<1>4. Cardinality(1 .. Len(c)) <= Cardinality(Profile)
  BY <1>2, CommandAssumption, FS_Injection
<1> QED BY <1>3, <1>4

\* After n rounds the chain has n names more, or has come to its end.
LEMMA RoundsGoOn ==
  ASSUME Configured, given.profile \in Profile, NEW w, ChainRounds(w, given.profile)
  PROVE  \A n \in Nat : Ancestry(w[n]) /\ (Len(w[n]) = n + 1 \/ ~ GoesOn(w[n]))
<1> DEFINE T == {n \in Nat : Ancestry(w[n]) /\ (Len(w[n]) = n + 1 \/ ~ GoesOn(w[n]))}
<1>1. 0 \in T
  <2>1. w[0] = <<given.profile>> /\ Lineage[0] = given.profile
    BY LineageIsRounds DEF ChainRounds, LineageRounds
  <2>2. Len(w[0]) = 1 /\ w[0][1] = given.profile /\ w[0] \in Seq(Profile) BY <2>1
  <2>3. \A i \in 1 .. Len(w[0]) : i = 1 BY <2>2
  <2>4. Ancestry(w[0]) BY <2>1, <2>2, <2>3 DEF Ancestry
  <2> QED BY <2>2, <2>4
<1>2. ASSUME NEW n \in Nat, n \in T PROVE n + 1 \in T
  <2>1. w[n + 1] = Extended(w[n]) BY DEF ChainRounds
  <2>2. CASE GoesOn(w[n])
    <3>1. Ancestry(w[n + 1]) /\ Len(w[n + 1]) = Len(w[n]) + 1
      BY <1>2, <2>1, <2>2, GoingOn
    <3>2. Len(w[n]) = n + 1 BY <1>2, <2>2
    <3> QED BY <3>1, <3>2
  <2>3. CASE ~ GoesOn(w[n])
    <3>1. w[n + 1] = w[n] BY <2>1, <2>3 DEF Extended
    <3> QED BY <1>2, <2>3, <3>1
  <2> QED BY <2>2, <2>3
<1> HIDE DEF T
<1>3. Nat \subseteq T BY <1>1, <1>2, Induct
<1> QED BY <1>3 DEF T

\* The chain of a profile that resolves is its lineage up to None.
LEMMA ChainIsLineage ==
  ASSUME Configured, given.profile \in Profile, ~ BadChain(given.profile)
  PROVE  /\ Ancestry(InheritanceChain(given.profile))
         /\ Len(InheritanceChain(given.profile)) <= Cardinality(Profile)
         /\ \A n \in Nat : n >= Len(InheritanceChain(given.profile)) => Lineage[n] = None
<1> DEFINE c == InheritanceChain(given.profile)
<1>1. Ancestry(c) /\ Len(c) <= Cardinality(Profile)
  <2>1. PICK w : ChainRounds(w, given.profile) /\ c = w[Cardinality(Profile)]
    BY ChainIsRounds
  <2> QED BY <2>1, RoundsGoOn, AncestryFits, NoneIsNoProfile
<1>2. inherit[Last(c)] = None BY DEF BadChain
<1> HIDE DEF c
<1> DEFINE T == {n \in Nat : n >= Len(c) => Lineage[n] = None}
<1>3. Len(c) - 1 \in Nat /\ Lineage[Len(c) - 1] \in Profile /\ inherit[Lineage[Len(c) - 1]] = None
  <2>1. Len(c) \in Nat /\ Len(c) >= 1 /\ c \in Seq(Profile) BY <1>1 DEF Ancestry
  <2>2. c[Len(c)] = Lineage[Len(c) - 1] /\ c[Len(c)] \in Profile BY <1>1, <2>1 DEF Ancestry
  <2> QED BY <1>2, <2>1, <2>2 DEF Last
<1>4. 0 \in T BY <1>3
<1>5. ASSUME NEW n \in Nat, n \in T PROVE n + 1 \in T
  <2>1. Lineage[n + 1] = IF Lineage[n] \in Profile THEN inherit[Lineage[n]] ELSE None
    BY LineageIsRounds DEF LineageRounds
  <2>2. CASE n + 1 < Len(c) BY <2>2, <1>3
  <2>3. CASE n + 1 = Len(c)
    <3>1. n = Len(c) - 1 BY <2>3, <1>3
    <3> QED BY <1>3, <2>1, <3>1
  <2>4. CASE n >= Len(c) BY <1>5, <2>1, <2>4, NoneIsNoProfile
  <2> QED BY <1>3, <2>2, <2>3, <2>4
<1> HIDE DEF T
<1>6. Nat \subseteq T BY <1>4, <1>5, Induct
<1> QED BY <1>1, <1>6 DEF T, c

-----------------------------------------------------------------------------
\* v holds what the first n of c set over the top level, the later ones over the earlier.
MergedUpTo(v, c, n) ==
  \A s :
    /\ s \in DOMAIN v <=> s \in DOMAIN top \/ \E i \in 1 .. n : s \in DOMAIN tables[c[i]]
    /\ \A i \in 1 .. n :
         s \in DOMAIN tables[c[i]] /\ (\A j \in 1 .. n : j > i => s \notin DOMAIN tables[c[j]])
         => v[s] = tables[c[i]][s]
    /\ s \in DOMAIN top /\ (\A i \in 1 .. n : s \notin DOMAIN tables[c[i]]) => v[s] = top[s]

\* The settings of one more are put over the others.
LEMMA MergeOne ==
  ASSUME NEW v, NEW c, NEW n \in Nat, MergedUpTo(v, c, n)
  PROVE  MergedUpTo(Over(tables[c[n + 1]], v), c, n + 1)
<1> DEFINE t == tables[c[n + 1]]
           u == Over(t, v)
<1> SUFFICES ASSUME NEW s
             PROVE
    /\ s \in DOMAIN u <=> s \in DOMAIN top \/ \E i \in 1 .. n + 1 : s \in DOMAIN tables[c[i]]
    /\ \A i \in 1 .. n + 1 :
         /\ s \in DOMAIN tables[c[i]]
         /\ \A j \in 1 .. n + 1 : j > i => s \notin DOMAIN tables[c[j]]
         => u[s] = tables[c[i]][s]
    /\ s \in DOMAIN top /\ (\A i \in 1 .. n + 1 : s \notin DOMAIN tables[c[i]]) => u[s] = top[s]
  BY DEF MergedUpTo
<1>1. /\ DOMAIN u = DOMAIN t \cup DOMAIN v
      /\ s \in DOMAIN t => u[s] = t[s]
      /\ s \in DOMAIN v /\ s \notin DOMAIN t => u[s] = v[s]
  BY DEF Over
<1> HIDE DEF u
<1>2. \A i \in 1 .. n + 1 : i \in 1 .. n \/ i = n + 1
  OBVIOUS
<1>3. \A i \in 1 .. n : i \in 1 .. n + 1 /\ n + 1 > i /\ n + 1 \in 1 .. n + 1
  OBVIOUS
<1>4. n + 1 \in 1 .. n + 1 OBVIOUS
<1>5. s \in DOMAIN v <=> s \in DOMAIN top \/ \E i \in 1 .. n : s \in DOMAIN tables[c[i]]
  BY DEF MergedUpTo
<1>6. s \in DOMAIN u <=> s \in DOMAIN top \/ \E i \in 1 .. n + 1 : s \in DOMAIN tables[c[i]]
  BY <1>1, <1>2, <1>3, <1>4, <1>5
<1>7. ASSUME NEW i \in 1 .. n + 1, s \in DOMAIN tables[c[i]],
             \A j \in 1 .. n + 1 : j > i => s \notin DOMAIN tables[c[j]]
      PROVE  u[s] = tables[c[i]][s]
  <2>1. CASE i = n + 1 BY <1>1, <1>7, <2>1
  <2>2. CASE i \in 1 .. n
    <3>1. s \notin DOMAIN t BY <1>3, <1>7, <2>2
    <3>2. v[s] = tables[c[i]][s]
      <4>1. \A j \in 1 .. n : j > i => s \notin DOMAIN tables[c[j]] BY <1>3, <1>7
      <4> QED BY <1>7, <2>2, <4>1 DEF MergedUpTo
    <3>3. s \in DOMAIN v BY <1>5, <1>7, <2>2
    <3> QED BY <1>1, <3>1, <3>2, <3>3
  <2> QED BY <1>2, <2>1, <2>2
<1>8. ASSUME \A i \in 1 .. n + 1 : s \notin DOMAIN tables[c[i]], s \in DOMAIN top
      PROVE  u[s] = top[s]
  <2>1. s \notin DOMAIN t BY <1>4, <1>8
  <2>2. \A i \in 1 .. n : s \notin DOMAIN tables[c[i]] BY <1>3, <1>8
  <2>3. s \in DOMAIN v /\ v[s] = top[s] BY <1>5, <1>8, <2>2 DEF MergedUpTo
  <2> QED BY <1>1, <2>1, <2>3
<1> QED BY <1>6, <1>7, <1>8

\* m[i] is what `resolve_profile`'s loop has made of the first i of c.
MergeRounds(m, c, n) ==
  m = [i \in 0 .. n |-> IF i = 0 THEN top ELSE Over(tables[c[i]], m[i - 1])]

\* There is such a function for every n.
LEMMA MergeRoundsExist ==
  ASSUME NEW c
  PROVE  \A n \in Nat : \E m : MergeRounds(m, c, n)
<1> DEFINE T == {n \in Nat : \E m : MergeRounds(m, c, n)}
<1>1. 0 \in T
  <2> DEFINE m == [i \in 0 .. 0 |-> top]
  <2>1. MergeRounds(m, c, 0)
    <3>1. \A i \in 0 .. 0 : i = 0 OBVIOUS
    <3> QED BY <3>1 DEF MergeRounds
  <2> QED BY <2>1
<1>2. ASSUME NEW n \in Nat, n \in T PROVE n + 1 \in T
  <2>1. PICK h : MergeRounds(h, c, n) BY <1>2
  <2> DEFINE k == [i \in 0 .. n + 1 |-> IF i = n + 1 THEN Over(tables[c[n + 1]], h[n]) ELSE h[i]]
             B(i) == IF i = 0 THEN top ELSE Over(tables[c[i]], k[i - 1])
  <2>2. ASSUME NEW i \in 0 .. n + 1 PROVE k[i] = B(i)
    <3>1. CASE i = n + 1
      <4>1. i # 0 /\ i - 1 = n /\ n \in 0 .. n + 1 /\ n # n + 1 BY <3>1
      <4>2. k[i - 1] = h[n] BY <4>1
      <4> QED BY <3>1, <4>1, <4>2
    <3>2. CASE i # n + 1
      <4>1. i \in 0 .. n BY <3>2
      <4>2. h[i] = IF i = 0 THEN top ELSE Over(tables[c[i]], h[i - 1])
        BY <2>1, <4>1 DEF MergeRounds
      <4>3. i # 0 => i - 1 \in 0 .. n + 1 /\ i - 1 # n + 1 BY <4>1
      <4> QED BY <3>2, <4>2, <4>3
    <3> QED BY <3>1, <3>2
  <2>3. k = [i \in 0 .. n + 1 |-> k[i]] OBVIOUS
  <2> HIDE DEF k
  <2>4. MergeRounds(k, c, n + 1) BY <2>2, <2>3 DEF MergeRounds
  <2> QED BY <2>4
<1> HIDE DEF T
<1>3. Nat \subseteq T BY <1>1, <1>2, Induct
<1> QED BY <1>3 DEF T

\* What the loop makes of a chain is what its last say, over the first and the top level.
LEMMA MergedIs ==
  ASSUME NEW c, Len(c) \in Nat
  PROVE  MergedUpTo(Merged(c), c, Len(c))
<1> DEFINE m == CHOOSE k : MergeRounds(k, c, Len(c))
<1>1. MergeRounds(m, c, Len(c)) BY MergeRoundsExist
<1>2. Merged(c) = m[Len(c)] BY DEF Merged, MergeRounds
<1> HIDE DEF m
<1> DEFINE T == {n \in Nat : n <= Len(c) => MergedUpTo(m[n], c, n)}
<1>3. 0 \in T
  <2>1. m[0] = top BY <1>1 DEF MergeRounds
  <2>2. \A i \in 1 .. 0 : FALSE OBVIOUS
  <2> QED BY <2>1, <2>2 DEF MergedUpTo
<1>4. ASSUME NEW n \in Nat, n \in T PROVE n + 1 \in T
  <2>1. ASSUME n + 1 <= Len(c) PROVE MergedUpTo(m[n + 1], c, n + 1)
    <3>1. n + 1 \in 0 .. Len(c) /\ n + 1 # 0 /\ (n + 1) - 1 = n /\ n <= Len(c) BY <2>1
    <3>2. m[n + 1] = Over(tables[c[n + 1]], m[n]) BY <1>1, <3>1 DEF MergeRounds
    <3> QED BY <1>4, <3>1, <3>2, MergeOne
  <2> QED BY <2>1
<1> HIDE DEF T
<1>5. Nat \subseteq T BY <1>3, <1>4, Induct
<1> QED BY <1>2, <1>5 DEF T

-----------------------------------------------------------------------------
\* What v holds is what the nearest to set it says, options aside.
Resolved(v) ==
  \A s : /\ s \in DOMAIN v <=> s \in DOMAIN top \/ \E n \in Generations : SetBy(n, s)
         /\ s \in DOMAIN v => Inherited(s, v[s])

\* What a generation sets is what the profile at its place in the chain sets.
LEMMA ChainSets ==
  ASSUME Configured, given.profile \in Profile, ~ BadChain(given.profile),
         NEW c, c = InheritanceChain(given.profile)
  PROVE  /\ Len(c) \in Nat
         /\ \A n \in Generations : \A s :
              SetBy(n, s) <=> n < Len(c) /\ s \in DOMAIN tables[c[n + 1]]
         /\ \A n \in Nat : n < Len(c) => n \in Generations /\ Lineage[n] = c[n + 1]
<1>1. /\ Ancestry(c) /\ Len(c) <= Cardinality(Profile) /\ Cardinality(Profile) \in Nat
      /\ \A n \in Nat : n >= Len(c) => Lineage[n] = None
  BY ChainIsLineage, NoneIsNoProfile
<1>2. Len(c) \in Nat /\ c \in Seq(Profile) BY <1>1 DEF Ancestry
<1>3. ASSUME NEW n \in Nat, n < Len(c)
      PROVE  n \in Generations /\ Lineage[n] = c[n + 1] /\ c[n + 1] \in Profile
  <2>1. n + 1 \in 1 .. Len(c) /\ (n + 1) - 1 = n BY <1>2, <1>3
  <2>2. c[n + 1] = Lineage[n] BY <1>1, <2>1 DEF Ancestry
  <2>3. n \in Generations BY <1>1, <1>2, <1>3 DEF Generations
  <2> QED BY <1>2, <2>1, <2>2, <2>3
<1>4. ASSUME NEW n \in Generations, NEW s
      PROVE  SetBy(n, s) <=> n < Len(c) /\ s \in DOMAIN tables[c[n + 1]]
  <2>1. n \in Nat BY <1>1 DEF Generations
  <2>2. CASE n < Len(c) BY <1>3, <2>1, <2>2 DEF SetBy
  <2>3. CASE ~ (n < Len(c))
    <3>1. Lineage[n] = None BY <1>1, <1>2, <2>1, <2>3
    <3> QED BY <2>3, <3>1, NoneIsNoProfile DEF SetBy
  <2> QED BY <2>2, <2>3
<1> QED BY <1>2, <1>3, <1>4

\* A profile resolves to what the nearest of its lineage say: the reversed chain ends with
\* the profile itself.
LEMMA ProfileResolves ==
  ASSUME Configured, given.profile \in Profile, ~ BadChain(given.profile)
  PROVE  Resolved(ResolveProfile(given.profile))
<1> DEFINE c == InheritanceChain(given.profile)
           d == Reverse(c)
           v == Merged(d)
<1>1. v = ResolveProfile(given.profile) BY DEF ResolveProfile
<1>2. /\ Len(c) \in Nat
      /\ \A n \in Generations : \A s : SetBy(n, s) <=> n < Len(c) /\ s \in DOMAIN tables[c[n + 1]]
      /\ \A n \in Nat : n < Len(c) => n \in Generations /\ Lineage[n] = c[n + 1]
  BY ChainSets
<1>3. Len(d) = Len(c) /\ \A i \in 1 .. Len(c) : d[i] = c[(Len(c) - i) + 1]
  BY <1>2 DEF Reverse
<1> HIDE DEF c, d
<1>4. MergedUpTo(v, d, Len(c)) BY <1>2, <1>3, MergedIs
<1> HIDE DEF v
<1>5. Generations \subseteq Nat BY NoneIsNoProfile DEF Generations
<1>6. \A i \in 1 .. Len(c) : /\ Len(c) - i \in Generations /\ d[i] = c[(Len(c) - i) + 1]
                             /\ Lineage[Len(c) - i] = d[i]
  <2> TAKE i \in 1 .. Len(c)
  <2>1. Len(c) - i \in Nat /\ Len(c) - i < Len(c) BY <1>2
  <2> QED BY <1>2, <1>3, <2>1
<1>7. \A s : \A i \in 1 .. Len(c) : SetBy(Len(c) - i, s) <=> s \in DOMAIN tables[d[i]]
  <2> TAKE s
  <2> TAKE i \in 1 .. Len(c)
  <2>1. Len(c) - i < Len(c) BY <1>2
  <2> QED BY <1>2, <1>6, <2>1
<1>8. \A n \in Generations : \A s :
        SetBy(n, s) => Len(c) - n \in 1 .. Len(c) /\ Len(c) - (Len(c) - n) = n
  <2> TAKE n \in Generations
  <2> TAKE s
  <2> HAVE SetBy(n, s)
  <2>1. n < Len(c) /\ n \in Nat BY <1>2, <1>5
  <2> QED BY <1>2, <2>1
<1> SUFFICES ASSUME NEW s
             PROVE  /\ s \in DOMAIN v <=> s \in DOMAIN top \/ \E n \in Generations : SetBy(n, s)
                    /\ s \in DOMAIN v => Inherited(s, v[s])
  BY <1>1 DEF Resolved
<1>9. (\E n \in Generations : SetBy(n, s)) <=> \E i \in 1 .. Len(c) : s \in DOMAIN tables[d[i]]
  <2>1. ASSUME NEW n \in Generations, SetBy(n, s)
        PROVE  \E i \in 1 .. Len(c) : s \in DOMAIN tables[d[i]]
    <3>1. Len(c) - n \in 1 .. Len(c) /\ Len(c) - (Len(c) - n) = n BY <1>8, <2>1
    <3>2. s \in DOMAIN tables[d[Len(c) - n]] BY <1>7, <2>1, <3>1
    <3> QED BY <3>1, <3>2
  <2>2. ASSUME NEW i \in 1 .. Len(c), s \in DOMAIN tables[d[i]]
        PROVE  \E n \in Generations : SetBy(n, s)
    BY <1>6, <1>7, <2>2
  <2> QED BY <2>1, <2>2
<1>10. s \in DOMAIN v <=> s \in DOMAIN top \/ \E n \in Generations : SetBy(n, s)
  BY <1>4, <1>9 DEF MergedUpTo
<1>11. ASSUME s \in DOMAIN v, \E n \in Generations : SetBy(n, s) PROVE Inherited(s, v[s])
  <2> DEFINE T == {n \in Generations : SetBy(n, s)}
  <2>1. T \in SUBSET Nat /\ T # {} BY <1>5, <1>11
  <2> HIDE DEF T
  <2>2. PICK n \in T : \A m \in T : n <= m BY <2>1, Least
  <2>3. n \in Generations /\ SetBy(n, s) /\ n \in Nat BY <1>5, <2>2 DEF T
  <2>4. \A m \in 0 .. n - 1 : ~ SetBy(m, s)
    <3> SUFFICES ASSUME NEW m \in 0 .. n - 1, SetBy(m, s) PROVE FALSE OBVIOUS
    <3>1. m \in Nat /\ m < n /\ m \in Generations BY <2>3, NoneIsNoProfile DEF Generations
    <3>2. m \in T BY <3>1 DEF T
    <3> QED BY <2>2, <2>3, <3>1, <3>2
  <2> DEFINE i == Len(c) - n
  <2>5. i \in 1 .. Len(c) /\ Len(c) - i = n BY <1>8, <2>3
  <2>6. s \in DOMAIN tables[d[i]] /\ Lineage[n] = d[i] BY <1>6, <1>7, <2>3, <2>5
  <2>7. \A j \in 1 .. Len(c) : j > i => s \notin DOMAIN tables[d[j]]
    <3> SUFFICES ASSUME NEW j \in 1 .. Len(c), j > i, s \in DOMAIN tables[d[j]] PROVE FALSE
      OBVIOUS
    <3>1. SetBy(Len(c) - j, s) BY <1>7
    <3>2. Len(c) - j \in 0 .. n - 1 BY <1>2, <2>3
    <3> QED BY <2>4, <3>1, <3>2
  <2> HIDE DEF i
  <2>8. v[s] = tables[d[i]][s] BY <1>4, <2>5, <2>6, <2>7 DEF MergedUpTo
  <2> QED BY <2>3, <2>4, <2>6, <2>8 DEF Inherited
<1>12. ASSUME s \in DOMAIN v, ~ \E n \in Generations : SetBy(n, s) PROVE Inherited(s, v[s])
  <2>1. s \in DOMAIN top /\ \A i \in 1 .. Len(c) : s \notin DOMAIN tables[d[i]]
    BY <1>9, <1>10, <1>12
  <2>2. v[s] = top[s] BY <1>4, <2>1 DEF MergedUpTo
  <2> QED BY <1>12, <2>1, <2>2 DEF Inherited
<1> QED BY <1>10, <1>11, <1>12

-----------------------------------------------------------------------------
\* What v holds is what the nearest to set it says, of options those for O.
ResolvedWith(v, O) ==
  \A s :
    /\ s \in DOMAIN v <=> \/ s \in O /\ s \in DOMAIN given.options
                          \/ s \in DOMAIN top \/ \E n \in Generations : SetBy(n, s)
    /\ s \in DOMAIN v => IF s \in O /\ s \in DOMAIN given.options THEN v[s] = given.options[s]
                         ELSE Inherited(s, v[s])

\* How far the command is once all options are applied, and the settings they set.
OptionsApplied == {"submission", "alias", "probe", "session"}
OptionSettings == {"user", "type", "mode", "command", "resource"}

\* The inductive invariant: the configuration stays, its chains end, and the settings so
\* far are what the nearest to set them says, of the options those that were applied; a
\* submission command has passed its check.
CommandInv ==
  /\ Configured
  /\ pc \in {"load", "profile", "connection", "scheduler", "error"} \cup OptionsApplied
  /\ pc \notin {"load", "error"} => \A p \in Profile : ~ BadChain(p)
  /\ pc \notin {"load", "profile", "error"} => given.profile # Unknown
  /\ pc = "connection" => ResolvedWith(values, {})
  /\ pc = "scheduler" => ResolvedWith(values, {"user"})
  /\ pc \in OptionsApplied =>
       ResolvedWith(values, OptionSettings) /\ {"type", "mode"} \subseteq DOMAIN values
  /\ pc \in OptionsApplied /\ pc # "submission" =>
       ~ ("command" \in DOMAIN values /\ (values["mode"] = "BATCH" \/ Conflicts))
  /\ pc = "session" => request = Request

\* It holds at first.
LEMMA InitCommandInv == InitCommand => CommandInv
<1> SUFFICES ASSUME InitCommand PROVE CommandInv
  OBVIOUS
<1>1. Configured
  <2>1. PICK c \in Configs : top = c.top /\ tables = c.tables /\ inherit = c.inherit
    BY DEF InitCommand
  <2>2. given \in Commands BY DEF InitCommand
  <2> QED BY <2>1, <2>2, CommandAssumption DEF Configured
<1>2. pc = "load" BY DEF InitCommand
<1> QED BY <1>1, <1>2 DEF CommandInv, OptionsApplied

\* Options over what is resolved.
LEMMA OptionsOver ==
  ASSUME NEW O, NEW P, ResolvedWith(values, O)
  PROVE  ResolvedWith(WithOptions(P), O \cup P)
<1> DEFINE v == WithOptions(P)
<1> SUFFICES ASSUME NEW s
             PROVE
    /\ s \in DOMAIN v <=> \/ s \in O \cup P /\ s \in DOMAIN given.options
                          \/ s \in DOMAIN top \/ \E n \in Generations : SetBy(n, s)
    /\ s \in DOMAIN v => IF s \in O \cup P /\ s \in DOMAIN given.options
                         THEN v[s] = given.options[s] ELSE Inherited(s, v[s])
  BY DEF ResolvedWith
<1>1. /\ s \in DOMAIN v <=> s \in DOMAIN values \/ (s \in P /\ s \in DOMAIN given.options)
      /\ s \in P /\ s \in DOMAIN given.options => v[s] = given.options[s]
      /\ s \in DOMAIN values /\ ~ (s \in P /\ s \in DOMAIN given.options) => v[s] = values[s]
  <2> DEFINE o == [x \in P \cap DOMAIN given.options |-> given.options[x]]
  <2>1. s \in DOMAIN o <=> s \in P /\ s \in DOMAIN given.options OBVIOUS
  <2>2. s \in DOMAIN o => o[s] = given.options[s] OBVIOUS
  <2>3. v = Over(o, values) BY DEF WithOptions
  <2> HIDE DEF o, v
  <2>4. /\ s \in DOMAIN v <=> s \in DOMAIN o \/ s \in DOMAIN values
        /\ s \in DOMAIN o => v[s] = o[s]
        /\ s \in DOMAIN values /\ s \notin DOMAIN o => v[s] = values[s]
    BY <2>3 DEF Over
  <2> QED BY <2>1, <2>2, <2>4
<1> HIDE DEF v
<1>2. /\ s \in DOMAIN values <=> \/ s \in O /\ s \in DOMAIN given.options
                                \/ s \in DOMAIN top \/ \E n \in Generations : SetBy(n, s)
      /\ s \in DOMAIN values =>
           IF s \in O /\ s \in DOMAIN given.options THEN values[s] = given.options[s]
           ELSE Inherited(s, values[s])
  BY DEF ResolvedWith
<1>3. CASE s \in P /\ s \in DOMAIN given.options BY <1>1, <1>3
<1>4. CASE ~ (s \in P /\ s \in DOMAIN given.options)
  <2>1. s \in DOMAIN v <=> s \in DOMAIN values BY <1>1, <1>4
  <2>2. s \in O \cup P /\ s \in DOMAIN given.options <=> s \in O /\ s \in DOMAIN given.options
    BY <1>4
  <2>3. s \in DOMAIN v => v[s] = values[s] BY <1>1, <1>4, <2>1
  <2> QED BY <1>2, <2>1, <2>2, <2>3
<1> QED BY <1>3, <1>4

\* A step that changes no configuration changes neither chains nor what is resolved.
LEMMA SameConfig ==
  ASSUME Configured, UNCHANGED configVars
  PROVE  /\ Configured' /\ \A p : BadChain(p)' <=> BadChain(p)
         /\ \A v, O : ResolvedWith(v, O) => ResolvedWith(v, O)'
<1>1. UNCHANGED <<top, tables, inherit, given>> BY DEF configVars
<1>2. Configured' BY <1>1 DEF Configured
<1>3. ASSUME NEW p PROVE BadChain(p)' <=> BadChain(p)
  <2>1. InheritanceChain(p)' = InheritanceChain(p)
    BY <1>1, Zenon DEF InheritanceChain, Extended, GoesOn
  <2> QED BY <1>1, <2>1 DEF BadChain
<1>4. Lineage' = Lineage BY <1>1, Zenon DEF Lineage
<1>5. \A n, s : SetBy(n, s)' <=> SetBy(n, s) BY <1>1, <1>4 DEF SetBy
<1>6. \A s, value : Inherited(s, value)' <=> Inherited(s, value)
  BY <1>1, <1>4, <1>5 DEF Inherited, Generations
<1>7. ASSUME NEW v, NEW O, ResolvedWith(v, O) PROVE ResolvedWith(v, O)'
  BY <1>1, <1>5, <1>6, <1>7 DEF ResolvedWith, Generations
<1> QED BY <1>2, <1>3, <1>7

\* The settings without options.
LEMMA ResolveInv ==
  ASSUME Configured, \A p \in Profile : ~ BadChain(p), given.profile # Unknown
  PROVE  ResolvedWith(IF given.profile = None THEN top ELSE ResolveProfile(given.profile), {})
<1>1. CASE given.profile = None
  <2>1. \A n \in Nat : Lineage[n] = None
    <3> DEFINE T == {n \in Nat : Lineage[n] = None}
    <3>1. 0 \in T BY <1>1, LineageIsRounds DEF LineageRounds
    <3>2. \A n \in Nat : n \in T => n + 1 \in T
      BY LineageIsRounds, NoneIsNoProfile DEF LineageRounds
    <3> HIDE DEF T
    <3>3. Nat \subseteq T BY <3>1, <3>2, Induct
    <3> QED BY <3>3 DEF T
  <2>2. \A n \in Generations : \A s : ~ SetBy(n, s)
    BY <2>1, NoneIsNoProfile DEF SetBy, Generations
  <2> QED BY <1>1, <2>2 DEF ResolvedWith, Inherited
<1>2. CASE given.profile # None
  <2>1. given.profile \in Profile BY <1>2 DEF Configured
  <2>2. Resolved(ResolveProfile(given.profile)) BY <2>1, ProfileResolves
  <2> QED BY <1>2, <2>2 DEF Resolved, ResolvedWith
<1> QED BY <1>1, <1>2

\* Every step of the command keeps it.
LEMMA NextCommandInv == CommandInv /\ [NextCommand]_commandVars => CommandInv'
<1> SUFFICES ASSUME CommandInv, [NextCommand]_commandVars PROVE CommandInv'
  OBVIOUS
<1>1. Configured /\ UNCHANGED configVars
  BY DEF CommandInv, NextCommand, commandVars, configVars, LoadConfig, ResolveProfileConfig,
         ConnectionFromCLI, ApplyOptions, CheckSubmissionCommand, ResolveSSHHost, StartSession,
         Fails, Goes
<1>2. /\ Configured' /\ \A p : BadChain(p)' <=> BadChain(p)
      /\ \A v, O : ResolvedWith(v, O) => ResolvedWith(v, O)'
  BY <1>1, SameConfig
<1>3. UNCHANGED <<top, tables, inherit, given>> BY <1>1 DEF configVars
<1>4. CASE UNCHANGED commandVars
  <2>1. UNCHANGED <<pc, values, request>> BY <1>4 DEF commandVars
  <2>2. values' = values => Conflicts' = Conflicts /\ Request' = Request
    BY <1>3 DEF Conflicts, Own, SubmissionSettings, Request
  <2> QED BY <1>2, <1>3, <2>1, <2>2 DEF CommandInv
<1>5. CASE pc' = "error" BY <1>2, <1>5 DEF CommandInv, OptionsApplied
<1>6. ASSUME pc' # "error", pc \notin {"load", "error"} PROVE \A p \in Profile : ~ BadChain(p)'
  BY <1>2, <1>6 DEF CommandInv
<1>7. ASSUME pc' # "error", LoadConfig PROVE CommandInv'
  <2>1. pc' = "profile" /\ \A p \in Profile : ~ BadChain(p)
    BY <1>7 DEF LoadConfig, Fails, Goes
  <2> QED BY <1>2, <2>1 DEF CommandInv, OptionsApplied
<1>8. ASSUME pc' # "error", ResolveProfileConfig PROVE CommandInv'
  <2>1. /\ pc = "profile" /\ pc' = "connection" /\ given.profile # Unknown
        /\ values' = IF given.profile = None THEN top ELSE ResolveProfile(given.profile)
    BY <1>8 DEF ResolveProfileConfig, Fails, Goes
  <2>2. ResolvedWith(values', {})
    BY <1>1, <2>1, ResolveInv DEF CommandInv
  <2>3. ResolvedWith(values, {})' BY <1>2, <2>2
  <2> QED BY <1>2, <1>6, <1>8, <2>1, <2>3, <1>3 DEF CommandInv, OptionsApplied
<1>9. ASSUME pc' # "error", ConnectionFromCLI PROVE CommandInv'
  <2>1. pc = "connection" /\ pc' = "scheduler" /\ values' = WithOptions({"user"})
    BY <1>9 DEF ConnectionFromCLI, Fails, Goes
  <2>2. ResolvedWith(WithOptions({"user"}), {} \cup {"user"}) BY <2>1, OptionsOver DEF CommandInv
  <2>3. {} \cup {"user"} = {"user"} OBVIOUS
  <2>4. ResolvedWith(values, {"user"})' BY <1>2, <2>1, <2>2, <2>3
  <2> QED BY <1>2, <1>3, <1>6, <1>9, <2>1, <2>4 DEF CommandInv, OptionsApplied
<1>10. ASSUME pc' # "error", ApplyOptions PROVE CommandInv'
  <2> DEFINE O == {"type", "mode", "command", "resource"}
  <2>1. /\ pc = "scheduler" /\ pc' = "submission" /\ values' = WithOptions(O)
        /\ {"type", "mode"} \subseteq DOMAIN values'
    BY <1>10 DEF ApplyOptions, Fails, Goes
  <2>2. {"user"} \cup O = OptionSettings BY DEF OptionSettings
  <2> HIDE DEF O
  <2>3. ResolvedWith(WithOptions(O), {"user"} \cup O) BY <2>1, OptionsOver DEF CommandInv
  <2>4. ResolvedWith(values, OptionSettings)' BY <1>2, <2>1, <2>2, <2>3
  <2> QED BY <1>2, <1>3, <1>6, <1>10, <2>1, <2>4 DEF CommandInv, OptionsApplied
<1>11. ASSUME pc' # "error", CheckSubmissionCommand \/ ResolveSSHHost \/ StartSession
       PROVE  CommandInv'
  <2>1. /\ pc \in OptionsApplied /\ pc' \in OptionsApplied \ {"submission"} /\ values' = values
        /\ pc' = "session" => request' = Request
        /\ pc = "submission" =>
             ~ ("command" \in DOMAIN values /\ (values["mode"] = "BATCH" \/ Conflicts))
    BY <1>11 DEF CheckSubmissionCommand, ResolveSSHHost, StartSession, Fails, Goes, OptionsApplied
  <2>2. (Conflicts' <=> Conflicts) /\ Request' = Request
    BY <1>3, <2>1 DEF Conflicts, Own, SubmissionSettings, Request
  <2>3. ResolvedWith(values, OptionSettings)' BY <1>2, <2>1 DEF CommandInv
  <2>4. /\ {"type", "mode"} \subseteq DOMAIN values'
        /\ ~ ("command" \in DOMAIN values /\ (values["mode"] = "BATCH" \/ Conflicts))'
    BY <2>1, <2>2 DEF CommandInv
  <2>5. pc' = "session" => request' = Request' BY <2>1, <2>2
  <2>6. /\ pc \notin {"load", "profile", "error"}
        /\ pc' \notin {"load", "error", "connection", "scheduler"}
    BY <2>1 DEF OptionsApplied
  <2>7. given'.profile # Unknown BY <1>3, <2>6 DEF CommandInv
  <2> QED BY <1>2, <1>6, <1>11, <2>1, <2>3, <2>4, <2>5, <2>6, <2>7 DEF CommandInv
<1> QED
  BY <1>4, <1>5, <1>7, <1>8, <1>9, <1>10, <1>11 DEF NextCommand

\* The inductive invariant holds of every run of the command.
THEOREM CommandInvHolds == SpecCommand => []CommandInv
<1> QED BY InitCommandInv, NextCommandInv, PTL DEF SpecCommand

\* Whatever the profiles, however they inherit from one another and whatever options are
\* given: each setting of a tunnel comes from the nearest place that sets it, and what
\* nobody sets is not set.
THEOREM NearestCorrect == SpecCommand => []NearestWins
<1>1. CommandInv => NearestWins
  <2> SUFFICES ASSUME CommandInv, pc \in OptionsApplied, NEW s \in Setting
               PROVE  /\ s \in DOMAIN values => NearestSets(s, values[s])
                      /\ s \notin DOMAIN values => ~ IsSet(s)
    BY DEF NearestWins, OptionsApplied
  <2>1. ResolvedWith(values, OptionSettings) /\ DOMAIN given.options \subseteq OptionSettings
    BY DEF CommandInv, Configured, OptionSettings
  <2> QED BY <2>1 DEF ResolvedWith, NearestSets, IsSet
<1> QED BY <1>1, CommandInvHolds, PTL

\* The mode, which only a profile or an option sets, is one of two.
LEMMA ModeIsKnown ==
  ASSUME CommandInv, pc \in OptionsApplied
  PROVE  values["mode"] \in {"BATCH", "INTERACTIVE"}
<1>1. "mode" \in DOMAIN values /\ ResolvedWith(values, OptionSettings) /\ Configured
  BY DEF CommandInv
<1>2. "mode" \notin DOMAIN top BY <1>1 DEF Configured
<1>3. CASE "mode" \in DOMAIN given.options
  <2>1. values["mode"] = given.options["mode"] BY <1>1, <1>3 DEF ResolvedWith, OptionSettings
  <2> QED BY <1>1, <1>3, <2>1 DEF Configured, IsTable
<1>4. CASE "mode" \notin DOMAIN given.options
  <2>1. Inherited("mode", values["mode"]) BY <1>1, <1>4 DEF ResolvedWith
  <2>2. PICK n \in Generations : SetBy(n, "mode") /\ values["mode"] = tables[Lineage[n]]["mode"]
    BY <1>2, <2>1 DEF Inherited
  <2> QED BY <1>1, <2>2 DEF Configured, IsTable, SetBy
<1> QED BY <1>3, <1>4

\* What the options or the profile itself ask of the submission reaches the scheduler's
\* command with the value asked for, or the command stops before its session.
THEOREM NothingDroppedCorrect == SpecCommand => []NothingAskedIsDropped
<1>1. CommandInv => NothingAskedIsDropped
  <2> SUFFICES ASSUME CommandInv, pc = "session",
                      NEW s \in {"command"} \cup SubmissionSettings, Asked(s)
               PROVE  s \in DOMAIN request /\ NearestSets(s, request[s])
    BY DEF NothingAskedIsDropped
  <2>1. /\ ResolvedWith(values, OptionSettings) /\ DOMAIN given.options \subseteq OptionSettings
        /\ request = Request /\ given.profile # Unknown /\ Configured
        /\ ~ ("command" \in DOMAIN values /\ (values["mode"] = "BATCH" \/ Conflicts))
    BY DEF CommandInv, Configured, OptionSettings, OptionsApplied
  <2>2. values["mode"] \in {"BATCH", "INTERACTIVE"} BY ModeIsKnown DEF OptionsApplied
  <2>3. 0 \in Generations BY NoneIsNoProfile DEF Generations
  <2>4. s \in DOMAIN values /\ NearestSets(s, values[s])
    BY <2>1, <2>3 DEF ResolvedWith, NearestSets, Asked
  <2> DEFINE used == IF "command" \in DOMAIN values /\ values["mode"] = "INTERACTIVE"
                       THEN {"command"} ELSE SubmissionSettings
  <2>5. s \in used
    <3>1. CASE "command" \in DOMAIN values /\ s \in SubmissionSettings
      <4>1. Lineage[0] = given.profile BY <2>1, LineageIsRounds DEF LineageRounds
      <4>2. given.profile # None \/ s \in DOMAIN given.options
        BY <4>1, NoneIsNoProfile DEF Asked, SetBy
      <4>3. s \in DOMAIN given.options \/ Own(s)
        BY <4>1, NoneIsNoProfile DEF Asked, SetBy, Own
      <4> QED BY <2>1, <3>1, <4>3 DEF Conflicts
    <3>2. CASE "command" \in DOMAIN values /\ s = "command" BY <2>1, <2>2, <3>2
    <3>3. CASE "command" \notin DOMAIN values BY <2>4, <3>3
    <3> QED BY <3>1, <3>2, <3>3
  <2>6. request = [x \in used \cap DOMAIN values |-> values[x]] BY <2>1 DEF Request
  <2> HIDE DEF used
  <2>7. s \in DOMAIN request /\ request[s] = values[s] BY <2>4, <2>5, <2>6
  <2> QED BY <2>4, <2>7
<1> QED BY <1>1, CommandInvHolds, PTL

\* `reject_stored_password` looks at every profile of the lineage, and at the top level.
LEMMA PasswordStored ==
  ASSUME Configured, \A p \in Profile : ~ BadChain(p), given.profile # Unknown
  PROVE  StoredPassword(given.profile) <=>
           "password" \in DOMAIN top \/ \E n \in Generations : SetBy(n, "password")
<1>1. CASE given.profile = None
  <2>1. ResolvedWith(top, {}) BY <1>1, ResolveInv
  <2> QED BY <1>1, <2>1 DEF ResolvedWith, StoredPassword
<1>2. CASE given.profile # None
  <2> DEFINE c == InheritanceChain(given.profile)
  <2>1. given.profile \in Profile BY <1>2 DEF Configured
  <2>2. /\ Len(c) \in Nat
        /\ \A n \in Generations : \A s :
             SetBy(n, s) <=> n < Len(c) /\ s \in DOMAIN tables[c[n + 1]]
        /\ \A n \in Nat : n < Len(c) => n \in Generations /\ Lineage[n] = c[n + 1]
    BY <2>1, ChainSets
  <2>3. c \in Seq(Profile) BY <2>1, ChainIsLineage DEF Ancestry
  <2>4. StoredPassword(given.profile) <=>
          "password" \in DOMAIN top \/ \E name \in Range(c) : "password" \in DOMAIN tables[name]
    BY <1>2 DEF StoredPassword
  <2> HIDE DEF c
  <2>5. ASSUME NEW name \in Range(c), "password" \in DOMAIN tables[name]
        PROVE  \E n \in Generations : SetBy(n, "password")
    <3>1. PICK i \in 1 .. Len(c) : c[i] = name BY <2>3 DEF Range
    <3>2. i - 1 \in Nat /\ i - 1 < Len(c) /\ (i - 1) + 1 = i BY <2>2
    <3> QED BY <2>2, <2>5, <3>1, <3>2
  <2>6. ASSUME NEW n \in Generations, SetBy(n, "password")
        PROVE  \E name \in Range(c) : "password" \in DOMAIN tables[name]
    <3>1. n \in Nat BY NoneIsNoProfile DEF Generations
    <3>2. n < Len(c) /\ "password" \in DOMAIN tables[c[n + 1]] BY <2>2, <2>6
    <3>3. n + 1 \in 1 .. Len(c) BY <2>2, <3>1, <3>2
    <3>4. c[n + 1] \in Range(c) BY <2>3, <3>3 DEF Range
    <3> QED BY <3>2, <3>4
  <2> QED BY <2>4, <2>5, <2>6
<1> QED BY <1>1, <1>2

\* A tunnel stops over a stored password exactly if the top level or a profile of its own
\* lineage stores one, an overridden one included, and never over another profile's.
THEOREM StoredPasswordCorrect == SpecCommand => StoredPasswordStops
<1> DEFINE Stops == pc = "profile" =>
       (pc' = "error" <=>
          \/ given.profile = Unknown \/ "password" \in DOMAIN top
          \/ \E n \in Generations : SetBy(n, "password"))
<1>1. CommandInv /\ [NextCommand]_commandVars => [Stops]_commandVars
  <2> SUFFICES ASSUME CommandInv, NextCommand, pc = "profile"
               PROVE  pc' = "error" <=> \/ given.profile = Unknown \/ "password" \in DOMAIN top
                                        \/ \E n \in Generations : SetBy(n, "password")
    OBVIOUS
  <2>1. Configured /\ \A p \in Profile : ~ BadChain(p) BY DEF CommandInv
  <2>2. ResolveProfileConfig
    BY DEF NextCommand, LoadConfig, ConnectionFromCLI, ApplyOptions, CheckSubmissionCommand,
           ResolveSSHHost, StartSession
  <2>3. pc' = "error" <=> given.profile = Unknown \/ StoredPassword(given.profile)
    BY <2>2 DEF ResolveProfileConfig, Fails, Goes
  <2> QED BY <2>1, <2>3, PasswordStored
<1> QED BY <1>1, CommandInvHolds, PTL DEF SpecCommand, StoredPasswordStops

-----------------------------------------------------------------------------
(***************************************************************************)
(* The submission and its job: SchedulerJob.                               *)
(***************************************************************************)

\* The lengths are numbers.
LEMMA Lengths ==
  /\ Before \in Nat /\ IdLength \in Nat /\ After \in Nat /\ Length \in Nat
  /\ Requeues \in Nat
BY SubmissionAssumption, RequeuesAssumption DEF Length

\* Of the job ID, the pattern finds no more than there is.
LEMMA FoundInId ==
  ASSUME NEW n \in Nat
  PROVE  Found(n) \in 0 .. IdLength
BY Lengths DEF Found

\* A pattern that matches what follows the ID finds all of it, or none.
LEMMA FoundWhole ==
  ASSUME Terminated, NEW n \in Nat, Found(n) # 0
  PROVE  Found(n) = IdLength
BY DEF Found

-----------------------------------------------------------------------------
(***************************************************************************)
(* The submission.                                                         *)
(***************************************************************************)

\* What was read to find the ID waits to be passed on, all of it; what was read since
\* was passed on.
ReadInv ==
  /\ reading # "found" => early = 0 /\ passed = 0
  /\ reading = "found" => early \in {0, read}
  /\ early > 0 => passed = 0
  /\ process = "closed" => reading # "reading"
  /\ OutputIsPassedOn

\* The job ID is whole if the pattern matches what follows it.
IdInv == Terminated => JobIdIsWhole

SubmissionInv == TypeOK /\ ReadInv /\ IdInv

LEMMA InitSubmission == Init => SubmissionInv
BY Lengths DEF Init, SubmissionInv, TypeOK, ReadInv, OutputIsPassedOn, IdInv, JobIdIsWhole

\* However the output is split, and whenever the submission ends or is closed.
LEMMA NextSubmission == SubmissionInv /\ [Next]_vars => SubmissionInv'
<1> SUFFICES ASSUME SubmissionInv, [Next]_vars PROVE SubmissionInv'
  OBVIOUS
<1>0. /\ printed \in Nat /\ read \in Nat /\ early \in Nat /\ passed \in Nat /\ read <= printed
      /\ printed <= Length
  BY Lengths DEF SubmissionInv, TypeOK
<1> USE Lengths
    DEF SubmissionInv, TypeOK, ReadInv, OutputIsPassedOn, IdInv, JobIdIsWhole
<1>1. CASE SubmissionPrints
  BY <1>0, <1>1 DEF SubmissionPrints
<1>2. CASE SubmissionExits
  BY <1>2 DEF SubmissionExits
<1>3. CASE ReadChunk
  <2>1. PICK n \in read + 1 .. printed :
          /\ read' = n /\ id' = Found(n)
          /\ reading' = IF Found(n) = 0 THEN "reading" ELSE "found"
          /\ early' = IF Found(n) = 0 THEN 0 ELSE n
    BY <1>3 DEF ReadChunk
  <2>2. reading = "reading" /\ UNCHANGED <<printed, process, passed>>
    BY <1>3 DEF ReadChunk
  <2>3. n \in Nat /\ n > 0 /\ n <= printed
    BY <1>0, <2>1
  <2>4. Found(n) \in 0 .. IdLength /\ (Terminated /\ Found(n) # 0 => Found(n) = IdLength)
    BY <2>3, FoundInId, FoundWhole
  <2>5. TypeOK'
    BY <1>0, <2>1, <2>2, <2>3, <2>4
  <2>6. ReadInv'
    BY <1>0, <2>1, <2>2, <2>3
  <2>7. IdInv'
    BY <2>1, <2>2, <2>4
  <2> QED
    BY <2>5, <2>6, <2>7
<1>4. CASE OutputEnds
  BY <1>4 DEF OutputEnds
<1>5. CASE StartupTimeout
  BY <1>5 DEF StartupTimeout
<1>6. CASE DrainEarly
  BY <1>0, <1>6 DEF DrainEarly
<1>7. CASE DrainChunk
  BY <1>0, <1>7 DEF DrainChunk
<1>8. CASE CloseSubmission
  BY <1>8 DEF CloseSubmission
<1>9. CASE UNCHANGED vars
  BY <1>9 DEF vars
<1> QED
  BY <1>1, <1>2, <1>3, <1>4, <1>5, <1>6, <1>7, <1>8, <1>9 DEF Next

-----------------------------------------------------------------------------
(***************************************************************************)
(* The polls.                                                              *)
(***************************************************************************)

\* The job: it is listed in the queue until it is over, it has been running if it runs,
\* and a state that tells of success has its exit status.
CourseOfJob ==
  /\ listed # "queue" => ~ J!Alive
  /\ raw \in J!Running => begun
  /\ raw \in {"DONE", "POST_DONE"} => status = 0

\* PBS is asked a second time about a job that has left its queue, and nobody is asked
\* once the tunnel has stopped.
CourseOfQuery ==
  /\ query = "second" => listed # "queue"
  /\ tunnel = "stopped" => query = "none"

JobInv == J!TypeOK /\ CourseOfJob /\ CourseOfQuery /\ AnswersAreTrue

\* The state that is told of a job that has ended says so truly, and so does that of one
\* that runs.
LEMMA StateIsTrue ==
  ASSUME J!TypeOK, CourseOfJob
  PROVE  LET s == J!StateOf(raw, status) IN
           /\ s \in {"pending", "running", "suspended", "succeeded", "failed", "unknown"}
           /\ J!IsTerminal(s) => ~ J!Alive
           /\ s = "succeeded" => status = 0
           /\ s = "running" => begun
<1> USE DEF J!StateOf, J!IsTerminal, J!Alive, J!Over, J!Pending, J!Running, J!Suspended,
            CourseOfJob
<1> DEFINE s == J!StateOf(raw, status)
<1>0. /\ scheduler \in {"PBS", "LSF"} /\ status \in {0, 1}
      /\ raw \in J!Pending \cup J!Running \cup J!Suspended \cup J!Over \cup J!Odd
  BY DEF J!TypeOK
<1>1. CASE scheduler = "PBS"
  <2>1. raw \in {"Q", "T", "W"} => s = "pending" /\ ~ J!IsTerminal(s)
    BY <1>1
  <2>2. raw \in {"B", "E", "R"} => s = "running" /\ ~ J!IsTerminal(s) /\ begun
    BY <1>1
  <2>3. raw \in {"H", "S"} => s = "suspended" /\ ~ J!IsTerminal(s)
    BY <1>1
  <2>4. raw \in {"F", "X"} => s \in {"succeeded", "failed"} /\ ~ J!Alive
    BY <1>1
  <2>5. raw \in {"F", "X"} /\ s = "succeeded" => status = 0
    BY <1>1
  <2>6. raw = "U" => s = "unknown" /\ ~ J!IsTerminal(s)
    BY <1>1
  <2>7. raw \in {"Q", "T", "W", "B", "E", "R", "H", "S", "F", "X", "U"}
    BY <1>0, <1>1 DEF J!Odd
  <2> QED
    BY <2>1, <2>2, <2>3, <2>4, <2>5, <2>6, <2>7
<1>2. CASE scheduler = "LSF"
  <2>1. raw \in {"PEND", "WAIT", "PROV"} => s = "pending" /\ ~ J!IsTerminal(s)
    BY <1>2
  <2>2. raw = "RUN" => s = "running" /\ ~ J!IsTerminal(s) /\ begun
    BY <1>2
  <2>3. raw \in {"PSUSP", "USUSP", "SSUSP"} => s = "suspended" /\ ~ J!IsTerminal(s)
    BY <1>2
  <2>4. raw \in {"DONE", "POST_DONE"} => s = "succeeded" /\ ~ J!Alive /\ status = 0
    <3>1. raw \in {"DONE", "POST_DONE"} => ~ J!Alive /\ status = 0
      BY <1>2
    <3>2. raw \in {"DONE", "POST_DONE"} =>
            raw \notin J!Pending /\ raw \notin J!Running /\ raw \notin J!Suspended /\ raw # "F"
      BY <1>2
    <3> HIDE DEF J!Pending, J!Running, J!Suspended, J!Over
    <3>3. raw \in {"DONE", "POST_DONE"} => s = "succeeded"
      BY <3>2
    <3> QED
      BY <3>1, <3>2, <3>3
  <2>5. raw \in {"EXIT", "POST_ERR", "ZOMBI"} => s = "failed" /\ ~ J!Alive
    BY <1>2
  <2>6. raw = "UNKWN" => s = "unknown" /\ ~ J!IsTerminal(s)
    BY <1>2
  <2>7. raw \in {"PEND", "WAIT", "PROV", "RUN", "PSUSP", "USUSP", "SSUSP", "DONE", "POST_DONE",
                 "EXIT", "POST_ERR", "ZOMBI", "UNKWN"}
    BY <1>0, <1>2 DEF J!Odd
  <2> HIDE DEF s, J!IsTerminal, J!Alive
  <2>8. /\ s \in {"pending", "running", "suspended", "succeeded", "failed", "unknown"}
        /\ J!IsTerminal(s) => ~ J!Alive
        /\ s = "succeeded" => status = 0
        /\ s = "running" => begun
    BY <2>1, <2>2, <2>3, <2>4, <2>5, <2>6, <2>7
  <2> QED
    BY <2>8 DEF s
<1> QED
  BY <1>0, <1>1, <1>2

LEMMA InitPolls == J!Init => JobInv
<1> SUFFICES ASSUME J!Init PROVE JobInv
  OBVIOUS
<1>1. J!TypeOK
  <2>1. /\ raw \in J!Pending \cup J!Running \cup J!Suspended \cup J!Over \cup J!Odd
        /\ {history, begun, ended} \subseteq BOOLEAN
    BY DEF J!Init
  <2> QED
    BY <2>1, Lengths DEF J!Init, J!TypeOK
<1>2. scheduler = "PBS" \/ scheduler = "LSF"
  BY DEF J!Init
<1>3. CourseOfJob
  BY <1>2 DEF J!Init, CourseOfJob, J!Pending, J!Running
<1>4. CourseOfQuery /\ AnswersAreTrue
  BY DEF J!Init, CourseOfQuery, AnswersAreTrue, J!EndedJobIsOver, J!SuccessIsHonest,
         J!ServesStartedJob
<1> QED
  BY <1>1, <1>3, <1>4 DEF JobInv

\* The batch system moves a job that lives, ends it, and forgets it only then.
LEMMA JobKeepsInv ==
  ASSUME JobInv, J!JobMoves \/ J!JobEnds \/ J!JobDropped
  PROVE  JobInv'
<1> USE DEF J!watching
<1>0. UNCHANGED <<scheduler, query, state, ended, tunnel>>
  BY DEF J!JobMoves, J!JobEnds, J!JobDropped
<1>1. /\ J!Pending' = J!Pending /\ J!Running' = J!Running /\ J!Suspended' = J!Suspended
      /\ J!Over' = J!Over /\ J!Odd' = J!Odd
  BY <1>0 DEF J!Pending, J!Running, J!Suspended, J!Over, J!Odd
<1>2. scheduler \in {"PBS", "LSF"}
  BY DEF JobInv, J!TypeOK
<1>3. \A r \in J!Over :
        r \notin J!Pending \cup J!Running \cup J!Suspended \cup J!Odd
  BY <1>2 DEF J!Pending, J!Running, J!Suspended, J!Over, J!Odd
<1>4. CASE J!JobMoves
  <2>1. /\ J!Alive /\ J!Alive'
        /\ raw' \in J!Pending \cup J!Running \cup J!Suspended \cup J!Odd
        /\ UNCHANGED <<status, listed, history>>
        /\ begun' = (begun \/ raw' \in J!Running)
        /\ requeued' \in {requeued, requeued + 1} /\ requeued' <= Requeues
    <3>1. requeued + 0 = requeued
      BY DEF JobInv, J!TypeOK
    <3>2. /\ J!Alive
          /\ raw' \in J!Pending \cup J!Running \cup J!Suspended \cup J!Odd
          /\ UNCHANGED <<status, listed, history>>
          /\ begun' = (begun \/ raw' \in J!Running)
          /\ requeued' <= Requeues
      BY <1>4 DEF J!JobMoves
    <3>3. requeued' \in {requeued, requeued + 1}
      BY <1>4, <3>1 DEF J!JobMoves
    <3>4. J!Alive'
      BY <1>1, <1>3, <3>2 DEF J!Alive
    <3> QED
      BY <3>2, <3>3, <3>4
  <2>2. begun' \in BOOLEAN
    BY <2>1 DEF JobInv, J!TypeOK
  <2>3. requeued' \in 0 .. Requeues
    BY <2>1, Lengths DEF JobInv, J!TypeOK
  <2>4. J!TypeOK'
    BY <1>0, <1>1, <2>1, <2>2, <2>3 DEF JobInv, J!TypeOK
  <2>5. CourseOfJob'
    <3>1. listed' = "queue"
      BY <2>1 DEF JobInv, CourseOfJob
    <3>2. raw' \in J!Running' => begun'
      BY <1>1, <2>1
    <3>3. {"DONE", "POST_DONE"} \subseteq J!Over \/ scheduler = "PBS"
      BY <1>2 DEF J!Over
    <3>4. raw' \notin {"DONE", "POST_DONE"}
      <4>1. CASE scheduler = "PBS"
        BY <2>1, <4>1 DEF J!Pending, J!Running, J!Suspended, J!Odd
      <4> QED
        BY <1>3, <2>1, <3>3, <4>1
    <3> QED
      BY <3>1, <3>2, <3>4 DEF CourseOfJob
  <2>6. CourseOfQuery' /\ AnswersAreTrue'
    BY <1>0, <2>1
    DEF JobInv, CourseOfQuery, AnswersAreTrue, J!EndedJobIsOver, J!SuccessIsHonest,
        J!ServesStartedJob
  <2> QED
    BY <2>4, <2>5, <2>6 DEF JobInv
<1>5. CASE J!JobEnds
  <2>1. /\ J!Alive /\ ~ J!Alive' /\ raw' \in J!Over
        /\ status' \in {0, 1}
        /\ raw' \in {"DONE", "POST_DONE"} => status' = 0
        /\ UNCHANGED <<listed, history, begun, requeued>>
    BY <1>1, <1>5 DEF J!JobEnds, J!Alive
  <2>2. J!TypeOK'
    BY <1>0, <1>1, <2>1 DEF JobInv, J!TypeOK
  <2>3. CourseOfJob'
    BY <1>1, <1>3, <2>1 DEF JobInv, CourseOfJob
  <2>4. CourseOfQuery' /\ AnswersAreTrue'
    BY <1>0, <2>1
    DEF JobInv, CourseOfQuery, AnswersAreTrue, J!EndedJobIsOver, J!SuccessIsHonest,
        J!ServesStartedJob
  <2> QED
    BY <2>2, <2>3, <2>4 DEF JobInv
<1>6. CASE J!JobDropped
  <2>1. /\ ~ J!Alive /\ listed' \in {"history", "nowhere"}
        /\ UNCHANGED <<raw, status, history, begun, requeued>>
    BY <1>6 DEF J!JobDropped
  <2>2. J!Alive' <=> J!Alive
    BY <1>1, <2>1 DEF J!Alive
  <2>3. J!TypeOK'
    BY <1>0, <1>1, <2>1 DEF JobInv, J!TypeOK
  <2>4. CourseOfJob'
    BY <1>1, <2>1, <2>2 DEF JobInv, CourseOfJob
  <2>5. CourseOfQuery' /\ AnswersAreTrue'
    BY <1>0, <2>1, <2>2
    DEF JobInv, CourseOfQuery, AnswersAreTrue, J!EndedJobIsOver, J!SuccessIsHonest,
        J!ServesStartedJob
  <2> QED
    BY <2>3, <2>4, <2>5 DEF JobInv
<1> QED
  BY <1>4, <1>5, <1>6

\* What does not touch the job leaves its course as it is.
LEMMA JobUntouched ==
  ASSUME UNCHANGED J!jobVars, CourseOfJob
  PROVE  /\ CourseOfJob' /\ (J!Alive' <=> J!Alive)
         /\ UNCHANGED <<J!Pending, J!Running, J!Suspended, J!Over, J!Odd>>
<1>1. UNCHANGED <<J!Pending, J!Running, J!Suspended, J!Over, J!Odd>>
  BY DEF J!jobVars, J!Pending, J!Running, J!Suspended, J!Over, J!Odd
<1> QED
  BY <1>1 DEF J!jobVars, CourseOfJob, J!Alive

\* An answer that is true is taken for what it says.
LEMMA AnswerKeepsInv ==
  ASSUME JobInv, NEW s, J!Answer(s),
         s \in {"pending", "running", "suspended", "succeeded", "failed", "ended", "unknown"},
         J!IsTerminal(s) => ~ J!Alive, s = "succeeded" => status = 0,
         s = "running" => begun
  PROVE  JobInv'
<1>1. /\ UNCHANGED J!jobVars /\ query' = "none" /\ state' = s
      /\ ended' = (ended \/ J!IsTerminal(s))
      /\ tunnel' \in {"stopped", "serving", tunnel}
      /\ tunnel' = "serving" => s = "running" \/ tunnel = "serving"
  BY DEF J!Answer
<1>2. /\ CourseOfJob' /\ (J!Alive' <=> J!Alive)
      /\ UNCHANGED <<J!Pending, J!Running, J!Suspended, J!Over, J!Odd>>
  BY <1>1, JobUntouched DEF JobInv
<1>3. ended' \in BOOLEAN
  BY <1>1 DEF JobInv, J!TypeOK, J!IsTerminal
<1>4. J!TypeOK'
  BY <1>1, <1>2, <1>3 DEF JobInv, J!TypeOK, J!jobVars
<1>5. CourseOfQuery'
  BY <1>1 DEF CourseOfQuery
<1>6. AnswersAreTrue'
  BY <1>1, <1>2
  DEF JobInv, AnswersAreTrue, J!EndedJobIsOver, J!SuccessIsHonest, J!ServesStartedJob,
      J!IsTerminal, J!jobVars
<1> QED
  BY <1>2, <1>4, <1>5, <1>6 DEF JobInv

\* The polls, and whatever stops the tunnel: the job may have changed between the two
\* queries, but it has not come back.
LEMMA PollKeepsInv ==
  ASSUME JobInv,
         \/ J!AskScheduler \/ J!FirstAnswers \/ J!FirstFails \/ J!SecondAnswers
         \/ J!QueryFails \/ J!GiveUp
  PROVE  JobInv'
<1>1. CASE J!FirstAnswers
  BY <1>1, StateIsTrue, AnswerKeepsInv DEF J!FirstAnswers, JobInv
<1>2. CASE J!SecondAnswers
  <2>1. ~ J!Alive
    BY <1>2 DEF J!SecondAnswers, JobInv, CourseOfQuery, CourseOfJob
  <2>2. CASE listed = "history"
    BY <1>2, <2>2, StateIsTrue, AnswerKeepsInv DEF J!SecondAnswers, JobInv
  <2>3. CASE listed # "history"
    BY <1>2, <2>1, <2>3, AnswerKeepsInv DEF J!SecondAnswers
  <2> QED
    BY <2>2, <2>3
<1>3. CASE J!AskScheduler \/ J!FirstFails \/ J!QueryFails \/ J!GiveUp
  <2>1. /\ UNCHANGED <<J!jobVars, state, ended>>
        /\ \/ query' = "first" /\ tunnel' = tunnel /\ tunnel # "stopped"
           \/ /\ query' = "second" /\ tunnel' = tunnel /\ tunnel # "stopped"
              /\ listed # "queue" /\ scheduler = "PBS"
           \/ query' = "none" /\ tunnel' = "stopped"
    BY <1>3
    DEF J!AskScheduler, J!FirstFails, J!QueryFails, J!GiveUp, J!FirstFinds, JobInv,
        CourseOfQuery
  <2>2. /\ CourseOfJob' /\ (J!Alive' <=> J!Alive)
        /\ UNCHANGED <<J!Pending, J!Running, J!Suspended, J!Over, J!Odd>>
    BY <2>1, JobUntouched DEF JobInv
  <2>3. J!TypeOK'
    BY <2>1, <2>2 DEF JobInv, J!TypeOK, J!jobVars
  <2>4. CourseOfQuery'
    BY <2>1 DEF CourseOfQuery, J!jobVars
  <2>5. AnswersAreTrue'
    BY <2>1, <2>2
    DEF JobInv, AnswersAreTrue, J!EndedJobIsOver, J!SuccessIsHonest, J!ServesStartedJob,
        J!jobVars
  <2> QED
    BY <2>2, <2>3, <2>4, <2>5 DEF JobInv
<1> QED
  BY <1>1, <1>2, <1>3

-----------------------------------------------------------------------------
(***************************************************************************)
(* Both together.                                                          *)
(***************************************************************************)

\* No job is polled before its ID is known, or taken for ended; a submission that was
\* found is closed by a tunnel that has stopped, and after the last output of a job that
\* has ended, if the grace period allows.
TogetherInv ==
  /\ graceOver \in BOOLEAN
  /\ query # "none" \/ ended => reading = "found"
  /\ reading = "found" /\ process = "closed" => tunnel = "stopped"
  /\ ended /\ process = "closed" /\ ~ graceOver => early = 0 /\ read = printed

AllInv == SubmissionInv /\ JobInv /\ TogetherInv

LEMMA InitAll == InitJob => AllInv
BY InitSubmission, InitPolls DEF InitJob, AllInv, TogetherInv, Init, J!Init

LEMMA NextAll == AllInv /\ [NextJob]_all => AllInv'
<1> SUFFICES ASSUME AllInv, [NextJob]_all PROVE AllInv'
  OBVIOUS
<1> USE DEF AllInv, jobAndPolls
<1>1. ASSUME UNCHANGED jobAndPolls PROVE JobInv'
  <2>1. CourseOfJob' /\ (J!Alive' <=> J!Alive)
        /\ UNCHANGED <<J!Pending, J!Running, J!Suspended, J!Over, J!Odd>>
    BY <1>1, JobUntouched DEF JobInv, J!jobVars
  <2> QED
    BY <1>1, <2>1
    DEF JobInv, J!TypeOK, CourseOfQuery, AnswersAreTrue, J!EndedJobIsOver,
        J!SuccessIsHonest, J!ServesStartedJob
<1>2. CASE Submission \/ ReadId \/ Drain
  <2>1. [Next]_vars /\ UNCHANGED <<jobAndPolls, graceOver>>
    BY <1>2 DEF Submission, ReadId, Drain, Next
  <2>2. SubmissionInv' /\ JobInv'
    BY <1>1, <2>1, NextSubmission
  <2>3. TogetherInv'
    <3>1. reading = "found" => reading' = "found"
      BY <1>2 DEF Submission, ReadId, Drain, SubmissionPrints, SubmissionExits, ReadChunk,
                  OutputEnds, StartupTimeout, DrainEarly, DrainChunk
    <3>2. reading' = "found" /\ process' = "closed" =>
            reading = "found" /\ process = "closed"
      BY <1>2 DEF SubmissionInv, ReadInv, Submission, ReadId, Drain, SubmissionPrints,
                  SubmissionExits, ReadChunk, OutputEnds, StartupTimeout, DrainEarly,
                  DrainChunk
    <3>3. process = "closed" /\ reading = "found" => UNCHANGED <<printed, read, early>>
      BY <1>2 DEF Submission, ReadId, Drain, SubmissionPrints, SubmissionExits, ReadChunk,
                  OutputEnds, StartupTimeout, DrainEarly, DrainChunk
    <3> QED
      BY <2>1, <3>1, <3>2, <3>3 DEF TogetherInv
  <2> QED
    BY <2>2, <2>3
<1>3. CASE Job \/ Poll \/ PollEnds \/ Stop
  <2>1. UNCHANGED <<vars, graceOver>>
    BY <1>3 DEF Job, Poll, PollEnds, Stop
  <2>2. SubmissionInv'
    BY <2>1, NextSubmission
  <2>3. JobInv'
    BY <1>3, JobKeepsInv, PollKeepsInv DEF Job, Poll, PollEnds, Stop
  <2>4. TogetherInv'
    <3>1. CASE Job
      BY <2>1, <3>1
      DEF Job, J!JobMoves, J!JobEnds, J!JobDropped, J!watching, TogetherInv, vars
    <3>2. CASE Poll
      BY <2>1, <3>2 DEF Poll, J!AskScheduler, TogetherInv, vars
    <3>3. CASE PollEnds
      <4>1. query # "none" /\ tunnel # "stopped"
        BY <3>3
        DEF PollEnds, J!FirstAnswers, J!FirstFails, J!SecondAnswers, J!QueryFails, JobInv,
            CourseOfQuery
      <4>2. reading = "found" /\ process # "closed"
        BY <4>1 DEF TogetherInv
      <4> QED
        BY <2>1, <4>2 DEF TogetherInv, vars
    <3>4. CASE Stop
      BY <2>1, <3>4 DEF Stop, J!GiveUp, TogetherInv, vars
    <3> QED
      BY <1>3, <3>1, <3>2, <3>3, <3>4
  <2> QED
    BY <2>2, <2>3, <2>4
<1>4. CASE StopJobOutput \/ GraceEnds \/ CloseDrained
  <2>1. /\ CloseSubmission /\ UNCHANGED jobAndPolls /\ tunnel = "stopped"
        /\ \/ ~ ended /\ graceOver' = graceOver
           \/ graceOver' = TRUE
           \/ early = 0 /\ read = printed /\ graceOver' = graceOver
    BY <1>4 DEF StopJobOutput, GraceEnds, CloseDrained
  <2>2. SubmissionInv' /\ JobInv'
    BY <1>1, <2>1, NextSubmission DEF Next
  <2>3. TogetherInv'
    BY <2>1 DEF TogetherInv, CloseSubmission
  <2> QED
    BY <2>2, <2>3
<1>5. CASE UNCHANGED all
  <2>1. SubmissionInv' /\ JobInv'
    BY <1>1, <1>5, NextSubmission DEF all
  <2> QED
    BY <1>5, <2>1 DEF all, TogetherInv, vars
<1> QED
  BY <1>2, <1>3, <1>4, <1>5 DEF NextJob

-----------------------------------------------------------------------------
LEMMA AllCorrect == SpecJob => []AllInv
BY InitAll, NextAll, PTL DEF SpecJob

\* Both parts keep their types, whatever the lengths of the output and the ID, and no job
\* is polled before its ID is known.
THEOREM JobTypeCorrect == SpecJob => []TypeOKJob
<1>1. AllInv => TypeOKJob
  BY DEF AllInv, SubmissionInv, JobInv, TogetherInv, TypeOKJob
<1> QED
  BY <1>1, AllCorrect, PTL

\* The job that is inspected and cancelled is the one submitted, however its output is
\* split, if the adapter's pattern also matches what follows the ID: LSF's does, PBS's
\* does not.
THEOREM JobIdCorrect == ASSUME Terminated PROVE SpecJob => []JobIdIsWhole
<1>1. AllInv => JobIdIsWhole
  BY DEF AllInv, SubmissionInv, IdInv
<1> QED
  BY <1>1, AllCorrect, PTL

\* A job that is taken for ended is over, one said to have succeeded has, and one that is
\* served has been running, whenever it changes while the scheduler is asked twice.
THEOREM AnswersCorrect == SpecJob => []AnswersAreTrue
<1>1. AllInv => AnswersAreTrue
  BY DEF AllInv, JobInv
<1> QED
  BY <1>1, AllCorrect, PTL

\* What a job printed last is passed on before its submission is closed, if the job has
\* ended and the grace period is not over: also what was read to find the ID.
THEOREM OutputCorrect == SpecJob => []OutputIsKept
<1>1. AllInv => OutputIsKept
  BY DEF AllInv, SubmissionInv, TypeOK, ReadInv, TogetherInv, OutputIsKept, OutputIsPassedOn
<1> QED
  BY <1>1, AllCorrect, PTL
=============================================================================
