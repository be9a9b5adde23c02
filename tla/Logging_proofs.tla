---------------------------- MODULE Logging_proofs ----------------------------
(***************************************************************************)
(* Logging: what the terminal and the log files hold (LogRecords), for any *)
(* capacity and any numbers of records and files, and which log files of   *)
(* other runs are removed (LogRetention), for any runs that log to one     *)
(* directory and any number of files to keep.                              *)
(***************************************************************************)
EXTENDS LogRecords, LogRetention, FiniteSetTheorems, FunctionTheorems, SequenceTheorems, TLAPS

-----------------------------------------------------------------------------
(***************************************************************************)
(* Sequences and counting.                                                 *)
(***************************************************************************)

\* `t` is `s` with `e` at its end, and without its first element if c = 1.
Slid(t, s, e, c) ==
  /\ Len(t) = Len(s) + 1 - c
  /\ \A p \in 1 .. Len(t) : t[p] = IF p + c <= Len(s) THEN s[p + c] ELSE e

\* A deque of `maxlen` n that has room or is full: the oldest goes when one comes.
LEMMA LatestOfAppend ==
  ASSUME NEW S, NEW s \in Seq(S), NEW e \in S, NEW n \in Nat \ {0}, Len(s) <= n,
         NEW t, t = Latest(Append(s, e), n),
         NEW c, c = IF Len(s) = n THEN 1 ELSE 0
  PROVE  t \in Seq(S) /\ Len(t) <= n /\ Slid(t, s, e, c)
<1> DEFINE u == Append(s, e)
<1>1. u \in Seq(S) /\ Len(u) = Len(s) + 1 /\ Len(s) \in Nat
  OBVIOUS
<1>2. \A i \in 1 .. Len(u) : u[i] = IF i <= Len(s) THEN s[i] ELSE e
  OBVIOUS
<1>3. t = SubSeq(u, c + 1, Len(u))
  <2>1. (IF Len(u) > n THEN Len(u) - n + 1 ELSE 1) = c + 1
    BY <1>1
  <2> QED
    BY <2>1 DEF Latest
<1> HIDE DEF u
<1>4. t \in Seq(S) /\ Len(t) = Len(u) - c /\ \A p \in 1 .. Len(t) : t[p] = u[p + c]
  <2>1. PICK m \in Int : m = c + 1 /\ m \in 1 .. Len(u)
    BY <1>1
  <2>2. Len(u) \in Int /\ m <= Len(u) /\ \A i \in m .. Len(u) : u[i] \in S
    BY <1>1, <2>1
  <2>3. t = SubSeq(u, m, Len(u))
    BY <1>3, <2>1
  <2>4. /\ t \in Seq(S) /\ Len(t) = Len(u) - m + 1
        /\ \A p \in 1 .. Len(u) - m + 1 : t[p] = u[m + p - 1]
    BY ONLY <2>2, <2>3, m \in Int, SubSeqProperties
  <2>5. Len(u) - m + 1 = Len(u) - c
    BY <1>1, <2>1
  <2>6. ASSUME NEW p \in 1 .. Len(t) PROVE t[p] = u[p + c]
    <3>1. m + p - 1 = p + c
      BY <2>1
    <3> QED
      BY <2>4, <3>1
  <2> QED
    BY <2>4, <2>5, <2>6
<1> QED
  <2>1. c \in {0, 1} /\ (c = 1 <=> Len(s) = n)
    OBVIOUS
  <2>2. \A p \in 1 .. Len(t) : t[p] = IF p + c <= Len(s) THEN s[p + c] ELSE e
    BY <1>1, <1>2, <1>4, <2>1
  <2>3. Len(t) = Len(s) + 1 - c /\ Len(t) <= n
    BY <1>1, <1>4
  <2> QED
    BY <1>4, <2>1, <2>2, <2>3 DEF Slid

\* The records of class "kept" after `a`, when one more is counted.
LEMMA CountNext ==
  ASSUME NEW a \in Nat, NEW d \in Nat, a <= d
  PROVE  /\ Cardinality(KeptBetween(a, d + 1)) \in Nat
         /\ Cardinality(KeptBetween(a, d + 2)) =
              Cardinality(KeptBetween(a, d + 1)) + IF ClassOf(d + 1) = "kept" THEN 1 ELSE 0
<1> DEFINE S == KeptBetween(a, d + 1)
<1>1. IsFiniteSet(S)
  <2>1. IsFiniteSet(a + 1 .. d)
    BY FS_Interval
  <2>2. S \subseteq a + 1 .. d
    BY DEF KeptBetween
  <2> QED
    BY <2>1, <2>2, FS_Subset
<1>2. d + 1 \notin S
  BY DEF KeptBetween
<1>3. KeptBetween(a, d + 2) = IF ClassOf(d + 1) = "kept" THEN S \cup {d + 1} ELSE S
  BY DEF KeptBetween
<1> HIDE DEF S
<1>4. Cardinality(S) \in Nat
  BY <1>1, FS_CardinalityType
<1>5. Cardinality(S \cup {d + 1}) = Cardinality(S) + 1
  BY <1>1, <1>2, FS_AddElement
<1> QED
  BY <1>3, <1>4, <1>5 DEF S

LEMMA CountNone == ASSUME NEW a \in Nat PROVE Cardinality(KeptBetween(a, a + 1)) = 0
<1>1. KeptBetween(a, a + 1) = {}
  BY DEF KeptBetween
<1> QED
  BY <1>1, FS_EmptySet

-----------------------------------------------------------------------------
(***************************************************************************)
(* The inductive invariant.                                                *)
(***************************************************************************)

Shown(i) == ClassOf(i) \in {"info", "error"}
NoErrorAfter(a) == \A c \in a + 1 .. done : ClassOf(c) # "error"

\* What is kept: in order, and the latest since the last error.
KeptInv ==
  /\ \A p \in 1 .. Len(kept) :
       /\ ClassOf(kept[p]) = "kept" /\ NoErrorAfter(kept[p])
       /\ Cardinality(KeptBetween(kept[p], done + 1)) = Len(kept) - p
  /\ \A p, q \in 1 .. Len(kept) : p < q => kept[p] < kept[q]
  /\ \A a \in 1 .. done :
       /\ ClassOf(a) = "kept" /\ NoErrorAfter(a)
       /\ \A d \in forgotten : d < a
       /\ \A p \in 1 .. Len(kept) : kept[p] # a
       => Cardinality(KeptBetween(a, done + 1)) >= Capacity

\* What is on the terminal: each record once, those that are never kept back in order,
\* and one that was only after an error.
ShownInv ==
  /\ \A x, y \in 1 .. Len(terminal) : terminal[x] = terminal[y] => x = y
  /\ \A x, y \in 1 .. Len(terminal) :
       Shown(terminal[x]) /\ Shown(terminal[y]) /\ x < y => terminal[x] < terminal[y]
  /\ \A i \in 1 .. done : Shown(i) => \E x \in 1 .. Len(terminal) : terminal[x] = i
  /\ \A x \in 1 .. Len(terminal) :
       ClassOf(terminal[x]) = "kept" => ~ NoErrorAfter(terminal[x])

TerminalInv == KeptInv /\ ShownInv /\ ErrorsShowContext

\* Files beyond the last are untouched, and so is one that is about to be switched to.
FreshInv ==
  /\ \A f \in Log : f > files \/ (main = "switching" /\ f = files) => stream[f] = "none"
  /\ current <= files /\ previous <= files
  /\ main = "switching" => files # 0 /\ current # files
  /\ \A i \in 1 .. Len(records) :
       records[i].to <= files /\ (main = "switching" => records[i].to # files)

\* Only the file in use is renamed, and a file that was replaced gets no more records
\* than those that the output thread has dealt with, or waits for.
StreamInv ==
  /\ \A f \in Log : stream[f] = "none" => contents[f] = <<>>
  /\ \A f \in Log : stream[f] = "renaming" => main = "renaming" /\ current = f
  /\ main = "renaming" => current # 0 /\ stream[current] = "renaming"
  /\ main = "closing" =>
       /\ previous # 0 /\ current # previous
       /\ \A i \in mark + 1 .. Len(records) : records[i].to # previous
  /\ \A f \in Log : stream[f] = "closed" =>
       current # f /\ \A i \in done + 1 .. Len(records) : records[i].to # f

FilesInv == FreshInv /\ StreamInv /\ FilesAreRight

IInv == TypeOK /\ TerminalInv /\ FilesInv

LEMMA InitCorrect == Init => IInv
<1> SUFFICES ASSUME Init PROVE IInv
  OBVIOUS
<1> USE LogAssumption DEF Init
<1>1. TypeOK
  BY DEF TypeOK, Log
<1>2. TerminalInv
  BY DEF TerminalInv, KeptInv, ShownInv, ErrorsShowContext
<1>3. FreshInv /\ StreamInv /\ ReplacedStaysClosed
  BY DEF FreshInv, StreamInv, ReplacedStaysClosed, Log
<1>4. FileIsComplete
  BY DEF FileIsComplete, Range
<1> QED
  BY <1>1, <1>2, <1>3, <1>4 DEF IInv, FilesInv, FilesAreRight

-----------------------------------------------------------------------------
(***************************************************************************)
(* The terminal.                                                           *)
(***************************************************************************)

\* The output thread deals with the next record, and others may come meanwhile.
Next1 ==
  /\ done < Len(records) /\ done' = done + 1 /\ forgotten' = forgotten
  /\ \A i \in 1 .. done + 1 : ClassOf(i)' = ClassOf(i)

\* What a record says of the records before it.
LEMMA ClassesStay ==
  ASSUME TypeOK, Next1, NEW n, n = done + 1
  PROVE  /\ done \in Nat /\ ClassOf(n) \in Class
         /\ \A a \in 1 .. done :
              /\ ClassOf(a)' = ClassOf(a) /\ ClassOf(a) \in Class
              /\ NoErrorAfter(a)' <=> NoErrorAfter(a) /\ ClassOf(n) # "error"
              /\ \A b \in 1 .. done + 1 : KeptBetween(a, b)' = KeptBetween(a, b)
         /\ \A a \in 1 .. done + 1 :
              /\ Cardinality(KeptBetween(a, done + 1)') = Cardinality(KeptBetween(a, done + 2))
         /\ NoErrorAfter(n)'
<1>1. done \in Nat /\ done + 1 \in 1 .. Len(records)
  BY DEF TypeOK, Next1
<1>2. \A a \in 1 .. done + 1 : ClassOf(a) \in Class
  <2>1. records \in Seq([class : Class, to : 0 .. MaxFiles])
    BY DEF TypeOK
  <2>2. \A a \in 1 .. Len(records) : records[a] \in [class : Class, to : 0 .. MaxFiles]
    BY <2>1, ElementOfSeq
  <2>3. \A a \in 1 .. done + 1 : a \in 1 .. Len(records)
    BY <1>1, <2>1
  <2> QED
    BY <2>2, <2>3 DEF ClassOf
<1>3. \A a \in 1 .. done + 1 : ClassOf(a)' = ClassOf(a)
  BY <1>1 DEF Next1
<1>4. \A a \in 1 .. done : NoErrorAfter(a)' <=> NoErrorAfter(a) /\ ClassOf(n) # "error"
  BY <1>1, <1>3 DEF Next1, NoErrorAfter
<1>5. \A a \in 1 .. done + 1, b \in 1 .. done + 2 : KeptBetween(a, b)' = KeptBetween(a, b)
  BY <1>1, <1>3 DEF KeptBetween
<1>6. NoErrorAfter(n)'
  BY <1>1 DEF Next1, NoErrorAfter
<1>7. \A a \in 1 .. done + 1 : KeptBetween(a, done + 1)' = KeptBetween(a, done + 2)
  <2>1. (done + 1)' = done + 2 /\ done + 2 \in 1 .. done + 2
    BY <1>1 DEF Next1
  <2>2. \A a \in 1 .. done + 1 :
          KeptBetween(a, done + 1)' = {c \in a + 1 .. (done + 2) - 1 : ClassOf(c)' = "kept"}
    BY <2>1 DEF KeptBetween
  <2> QED
    BY <1>1, <1>3, <2>2 DEF KeptBetween
<1> QED
  BY <1>1, <1>2, <1>3, <1>4, <1>5, <1>6, <1>7

\* What it does to the records kept and to the terminal, by class.
Effect(n) ==
  \/ ClassOf(n) = "low" /\ kept' = kept /\ terminal' = terminal
  \/ ClassOf(n) = "kept" /\ kept' = Latest(Append(kept, n), Capacity) /\ terminal' = terminal
  \/ ClassOf(n) = "info" /\ kept' = kept /\ terminal' = Append(terminal, n)
  \/ ClassOf(n) = "error" /\ kept' = <<>> /\ terminal' = Append(terminal \o kept, n)

LEMMA EffectOfReplay ==
  ASSUME NEW n, Replay(n, ClassOf(n)) PROVE Effect(n)
BY DEF Effect, Replay, Keep, ShowError

LEMMA KeptTyped ==
  ASSUME TypeOK
  PROVE  /\ done \in Nat /\ Len(kept) \in Nat /\ Len(kept) <= Capacity
         /\ kept \in Seq(1 .. done) /\ \A p \in 1 .. Len(kept) : kept[p] \in 1 .. done
<1>1. kept \in Seq(1 .. done) /\ Len(kept) <= Capacity /\ done \in Nat
  BY DEF TypeOK
<1> QED
  BY <1>1, ElementOfSeq

\* One more record that is kept: it is the last, and the first goes if there is no room.
LEMMA KeepOne ==
  ASSUME TypeOK, KeptInv, Next1, NEW n, n = done + 1, Effect(n), ClassOf(n) = "kept"
  PROVE  KeptInv' /\ kept' \in Seq(1 .. n) /\ Len(kept') <= Capacity
<1> DEFINE R(c) == Cardinality(KeptBetween(c, done + 1))
<1>1. done \in Nat /\ Len(kept) \in Nat /\ Len(kept) <= Capacity
      /\ kept \in Seq(1 .. n) /\ \A p \in 1 .. Len(kept) : kept[p] \in 1 .. done
  <2>1. Seq(1 .. done) \subseteq Seq(1 .. n)
    BY KeptTyped, SeqMonotonic
  <2> QED
    BY <2>1, KeptTyped
<1>2. kept' = Latest(Append(kept, n), Capacity)
  BY DEF Effect
<1>a. PICK cut \in {0, 1} : cut = IF Len(kept) = Capacity THEN 1 ELSE 0
  OBVIOUS
<1>3. /\ cut \in {0, 1} /\ (cut = 1 => Len(kept) = Capacity)
      /\ kept' \in Seq(1 .. n) /\ Len(kept') = Len(kept) + 1 - cut /\ Len(kept') <= Capacity
      /\ \A p \in 1 .. Len(kept') : p + cut <= Len(kept) => kept'[p] = kept[p + cut]
      /\ \A p \in 1 .. Len(kept') : ~ (p + cut <= Len(kept)) => kept'[p] = n
  <2>1. n \in 1 .. n /\ Capacity \in Nat \ {0}
    BY <1>1, LogAssumption
  <2>2. PICK S : S = 1 .. n
    OBVIOUS
  <2>3. kept \in Seq(S) /\ n \in S /\ Len(kept) <= Capacity
    BY <1>1, <2>1, <2>2
  <2>4. kept' \in Seq(S) /\ Len(kept') <= Capacity /\ Slid(kept', kept, n, cut)
    BY <1>2, <1>a, <2>1, <2>3, LatestOfAppend
  <2>5. /\ Len(kept') = Len(kept) + 1 - cut
        /\ \A p \in 1 .. Len(kept') : p + cut <= Len(kept) => kept'[p] = kept[p + cut]
        /\ \A p \in 1 .. Len(kept') : ~ (p + cut <= Len(kept)) => kept'[p] = n
    BY <2>4 DEF Slid
  <2> QED
    BY <1>a, <2>2, <2>4, <2>5
<1>4. /\ \A a \in 1 .. done :
           /\ ClassOf(a)' = ClassOf(a) /\ (NoErrorAfter(a)' <=> NoErrorAfter(a))
           /\ R(a) \in Nat /\ R(a)' = R(a) + 1
      /\ ClassOf(n)' = "kept" /\ NoErrorAfter(n)' /\ R(n)' = 0
  <2>1. \A a \in 1 .. done : R(a) \in Nat /\ Cardinality(KeptBetween(a, done + 2)) = R(a) + 1
    BY <1>1, CountNext
  <2>2. Cardinality(KeptBetween(n, done + 2)) = 0
    <3>1. n \in Nat /\ n + 1 = done + 2
      BY <1>1
    <3> QED
      BY <3>1, CountNone
  <2>3. \A a \in 1 .. n : R(a)' = Cardinality(KeptBetween(a, done + 2))
    BY ClassesStay
  <2>4. n \in 1 .. n /\ ClassOf(n)' = ClassOf(n)
    BY <1>1 DEF Next1
  <2>5. \A a \in 1 .. done : a \in 1 .. n
    BY <1>1
  <2>6. NoErrorAfter(n)' /\ ClassOf(n) = "kept"
        /\ \A a \in 1 .. done :
             ClassOf(a)' = ClassOf(a) /\ (NoErrorAfter(a)' <=> NoErrorAfter(a))
    BY ClassesStay
  <2> HIDE DEF R
  <2> QED
    BY <2>1, <2>2, <2>3, <2>4, <2>5, <2>6
<1>5. \A p \in 1 .. Len(kept) :
        /\ ClassOf(kept[p]) = "kept" /\ NoErrorAfter(kept[p]) /\ R(kept[p]) = Len(kept) - p
  BY DEF KeptInv
<1>6. done' = n /\ forgotten' = forgotten
  BY DEF Next1
<1> HIDE DEF R
<1>7. ASSUME NEW p \in 1 .. Len(kept'), NEW a, a = kept'[p]
      PROVE  ClassOf(a)' = "kept" /\ NoErrorAfter(a)' /\ R(a)' = Len(kept') - p
  <2>1. CASE p + cut <= Len(kept)
    <3>1. a = kept[p + cut] /\ p + cut \in 1 .. Len(kept) /\ a \in 1 .. done
      <4>1. kept'[p] = kept[p + cut] /\ p + cut \in 1 .. Len(kept)
        BY <1>1, <1>3, <2>1
      <4> QED
        BY <1>1, <1>7, <4>1
    <3>2. ClassOf(a) = "kept" /\ NoErrorAfter(a) /\ R(a) = Len(kept) - (p + cut)
      BY <1>5, <3>1
    <3>3. Len(kept) - (p + cut) + 1 = Len(kept') - p
      BY <1>1, <1>3
    <3> QED
      BY <1>4, <3>1, <3>2, <3>3
  <2>2. CASE ~ (p + cut <= Len(kept))
    <3>1. a = n /\ Len(kept') - p = 0
      BY <1>1, <1>3, <1>7, <2>2
    <3> QED
      BY <1>4, <3>1
  <2> QED
    BY <2>1, <2>2
<1>8. \A p, q \in 1 .. Len(kept') : p < q => kept'[p] < kept'[q]
  <2>1. \A p, q \in 1 .. Len(kept) : p < q => kept[p] < kept[q]
    BY DEF KeptInv
  <2> TAKE p, q \in 1 .. Len(kept')
  <2> HAVE p < q
  <2>2. kept'[p] = kept[p + cut] /\ p + cut \in 1 .. Len(kept)
    BY <1>1, <1>3
  <2>3. CASE q + cut <= Len(kept)
    BY <1>1, <1>3, <2>1, <2>2, <2>3
  <2>4. CASE ~ (q + cut <= Len(kept))
    BY <1>1, <1>3, <2>2, <2>4
  <2> QED
    BY <2>3, <2>4
<1>9. ASSUME NEW a \in 1 .. n, ClassOf(a)' = "kept", NoErrorAfter(a)',
             \A d \in forgotten : d < a, \A p \in 1 .. Len(kept') : kept'[p] # a
      PROVE  R(a)' >= Capacity
  <2>1. a # n
    <3>1. Len(kept') \in 1 .. Len(kept') /\ ~ (Len(kept') + cut <= Len(kept))
      BY <1>1, <1>3, LogAssumption
    <3> QED
      BY <1>3, <1>9, <3>1
  <2>2. a \in 1 .. done /\ ClassOf(a) = "kept" /\ NoErrorAfter(a)
    BY <1>1, <1>4, <1>9, <2>1
  <2>3. CASE \E p \in 1 .. Len(kept) : kept[p] = a
    <3>1. PICK p \in 1 .. Len(kept) : kept[p] = a
      BY <2>3
    <3>2. p = 1 /\ cut = 1
      <4>1. CASE p - cut \in 1 .. Len(kept')
        <5>1. kept'[p - cut] = kept[p]
          <6>1. (p - cut) + cut = p /\ p <= Len(kept)
            BY <1>1, <1>3, <3>1
          <6> QED
            BY <1>3, <4>1, <6>1
        <5> QED
          BY <1>9, <3>1, <4>1, <5>1
      <4>2. CASE p - cut \notin 1 .. Len(kept')
        BY <1>1, <1>3, <4>2
      <4> QED
        BY <4>1, <4>2
    <3>3. R(a) = Len(kept) - 1 /\ Len(kept) = Capacity
      BY <1>3, <1>5, <3>1, <3>2
    <3> QED
      BY <1>1, <1>4, <2>2, <3>3
  <2>4. CASE \A p \in 1 .. Len(kept) : kept[p] # a
    <3>1. R(a) >= Capacity
      BY <1>9, <2>2, <2>4 DEF KeptInv, R
    <3> QED
      BY <1>4, <2>2, <3>1, LogAssumption
  <2> QED
    BY <2>3, <2>4
<1>10. \A p \in 1 .. Len(kept') :
         (/\ ClassOf(kept[p]) = "kept" /\ NoErrorAfter(kept[p])
          /\ Cardinality(KeptBetween(kept[p], done + 1)) = Len(kept) - p)'
  BY <1>7 DEF R
<1>11. (\A a \in 1 .. done :
          /\ ClassOf(a) = "kept" /\ NoErrorAfter(a)
          /\ \A d \in forgotten : d < a
          /\ \A p \in 1 .. Len(kept) : kept[p] # a
          => Cardinality(KeptBetween(a, done + 1)) >= Capacity)'
  BY <1>6, <1>9 DEF R
<1> QED
  BY <1>3, <1>8, <1>10, <1>11 DEF KeptInv

\* One that is not: an error empties what is kept, and leaves nothing to be kept.
LEMMA KeepNone ==
  ASSUME TypeOK, KeptInv, Next1, NEW n, n = done + 1, Effect(n), ClassOf(n) # "kept"
  PROVE  KeptInv' /\ kept' \in Seq(1 .. n) /\ Len(kept') <= Capacity
<1>1. done \in Nat /\ done' = n /\ n \in 1 .. n /\ forgotten' = forgotten
  BY DEF TypeOK, Next1
<1>2. ClassOf(n)' # "kept" /\ ClassOf(n)' = ClassOf(n)
  BY <1>1 DEF Next1
<1>3. CASE ClassOf(n) = "error"
  <2>1. kept' = <<>>
    BY <1>3 DEF Effect
  <2>2. \A a \in 1 .. done : ~ NoErrorAfter(a)'
    BY <1>3, ClassesStay
  <2>3. \A a \in 1 .. n : ~ (ClassOf(a)' = "kept" /\ NoErrorAfter(a)')
    BY <1>1, <1>2, <2>2
  <2> QED
    BY <1>1, <2>1, <2>3, LogAssumption DEF KeptInv
<1>4. CASE ClassOf(n) # "error"
  <2>1. kept' = kept
    BY <1>4 DEF Effect
  <2>2. kept \in Seq(1 .. n) /\ \A p \in 1 .. Len(kept) : kept[p] \in 1 .. done
    <3>1. Seq(1 .. done) \subseteq Seq(1 .. n)
      BY <1>1, SeqMonotonic
    <3> QED
      BY <3>1, KeptTyped
  <2>3. \A a \in 1 .. done :
          /\ ClassOf(a)' = ClassOf(a) /\ (NoErrorAfter(a)' <=> NoErrorAfter(a))
          /\ Cardinality(KeptBetween(a, done + 1))' = Cardinality(KeptBetween(a, done + 1))
    <3>1. \A a \in 1 .. done : a \in 1 .. done + 1 /\ a \in Nat /\ a <= done
      BY <1>1
    <3>2. ClassOf(done + 1) # "kept"
      OBVIOUS
    <3>3. \A a \in 1 .. done :
            /\ Cardinality(KeptBetween(a, done + 1)) \in Nat
            /\ Cardinality(KeptBetween(a, done + 2)) = Cardinality(KeptBetween(a, done + 1)) + 0
      BY <1>1, <3>1, <3>2, CountNext
    <3>4. \A a \in 1 .. done :
            Cardinality(KeptBetween(a, done + 1))' = Cardinality(KeptBetween(a, done + 2))
      BY <3>1, ClassesStay
    <3>5. \A a \in 1 .. done :
            ClassOf(a)' = ClassOf(a) /\ (NoErrorAfter(a)' <=> NoErrorAfter(a))
      BY <1>4, ClassesStay
    <3> QED
      BY <3>3, <3>4, <3>5
  <2>4. \A p \in 1 .. Len(kept) :
          (/\ ClassOf(kept[p]) = "kept" /\ NoErrorAfter(kept[p])
           /\ Cardinality(KeptBetween(kept[p], done + 1)) = Len(kept) - p)'
    <3> SUFFICES ASSUME NEW p \in 1 .. Len(kept), NEW a, a = kept[p]
                 PROVE  /\ ClassOf(a)' = "kept" /\ NoErrorAfter(a)'
                        /\ Cardinality(KeptBetween(a, done + 1))' = Len(kept) - p
      BY <2>1
    <3> QED
      BY <2>2, <2>3 DEF KeptInv
  <2>5. \A a \in 1 .. n :
          /\ ClassOf(a)' = "kept" /\ NoErrorAfter(a)' /\ \A d \in forgotten : d < a
          /\ \A p \in 1 .. Len(kept) : kept[p] # a
          => Cardinality(KeptBetween(a, done + 1))' >= Capacity
    <3>1. \A a \in 1 .. n : a = n \/ a \in 1 .. done
      BY <1>1
    <3> QED
      BY <1>2, <2>3, <3>1 DEF KeptInv
  <2>6. \A p, q \in 1 .. Len(kept) : p < q => kept[p] < kept[q]
    BY DEF KeptInv
  <2> QED
    BY <1>1, <2>1, <2>2, <2>4, <2>5, <2>6, KeptTyped DEF KeptInv
<1> QED
  BY <1>3, <1>4

\* What the terminal holds once a record is shown, which `k` comes before.
LEMMA ShowAfter ==
  ASSUME NEW S, NEW s \in Seq(S), NEW k \in Seq(S), NEW e \in S, NEW t, t = Append(s \o k, e)
  PROVE  /\ t \in Seq(S) /\ Len(t) = Len(s) + Len(k) + 1 /\ Len(s) \in Nat /\ Len(k) \in Nat
         /\ \A x \in 1 .. Len(s) : t[x] = s[x]
         /\ \A x \in 1 .. Len(k) : t[Len(s) + x] = k[x]
         /\ t[Len(t)] = e
<1>1. s \o k \in Seq(S) /\ Len(s \o k) = Len(s) + Len(k) /\ Len(s) \in Nat /\ Len(k) \in Nat
  OBVIOUS
<1>2. \A x \in 1 .. Len(s) : (s \o k)[x] = s[x]
  OBVIOUS
<1>3. \A x \in 1 .. Len(k) : (s \o k)[Len(s) + x] = k[x]
  OBVIOUS
<1> DEFINE u == s \o k
<1>4. \A x \in 1 .. Len(u) : Append(u, e)[x] = u[x]
  <2>1. u \in Seq(S)
    BY <1>1
  <2> HIDE DEF u
  <2> QED
    BY <2>1
<1>5. Append(u, e) \in Seq(S) /\ Len(Append(u, e)) = Len(u) + 1 /\ Append(u, e)[Len(u) + 1] = e
  <2>1. u \in Seq(S)
    BY <1>1
  <2> HIDE DEF u
  <2> QED
    BY <2>1
<1>6. t = Append(u, e)
  OBVIOUS
<1> HIDE DEF u
<1>7. u = s \o k
  BY DEF u
<1>8. \A x \in 1 .. Len(s) : x \in 1 .. Len(u)
  BY <1>1, <1>7
<1>9. \A x \in 1 .. Len(k) : Len(s) + x \in 1 .. Len(u)
  BY <1>1, <1>7
<1> QED
  BY <1>1, <1>2, <1>3, <1>4, <1>5, <1>6, <1>7, <1>8, <1>9

LEMMA TerminalTyped ==
  ASSUME TypeOK
  PROVE  /\ done \in Nat /\ Len(terminal) \in Nat /\ terminal \in Seq(1 .. done)
         /\ \A x \in 1 .. Len(terminal) : terminal[x] \in 1 .. done
<1>1. terminal \in Seq(1 .. done) /\ done \in Nat
  BY DEF TypeOK
<1> QED
  BY <1>1, ElementOfSeq

\* Where a record that is now on the terminal comes from.
LEMMA NewTerminal ==
  ASSUME TypeOK, KeptInv, ShownInv, Next1, NEW n, n = done + 1, Effect(n), Shown(n)
  PROVE  \E k \in Seq(1 .. n) :
           /\ terminal' \in Seq(1 .. n)
           /\ Len(terminal') = Len(terminal) + Len(k) + 1
           /\ \A x \in 1 .. Len(terminal) : terminal'[x] = terminal[x]
           /\ \A x \in 1 .. Len(k) : terminal'[Len(terminal) + x] = k[x]
           /\ terminal'[Len(terminal')] = n
           /\ \/ ClassOf(n) = "info" /\ k = <<>>
              \/ ClassOf(n) = "error" /\ k = kept
<1>1. done \in Nat /\ n \in 1 .. n /\ Seq(1 .. done) \subseteq Seq(1 .. n)
  BY TerminalTyped, SeqMonotonic
<1>2. terminal \in Seq(1 .. n) /\ kept \in Seq(1 .. n)
  BY <1>1, TerminalTyped, KeptTyped
<1>3. \E k \in Seq(1 .. n) :
        /\ terminal' = Append(terminal \o k, n)
        /\ \/ ClassOf(n) = "info" /\ k = <<>>
           \/ ClassOf(n) = "error" /\ k = kept
  <2>1. CASE ClassOf(n) = "info"
    <3>1. terminal' = Append(terminal, n) /\ <<>> \in Seq(1 .. n)
      BY <2>1 DEF Effect
    <3>2. terminal \o <<>> = terminal
      BY <1>2, ConcatEmptySeq
    <3> QED
      BY <2>1, <3>1, <3>2
  <2>2. CASE ClassOf(n) = "error"
    BY <1>2, <2>2 DEF Effect
  <2> QED
    BY <2>1, <2>2 DEF Shown
<1>4. PICK k \in Seq(1 .. n) :
        /\ terminal' = Append(terminal \o k, n)
        /\ \/ ClassOf(n) = "info" /\ k = <<>>
           \/ ClassOf(n) = "error" /\ k = kept
  BY <1>3
<1>5. /\ terminal' \in Seq(1 .. n)
      /\ Len(terminal') = Len(terminal) + Len(k) + 1
      /\ \A x \in 1 .. Len(terminal) : terminal'[x] = terminal[x]
      /\ \A x \in 1 .. Len(k) : terminal'[Len(terminal) + x] = k[x]
      /\ terminal'[Len(terminal')] = n
  <2>1. PICK S : S = 1 .. n
    OBVIOUS
  <2>2. terminal \in Seq(S) /\ k \in Seq(S) /\ n \in S
    BY <1>1, <1>2, <2>1
  <2>3. terminal' = Append(terminal \o k, n)
    BY <1>4
  <2> QED
    BY <2>1, <2>2, <2>3, ShowAfter
<1> QED
  BY <1>4, <1>5

\* A record that is shown: the records that come before it are not on the terminal yet.
LEMMA ShowOne ==
  ASSUME TypeOK, KeptInv, ShownInv, Next1, NEW n, n = done + 1, Effect(n), Shown(n)
  PROVE  ShownInv' /\ terminal' \in Seq(1 .. n)
<1>1. PICK k \in Seq(1 .. n) :
        /\ terminal' \in Seq(1 .. n)
        /\ Len(terminal') = Len(terminal) + Len(k) + 1
        /\ \A x \in 1 .. Len(terminal) : terminal'[x] = terminal[x]
        /\ \A x \in 1 .. Len(k) : terminal'[Len(terminal) + x] = k[x]
        /\ terminal'[Len(terminal')] = n
        /\ \/ ClassOf(n) = "info" /\ k = <<>>
           \/ ClassOf(n) = "error" /\ k = kept
  BY NewTerminal
<1> DEFINE T == Len(terminal)
           K == Len(k)
<1>2. T \in Nat /\ K \in Nat /\ done \in Nat /\ n \in 1 .. n /\ done' = n
  BY TerminalTyped DEF Next1
<1>3. \A x \in 1 .. T : terminal[x] \in 1 .. done /\ terminal'[x] = terminal[x]
  BY <1>1, TerminalTyped
<1>4. \A x \in 1 .. K :
        /\ terminal'[T + x] = k[x] /\ k[x] \in 1 .. done
        /\ ClassOf(k[x]) = "kept" /\ NoErrorAfter(k[x]) /\ ClassOf(n) = "error"
        /\ \A y \in 1 .. K : k[x] = k[y] => x = y
  <2>1. CASE k = <<>>
    BY <2>1
  <2>2. CASE k = kept /\ ClassOf(n) = "error"
    <3>1. \A x \in 1 .. Len(kept) :
            kept[x] \in 1 .. done /\ ClassOf(kept[x]) = "kept" /\ NoErrorAfter(kept[x])
      BY KeptTyped DEF KeptInv
    <3>2. \A x, y \in 1 .. Len(kept) : kept[x] = kept[y] => x = y
      BY KeptTyped DEF KeptInv
    <3> QED
      BY <1>1, <2>2, <3>1, <3>2
  <2> QED
    BY <1>1, <2>1, <2>2
<1>5. Len(terminal') = T + K + 1 /\ terminal'[T + K + 1] = n
  BY <1>1
<1>6. \A x \in 1 .. Len(terminal') : x \in 1 .. T \/ (\E z \in 1 .. K : x = T + z) \/ x = T + K + 1
  <2> SUFFICES ASSUME NEW x \in 1 .. Len(terminal'), x \notin 1 .. T, x # T + K + 1
               PROVE  \E z \in 1 .. K : x = T + z
    OBVIOUS
  <2>1. x - T \in 1 .. K /\ x = T + (x - T)
    BY <1>2, <1>5
  <2> QED
    BY <2>1
<1>7. /\ \A a \in 1 .. n : ClassOf(a)' = ClassOf(a)
      /\ \A a \in 1 .. done : NoErrorAfter(a)' <=> NoErrorAfter(a) /\ ClassOf(n) # "error"
  BY ClassesStay, <1>2 DEF Next1
<1>8. \A a \in 1 .. done : a # n /\ a < n /\ a \in 1 .. n
  BY <1>2
<1>9. \A x \in 1 .. T, z \in 1 .. K : terminal[x] # k[z]
  BY <1>4, <1>3 DEF ShownInv
<1> HIDE DEF T, K
<1>10. ASSUME NEW x \in 1 .. Len(terminal'), NEW y \in 1 .. Len(terminal'), terminal'[x] = terminal'[y]
       PROVE  x = y
  <2>1. CASE x \in 1 .. T /\ y \in 1 .. T
    BY <1>3, <1>10, <2>1 DEF ShownInv, T
  <2>2. CASE (\E z \in 1 .. K : x = T + z) /\ (\E z \in 1 .. K : y = T + z)
    BY <1>4, <1>10, <2>2
  <2>3. CASE x = T + K + 1
    <3>1. terminal'[y] = n
      BY <1>5, <1>10, <2>3
    <3>2. y \notin 1 .. T /\ ~ \E z \in 1 .. K : y = T + z
      BY <1>3, <1>4, <1>8, <3>1
    <3> QED
      BY <1>6, <2>3, <3>2
  <2>4. CASE y = T + K + 1
    <3>1. terminal'[x] = n
      BY <1>5, <1>10, <2>4
    <3>2. x \notin 1 .. T /\ ~ \E z \in 1 .. K : x = T + z
      BY <1>3, <1>4, <1>8, <3>1
    <3> QED
      BY <1>6, <2>4, <3>2
  <2>5. CASE x \in 1 .. T /\ (\E z \in 1 .. K : y = T + z)
    BY <1>3, <1>4, <1>9, <1>10, <2>5
  <2>6. CASE y \in 1 .. T /\ (\E z \in 1 .. K : x = T + z)
    BY <1>3, <1>4, <1>9, <1>10, <2>6
  <2> QED
    BY <1>6, <2>1, <2>2, <2>3, <2>4, <2>5, <2>6
<1>11. ASSUME NEW x \in 1 .. Len(terminal'), NEW y \in 1 .. Len(terminal'), x < y,
              NEW a, a = terminal'[x], NEW b, b = terminal'[y], Shown(a)', Shown(b)'
       PROVE  a < b
  <2>1. ASSUME NEW v \in 1 .. Len(terminal'), NEW c, c = terminal'[v], Shown(c)'
        PROVE  (v \in 1 .. T /\ c = terminal[v] /\ c \in 1 .. done /\ Shown(c))
               \/ (v = T + K + 1 /\ c = n)
    <3>1. CASE v \in 1 .. T
      BY <1>3, <1>7, <1>8, <2>1, <3>1 DEF Shown
    <3>2. ~ \E z \in 1 .. K : v = T + z
      <4> SUFFICES ASSUME NEW z \in 1 .. K, v = T + z PROVE FALSE
        OBVIOUS
      <4>1. c \in 1 .. done /\ ClassOf(c) = "kept"
        BY <1>4, <2>1
      <4> QED
        BY <1>7, <1>8, <2>1, <4>1 DEF Shown
    <3> QED
      BY <1>5, <1>6, <2>1, <3>1, <3>2
  <2>2. x \in 1 .. T /\ a = terminal[x] /\ a \in 1 .. done /\ Shown(a)
    <3>1. x # T + K + 1
      BY <1>2, <1>5, <1>11
    <3> QED
      BY <1>11, <2>1, <3>1
  <2>3. CASE y \in 1 .. T /\ b = terminal[y] /\ Shown(b)
    BY <1>11, <2>2, <2>3 DEF ShownInv, T
  <2>4. CASE b = n
    BY <1>8, <2>2, <2>4
  <2> QED
    BY <1>11, <2>1, <2>3, <2>4
<1>12. ASSUME NEW i \in 1 .. n, Shown(i)'
       PROVE  \E x \in 1 .. Len(terminal') : terminal'[x] = i
  <2>1. CASE i = n
    <3>1. T + K + 1 \in 1 .. Len(terminal')
      BY <1>2, <1>5
    <3> QED
      BY <1>5, <2>1, <3>1
  <2>2. CASE i \in 1 .. done
    <3>1. PICK x \in 1 .. T : terminal[x] = i
      BY <1>7, <1>8, <1>12, <2>2 DEF Shown, ShownInv, T
    <3>2. x \in 1 .. Len(terminal')
      BY <1>2, <1>5
    <3> QED
      BY <1>3, <3>1, <3>2
  <2> QED
    BY <1>2, <2>1, <2>2
<1>13. ASSUME NEW x \in 1 .. Len(terminal'), NEW a, a = terminal'[x], ClassOf(a)' = "kept"
       PROVE  ~ NoErrorAfter(a)'
  <2>1. CASE x \in 1 .. T
    <3>1. a \in 1 .. done /\ a = terminal[x] /\ ClassOf(a) = "kept"
      BY <1>3, <1>7, <1>8, <1>13, <2>1
    <3>2. ~ NoErrorAfter(a)
      BY <2>1, <3>1 DEF ShownInv, T
    <3> QED
      BY <1>7, <3>1, <3>2
  <2>2. CASE \E z \in 1 .. K : x = T + z
    BY <1>4, <1>7, <1>13, <2>2
  <2>3. CASE x = T + K + 1
    BY <1>5, <1>7, <1>2, <1>13, <2>3 DEF Shown
  <2> QED
    BY <1>6, <2>1, <2>2, <2>3
<1> QED
  <2>1. (\A x, y \in 1 .. Len(terminal) :
           Shown(terminal[x]) /\ Shown(terminal[y]) /\ x < y => terminal[x] < terminal[y])'
    BY <1>11
  <2>2. (\A i \in 1 .. done : Shown(i) => \E x \in 1 .. Len(terminal) : terminal[x] = i)'
    BY <1>2, <1>12
  <2>3. (\A x \in 1 .. Len(terminal) :
           ClassOf(terminal[x]) = "kept" => ~ NoErrorAfter(terminal[x]))'
    BY <1>13
  <2> QED
    BY <1>1, <1>10, <2>1, <2>2, <2>3 DEF ShownInv

\* One that is not leaves the terminal alone.
LEMMA ShowNone ==
  ASSUME TypeOK, ShownInv, Next1, NEW n, n = done + 1, Effect(n), ~ Shown(n)
  PROVE  ShownInv' /\ terminal' = terminal /\ terminal' \in Seq(1 .. n)
<1>1. terminal' = terminal
  BY DEF Effect, Shown
<1>2. done \in Nat /\ n \in 1 .. n /\ done' = n /\ terminal \in Seq(1 .. n)
      /\ \A x \in 1 .. Len(terminal) : terminal[x] \in 1 .. done
  <2>1. done \in Nat /\ Seq(1 .. done) \subseteq Seq(1 .. n)
    BY TerminalTyped, SeqMonotonic
  <2> QED
    BY <2>1, TerminalTyped DEF Next1
<1>3. /\ \A a \in 1 .. n : ClassOf(a)' = ClassOf(a)
      /\ \A a \in 1 .. done : NoErrorAfter(a)' <=> NoErrorAfter(a) /\ ClassOf(n) # "error"
  BY <1>2, ClassesStay DEF Next1
<1>4. \A a \in 1 .. done : (Shown(a)' <=> Shown(a)) /\ ClassOf(a)' = ClassOf(a)
                          /\ (NoErrorAfter(a)' <=> NoErrorAfter(a))
  BY <1>2, <1>3 DEF Shown
<1>5. ~ Shown(n)' /\ \A a \in 1 .. n : a = n \/ a \in 1 .. done
  BY <1>2, <1>3 DEF Shown
<1> HIDE DEF Shown
<1>6. (\A x, y \in 1 .. Len(terminal) :
         Shown(terminal[x]) /\ Shown(terminal[y]) /\ x < y => terminal[x] < terminal[y])'
  BY <1>1, <1>2, <1>4 DEF ShownInv
<1>7. (\A i \in 1 .. done : Shown(i) => \E x \in 1 .. Len(terminal) : terminal[x] = i)'
  BY <1>1, <1>2, <1>4, <1>5 DEF ShownInv
<1>8. (\A x \in 1 .. Len(terminal) :
         ClassOf(terminal[x]) = "kept" => ~ NoErrorAfter(terminal[x]))'
  BY <1>1, <1>2, <1>4 DEF ShownInv
<1> QED
  BY <1>1, <1>2, <1>6, <1>7, <1>8 DEF ShownInv

\* What is on the terminal stays there, and so does the order of what is.
LEMMA BeforeStays ==
  ASSUME TypeOK, KeptInv, ShownInv, Next1, NEW n, n = done + 1, Effect(n), ShownInv',
         NEW a \in 1 .. done, NEW b \in 1 .. done, Shown(b)
  PROVE  Before(a, b)' <=> Before(a, b)
<1>1. /\ Len(terminal) \in Nat /\ Len(terminal') \in Nat /\ Len(terminal) <= Len(terminal')
      /\ \A x \in 1 .. Len(terminal) : terminal'[x] = terminal[x]
  <2>1. Len(terminal) \in Nat
    BY TerminalTyped
  <2>2. CASE Shown(n)
    <3>1. PICK k \in Seq(1 .. n) :
            /\ Len(terminal') = Len(terminal) + Len(k) + 1
            /\ \A x \in 1 .. Len(terminal) : terminal'[x] = terminal[x]
      BY <2>2, NewTerminal
    <3>2. Len(k) \in Nat
      OBVIOUS
    <3> QED
      BY <2>1, <3>1, <3>2
  <2>3. CASE ~ Shown(n)
    BY <2>1, <2>3, ShowNone
  <2> QED
    BY <2>2, <2>3
<1>2. ASSUME Before(a, b) PROVE Before(a, b)'
  <2>1. PICK x, y \in 1 .. Len(terminal) : x < y /\ terminal[x] = a /\ terminal[y] = b
    BY <1>2 DEF Before
  <2>2. x \in 1 .. Len(terminal') /\ y \in 1 .. Len(terminal')
    BY <1>1
  <2> QED
    BY <1>1, <2>1, <2>2 DEF Before
<1>3. ASSUME Before(a, b)' PROVE Before(a, b)
  <2>1. PICK x, y \in 1 .. Len(terminal') : x < y /\ terminal'[x] = a /\ terminal'[y] = b
    BY <1>3 DEF Before
  <2>2. PICK z \in 1 .. Len(terminal) : terminal[z] = b
    BY DEF ShownInv
  <2>3. z \in 1 .. Len(terminal') /\ terminal'[z] = b
    BY <1>1, <2>2
  <2>4. y = z
    BY <2>1, <2>3 DEF ShownInv
  <2>5. x \in 1 .. Len(terminal) /\ y \in 1 .. Len(terminal)
    BY <1>1, <2>1, <2>2, <2>4
  <2> QED
    BY <1>1, <2>1, <2>5 DEF Before
<1> QED
  BY <1>2, <1>3

\* The error that is shown now: what is kept, and nothing else of its class since the
\* last error, comes before it.
LEMMA ContextOfError ==
  ASSUME TypeOK, KeptInv, ShownInv, Next1, NEW n, n = done + 1, Effect(n),
         ClassOf(n) = "error", NEW a \in 1 .. done, ClassOf(a) = "kept", NoErrorAfter(a),
         \A d \in forgotten : d < a
  PROVE  Before(a, n)' <=> Cardinality(KeptBetween(a, n)) < Capacity
<1>1. PICK k \in Seq(1 .. n) :
        /\ terminal' \in Seq(1 .. n)
        /\ Len(terminal') = Len(terminal) + Len(k) + 1
        /\ \A x \in 1 .. Len(terminal) : terminal'[x] = terminal[x]
        /\ \A x \in 1 .. Len(k) : terminal'[Len(terminal) + x] = k[x]
        /\ terminal'[Len(terminal')] = n
        /\ \/ ClassOf(n) = "info" /\ k = <<>>
           \/ ClassOf(n) = "error" /\ k = kept
  BY NewTerminal DEF Shown
<1>2. k = kept /\ Len(kept) \in Nat /\ Len(terminal) \in Nat /\ done \in Nat /\ n # a
  BY <1>1, KeptTyped, TerminalTyped
<1> DEFINE C == Cardinality(KeptBetween(a, done + 1))
<1>3. CASE \E p \in 1 .. Len(kept) : kept[p] = a
  <2>1. PICK p \in 1 .. Len(kept) : kept[p] = a
    BY <1>3
  <2>2. C = Len(kept) - p /\ Len(kept) <= Capacity
    BY <2>1, KeptTyped DEF KeptInv
  <2>3. C < Capacity
    BY <1>2, <2>2, LogAssumption
  <2>4. /\ Len(terminal) + p \in 1 .. Len(terminal') /\ terminal'[Len(terminal) + p] = a
        /\ Len(terminal') \in 1 .. Len(terminal') /\ Len(terminal) + p < Len(terminal')
    <3>1. Len(terminal') = Len(terminal) + Len(kept) + 1
          /\ terminal'[Len(terminal) + p] = kept[p]
      BY <1>1, <1>2
    <3> QED
      BY <1>2, <2>1, <3>1
  <2>5. Before(a, n)'
    BY <1>1, <2>4 DEF Before
  <2> QED
    BY <2>3, <2>5
<1>4. CASE \A p \in 1 .. Len(kept) : kept[p] # a
  <2>1. C >= Capacity /\ C \in Nat
    <3>1. a \in Nat /\ a <= done
      BY <1>2
    <3> QED
      BY <1>2, <1>4, <3>1, CountNext DEF KeptInv
  <2>2. ~ (C < Capacity)
    BY <2>1, LogAssumption
  <2>3. ~ Before(a, n)'
    <3> SUFFICES ASSUME NEW x \in 1 .. Len(terminal'), terminal'[x] = a PROVE FALSE
      BY DEF Before
    <3>1. CASE x \in 1 .. Len(terminal)
      BY <1>1, <3>1 DEF ShownInv
    <3>2. CASE x = Len(terminal')
      BY <1>1, <1>2, <3>2
    <3>3. CASE x \notin 1 .. Len(terminal) /\ x # Len(terminal')
      <4>1. x - Len(terminal) \in 1 .. Len(kept)
            /\ terminal'[Len(terminal) + (x - Len(terminal))] = terminal'[x]
        BY <1>1, <1>2, <3>3
      <4> QED
        BY <1>1, <1>2, <1>4, <4>1
    <3> QED
      BY <3>1, <3>2, <3>3
  <2> QED
    BY <2>2, <2>3
<1> QED
  BY <1>3, <1>4

LEMMA ContextKept ==
  ASSUME TypeOK, KeptInv, ShownInv, ErrorsShowContext, Next1, NEW n, n = done + 1, Effect(n),
         ShownInv'
  PROVE  ErrorsShowContext'
<1>1. done \in Nat /\ done' = n /\ forgotten' = forgotten
  BY TerminalTyped DEF Next1
<1>2. \A a \in 1 .. n : ClassOf(a)' = ClassOf(a)
  BY DEF Next1
<1> SUFFICES ASSUME NEW b \in 1 .. n, NEW a \in 1 .. b - 1,
                    ClassOf(b) = "error", ClassOf(a) = "kept",
                    \A c \in a + 1 .. b - 1 : ClassOf(c) # "error",
                    \A d \in forgotten : d < a \/ d >= b
             PROVE  Before(a, b)' <=> Cardinality(KeptBetween(a, b))' < Capacity
  <2>1. \A b \in 1 .. n : \A a \in 1 .. b - 1 :
          /\ a \in 1 .. n /\ \A c \in a + 1 .. b - 1 : c \in 1 .. n
    BY <1>1
  <2> QED
    BY <1>1, <1>2, <2>1 DEF ErrorsShowContext
<1>3. a \in 1 .. done /\ a \in 1 .. n
  BY <1>1
<1>4. KeptBetween(a, b)' = KeptBetween(a, b)
  BY <1>3, ClassesStay
<1>5. CASE b = n
  <2>1. NoErrorAfter(a) /\ \A d \in forgotten : d < a
    BY <1>1, <1>5 DEF NoErrorAfter, TypeOK
  <2> QED
    BY <1>3, <1>4, <1>5, <2>1, ContextOfError
<1>6. CASE b \in 1 .. done
  <2>1. Before(a, b)' <=> Before(a, b)
    BY <1>3, <1>6, BeforeStays DEF Shown
  <2>2. Before(a, b) <=> Cardinality(KeptBetween(a, b)) < Capacity
    BY <1>6 DEF ErrorsShowContext
  <2> QED
    BY <1>4, <2>1, <2>2
<1> QED
  BY <1>1, <1>5, <1>6

-----------------------------------------------------------------------------
(***************************************************************************)
(* The log files.                                                          *)
(***************************************************************************)

Record == [class : Class, to : 0 .. MaxFiles]

\* Records are only added, with the file that is current.
Grows ==
  /\ records' \in Seq(Record) /\ Len(records') \in Nat /\ Len(records) <= Len(records')
  /\ \A i \in 1 .. Len(records) : records'[i] = records[i]
  /\ \A i \in 1 .. Len(records') : i \notin 1 .. Len(records) => records'[i].to = current

LEMMA RecordsGrow ==
  ASSUME TypeOK, NEW class \in Class,
         \/ records' = records
         \/ records' = Append(records, [class |-> class, to |-> current])
  PROVE  Grows
<1>1. records \in Seq(Record) /\ Len(records) \in Nat /\ current \in 0 .. MaxFiles
  BY DEF TypeOK, Record
<1>2. CASE records' = records
  BY <1>1, <1>2 DEF Grows
<1>3. CASE records' = Append(records, [class |-> class, to |-> current])
  <2> DEFINE r == [class |-> class, to |-> current]
  <2>1. r \in Record /\ r.to = current
    BY <1>1 DEF Record
  <2> HIDE DEF r
  <2>2. records' = Append(records, r)
    BY <1>3 DEF r
  <2>3. /\ records' \in Seq(Record) /\ Len(records') = Len(records) + 1
        /\ \A i \in 1 .. Len(records) : records'[i] = records[i]
        /\ records'[Len(records) + 1] = r
    BY <1>1, <2>1, <2>2
  <2>4. \A i \in 1 .. Len(records') : i \notin 1 .. Len(records) => i = Len(records) + 1
    BY <1>1, <2>3
  <2> QED
    BY <1>1, <2>1, <2>3, <2>4 DEF Grows
<1> QED
  BY <1>2, <1>3

\* One more record in a file, in its place.
LEMMA OneMore ==
  ASSUME NEW d \in Nat, NEW s \in Seq(1 .. d), NEW n, n = d + 1, NEW t, t = Append(s, n),
         \A x, y \in 1 .. Len(s) : x < y => s[x] < s[y]
  PROVE  /\ t \in Seq(1 .. n) /\ Range(t) = Range(s) \cup {n}
         /\ \A x, y \in 1 .. Len(t) : x < y => t[x] < t[y]
<1>1. Seq(1 .. d) \subseteq Seq(1 .. n) /\ n \in 1 .. n
  BY SeqMonotonic
<1>2. s \in Seq(1 .. n) /\ Len(s) \in Nat
  BY <1>1
<1>3. /\ t \in Seq(1 .. n) /\ Len(t) = Len(s) + 1
      /\ \A x \in 1 .. Len(s) : t[x] = s[x]
      /\ t[Len(s) + 1] = n
  BY <1>1, <1>2
<1>4. DOMAIN t = 1 .. Len(s) + 1 /\ DOMAIN s = 1 .. Len(s)
  BY <1>2, <1>3
<1>5. \A x \in 1 .. Len(s) + 1 : x \in 1 .. Len(s) \/ x = Len(s) + 1
  BY <1>2
<1>6. \A x \in 1 .. Len(s) : x \in 1 .. Len(s) + 1
  BY <1>2
<1>7. Len(s) + 1 \in 1 .. Len(s) + 1
  BY <1>2
<1>8. Range(t) = Range(s) \cup {n}
  BY <1>3, <1>4, <1>5, <1>6, <1>7 DEF Range
<1>9. \A x \in 1 .. Len(s) : s[x] \in 1 .. d
  BY ElementOfSeq
<1>10. ASSUME NEW x \in 1 .. Len(t), NEW y \in 1 .. Len(t), x < y PROVE t[x] < t[y]
  <2>1. x \in 1 .. Len(s) /\ t[x] = s[x] /\ s[x] \in 1 .. d
    BY <1>2, <1>3, <1>9, <1>10
  <2>2. CASE y \in 1 .. Len(s)
    BY <1>3, <1>10, <2>1, <2>2
  <2>3. CASE y = Len(s) + 1
    BY <1>3, <2>1, <2>3
  <2> QED
    BY <1>3, <1>5, <2>2, <2>3
<1> QED
  BY <1>3, <1>8, <1>10

\* A record is written to the file it was logged for: it is open, or not yet made, or
\* could not be made.
Written(n, f) ==
  \/ /\ ~ failed[f] /\ stream[f] \in {"none", "open"} /\ UNCHANGED <<records, failed>>
     /\ contents' = [contents EXCEPT ![f] = Append(contents[f], n)]
     /\ stream' = [stream EXCEPT ![f] = "open"]
  \/ /\ ~ failed[f] /\ stream[f] = "none" /\ UNCHANGED <<contents, stream>>
     /\ failed' = [failed EXCEPT ![f] = TRUE]
     /\ records' = Append(records, [class |-> "info", to |-> current])
  \/ failed[f] /\ UNCHANGED <<records, fileVars>>

LEMMA FileTaken ==
  ASSUME TypeOK, FilesInv, NEW n, n = done + 1, n \in 1 .. Len(records),
         NEW f \in Log, records[n].to = f, WriteToFile(n, f)
  PROVE  Written(n, f)
<1>1. stream[f] \in {"none", "open"}
  <2>1. stream[f] \in {"none", "open", "renaming", "closed", "reopened"}
    BY DEF TypeOK
  <2>2. stream[f] # "renaming"
    BY DEF WriteToFile, HandlerFree, FilesInv, StreamInv
  <2>3. stream[f] # "closed"
    <3>1. n \in done + 1 .. Len(records)
      BY DEF TypeOK
    <3> QED
      BY <3>1 DEF FilesInv, StreamInv
  <2>4. stream[f] # "reopened"
    BY DEF FilesInv, FilesAreRight, ReplacedStaysClosed
  <2> QED
    BY <2>1, <2>2, <2>3, <2>4
<1>2. contents \in [Log -> Seq(1 .. done)]
      /\ stream \in [Log -> {"none", "open", "renaming", "closed", "reopened"}]
  BY DEF TypeOK
<1>3. CASE /\ ~ failed[f]
           /\ contents' = [contents EXCEPT ![f] = IF stream[f] = "renaming" THEN @
                                                 ELSE Append(@, n)]
           /\ stream' = [stream EXCEPT ![f] =
                CASE @ = "none" -> "open" [] @ = "closed" -> "reopened" [] OTHER -> @]
           /\ UNCHANGED <<records, failed>>
  <2>1. contents' = [contents EXCEPT ![f] = Append(contents[f], n)]
    BY <1>1, <1>2, <1>3
  <2>2. stream' = [stream EXCEPT ![f] = "open"]
    BY <1>1, <1>2, <1>3
  <2> QED
    BY <1>1, <1>3, <2>1, <2>2 DEF Written
<1>4. CASE /\ ~ failed[f] /\ stream[f] = "none"
           /\ failed' = [failed EXCEPT ![f] = TRUE]
           /\ records' = Append(records, [class |-> "info", to |-> current])
           /\ UNCHANGED <<contents, stream>>
  BY <1>4 DEF Written
<1>5. CASE failed[f] /\ UNCHANGED <<records, fileVars>>
  BY <1>5 DEF Written
<1> QED
  BY <1>3, <1>4, <1>5 DEF WriteToFile

\* A file that more records are logged for, none of them dealt with yet.
LEMMA NotWritten ==
  ASSUME TypeOK, FilesInv, NEW n, n = done + 1, n \in 1 .. Len(records), done' = n,
         \A i \in 1 .. n : records'[i] = records[i],
         NEW g \in Log, records[n].to # g \/ failed[g],
         contents'[g] = contents[g], failed'[g] = failed[g]
  PROVE  /\ \A x, y \in 1 .. Len(contents'[g]) : x < y => contents'[g][x] < contents'[g][y]
         /\ Range(contents'[g]) =
              IF failed'[g] THEN {} ELSE {i \in 1 .. n : records'[i].to = g}
<1>1. /\ \A x, y \in 1 .. Len(contents[g]) : x < y => contents[g][x] < contents[g][y]
      /\ Range(contents[g]) = IF failed[g] THEN {} ELSE {i \in 1 .. done : records[i].to = g}
  BY DEF FilesInv, FilesAreRight, FileIsComplete
<1>2. done \in Nat
  BY DEF TypeOK
<1>3. CASE failed[g]
  BY <1>1, <1>3
<1>4. CASE ~ failed[g]
  <2>1. \A i \in 1 .. n : i = n \/ i \in 1 .. done
    BY <1>2
  <2>2. \A i \in 1 .. done : i \in 1 .. n
    BY <1>2
  <2>3. {i \in 1 .. n : records'[i].to = g} = {i \in 1 .. done : records[i].to = g}
    BY <1>4, <2>1, <2>2
  <2> QED
    BY <1>1, <1>4, <2>3
<1> QED
  BY <1>3, <1>4

\* The types of what belongs to the files.
FileTypes ==
  /\ contents \in [Log -> Seq(1 .. done)]
  /\ stream \in [Log -> {"none", "open", "renaming", "closed", "reopened"}]
  /\ failed \in [Log -> BOOLEAN] /\ current \in 0 .. MaxFiles /\ files \in 0 .. MaxFiles
  /\ main \in {"idle", "configuring", "switching", "closing", "renaming"}
  /\ previous \in 0 .. MaxFiles

LEMMA WriteTakes ==
  ASSUME TypeOK, WriteRecord, NEW n, n = done + 1
  PROVE  /\ done \in Nat /\ n \in 1 .. Len(records) /\ n \in 1 .. n /\ done' = n
         /\ records[n].to = 0 \/ records[n].to \in Log
         /\ Effect(n) /\ UNCHANGED <<forgotten, current, files, mainVars>>
         /\ records[n].to = 0 => UNCHANGED <<records, fileVars>>
         /\ records[n].to # 0 => WriteToFile(n, records[n].to)
<1>1. done \in Nat /\ done < Len(records) /\ Len(records) \in Nat /\ records \in Seq(Record)
  BY DEF TypeOK, Record, WriteRecord
<1>2. n \in 1 .. Len(records)
  BY <1>1
<1>3. records[n] \in Record
  BY <1>1, <1>2, ElementOfSeq
<1>4. Effect(n)
  BY EffectOfReplay DEF WriteRecord, ClassOf
<1>5. records[n].to = 0 \/ records[n].to \in Log
  BY <1>3, LogAssumption DEF Record, Log
<1> QED
  BY <1>1, <1>2, <1>4, <1>5 DEF WriteRecord

LEMMA WriteFile ==
  ASSUME TypeOK, FilesInv, WriteRecord, NEW n, n = done + 1
  PROVE  FilesInv' /\ FileTypes' /\ Grows
<1> DEFINE f == records[n].to
<1>1. /\ done \in Nat /\ n \in 1 .. Len(records) /\ n \in 1 .. n /\ done' = n
      /\ UNCHANGED <<current, files, mainVars>> /\ records \in Seq(Record)
      /\ Len(records) \in Nat
  BY WriteTakes DEF TypeOK, Record
<1>2. \/ f = 0 /\ UNCHANGED <<records, fileVars>>
      \/ f \in Log /\ Written(n, f)
  BY WriteTakes, FileTaken
<1>3. Grows
  <2>1. CASE records' = records
    BY <1>1, <2>1 DEF Grows
  <2>2. CASE records' = Append(records, [class |-> "info", to |-> current])
    <3>1. "info" \in Class
      BY DEF Class
    <3> QED
      BY <2>2, <3>1, RecordsGrow
  <2> QED
    BY <1>2, <2>1, <2>2 DEF Written
<1>4. /\ contents \in [Log -> Seq(1 .. n)] /\ failed \in [Log -> BOOLEAN]
      /\ stream \in [Log -> {"none", "open", "renaming", "closed", "reopened"}]
      /\ \A g \in Log : contents[g] \in Seq(1 .. done)
  <2>1. Seq(1 .. done) \subseteq Seq(1 .. n)
    BY <1>1, SeqMonotonic
  <2>2. contents \in [Log -> Seq(1 .. done)]
    BY DEF TypeOK
  <2> QED
    BY <2>1, <2>2 DEF TypeOK
<1>5. ASSUME f \in Log, contents' = [contents EXCEPT ![f] = Append(contents[f], n)]
      PROVE  /\ contents'[f] \in Seq(1 .. n)
             /\ \A x, y \in 1 .. Len(contents'[f]) : x < y => contents'[f][x] < contents'[f][y]
             /\ Range(contents'[f]) = Range(contents[f]) \cup {n}
  <2>1. contents'[f] = Append(contents[f], n) /\ contents[f] \in Seq(1 .. done)
    BY <1>4, <1>5
  <2>2. \A x, y \in 1 .. Len(contents[f]) : x < y => contents[f][x] < contents[f][y]
    BY <1>5 DEF FilesInv, FilesAreRight, FileIsComplete
  <2> HIDE DEF f
  <2> QED
    BY <1>1, <2>1, <2>2, OneMore
<1> HIDE DEF f
<1>6. FileTypes'
  <2>1. contents' \in [Log -> Seq(1 .. n)]
    BY <1>2, <1>4, <1>5 DEF Written, fileVars
  <2>2. stream' \in [Log -> {"none", "open", "renaming", "closed", "reopened"}]
    BY <1>2, <1>4 DEF Written, fileVars
  <2>3. failed' \in [Log -> BOOLEAN]
    BY <1>2, <1>4 DEF Written, fileVars
  <2> QED
    BY <1>1, <2>1, <2>2, <2>3 DEF TypeOK, FileTypes, mainVars
<1>7. \A i \in 1 .. n : records'[i] = records[i]
  BY <1>1, <1>3 DEF Grows
<1>8. ASSUME NEW g \in Log
      PROVE  /\ \A x, y \in 1 .. Len(contents'[g]) : x < y => contents'[g][x] < contents'[g][y]
             /\ Range(contents'[g]) =
                  IF failed'[g] THEN {} ELSE {i \in 1 .. n : records'[i].to = g}
  <2>1. CASE f # g
    <3>1. contents'[g] = contents[g] /\ failed'[g] = failed[g]
      BY <1>2, <1>4, <2>1 DEF Written, fileVars
    <3>2. records[n].to # g
      BY <2>1 DEF f
    <3> QED
      BY <1>1, <1>7, <3>1, <3>2, NotWritten
  <2>2. CASE f = g
    <3>1. CASE failed[f] /\ UNCHANGED <<records, fileVars>>
      BY <1>1, <1>7, <2>2, <3>1, NotWritten DEF fileVars
    <3>2. CASE /\ ~ failed[f] /\ stream[f] = "none" /\ UNCHANGED <<contents, stream>>
               /\ failed' = [failed EXCEPT ![f] = TRUE]
      <4>1. contents'[g] = <<>> /\ failed'[g]
        BY <1>4, <2>2, <3>2 DEF FilesInv, StreamInv
      <4>2. Range(contents'[g]) = {} /\ Len(contents'[g]) = 0
        BY <4>1 DEF Range
      <4> QED
        BY <4>1, <4>2
    <3>3. CASE /\ ~ failed[f] /\ failed' = failed /\ records' = records
               /\ contents' = [contents EXCEPT ![f] = Append(contents[f], n)]
      <4>1. Range(contents[f]) = {i \in 1 .. done : records[i].to = f}
        BY <2>2, <3>3 DEF FilesInv, FilesAreRight, FileIsComplete
      <4>2. records[n].to = f
        BY DEF f
      <4>3. \A i \in 1 .. n : i = n \/ i \in 1 .. done
        BY <1>1
      <4>4. \A i \in 1 .. done : i \in 1 .. n
        BY <1>1
      <4>5. {i \in 1 .. done : records[i].to = f} \cup {n} = {i \in 1 .. n : records'[i].to = f}
        BY <1>1, <3>3, <4>2, <4>3, <4>4
      <4> QED
        BY <1>5, <2>2, <3>3, <4>1, <4>5
    <3> QED
      BY <1>2, <2>2, <3>1, <3>2, <3>3, LogAssumption DEF Written, Log
  <2> QED
    BY <2>1, <2>2
<1>9. ASSUME NEW g \in Log
      PROVE  /\ stream'[g] # stream[g] => f = g /\ stream'[g] = "open"
             /\ stream[g] = "renaming" => stream'[g] = "renaming"
             /\ stream'[g] = "none" => contents'[g] = contents[g]
  <2>1. stream'[g] # stream[g] =>
          /\ f = g /\ stream'[g] = "open" /\ stream[g] # "renaming"
    BY <1>2, <1>4 DEF Written, fileVars
  <2>2. contents'[g] # contents[g] => stream'[g] = "open"
    BY <1>2, <1>4 DEF Written, fileVars
  <2> QED
    BY <2>1, <2>2
<1>10. f = 0 \/ (f <= files /\ (main = "switching" => f # files))
  BY <1>1 DEF f, FilesInv, FreshInv
<1>11. \A i \in 1 .. Len(records') :
         \/ i \in 1 .. Len(records) /\ records'[i] = records[i]
         \/ i \notin 1 .. Len(records) /\ records'[i].to = current
  BY <1>3 DEF Grows
<1>12. FreshInv'
  <2>1. /\ current <= files /\ previous <= files
        /\ main = "switching" => files # 0 /\ current # files
    BY DEF FilesInv, FreshInv
  <2>2. ASSUME NEW g \in Log, g > files \/ (main = "switching" /\ g = files)
        PROVE  stream'[g] = "none"
    <3>1. stream[g] = "none"
      BY <2>2 DEF FilesInv, FreshInv
    <3>2. f # g
      <4>1. f \in Int /\ g \in Int /\ files \in Int /\ g # 0
        BY <1>2, LogAssumption DEF TypeOK, Log
      <4> QED
        BY <1>10, <2>2, <4>1
    <3> QED
      BY <1>9, <3>1, <3>2
  <2>3. ASSUME NEW i \in 1 .. Len(records')
        PROVE  records'[i].to <= files /\ (main = "switching" => records'[i].to # files)
    BY <1>11, <2>1, <2>3 DEF FilesInv, FreshInv
  <2> QED
    BY <1>1, <2>1, <2>2, <2>3 DEF FreshInv, mainVars
<1>13. StreamInv'
  <2>1. \A g \in Log : stream'[g] = "none" => contents'[g] = <<>>
    BY <1>9 DEF FilesInv, StreamInv
  <2>2. \A g \in Log : stream'[g] = "renaming" => main = "renaming" /\ current = g
    BY <1>9 DEF FilesInv, StreamInv
  <2>3. main = "renaming" => current # 0 /\ stream'[current] = "renaming"
    <3>1. current = 0 \/ current \in Log
      BY DEF TypeOK, Log
    <3> QED
      BY <1>9, <3>1 DEF FilesInv, StreamInv
  <2>4. main = "closing" =>
          /\ previous # 0 /\ current # previous
          /\ \A i \in mark + 1 .. Len(records') : records'[i].to # previous
    <3> SUFFICES ASSUME main = "closing", NEW i \in mark + 1 .. Len(records')
                 PROVE  records'[i].to # previous
      BY DEF FilesInv, StreamInv
    <3>1. mark \in Nat /\ i \in 1 .. Len(records')
      BY DEF TypeOK
    <3>2. CASE i \in 1 .. Len(records)
      BY <1>11, <3>1, <3>2 DEF FilesInv, StreamInv
    <3>3. CASE i \notin 1 .. Len(records)
      BY <1>11, <3>1, <3>3 DEF FilesInv, StreamInv
    <3> QED
      BY <3>2, <3>3
  <2>5. \A g \in Log : stream'[g] = "closed" =>
          current # g /\ \A i \in n + 1 .. Len(records') : records'[i].to # g
    <3> SUFFICES ASSUME NEW g \in Log, stream'[g] = "closed"
                 PROVE  current # g /\ \A i \in n + 1 .. Len(records') : records'[i].to # g
      OBVIOUS
    <3>1. stream[g] = "closed"
      BY <1>9
    <3>2. current # g /\ \A i \in done + 1 .. Len(records) : records[i].to # g
      BY <3>1 DEF FilesInv, StreamInv
    <3>3. \A i \in n + 1 .. Len(records') :
            /\ i \in 1 .. Len(records')
            /\ i \in 1 .. Len(records) => i \in done + 1 .. Len(records)
      BY <1>1
    <3> QED
      BY <1>11, <3>2, <3>3
  <2> QED
    BY <1>1, <2>1, <2>2, <2>3, <2>4, <2>5 DEF StreamInv, mainVars
<1>14. ReplacedStaysClosed'
  BY <1>9 DEF FilesInv, FilesAreRight, ReplacedStaysClosed
<1>15. FileIsComplete'
  BY <1>1, <1>8 DEF FileIsComplete
<1> QED
  BY <1>3, <1>6, <1>12, <1>13, <1>14, <1>15 DEF FilesInv, FilesAreRight

\* What files hold is not changed but by the output thread.
LEMMA ContentsStay ==
  ASSUME TypeOK, FileIsComplete, UNCHANGED <<done, contents, failed>>,
         \A i \in 1 .. Len(records) : records'[i] = records[i]
  PROVE  FileIsComplete'
<1>1. \A i \in 1 .. done : records'[i] = records[i]
  <2>1. done \in Nat /\ Len(records) \in Nat /\ done <= Len(records)
    BY DEF TypeOK
  <2> QED
    BY <2>1
<1>2. ASSUME NEW f \in Log
      PROVE  {i \in 1 .. done : records'[i].to = f} = {i \in 1 .. done : records[i].to = f}
  BY <1>1
<1> QED
  BY <1>2 DEF FileIsComplete

LEMMA EmitKeepsFiles ==
  ASSUME TypeOK, FilesInv, NEW class \in Class, Emit(class)
  PROVE  FilesInv' /\ Grows
<1> USE DEF Emit, terminalVars, fileVars, mainVars
<1>1. Grows
  BY RecordsGrow
<1>2. \A i \in 1 .. Len(records') :
        \/ i \in 1 .. Len(records) /\ records'[i] = records[i]
        \/ i \notin 1 .. Len(records) /\ records'[i].to = current
  BY <1>1 DEF Grows
<1>3. UNCHANGED <<done, contents, stream, failed, current, files, main, mark, previous>>
  OBVIOUS
<1>4. FreshInv'
  BY <1>2, <1>3 DEF FilesInv, FreshInv
<1>5. StreamInv'
  <2>1. ASSUME NEW low \in Nat, NEW f, current # f,
               \A i \in low + 1 .. Len(records) : records[i].to # f
        PROVE  \A i \in low + 1 .. Len(records') : records'[i].to # f
    <3>1. \A i \in low + 1 .. Len(records') :
            /\ i \in 1 .. Len(records')
            /\ i \in 1 .. Len(records) => i \in low + 1 .. Len(records)
      OBVIOUS
    <3> QED
      BY <1>2, <2>1, <3>1
  <2>2. mark \in Nat /\ done \in Nat
    BY DEF TypeOK
  <2>3. main = "closing" => \A i \in mark + 1 .. Len(records') : records'[i].to # previous
    BY <2>1, <2>2 DEF FilesInv, StreamInv
  <2>4. \A f \in Log : stream[f] = "closed" =>
          \A i \in done + 1 .. Len(records') : records'[i].to # f
    BY <2>1, <2>2 DEF FilesInv, StreamInv
  <2> QED
    BY <1>3, <2>3, <2>4 DEF FilesInv, StreamInv
<1>6. FileIsComplete'
  BY <1>1, <1>3, ContentsStay DEF Grows, FilesInv, FilesAreRight
<1>7. ReplacedStaysClosed'
  BY <1>3 DEF FilesInv, FilesAreRight, ReplacedStaysClosed
<1> QED
  BY <1>1, <1>4, <1>5, <1>6, <1>7 DEF FilesInv, FilesAreRight

\* The main thread: no file gets what was logged for another, or is closed too soon.
LEMMA MainKeepsFiles ==
  ASSUME TypeOK, FilesInv,
         \/ ConfigureLogging \/ DropKept \/ ConfigureLogFile \/ SwitchFile \/ ClosePrevious
         \/ StartRelabel \/ EndRelabel
  PROVE  FilesInv' /\ FileTypes' /\ mark' \in 0 .. Len(records) /\ UNCHANGED <<records, done>>
<1> USE DEF terminalVars, fileVars, Flush, Flushed
<1>1. UNCHANGED <<records, done, contents, failed>>
  BY DEF ConfigureLogging, DropKept, ConfigureLogFile, SwitchFile, ClosePrevious, StartRelabel,
         EndRelabel
<1>2. /\ done \in Nat /\ done <= Len(records) /\ mark \in 0 .. Len(records) /\ Len(records) \in Nat
      /\ stream \in [Log -> {"none", "open", "renaming", "closed", "reopened"}]
      /\ current \in Nat /\ files \in Nat /\ previous \in Nat /\ MaxFiles \in Nat
      /\ current <= MaxFiles /\ files <= MaxFiles /\ previous <= MaxFiles
      /\ main \in {"idle", "configuring", "switching", "closing", "renaming"}
  BY LogAssumption DEF TypeOK
<1>3. FileIsComplete'
  BY <1>1, ContentsStay DEF FilesInv, FilesAreRight
<1>4. records \in Seq(Record) /\ \A i \in 1 .. Len(records) : records[i].to \in 0 .. MaxFiles
  <2>1. records \in Seq(Record)
    BY DEF TypeOK, Record
  <2>2. \A i \in 1 .. Len(records) : records[i] \in Record
    BY <2>1, ElementOfSeq
  <2> QED
    BY <2>1, <2>2 DEF Record
<1>5. CASE ConfigureLogging \/ DropKept
  <2>1. /\ UNCHANGED <<stream, current, files, previous>> /\ mark' \in 0 .. Len(records)
        /\ main' \in {"idle", "configuring"} /\ main \in {"idle", "configuring"}
    BY <1>2, <1>5 DEF ConfigureLogging, DropKept
  <2>2. FreshInv' /\ StreamInv' /\ ReplacedStaysClosed'
    BY <1>1, <2>1 DEF FilesInv, FreshInv, StreamInv, FilesAreRight, ReplacedStaysClosed
  <2>3. FileTypes'
    BY <1>1, <2>1 DEF TypeOK, FileTypes
  <2> QED
    BY <1>1, <1>3, <2>1, <2>2, <2>3 DEF FilesInv, FilesAreRight
<1>6. CASE ConfigureLogFile
  <2>1. /\ UNCHANGED <<stream, current, previous>> /\ mark' \in 0 .. Len(records)
        /\ main' = "switching" /\ main = "idle" /\ files' = files + 1 /\ files < MaxFiles
    BY <1>2, <1>6 DEF ConfigureLogFile
  <2>2. FreshInv'
    BY <1>1, <1>2, <1>4, <2>1 DEF FilesInv, FreshInv
  <2>3. StreamInv' /\ ReplacedStaysClosed'
    BY <1>1, <2>1 DEF FilesInv, StreamInv, FilesAreRight, ReplacedStaysClosed
  <2>4. FileTypes'
    BY <1>1, <1>2, <2>1 DEF TypeOK, FileTypes
  <2> QED
    BY <1>1, <1>3, <2>1, <2>2, <2>3, <2>4 DEF FilesInv, FilesAreRight
<1>7. CASE SwitchFile
  <2>1. /\ UNCHANGED <<stream, files>> /\ mark' \in 0 .. Len(records)
        /\ main = "switching" /\ previous' = current /\ current' \in {0, files}
        /\ \/ current = 0 /\ main' = "idle"
           \/ current # 0 /\ main' = "closing" /\ mark' = Len(records)
    BY <1>2, <1>7 DEF SwitchFile
  <2>2. /\ current < files /\ files # 0
        /\ \A f \in Log : f = files => stream[f] = "none"
        /\ \A i \in 1 .. Len(records) : records[i].to <= files /\ records[i].to # files
    BY <1>2, <2>1 DEF FilesInv, FreshInv
  <2>3. FreshInv'
    <3>1. current' <= files /\ previous' <= files
      BY <1>2, <2>1, <2>2
    <3>2. \A f \in Log : f > files => stream[f] = "none"
      BY DEF FilesInv, FreshInv
    <3> QED
      BY <1>1, <2>1, <2>2, <3>1, <3>2 DEF FreshInv
  <2>4. StreamInv'
    <3>1. main' = "closing" =>
            /\ previous' # 0 /\ current' # previous'
            /\ \A i \in mark' + 1 .. Len(records) : records[i].to # previous'
      <4>1. current # files
        BY <1>2, <2>2
      <4>2. main' = "closing" => current # 0 /\ mark' = Len(records)
        BY <2>1
      <4>3. \A i \in Len(records) + 1 .. Len(records) : FALSE
        BY <1>2
      <4> QED
        BY <2>1, <4>1, <4>2, <4>3
    <3>2. \A f \in Log : stream[f] # "renaming" /\ (stream[f] = "none" => contents[f] = <<>>)
      BY <2>1 DEF FilesInv, StreamInv
    <3>3. \A f \in Log : stream[f] = "closed" =>
            current' # f /\ \A i \in done + 1 .. Len(records) : records[i].to # f
      <4>1. \A f \in Log : f # 0
        BY DEF Log
      <4>2. \A f \in Log : stream[f] = "closed" => f # files
        BY <2>2
      <4> QED
        BY <2>1, <4>1, <4>2 DEF FilesInv, StreamInv
    <3>4. main' # "renaming"
      BY <2>1
    <3> QED
      BY <1>1, <2>1, <3>1, <3>2, <3>3, <3>4 DEF StreamInv
  <2>5. ReplacedStaysClosed'
    BY <2>1 DEF FilesInv, FilesAreRight, ReplacedStaysClosed
  <2>6. FileTypes'
    BY <1>1, <1>2, <2>1 DEF TypeOK, FileTypes
  <2> QED
    BY <1>1, <1>3, <2>1, <2>3, <2>4, <2>5, <2>6 DEF FilesInv, FilesAreRight
<1>8. CASE ClosePrevious
  <2>1. /\ UNCHANGED <<current, files, mark>> /\ main = "closing" /\ main' = "idle"
        /\ previous' = 0 /\ done >= mark /\ stream' = [stream EXCEPT ![previous] = "closed"]
    BY <1>8 DEF ClosePrevious
  <2>2. /\ previous \in Log /\ current # previous
        /\ \A i \in mark + 1 .. Len(records) : records[i].to # previous
    BY <1>2, <2>1 DEF FilesInv, StreamInv, Log
  <2>3. \A f \in Log : stream'[f] = IF f = previous THEN "closed" ELSE stream[f]
    BY <1>2, <2>1, <2>2
  <2>4. FreshInv'
    <3>1. \A f \in Log : f > files => f # previous /\ stream[f] = "none"
      BY <1>2 DEF FilesInv, FreshInv
    <3> QED
      BY <1>1, <1>2, <2>1, <2>3, <3>1 DEF FilesInv, FreshInv
  <2>5. \A i \in done + 1 .. Len(records) : records[i].to # previous
    <3>1. \A i \in done + 1 .. Len(records) : i \in mark + 1 .. Len(records)
      BY <1>2, <2>1
    <3> QED
      BY <2>2, <3>1
  <2>6. StreamInv'
    BY <1>1, <2>1, <2>2, <2>3, <2>5 DEF FilesInv, StreamInv
  <2>7. ReplacedStaysClosed'
    BY <2>3 DEF FilesInv, FilesAreRight, ReplacedStaysClosed
  <2>8. FileTypes'
    <3>1. stream' \in [Log -> {"none", "open", "renaming", "closed", "reopened"}]
      BY <1>2, <2>1
    <3> QED
      BY <1>1, <1>2, <2>1, <3>1 DEF TypeOK, FileTypes
  <2> QED
    BY <1>1, <1>2, <1>3, <2>1, <2>4, <2>6, <2>7, <2>8 DEF FilesInv, FilesAreRight
<1>9. CASE StartRelabel \/ EndRelabel
  <2>1. /\ UNCHANGED <<current, files, mark, previous>>
        /\ \/ /\ main = "idle" /\ main' = "renaming" /\ current # 0 /\ stream[current] = "open"
              /\ stream' = [stream EXCEPT ![current] = "renaming"]
           \/ /\ main = "renaming" /\ main' = "idle"
              /\ stream' = [stream EXCEPT ![current] = "open"]
    BY <1>9 DEF StartRelabel, EndRelabel
  <2>2. current \in Log /\ stream[current] \in {"open", "renaming"}
    BY <1>2, <2>1 DEF FilesInv, StreamInv, Log
  <2>3. \A f \in Log : stream'[f] = IF f # current THEN stream[f]
                                   ELSE IF main = "idle" THEN "renaming" ELSE "open"
    BY <1>2, <2>1, <2>2
  <2>4. main \in {"idle", "renaming"} /\ main' \in {"idle", "renaming"}
    BY <2>1
  <2>5. FreshInv'
    <3>1. \A f \in Log : f > files => f # current /\ stream[f] = "none"
      BY <1>2 DEF FilesInv, FreshInv
    <3> QED
      BY <1>1, <2>1, <2>3, <2>4, <3>1 DEF FilesInv, FreshInv
  <2>6. StreamInv'
    <3>1. \A f \in Log : stream'[f] = "renaming" => main' = "renaming" /\ current = f
      BY <2>1, <2>3 DEF FilesInv, StreamInv
    <3>2. main' = "renaming" => current # 0 /\ stream'[current] = "renaming"
      BY <2>1, <2>2, <2>3
    <3>3. \A f \in Log : stream'[f] = "closed" => stream[f] = "closed"
      BY <2>3
    <3>4. \A f \in Log : stream'[f] = "none" => stream[f] = "none"
      BY <2>3
    <3> QED
      BY <1>1, <2>1, <2>4, <3>1, <3>2, <3>3, <3>4 DEF FilesInv, StreamInv
  <2>7. ReplacedStaysClosed'
    BY <2>3 DEF FilesInv, FilesAreRight, ReplacedStaysClosed
  <2>8. FileTypes'
    <3>1. stream' \in [Log -> {"none", "open", "renaming", "closed", "reopened"}]
      BY <1>2, <2>1
    <3> QED
      BY <1>1, <1>2, <2>1, <3>1 DEF TypeOK, FileTypes
  <2> QED
    BY <1>1, <1>2, <1>3, <2>1, <2>5, <2>6, <2>7, <2>8 DEF FilesInv, FilesAreRight
<1> QED
  BY <1>5, <1>6, <1>7, <1>8, <1>9

-----------------------------------------------------------------------------
(***************************************************************************)
(* The theorems.                                                           *)
(***************************************************************************)

\* Nothing but the output thread, and logging configured anew, touches the terminal.
LEMMA TerminalUntouched ==
  ASSUME TypeOK, TerminalInv, \A i \in 1 .. Len(records) : records'[i] = records[i],
         UNCHANGED <<done, terminalVars>>
  PROVE  TerminalInv'
<1> USE DEF TerminalInv
<1>1. done \in Nat /\ \A i \in 1 .. done : ClassOf(i)' = ClassOf(i)
  <2>1. done \in Nat /\ done <= Len(records) /\ Len(records) \in Nat
    BY DEF TypeOK
  <2>2. \A i \in 1 .. done : i \in 1 .. Len(records)
    BY <2>1
  <2> QED
    BY <2>1, <2>2 DEF ClassOf
<1>2. UNCHANGED <<done, kept, terminal, forgotten>>
  BY DEF terminalVars
<1>3. \A a \in 1 .. done : NoErrorAfter(a)' <=> NoErrorAfter(a)
  BY <1>1, <1>2 DEF NoErrorAfter
<1>4. \A a \in 1 .. done : \A b \in 1 .. done + 1 : KeptBetween(a, b)' = KeptBetween(a, b)
  BY <1>1, <1>2 DEF KeptBetween
<1>5. \A a \in 1 .. done : KeptBetween(a, done + 1)' = KeptBetween(a, done + 1)
  BY <1>1, <1>2 DEF KeptBetween
<1>6. \A a, b \in 1 .. done : Before(a, b)' <=> Before(a, b)
  BY <1>2 DEF Before
<1>7. \A a \in 1 .. done : Shown(a)' <=> Shown(a)
  BY <1>1 DEF Shown
<1>8. KeptInv'
  <2>1. \A p \in 1 .. Len(kept) : kept[p] \in 1 .. done
    BY KeptTyped
  <2>2. \A p \in 1 .. Len(kept) :
          (/\ ClassOf(kept[p]) = "kept" /\ NoErrorAfter(kept[p])
           /\ Cardinality(KeptBetween(kept[p], done + 1)) = Len(kept) - p)'
    <3> SUFFICES ASSUME NEW p \in 1 .. Len(kept), NEW a, a = kept[p]
                 PROVE  /\ ClassOf(a)' = "kept" /\ NoErrorAfter(a)'
                        /\ Cardinality(KeptBetween(a, done + 1))' = Len(kept) - p
      BY <1>2
    <3> QED
      BY <1>1, <1>3, <1>5, <2>1 DEF KeptInv
  <2>3. (\A a \in 1 .. done :
           /\ ClassOf(a) = "kept" /\ NoErrorAfter(a)
           /\ \A d \in forgotten : d < a
           /\ \A p \in 1 .. Len(kept) : kept[p] # a
           => Cardinality(KeptBetween(a, done + 1)) >= Capacity)'
    <3>1. \A a \in 1 .. done :
            Cardinality(KeptBetween(a, done + 1))' = Cardinality(KeptBetween(a, done + 1))
      BY <1>5
    <3> QED
      BY <1>1, <1>2, <1>3, <3>1 DEF KeptInv
  <2> QED
    BY <1>2, <2>2, <2>3 DEF KeptInv
<1>9. ShownInv'
  <2>1. \A x \in 1 .. Len(terminal) : terminal[x] \in 1 .. done
    BY TerminalTyped
  <2>2. (\A x, y \in 1 .. Len(terminal) :
           Shown(terminal[x]) /\ Shown(terminal[y]) /\ x < y => terminal[x] < terminal[y])'
    BY <1>2, <1>7, <2>1 DEF ShownInv
  <2>3. (\A i \in 1 .. done : Shown(i) => \E x \in 1 .. Len(terminal) : terminal[x] = i)'
    BY <1>2, <1>7 DEF ShownInv
  <2>4. (\A x \in 1 .. Len(terminal) :
           ClassOf(terminal[x]) = "kept" => ~ NoErrorAfter(terminal[x]))'
    BY <1>1, <1>2, <1>3, <2>1 DEF ShownInv
  <2> QED
    BY <1>2, <2>2, <2>3, <2>4 DEF ShownInv
<1>10. ErrorsShowContext'
  <2>1. \A b \in 1 .. done : \A a \in 1 .. b - 1 :
          /\ a \in 1 .. done /\ b \in 1 .. done + 1
          /\ \A c \in a + 1 .. b - 1 : c \in 1 .. done
    BY <1>1
  <2>2. \A b \in 1 .. done : \A a \in 1 .. b - 1 :
          /\ Before(a, b)' <=> Before(a, b)
          /\ Cardinality(KeptBetween(a, b))' = Cardinality(KeptBetween(a, b))
    BY <1>4, <1>6, <2>1
  <2> QED
    BY <1>1, <1>2, <2>1, <2>2 DEF ErrorsShowContext
<1> QED
  BY <1>8, <1>9, <1>10 DEF TerminalInv

\* What is not kept any longer is not owed to an error that comes.
LEMMA DropKeepsTerminal ==
  ASSUME TypeOK, TerminalInv, DropKept PROVE TerminalInv'
<1>1. /\ UNCHANGED <<records, done, terminal>> /\ kept' = <<>>
      /\ forgotten' = forgotten \cup {done}
  BY DEF DropKept
<1>2. done \in Nat
  BY DEF TypeOK
<1>3. KeptInv'
  <2>1. \A a \in 1 .. done : ~ \A d \in forgotten' : d < a
    BY <1>1, <1>2
  <2> QED
    BY <1>1, <2>1 DEF KeptInv
<1>4. ShownInv'
  BY <1>1 DEF TerminalInv, ShownInv, Shown, NoErrorAfter, ClassOf
<1>5. ErrorsShowContext'
  BY <1>1 DEF TerminalInv, ErrorsShowContext, Before, KeptBetween, ClassOf
<1> QED
  BY <1>3, <1>4, <1>5 DEF TerminalInv

LEMMA NextCorrect == IInv /\ [Next]_vars => IInv'
<1> SUFFICES ASSUME IInv, [Next]_vars PROVE IInv'
  OBVIOUS
<1> USE DEF IInv
<1>1. /\ done \in Nat /\ done <= Len(records) /\ Len(records) \in Nat
      /\ kept \in Seq(1 .. done) /\ Len(kept) <= Capacity /\ terminal \in Seq(1 .. done)
      /\ forgotten \subseteq 0 .. done /\ mark \in 0 .. Len(records)
      /\ records \in Seq(Record)
  BY DEF TypeOK, Record
<1>2. ASSUME FilesInv', FileTypes', TerminalInv', records' \in Seq(Record),
             done' \in 0 .. Len(records'), forgotten' \subseteq 0 .. done',
             kept' \in Seq(1 .. done'), Len(kept') <= Capacity,
             terminal' \in Seq(1 .. done'), mark' \in 0 .. Len(records')
      PROVE  IInv'
  BY <1>2 DEF TypeOK, FileTypes, Record
<1>3. ASSUME NEW class \in Class, Emit(class) PROVE IInv'
  <2>1. FilesInv' /\ Grows
    BY <1>3, EmitKeepsFiles
  <2>2. UNCHANGED <<done, kept, terminal, forgotten, contents, stream, failed, current, files,
                    main, mark, previous>>
    BY <1>3 DEF Emit, terminalVars, fileVars, mainVars
  <2>3. TerminalInv'
    BY <2>1, <2>2, TerminalUntouched DEF Grows, terminalVars
  <2>4. FileTypes'
    BY <2>2 DEF TypeOK, FileTypes
  <2> QED
    BY <1>1, <1>2, <2>1, <2>2, <2>3, <2>4 DEF Grows
<1>4. CASE WriteRecord
  <2>1. PICK n \in Nat : n = done + 1
    BY <1>1
  <2>2. FilesInv' /\ FileTypes' /\ Grows
    BY <1>4, <2>1, WriteFile
  <2>3. /\ n \in 1 .. Len(records) /\ done' = n /\ Effect(n)
        /\ UNCHANGED <<forgotten, current, files, mainVars>>
    BY <1>4, <2>1, WriteTakes
  <2>4. Next1
    <3>1. \A i \in 1 .. done + 1 : records'[i] = records[i]
      <4>1. \A i \in 1 .. Len(records) : records'[i] = records[i]
        BY <2>2 DEF Grows
      <4>2. 1 .. done + 1 \subseteq 1 .. Len(records)
        BY <1>1, <2>1, <2>3
      <4> QED
        BY <4>1, <4>2
    <3> QED
      <4>1. done < Len(records)
        BY <1>1, <2>1, <2>3
      <4> QED
        BY <2>1, <2>3, <3>1, <4>1 DEF Next1, ClassOf
  <2>5. KeptInv' /\ kept' \in Seq(1 .. n) /\ Len(kept') <= Capacity
    BY <2>1, <2>3, <2>4, KeepOne, KeepNone DEF TerminalInv
  <2>6. ShownInv' /\ terminal' \in Seq(1 .. n)
    BY <2>1, <2>3, <2>4, ShowOne, ShowNone DEF TerminalInv
  <2>7. ErrorsShowContext'
    BY <2>1, <2>3, <2>4, <2>6, ContextKept DEF TerminalInv
  <2>8. /\ done' \in 0 .. Len(records') /\ forgotten' \subseteq 0 .. done'
        /\ mark' \in 0 .. Len(records') /\ records' \in Seq(Record)
    BY <1>1, <2>1, <2>2, <2>3 DEF Grows, mainVars
  <2> QED
    BY <1>2, <2>2, <2>3, <2>5, <2>6, <2>7, <2>8 DEF TerminalInv
<1>5. CASE \/ ConfigureLogging \/ DropKept \/ ConfigureLogFile \/ SwitchFile \/ ClosePrevious
           \/ StartRelabel \/ EndRelabel
  <2>1. FilesInv' /\ FileTypes' /\ mark' \in 0 .. Len(records) /\ UNCHANGED <<records, done>>
    BY <1>5, MainKeepsFiles
  <2>2. CASE DropKept
    <3>1. UNCHANGED terminal /\ kept' = <<>> /\ forgotten' = forgotten \cup {done}
      BY <2>2 DEF DropKept
    <3>2. TerminalInv'
      BY <2>2, DropKeepsTerminal
    <3>3. kept' \in Seq(1 .. done) /\ Len(kept') <= Capacity /\ forgotten' \subseteq 0 .. done
      BY <1>1, <3>1, LogAssumption
    <3> QED
      BY <1>1, <1>2, <2>1, <3>1, <3>2, <3>3
  <2>3. CASE ~ DropKept
    <3>1. UNCHANGED terminalVars
      BY <1>5, <2>3 DEF ConfigureLogging, ConfigureLogFile, SwitchFile, ClosePrevious,
                       StartRelabel, EndRelabel
    <3>2. TerminalInv'
      BY <2>1, <3>1, TerminalUntouched
    <3> QED
      BY <1>1, <1>2, <2>1, <3>1, <3>2 DEF terminalVars
  <2> QED
    BY <2>2, <2>3
<1>6. CASE UNCHANGED vars
  <2>1. /\ UNCHANGED <<records, done, contents, stream, failed, current, files, main, mark, previous>>
        /\ UNCHANGED terminalVars
    BY <1>6 DEF vars, terminalVars
  <2>2. TerminalInv'
    BY <2>1, TerminalUntouched
  <2>3. FilesInv'
    BY <2>1 DEF FilesInv, FreshInv, StreamInv, FilesAreRight, FileIsComplete, ReplacedStaysClosed
  <2>4. FileTypes'
    BY <2>1 DEF TypeOK, FileTypes
  <2> QED
    BY <1>1, <1>2, <2>1, <2>2, <2>3, <2>4 DEF terminalVars
<1> QED
  BY <1>3, <1>4, <1>5, <1>6 DEF Next

LEMMA Correct == Spec => []IInv
BY InitCorrect, NextCorrect, PTL DEF Spec

\* Records, files and counters have their types, and only so many records are kept for
\* the next error, however many are logged.
THEOREM TypeCorrect == Spec => []TypeOK
<1>1. IInv => TypeOK
  BY DEF IInv
<1> QED
  BY <1>1, Correct, PTL

\* An error comes after the records kept for it, no more and no less of them, and what is
\* never kept back is on the terminal in the order of logging (_Replay), for any number of
\* threads that log and whatever the main thread does to the log file meanwhile.
THEOREM TerminalCorrect == Spec => []TerminalIsRight
<1>1. IInv => TerminalIsRight
  <2> SUFFICES ASSUME IInv PROVE TerminalIsRight
    OBVIOUS
  <2>1. ShownInv /\ ErrorsShowContext /\ TypeOK
    BY DEF IInv, TerminalInv
  <2>2. IsInjective(terminal)
    <3>1. DOMAIN terminal = 1 .. Len(terminal)
      BY <2>1, TerminalTyped
    <3> QED
      BY <2>1, <3>1 DEF IsInjective, ShownInv
  <2>3. ASSUME NEW i \in 1 .. done, NEW j \in 1 .. done,
               {ClassOf(i), ClassOf(j)} \subseteq {"info", "error"}, i < j
        PROVE  Before(i, j)
    <3>1. Shown(i) /\ Shown(j)
      BY <2>3 DEF Shown
    <3>2. PICK x \in 1 .. Len(terminal) : terminal[x] = i
      BY <2>1, <3>1 DEF ShownInv
    <3>3. PICK y \in 1 .. Len(terminal) : terminal[y] = j
      BY <2>1, <3>1 DEF ShownInv
    <3>4. x # y /\ ~ (y < x)
      <4>1. y < x => terminal[y] < terminal[x]
        BY <2>1, <3>1, <3>2, <3>3 DEF ShownInv
      <4>2. i \in Nat /\ j \in Nat /\ i # j /\ ~ (j < i)
        BY <2>1, <2>3, TerminalTyped
      <4> QED
        BY <3>2, <3>3, <4>1, <4>2
    <3>5. x < y
      BY <2>1, <3>4, TerminalTyped
    <3> QED
      BY <3>2, <3>3, <3>5 DEF Before
  <2> QED
    BY <2>1, <2>2, <2>3 DEF TerminalIsRight, TerminalInOrder
<1> QED
  BY <1>1, Correct, PTL

\* A log file gets every record that was logged while it was in use, once and in order,
\* also while it is renamed, and is not opened again after it was replaced.
THEOREM FilesCorrect == Spec => []FilesAreRight
<1>1. IInv => FilesAreRight
  BY DEF IInv, FilesInv
<1> QED
  BY <1>1, Correct, PTL

-----------------------------------------------------------------------------
(***************************************************************************)
(* The log files of several runs in one directory: LogRetention.           *)
(***************************************************************************)

\* Where a run is that has listed the directory and not yet made its file.
Looking == {"listing", "removing"}

\* The names that r has listed, and not found gone.
Known(r) == {n \in Name : n \in todo[r] \/ seen[r][n] # 0}

\* No two runs wrote last at the same time, and a file was written after it was made.
Times ==
  /\ \A q \in Run : written[q] <= clock
  /\ \A q \in Run : there[q] => written[q] # 0
  /\ \A p, q \in Run : written[p] = written[q] /\ written[p] # 0 => p = q
  /\ \A q \in Run : pc[q] \in {"quiet", "listing", "removing"} => ~ there[q]

\* What a run has listed: one name of each run, of which it removes the excess.
ListedBy(r) ==
  /\ pc[r] \notin Looking => todo[r] = {} /\ seen[r] = NoTimes
  /\ pc[r] # "removing" => victims[r] = {}
  /\ pc[r] = "removing" => todo[r] = {}
  /\ victims[r] \subseteq Excess(r)
  /\ \A n, m \in Known(r) : n[1] = m[1] => n = m
Listed == \A r \in Run : ListedBy(r)

\* A time that r has read is between what was written when it listed the directory and
\* what is by now, and no other run's.
ReadBy(r) ==
  /\ \A q \in Run : before[r][q] <= written[q]
  /\ \A n, m \in Name : seen[r][n] # 0 /\ n[1] # m[1] => seen[r][n] # seen[r][m]
  /\ \A n \in Name : seen[r][n] # 0 =>
       /\ before[r][n[1]] <= seen[r][n] /\ seen[r][n] <= written[n[1]]
       /\ \A q \in Run : q # n[1] => written[q] # seen[r][n]
Stamps == \A r \in Run : ReadBy(r)

\* Every file in the directory came since r listed it, is still to be looked at, is to
\* be removed, or is not in excess.
CoveredBy(r, q) ==
  pc[r] \in Looking /\ there[q] =>
    \/ q \in extra[r] \/ NameOf(q) \in todo[r]
    \/ /\ seen[r][NameOf(q)] # 0
       /\ pc[r] = "removing" => NameOf(q) \in victims[r] \/ NameOf(q) \notin Excess(r)
Covered == \A r, q \in Run : CoveredBy(r, q)

\* The inductive invariant.
RetentionInv == TypeOKRetention /\ Times /\ Listed /\ Stamps /\ Covered

-----------------------------------------------------------------------------
\* A run's name is a name, and names are those of the runs they begin with.
LEMMA Names ==
  ASSUME TypeOKRetention
  PROVE  /\ Files \subseteq Name
         /\ \A q \in Run : NameOf(q) \in Name /\ NameOf(q)[1] = q
         /\ \A n \in Name : n[1] \in Run
         /\ \A n : n \in Files <=> \E q \in Run : there[q] /\ n = NameOf(q)
         /\ \A n \in Files : there[n[1]] /\ n = NameOf(n[1])
<1>1. \A q \in Run : label[q] \in Label BY DEF TypeOKRetention
<1> QED BY <1>1 DEF Files, NameOf, Name

\* There are finitely many names.
LEMMA NamesFinite == IsFiniteSet(Name)
<1>1. IsFiniteSet(Run) BY RetentionAssumption
<1>2. IsFiniteSet(Label)
  <2>1. IsFiniteSet({"none"}) BY FS_Singleton
  <2>2. Label = {"none"} \cup {"label"} BY DEF Label
  <2> QED BY <2>1, <2>2, FS_AddElement
<1> QED BY <1>1, <1>2, FS_Product DEF Name

\* What happens to the times a run has read happens to the excess.
LEMMA ExcessSame ==
  ASSUME NEW r \in Run, seen'[r] = seen[r]
  PROVE  Excess(r)' = Excess(r) /\ \A n : Newer(r, n)' = Newer(r, n)
BY DEF Excess, Newer

\* Another run is not touched.
Untouched(q) ==
  /\ todo'[q] = todo[q] /\ seen'[q] = seen[q] /\ victims'[q] = victims[q]
  /\ before'[q] = before[q]

\* r is done with pruning, and nothing is left of it.
LEMMA EndsDoes ==
  ASSUME TypeOKRetention, NEW r \in Run, NEW next, Ends(r, next)
  PROVE  /\ pc'[r] = next /\ todo'[r] = {} /\ seen'[r] = NoTimes /\ victims'[r] = {}
         /\ before'[r] = [q \in Run |-> 0]
         /\ \A q \in Run \ {r} : pc'[q] = pc[q] /\ Untouched(q)
BY DEF Ends, TypeOKRetention, Untouched

\* The record that r writes is the latest.
LEMMA TicksDoes ==
  ASSUME TypeOKRetention, NEW r \in Run, Ticks(r)
  PROVE  /\ clock' = clock + 1 /\ clock \in Nat /\ clock' \in 0 .. MaxWrites
         /\ written' \in [Run -> 0 .. MaxWrites]
         /\ written'[r] = clock + 1 /\ \A q \in Run \ {r} : written'[q] = written[q]
<1>1. clock < MaxWrites /\ clock' = clock + 1 /\ written' = [written EXCEPT ![r] = clock + 1]
  BY DEF Ticks
<1>2. clock \in 0 .. MaxWrites /\ MaxWrites \in Nat BY RetentionAssumption DEF TypeOKRetention
<1>3. clock + 1 \in 0 .. MaxWrites BY <1>1, <1>2
<1> QED BY <1>1, <1>2, <1>3 DEF TypeOKRetention

\* A file that comes is known to have come by the runs that prune.
LEMMA ComesDoes ==
  ASSUME TypeOKRetention, NEW r \in Run, Comes(r)
  PROVE  /\ extra' \in [Run -> SUBSET Run]
         /\ \A q \in Run \ {r} : pc[q] \in Looking => extra'[q] = extra[q] \cup {r}
BY DEF Comes, TypeOKRetention, Pruning, Looking

-----------------------------------------------------------------------------
\* The directory starts with the files of past runs.
LEMMA InitRetentionInv == InitRetention => RetentionInv
<1> SUFFICES ASSUME InitRetention PROVE RetentionInv
  OBVIOUS
<1>1. clock \in 0 .. MaxWrites
  <2>1. IsFiniteSet(Past) /\ Cardinality(Past) <= MaxWrites /\ MaxWrites \in Nat
    BY FS_Subset, RetentionAssumption
  <2>2. Cardinality(Past) \in Nat BY <2>1, FS_CardinalityType
  <2> QED BY <2>1, <2>2 DEF InitRetention
<1>2. written \in [Run -> 0 .. MaxWrites] /\ \A q \in Run : written[q] <= clock
  BY <1>1, RetentionAssumption DEF InitRetention
<1>3. TypeOKRetention
  <2>1. NoTimes \in [Name -> 0 .. MaxWrites] /\ [q \in Run |-> 0] \in [Run -> 0 .. MaxWrites]
    BY RetentionAssumption DEF NoTimes
  <2> QED BY <1>1, <1>2, <2>1 DEF InitRetention, TypeOKRetention, Label
<1>4. Times
  <2>1. \A q \in Run : there[q] <=> q \in Past BY DEF InitRetention
  <2>2. \A q \in Run : pc[q] = IF q \in Past THEN "done" ELSE "quiet" BY DEF InitRetention
  <2>3. \A q \in Run : written[q] = 0 <=> q \notin Past BY DEF InitRetention
  <2>4. \A p, q \in Run : written[p] = written[q] /\ written[p] # 0 => p = q
    BY <2>3 DEF InitRetention
  <2> QED BY <1>2, <2>1, <2>2, <2>3, <2>4 DEF Times
<1>5. \A r \in Run : /\ pc[r] \notin Looking /\ pc[r] # "removing"
                     /\ todo[r] = {} /\ seen[r] = NoTimes /\ victims[r] = {}
                     /\ \A q \in Run : before[r][q] = 0
  BY DEF InitRetention, Looking
<1>6. Listed
  <2>1. \A r \in Run : Known(r) = {} BY <1>5 DEF Known, NoTimes
  <2> QED BY <1>5, <2>1 DEF Listed, ListedBy
<1>7. Stamps
  <2>1. \A n \in Name : NoTimes[n] = 0 BY DEF NoTimes
  <2>2. \A q \in Run : 0 <= written[q] BY <1>2
  <2> QED BY <1>5, <2>1, <2>2 DEF Stamps, ReadBy
<1>8. Covered BY <1>5 DEF Covered, CoveredBy
<1> QED BY <1>3, <1>4, <1>6, <1>7, <1>8 DEF RetentionInv

\* Every step keeps the types.
LEMMA RetentionTypesKept ==
  ASSUME TypeOKRetention, [NextRetention]_retentionVars
  PROVE  TypeOKRetention'
<1>0. CASE UNCHANGED retentionVars
  BY <1>0 DEF retentionVars, listVars, TypeOKRetention
<1> SUFFICES ASSUME NEW r \in Run,
                    \/ ListLogs(r) \/ StatLog(r) \/ SortLogs(r) \/ RemoveLog(r) \/ OpenLog(r)
                    \/ OpenFails(r) \/ WriteLog(r) \/ RelabelUnmade(r) \/ CloseToRelabel(r)
                    \/ RenameLog(r) \/ Reopen(r) \/ EndRun(r)
             PROVE  TypeOKRetention'
  BY <1>0 DEF NextRetention
<1> USE DEF TypeOKRetention
<1>1. CASE ListLogs(r)
  BY <1>1, Names DEF ListLogs
<1>2. CASE StatLog(r)
  <2>1. PICK n \in todo[r] :
          /\ todo' = [todo EXCEPT ![r] = @ \ {n}]
          /\ seen' = [seen EXCEPT ![r][n] = IF n \in Files THEN written[n[1]] ELSE 0]
    BY <1>2 DEF StatLog
  <2>2. n \in Name /\ n[1] \in Run BY Names
  <2>3. (IF n \in Files THEN written[n[1]] ELSE 0) \in 0 .. MaxWrites
    BY <2>2, RetentionAssumption
  <2>4. seen' \in [Run -> [Name -> 0 .. MaxWrites]] BY <2>1, <2>2, <2>3
  <2>5. todo' \in [Run -> SUBSET Name] BY <2>1
  <2> QED BY <1>2, <2>4, <2>5 DEF StatLog
<1>3. CASE SortLogs(r)
  BY <1>3 DEF SortLogs, Excess
<1>4. CASE RemoveLog(r)
  <2>1. PICK n \in victims[r] :
          /\ victims' = [victims EXCEPT ![r] = @ \ {n}]
          /\ there' = [there EXCEPT ![n[1]] = @ /\ ~ Removable(n)]
          /\ extra' = [extra EXCEPT ![r] =
                         IF n \in Files /\ ~ Removable(n) THEN @ \cup {n[1]} ELSE @]
    BY <1>4 DEF RemoveLog
  <2>2. n[1] \in Run BY Names
  <2>3. there' \in [Run -> BOOLEAN] BY <2>1, <2>2
  <2>4. extra' \in [Run -> SUBSET Run] /\ victims' \in [Run -> SUBSET Name] BY <2>1, <2>2
  <2> QED BY <1>4, <2>3, <2>4 DEF RemoveLog
<1>5. ASSUME NEW next \in {"writing", "done"}, Ends(r, next)
      PROVE  /\ pc' \in [Run -> {"quiet", "listing", "removing", "writing", "closed",
                                 "renamed", "done"}]
             /\ todo' \in [Run -> SUBSET Name] /\ victims' \in [Run -> SUBSET Name]
             /\ seen' \in [Run -> [Name -> 0 .. MaxWrites]]
             /\ before' \in [Run -> [Run -> 0 .. MaxWrites]]
  <2>1. NoTimes \in [Name -> 0 .. MaxWrites] /\ [q \in Run |-> 0] \in [Run -> 0 .. MaxWrites]
    BY RetentionAssumption DEF NoTimes
  <2> QED BY <1>5, <2>1 DEF Ends
<1>6. CASE OpenLog(r)
  BY <1>5, <1>6, TicksDoes, ComesDoes DEF OpenLog
<1>7. CASE OpenFails(r) \/ EndRun(r)
  BY <1>5, <1>7 DEF OpenFails, EndRun
<1>8. CASE WriteLog(r)
  BY <1>8, TicksDoes DEF WriteLog, listVars
<1>9. CASE RelabelUnmade(r) \/ CloseToRelabel(r)
  BY <1>9 DEF RelabelUnmade, CloseToRelabel, listVars, Label
<1>10. CASE RenameLog(r)
  BY <1>10, ComesDoes DEF RenameLog, listVars, Label
<1>11. CASE Reopen(r)
  BY <1>11, ComesDoes, TicksDoes DEF Reopen, listVars
<1> QED BY <1>1, <1>2, <1>3, <1>4, <1>6, <1>7, <1>8, <1>9, <1>10, <1>11

\* No file comes and nothing is written ...
LEMMA TimesStill ==
  ASSUME Times, written' = written, clock' = clock,
         \A q \in Run : there'[q] => there[q],
         \A q \in Run : pc'[q] \in {"quiet", "listing", "removing"} =>
                         pc[q] \in {"quiet", "listing", "removing"}
  PROVE  Times'
BY DEF Times

\* ... or the run that writes has its file.
LEMMA TimesTick ==
  ASSUME TypeOKRetention, Times, NEW r \in Run, Ticks(r),
         pc'[r] \notin {"quiet", "listing", "removing"},
         \A q \in Run \ {r} : there'[q] = there[q] /\ pc'[q] = pc[q]
  PROVE  Times'
<1>1. /\ clock' = clock + 1 /\ clock \in Nat /\ written'[r] = clock + 1
      /\ \A q \in Run \ {r} : written'[q] = written[q]
  BY TicksDoes
<1>2. \A q \in Run : written[q] \in Nat /\ written[q] <= clock
  BY RetentionAssumption DEF TypeOKRetention, Times
<1>3. \A q \in Run \ {r} : written'[q] # clock + 1 BY <1>1, <1>2
<1>4. \A q \in Run : written'[q] <= clock' BY <1>1, <1>2
<1>5. \A p, q \in Run : written'[p] = written'[q] /\ written'[p] # 0 => p = q
  BY <1>1, <1>3 DEF Times
<1>6. \A q \in Run : there'[q] => written'[q] # 0 BY <1>1 DEF Times
<1>7. \A q \in Run : pc'[q] \in {"quiet", "listing", "removing"} => ~ there'[q]
  BY DEF Times
<1> QED BY <1>4, <1>5, <1>6, <1>7 DEF Times

\* Every step keeps the times of the files apart.
LEMMA TimesKept ==
  ASSUME TypeOKRetention, Times, [NextRetention]_retentionVars
  PROVE  Times'
<1>0. CASE UNCHANGED retentionVars
  BY <1>0, TimesStill DEF retentionVars
<1> SUFFICES ASSUME NEW r \in Run,
                    \/ ListLogs(r) \/ StatLog(r) \/ SortLogs(r) \/ RemoveLog(r) \/ OpenLog(r)
                    \/ OpenFails(r) \/ WriteLog(r) \/ RelabelUnmade(r) \/ CloseToRelabel(r)
                    \/ RenameLog(r) \/ Reopen(r) \/ EndRun(r)
             PROVE  Times'
  BY <1>0 DEF NextRetention
<1>1. \A q, w : q \in Run /\ pc' = [pc EXCEPT ![r] = w] =>
                 pc'[r] = w /\ (q # r => pc'[q] = pc[q])
  BY DEF TypeOKRetention
<1>2. CASE ListLogs(r)
  BY <1>1, <1>2, TimesStill DEF ListLogs
<1>3. CASE StatLog(r)
  BY <1>3, TimesStill DEF StatLog
<1>4. CASE SortLogs(r)
  BY <1>1, <1>4, TimesStill DEF SortLogs
<1>5. CASE RemoveLog(r)
  <2>1. PICK n \in victims[r] : there' = [there EXCEPT ![n[1]] = @ /\ ~ Removable(n)]
    BY <1>5 DEF RemoveLog
  <2>2. \A q \in Run : there'[q] => there[q] BY <2>1 DEF TypeOKRetention
  <2> QED BY <1>5, <2>2, TimesStill DEF RemoveLog
<1>6. CASE OpenLog(r)
  <2>1. pc'[r] = "writing" /\ \A q \in Run \ {r} : pc'[q] = pc[q]
    BY <1>6, EndsDoes DEF OpenLog
  <2>2. \A q \in Run \ {r} : there'[q] = there[q] BY <1>6 DEF OpenLog, TypeOKRetention
  <2>3. Ticks(r) BY <1>6 DEF OpenLog
  <2> QED BY <2>1, <2>2, <2>3, TimesTick
<1>7. CASE OpenFails(r) \/ EndRun(r)
  <2>1. pc'[r] = "done" /\ \A q \in Run \ {r} : pc'[q] = pc[q]
    BY <1>7, EndsDoes DEF OpenFails, EndRun
  <2>2. written' = written /\ clock' = clock /\ there' = there
    BY <1>7 DEF OpenFails, EndRun
  <2> QED BY <2>1, <2>2, TimesStill
<1>8. CASE WriteLog(r)
  BY <1>8, TimesTick DEF WriteLog
<1>9. CASE RelabelUnmade(r) \/ CloseToRelabel(r) \/ RenameLog(r)
  <2>1. written' = written /\ clock' = clock /\ there' = there
    BY <1>9 DEF RelabelUnmade, CloseToRelabel, RenameLog
  <2>2. \/ pc' = pc
        \/ pc'[r] \in {"closed", "renamed"} /\ \A q \in Run \ {r} : pc'[q] = pc[q]
    BY <1>1, <1>9 DEF RelabelUnmade, CloseToRelabel, RenameLog
  <2> QED BY <2>1, <2>2, TimesStill
<1>10. CASE Reopen(r)
  <2>1. pc'[r] = "writing" /\ \A q \in Run \ {r} : pc'[q] = pc[q]
    BY <1>1, <1>10 DEF Reopen
  <2>2. CASE there[r]
    BY <1>10, <2>1, <2>2, TimesStill DEF Reopen
  <2>3. CASE ~ there[r]
    <3>1. Ticks(r) /\ there' = [there EXCEPT ![r] = TRUE] BY <1>10, <2>3 DEF Reopen
    <3>2. \A q \in Run \ {r} : there'[q] = there[q] BY <3>1 DEF TypeOKRetention
    <3> QED BY <2>1, <3>1, <3>2, TimesTick
  <2> QED BY <2>2, <2>3
<1> QED BY <1>2, <1>3, <1>4, <1>5, <1>6, <1>7, <1>8, <1>9, <1>10

-----------------------------------------------------------------------------
\* What a run has listed stays as it is while it is not touched ...
LEMMA ListedStill ==
  ASSUME NEW q \in Run, ListedBy(q), Untouched(q),
         pc'[q] = pc[q] \/ (pc[q] \notin Looking /\ pc'[q] \notin Looking)
  PROVE  ListedBy(q)'
<1>1. Known(q)' = Known(q) BY DEF Known, Untouched
<1>2. Excess(q)' = Excess(q) BY ExcessSame DEF Untouched
<1>3. CASE pc'[q] = pc[q] BY <1>1, <1>2, <1>3 DEF ListedBy, Untouched
<1>4. CASE pc[q] \notin Looking /\ pc'[q] \notin Looking
  <2>1. pc[q] # "removing" /\ pc'[q] # "removing" BY <1>4 DEF Looking
  <2> QED BY <1>1, <1>2, <1>4, <2>1 DEF ListedBy, Untouched
<1> QED BY <1>3, <1>4

\* ... and is forgotten at the end.
LEMMA ListedEnds ==
  ASSUME TypeOKRetention, NEW r \in Run, NEW next, next \notin Looking, Ends(r, next)
  PROVE  ListedBy(r)'
<1>1. pc'[r] = next /\ todo'[r] = {} /\ seen'[r] = NoTimes /\ victims'[r] = {}
  BY EndsDoes
<1>2. Known(r)' = {} BY <1>1 DEF Known, NoTimes
<1> QED BY <1>1, <1>2 DEF ListedBy, Looking

\* Steps that leave the pruning of all runs alone.
LEMMA RunsUntouched ==
  ASSUME TypeOKRetention, NEW r \in Run,
         WriteLog(r) \/ RelabelUnmade(r) \/ CloseToRelabel(r) \/ RenameLog(r) \/ Reopen(r)
  PROVE  \A q \in Run :
           /\ Untouched(q)
           /\ pc'[q] = pc[q] \/ (q = r /\ pc[q] \notin Looking /\ pc'[q] \notin Looking)
<1>1. UNCHANGED <<listVars, before>>
  BY DEF WriteLog, RelabelUnmade, CloseToRelabel, RenameLog, Reopen
<1>2. \A q \in Run : Untouched(q) BY <1>1 DEF Untouched, listVars
<1>3. \/ pc' = pc
      \/ /\ pc[r] \in {"writing", "closed", "renamed"}
         /\ \E w \in {"closed", "renamed", "writing"} : pc' = [pc EXCEPT ![r] = w]
  BY DEF WriteLog, RelabelUnmade, CloseToRelabel, RenameLog, Reopen
<1>4. \A q \in Run :
        pc'[q] = pc[q] \/ (q = r /\ pc[q] \notin Looking /\ pc'[q] \notin Looking)
  BY <1>3 DEF TypeOKRetention, Looking
<1> QED BY <1>2, <1>4

\* A step of pruning touches the pruning of one run only.
LEMMA OthersUntouched ==
  ASSUME TypeOKRetention, NEW r \in Run,
         \/ ListLogs(r) \/ StatLog(r) \/ SortLogs(r) \/ RemoveLog(r) \/ OpenLog(r)
         \/ OpenFails(r) \/ EndRun(r)
  PROVE  \A q \in Run \ {r} : Untouched(q) /\ pc'[q] = pc[q]
<1>1. CASE ListLogs(r) BY <1>1 DEF ListLogs, Untouched, TypeOKRetention
<1>2. CASE StatLog(r) BY <1>2 DEF StatLog, Untouched, TypeOKRetention
<1>3. CASE SortLogs(r) BY <1>3 DEF SortLogs, Untouched, TypeOKRetention
<1>4. CASE RemoveLog(r) BY <1>4 DEF RemoveLog, Untouched, TypeOKRetention
<1>5. CASE OpenLog(r) \/ OpenFails(r) \/ EndRun(r)
  BY <1>5, EndsDoes DEF OpenLog, OpenFails, EndRun
<1> QED BY <1>1, <1>2, <1>3, <1>4, <1>5

\* Every step keeps what is listed.
LEMMA ListedKept ==
  ASSUME TypeOKRetention, Listed, [NextRetention]_retentionVars
  PROVE  Listed'
<1>0. CASE UNCHANGED retentionVars
  BY <1>0, ListedStill DEF retentionVars, listVars, Listed, Untouched
<1> SUFFICES ASSUME NEW r \in Run,
                    \/ ListLogs(r) \/ StatLog(r) \/ SortLogs(r) \/ RemoveLog(r) \/ OpenLog(r)
                    \/ OpenFails(r) \/ WriteLog(r) \/ RelabelUnmade(r) \/ CloseToRelabel(r)
                    \/ RenameLog(r) \/ Reopen(r) \/ EndRun(r)
             PROVE  Listed'
  BY <1>0 DEF NextRetention
<1>1. CASE WriteLog(r) \/ RelabelUnmade(r) \/ CloseToRelabel(r) \/ RenameLog(r) \/ Reopen(r)
  BY <1>1, RunsUntouched, ListedStill DEF Listed
<1>2. SUFFICES ASSUME \/ ListLogs(r) \/ StatLog(r) \/ SortLogs(r) \/ RemoveLog(r) \/ OpenLog(r)
                      \/ OpenFails(r) \/ EndRun(r)
               PROVE  ListedBy(r)'
  BY <1>1, OthersUntouched, ListedStill DEF Listed
<1>3. ListedBy(r) BY DEF Listed
<1>4. CASE ListLogs(r)
  <2>1. pc'[r] = "listing" /\ todo'[r] = Files /\ seen'[r] = NoTimes /\ victims'[r] = {}
    BY <1>3, <1>4 DEF ListLogs, ListedBy, Looking, TypeOKRetention
  <2>2. Known(r)' \subseteq Files BY <2>1, Names DEF Known, NoTimes
  <2> QED BY <2>1, <2>2, Names DEF ListedBy, Looking
<1>5. CASE StatLog(r)
  <2>1. PICK n \in todo[r] :
          /\ todo' = [todo EXCEPT ![r] = @ \ {n}]
          /\ seen' = [seen EXCEPT ![r][n] = IF n \in Files THEN written[n[1]] ELSE 0]
    BY <1>5 DEF StatLog
  <2>2. n \in Name BY DEF TypeOKRetention
  <2>3. /\ todo'[r] = todo[r] \ {n}
        /\ \A m \in Name : m # n => seen'[r][m] = seen[r][m]
    BY <2>1, <2>2 DEF TypeOKRetention
  <2>4. Known(r)' \subseteq Known(r) BY <2>2, <2>3 DEF Known
  <2>5. pc[r] = "listing" /\ pc' = pc /\ victims' = victims BY <1>5 DEF StatLog
  <2> QED BY <1>3, <2>4, <2>5 DEF ListedBy, Looking
<1>6. CASE SortLogs(r)
  <2>1. /\ pc'[r] = "removing" /\ todo[r] = {} /\ todo' = todo /\ seen' = seen
        /\ victims'[r] = Excess(r)
    BY <1>6 DEF SortLogs, TypeOKRetention
  <2>2. Known(r)' = Known(r) BY <2>1 DEF Known
  <2>3. Excess(r)' = Excess(r) BY <2>1, ExcessSame
  <2> QED BY <1>3, <2>1, <2>2, <2>3 DEF ListedBy, Looking
<1>7. CASE RemoveLog(r)
  <2>1. /\ pc[r] = "removing" /\ pc' = pc /\ todo' = todo /\ seen' = seen
        /\ victims'[r] \subseteq victims[r]
    BY <1>7 DEF RemoveLog, TypeOKRetention
  <2>2. Known(r)' = Known(r) BY <2>1 DEF Known
  <2>3. Excess(r)' = Excess(r) BY <2>1, ExcessSame
  <2> QED BY <1>3, <2>1, <2>2, <2>3 DEF ListedBy, Looking
<1>8. CASE OpenLog(r) \/ OpenFails(r) \/ EndRun(r)
  <2>1. Ends(r, "writing") \/ Ends(r, "done") BY <1>8 DEF OpenLog, OpenFails, EndRun
  <2>2. "writing" \notin Looking /\ "done" \notin Looking BY DEF Looking
  <2> QED BY <2>1, <2>2, ListedEnds
<1> QED BY <1>2, <1>4, <1>5, <1>6, <1>7, <1>8

-----------------------------------------------------------------------------
\* What is written only grows, and beyond all that was written before.
LEMMA WrittenGrows ==
  ASSUME TypeOKRetention, Times, [NextRetention]_retentionVars
  PROVE  \A q \in Run : /\ written[q] \in Nat /\ written'[q] \in Nat /\ clock \in Nat
                        /\ written[q] <= clock
                        /\ written'[q] = written[q] \/ written'[q] = clock + 1
<1>1. \/ written' = written
      \/ \E r \in Run : Ticks(r)
  BY DEF NextRetention, retentionVars, ListLogs, StatLog, SortLogs, RemoveLog, OpenLog,
         OpenFails, WriteLog, RelabelUnmade, CloseToRelabel, RenameLog, Reopen, EndRun
<1>2. \A q \in Run : written[q] \in Nat /\ written[q] <= clock /\ clock \in Nat
  BY RetentionAssumption DEF TypeOKRetention, Times
<1>3. CASE written' = written BY <1>2, <1>3
<1>4. ASSUME NEW r \in Run, Ticks(r)
      PROVE  \A q \in Run : written'[q] = written[q] \/ written'[q] = clock + 1
  BY <1>4, TicksDoes
<1> QED BY <1>1, <1>2, <1>3, <1>4

\* The times read stay in their bounds, as long as the run is not touched ...
LEMMA ReadStill ==
  ASSUME TypeOKRetention, Times, [NextRetention]_retentionVars,
         NEW r \in Run, ReadBy(r), Untouched(r)
  PROVE  ReadBy(r)'
<1>1. \A q \in Run : before[r][q] \in Nat /\ before'[r][q] = before[r][q]
  BY RetentionAssumption DEF TypeOKRetention, Untouched
<1>2. \A q \in Run : before'[r][q] <= written'[q]
  BY <1>1, WrittenGrows DEF ReadBy
<1>3. ASSUME NEW n \in Name, seen'[r][n] # 0
      PROVE  /\ before'[r][n[1]] <= seen'[r][n] /\ seen'[r][n] <= written'[n[1]]
             /\ \A q \in Run : q # n[1] => written'[q] # seen'[r][n]
  <2>1. n[1] \in Run BY Names
  <2>2. seen'[r][n] = seen[r][n] /\ seen[r][n] \in Nat
    BY RetentionAssumption DEF TypeOKRetention, Untouched
  <2>3. /\ before[r][n[1]] <= seen[r][n] /\ seen[r][n] <= written[n[1]]
        /\ \A q \in Run : q # n[1] => written[q] # seen[r][n]
    BY <1>3, <2>2 DEF ReadBy
  <2>4. seen[r][n] <= clock /\ seen[r][n] <= written'[n[1]]
    BY <2>1, <2>2, <2>3, WrittenGrows
  <2>5. \A q \in Run : q # n[1] => written'[q] # seen[r][n]
    BY <2>1, <2>2, <2>3, <2>4, WrittenGrows
  <2> QED BY <1>1, <2>1, <2>2, <2>3, <2>4, <2>5
<1>4. \A n, m \in Name : seen'[r][n] # 0 /\ n[1] # m[1] => seen'[r][n] # seen'[r][m]
  BY DEF ReadBy, Untouched
<1> QED BY <1>2, <1>3, <1>4 DEF ReadBy

\* ... and are forgotten at the end.
LEMMA ReadEnds ==
  ASSUME TypeOKRetention, TypeOKRetention', NEW r \in Run, NEW next, Ends(r, next)
  PROVE  ReadBy(r)'
<1>1. seen'[r] = NoTimes /\ before'[r] = [q \in Run |-> 0] BY EndsDoes
<1>2. \A q \in Run : 0 <= written'[q] BY RetentionAssumption DEF TypeOKRetention
<1>3. \A n \in Name : seen'[r][n] = 0 BY <1>1 DEF NoTimes
<1> QED BY <1>1, <1>2, <1>3 DEF ReadBy

\* Every step keeps the times that were read in their bounds.
LEMMA StampsKept ==
  ASSUME TypeOKRetention, TypeOKRetention', Times, Listed, Stamps,
         [NextRetention]_retentionVars
  PROVE  Stamps'
<1>0. CASE UNCHANGED retentionVars
  <2>1. \A q \in Run : Untouched(q) BY <1>0 DEF retentionVars, listVars, Untouched
  <2> QED BY <2>1, ReadStill DEF Stamps
<1> SUFFICES ASSUME NEW r \in Run,
                    \/ ListLogs(r) \/ StatLog(r) \/ SortLogs(r) \/ RemoveLog(r) \/ OpenLog(r)
                    \/ OpenFails(r) \/ WriteLog(r) \/ RelabelUnmade(r) \/ CloseToRelabel(r)
                    \/ RenameLog(r) \/ Reopen(r) \/ EndRun(r)
             PROVE  Stamps'
  BY <1>0 DEF NextRetention
<1>1. CASE WriteLog(r) \/ RelabelUnmade(r) \/ CloseToRelabel(r) \/ RenameLog(r) \/ Reopen(r)
  BY <1>1, RunsUntouched, ReadStill DEF Stamps
<1>2. SUFFICES ASSUME \/ ListLogs(r) \/ StatLog(r) \/ SortLogs(r) \/ RemoveLog(r) \/ OpenLog(r)
                      \/ OpenFails(r) \/ EndRun(r)
               PROVE  ReadBy(r)'
  BY <1>1, OthersUntouched, ReadStill DEF Stamps
<1>3. ReadBy(r) BY DEF Stamps
<1>4. CASE ListLogs(r)
  <2>1. seen'[r] = NoTimes /\ before'[r] = written /\ written' = written
    <3>1. seen[r] = NoTimes
      <4>1. ListedBy(r) BY DEF Listed
      <4>2. pc[r] \notin Looking BY <1>4 DEF ListLogs, Looking
      <4> QED BY <4>1, <4>2 DEF ListedBy
    <3>2. /\ before' = [before EXCEPT ![r] = written] /\ before \in [Run -> [Run -> 0 .. MaxWrites]]
          /\ UNCHANGED <<seen, written>>
      BY <1>4 DEF ListLogs, TypeOKRetention
    <3> QED BY <3>1, <3>2
  <2>2. \A q \in Run : written[q] <= written[q]
    BY RetentionAssumption DEF TypeOKRetention
  <2>3. \A n \in Name : seen'[r][n] = 0 BY <2>1 DEF NoTimes
  <2> QED BY <2>1, <2>2, <2>3 DEF ReadBy
<1>5. CASE StatLog(r)
  <2>1. PICK n \in todo[r] :
          seen' = [seen EXCEPT ![r][n] = IF n \in Files THEN written[n[1]] ELSE 0]
    BY <1>5 DEF StatLog
  <2>2. n \in Name /\ n[1] \in Run BY Names DEF TypeOKRetention
  <2>3. /\ seen'[r][n] = IF n \in Files THEN written[n[1]] ELSE 0
        /\ \A m \in Name : m # n => seen'[r][m] = seen[r][m]
    BY <2>1, <2>2 DEF TypeOKRetention
  <2>4. before' = before /\ written' = written BY <1>5 DEF StatLog
  <2>5. ASSUME seen'[r][n] # 0
        PROVE  /\ before[r][n[1]] <= seen'[r][n] /\ seen'[r][n] <= written[n[1]]
               /\ \A q \in Run : q # n[1] => written[q] # seen'[r][n]
    <3>1. seen'[r][n] = written[n[1]] /\ written[n[1]] # 0 BY <2>3, <2>5
    <3>2. written[n[1]] <= written[n[1]] /\ before[r][n[1]] <= written[n[1]]
      BY <1>3, <2>2, RetentionAssumption DEF TypeOKRetention, ReadBy
    <3>3. \A q \in Run : q # n[1] => written[q] # written[n[1]]
      BY <2>2, <3>1 DEF Times
    <3> QED BY <3>1, <3>2, <3>3
  <2>6. \A q \in Run : before[r][q] <= written[q] BY <1>3 DEF ReadBy
  <2>7. ASSUME NEW m \in Name, seen'[r][m] # 0
        PROVE  /\ before[r][m[1]] <= seen'[r][m] /\ seen'[r][m] <= written[m[1]]
               /\ \A q \in Run : q # m[1] => written[q] # seen'[r][m]
    <3>1. CASE m = n BY <2>5, <2>7, <3>1
    <3>2. CASE m # n
      <4>1. seen'[r][m] = seen[r][m] BY <2>3, <3>2
      <4> QED BY <1>3, <2>7, <4>1 DEF ReadBy
    <3> QED BY <3>1, <3>2
  <2>8. ASSUME NEW m \in Name, NEW k \in Name, seen'[r][m] # 0, m[1] # k[1],
               seen'[r][m] = seen'[r][k]
        PROVE  FALSE
    <3>1. CASE m = n
      <4>1. seen'[r][k] = seen[r][k] BY <2>3, <2>8, <3>1
      <4>2. seen[r][k] # 0 /\ seen[r][k] = written[n[1]] BY <2>3, <2>8, <3>1, <4>1
      <4> QED BY <1>3, <2>2, <2>8, <3>1, <4>2 DEF ReadBy
    <3>2. CASE k = n
      <4>1. seen'[r][m] = seen[r][m] BY <2>3, <2>8, <3>2
      <4>2. seen[r][m] # 0 /\ seen[r][m] = written[n[1]] BY <2>3, <2>8, <3>2, <4>1
      <4> QED BY <1>3, <2>2, <2>8, <3>2, <4>2 DEF ReadBy
    <3>3. CASE m # n /\ k # n BY <1>3, <2>3, <2>8, <3>3 DEF ReadBy
    <3> QED BY <3>1, <3>2, <3>3
  <2> QED BY <2>4, <2>6, <2>7, <2>8 DEF ReadBy
<1>6. CASE SortLogs(r) \/ RemoveLog(r)
  BY <1>3, <1>6 DEF SortLogs, RemoveLog, ReadBy
<1>7. CASE OpenLog(r) \/ OpenFails(r) \/ EndRun(r)
  BY <1>7, ReadEnds DEF OpenLog, OpenFails, EndRun
<1> QED BY <1>2, <1>4, <1>5, <1>6, <1>7

-----------------------------------------------------------------------------
\* A run accounts for the file of q as before, if that keeps its name ...
LEMMA CoveredStill ==
  ASSUME NEW r \in Run, NEW q \in Run, CoveredBy(r, q), Untouched(r),
         pc'[r] = pc[r] \/ pc'[r] \notin Looking,
         there'[q] => there[q], label'[q] = label[q], extra[r] \subseteq extra'[r]
  PROVE  CoveredBy(r, q)'
<1>1. CASE pc'[r] \notin Looking BY <1>1 DEF CoveredBy
<1>2. CASE pc'[r] = pc[r]
  <2>1. NameOf(q)' = NameOf(q) BY DEF NameOf
  <2>2. Excess(r)' = Excess(r) BY ExcessSame DEF Untouched
  <2> QED BY <1>2, <2>1, <2>2 DEF CoveredBy, Untouched
<1> QED BY <1>1, <1>2

\* ... and if it is told of a file that comes.
LEMMA CoveredComes ==
  ASSUME TypeOKRetention, NEW q \in Run, Comes(q), NEW r \in Run \ {q}, pc'[r] = pc[r]
  PROVE  CoveredBy(r, q)' /\ (pc[r] \in Looking => extra[r] \subseteq extra'[r])
BY ComesDoes DEF CoveredBy

\* A file comes, or gets its name, and the others keep theirs.
LEMMA CoveredOthers ==
  ASSUME TypeOKRetention, Covered, NEW r \in Run, Comes(r), pc'[r] \notin Looking,
         \A q \in Run \ {r} : /\ pc'[q] = pc[q] /\ Untouched(q)
                              /\ there'[q] = there[q] /\ label'[q] = label[q]
  PROVE  Covered'
<1>1. SUFFICES ASSUME NEW p \in Run, NEW q \in Run PROVE CoveredBy(p, q)'
  BY DEF Covered
<1>2. CASE p = r BY <1>2 DEF CoveredBy
<1>3. CASE p # r /\ q = r BY <1>3, CoveredComes
<1>4. CASE p # r /\ q # r
  <2>1. CASE pc[p] \in Looking
    <3>1. extra[p] \subseteq extra'[p] BY <1>4, <2>1, CoveredComes
    <3>2. CoveredBy(p, q) BY DEF Covered
    <3> QED BY <1>4, <3>1, <3>2, CoveredStill
  <2>2. CASE pc[p] \notin Looking BY <1>4, <2>2 DEF CoveredBy
  <2> QED BY <2>1, <2>2
<1> QED BY <1>2, <1>3, <1>4

\* Every step keeps all files accounted for.
LEMMA CoveredKept ==
  ASSUME TypeOKRetention, TypeOKRetention', Times, Listed, Covered,
         [NextRetention]_retentionVars
  PROVE  Covered'
<1>0. CASE UNCHANGED retentionVars
  <2>1. \A q \in Run : Untouched(q) BY <1>0 DEF retentionVars, listVars, Untouched
  <2> QED BY <1>0, <2>1, CoveredStill DEF Covered, retentionVars
<1> SUFFICES ASSUME NEW r \in Run,
                    \/ ListLogs(r) \/ StatLog(r) \/ SortLogs(r) \/ RemoveLog(r) \/ OpenLog(r)
                    \/ OpenFails(r) \/ WriteLog(r) \/ RelabelUnmade(r) \/ CloseToRelabel(r)
                    \/ RenameLog(r) \/ Reopen(r) \/ EndRun(r)
             PROVE  Covered'
  BY <1>0 DEF NextRetention
<1>1. CASE WriteLog(r) \/ CloseToRelabel(r)
  <2>1. there' = there /\ label' = label /\ extra' = extra
    BY <1>1 DEF WriteLog, CloseToRelabel
  <2> QED BY <1>1, <2>1, RunsUntouched, CoveredStill DEF Covered
<1>2. CASE RelabelUnmade(r)
  <2>1. /\ ~ there[r] /\ there' = there /\ extra' = extra
        /\ \A q \in Run \ {r} : label'[q] = label[q]
    BY <1>2 DEF RelabelUnmade, Times, TypeOKRetention
  <2>2. SUFFICES ASSUME NEW p \in Run, NEW q \in Run PROVE CoveredBy(p, q)'
    BY DEF Covered
  <2>3. CASE q = r BY <2>1, <2>3 DEF CoveredBy
  <2>4. CASE q # r BY <1>2, <2>1, <2>4, RunsUntouched, CoveredStill DEF Covered
  <2> QED BY <2>3, <2>4
<1>3. CASE RenameLog(r) \/ Reopen(r)
  <2>1. /\ pc'[r] \notin Looking
        /\ \A q \in Run : Untouched(q) /\ (q # r => pc'[q] = pc[q])
    <3>1. pc'[r] \in {"renamed", "writing"}
      BY <1>3 DEF RenameLog, Reopen, TypeOKRetention
    <3> QED BY <1>3, <3>1, RunsUntouched DEF Looking
  <2>2. CASE Comes(r)
    <3>1. \A q \in Run \ {r} : there'[q] = there[q] /\ label'[q] = label[q]
      BY <1>3 DEF RenameLog, Reopen, TypeOKRetention
    <3> QED BY <2>1, <2>2, <3>1, CoveredOthers
  <2>3. CASE there' = there /\ label' = label /\ extra' = extra
    BY <2>1, <2>3, CoveredStill DEF Covered
  <2> QED BY <1>3, <2>2, <2>3 DEF RenameLog, Reopen
<1>4. CASE OpenLog(r)
  <2>1. pc'[r] = "writing" /\ \A q \in Run \ {r} : pc'[q] = pc[q] /\ Untouched(q)
    BY <1>4, EndsDoes DEF OpenLog
  <2>2. Comes(r) /\ label' = label /\ \A q \in Run \ {r} : there'[q] = there[q]
    BY <1>4 DEF OpenLog, TypeOKRetention
  <2> QED BY <2>1, <2>2, CoveredOthers DEF Looking
<1>5. CASE OpenFails(r) \/ EndRun(r)
  <2>1. pc'[r] = "done" /\ \A q \in Run \ {r} : pc'[q] = pc[q] /\ Untouched(q)
    BY <1>5, EndsDoes DEF OpenFails, EndRun
  <2>2. there' = there /\ label' = label /\ extra' = extra BY <1>5 DEF OpenFails, EndRun
  <2>3. SUFFICES ASSUME NEW p \in Run, NEW q \in Run PROVE CoveredBy(p, q)'
    BY DEF Covered
  <2>4. CASE p = r BY <2>1, <2>4 DEF CoveredBy, Looking
  <2>5. CASE p # r BY <2>1, <2>2, <2>5, CoveredStill DEF Covered
  <2> QED BY <2>4, <2>5
<1>6. ASSUME ListLogs(r) \/ StatLog(r) \/ SortLogs(r) \/ RemoveLog(r)
      PROVE  \A p \in Run \ {r}, q \in Run : CoveredBy(p, q)'
  <2>1. CASE RemoveLog(r)
    <3>1. PICK n \in victims[r] : there' = [there EXCEPT ![n[1]] = @ /\ ~ Removable(n)]
      BY <2>1 DEF RemoveLog
    <3>2. \A q \in Run : there'[q] => there[q] BY <3>1 DEF TypeOKRetention
    <3>3. label' = label /\ \A p \in Run \ {r} : extra'[p] = extra[p]
      BY <2>1 DEF RemoveLog, TypeOKRetention
    <3> QED BY <2>1, <3>2, <3>3, OthersUntouched, CoveredStill DEF Covered
  <2>2. CASE ListLogs(r) \/ StatLog(r) \/ SortLogs(r)
    <3>1. there' = there /\ label' = label /\ \A p \in Run \ {r} : extra'[p] = extra[p]
      BY <2>2 DEF ListLogs, StatLog, SortLogs, TypeOKRetention
    <3> QED BY <2>2, <3>1, OthersUntouched, CoveredStill DEF Covered
  <2> QED BY <1>6, <2>1, <2>2
<1> SUFFICES ASSUME ListLogs(r) \/ StatLog(r) \/ SortLogs(r) \/ RemoveLog(r), NEW q \in Run
             PROVE  CoveredBy(r, q)'
  BY <1>1, <1>2, <1>3, <1>4, <1>5, <1>6 DEF Covered
<1>7. CoveredBy(r, q) BY DEF Covered
<1>8. CASE ListLogs(r)
  <2>1. todo'[r] = Files /\ there' = there /\ label' = label
    BY <1>8 DEF ListLogs, TypeOKRetention
  <2> QED BY <2>1, Names DEF CoveredBy, NameOf
<1>9. CASE StatLog(r)
  <2>1. PICK n \in todo[r] :
          /\ todo' = [todo EXCEPT ![r] = @ \ {n}]
          /\ seen' = [seen EXCEPT ![r][n] = IF n \in Files THEN written[n[1]] ELSE 0]
    BY <1>9 DEF StatLog
  <2>2. n \in Name BY DEF TypeOKRetention
  <2>3. /\ todo'[r] = todo[r] \ {n}
        /\ seen'[r][n] = IF n \in Files THEN written[n[1]] ELSE 0
        /\ \A m \in Name : m # n => seen'[r][m] = seen[r][m]
    BY <2>1, <2>2 DEF TypeOKRetention
  <2>4. /\ pc[r] = "listing" /\ pc' = pc /\ extra' = extra /\ there' = there
        /\ NameOf(q)' = NameOf(q)
    BY <1>9 DEF StatLog, NameOf
  <2>5. CASE NameOf(q) = n
    <3>1. there[q] => n \in Files /\ written[n[1]] # 0 BY <2>5, Names DEF Times
    <3> QED BY <2>3, <2>4, <2>5, <3>1 DEF CoveredBy
  <2>6. CASE NameOf(q) # n
    <3>1. NameOf(q) \in Name BY Names
    <3> QED BY <1>7, <2>3, <2>4, <2>6, <3>1 DEF CoveredBy
  <2> QED BY <2>5, <2>6
<1>10. CASE SortLogs(r)
  <2>1. /\ pc[r] = "listing" /\ todo[r] = {} /\ todo' = todo /\ seen' = seen
        /\ victims'[r] = Excess(r) /\ extra' = extra /\ there' = there
        /\ NameOf(q)' = NameOf(q)
    BY <1>10 DEF SortLogs, NameOf, TypeOKRetention
  <2>2. Excess(r)' = Excess(r) BY <2>1, ExcessSame
  <2> QED BY <1>7, <2>1, <2>2 DEF CoveredBy, Looking
<1>11. CASE RemoveLog(r)
  <2>1. PICK n \in victims[r] :
          /\ victims' = [victims EXCEPT ![r] = @ \ {n}]
          /\ there' = [there EXCEPT ![n[1]] = @ /\ ~ Removable(n)]
          /\ extra' = [extra EXCEPT ![r] =
                         IF n \in Files /\ ~ Removable(n) THEN @ \cup {n[1]} ELSE @]
    BY <1>11 DEF RemoveLog
  <2>2. n \in Name /\ n[1] \in Run BY Names DEF TypeOKRetention
  <2>3. (there'[q] => there[q]) /\ (there'[q] /\ q = n[1] => ~ Removable(n))
    BY <2>1, <2>2 DEF TypeOKRetention
  <2>4. extra'[r] = IF n \in Files /\ ~ Removable(n) THEN extra[r] \cup {n[1]} ELSE extra[r]
    BY <2>1 DEF TypeOKRetention
  <2>5. /\ victims'[r] = victims[r] \ {n} /\ extra[r] \subseteq extra'[r]
        /\ n \in Files /\ ~ Removable(n) => n[1] \in extra'[r]
    BY <2>1, <2>4 DEF TypeOKRetention
  <2>6. /\ pc[r] = "removing" /\ pc' = pc /\ todo' = todo /\ seen' = seen
        /\ NameOf(q)' = NameOf(q)
    BY <1>11 DEF RemoveLog, NameOf
  <2>7. Excess(r)' = Excess(r) BY <2>6, ExcessSame
  <2>8. CASE NameOf(q) = n
    <3>1. q = n[1] /\ (there[q] => n \in Files) BY <2>8, Names
    <3>2. there'[q] => q \in extra'[r] BY <2>3, <2>5, <3>1
    <3> QED BY <3>2 DEF CoveredBy
  <2>9. CASE NameOf(q) # n
    BY <1>7, <2>3, <2>5, <2>6, <2>7, <2>9 DEF CoveredBy
  <2> QED BY <2>8, <2>9
<1> QED BY <1>8, <1>9, <1>10, <1>11

\* Every step keeps the invariant, which holds from the start.
LEMMA NextRetentionInv == RetentionInv /\ [NextRetention]_retentionVars => RetentionInv'
<1> SUFFICES ASSUME RetentionInv, [NextRetention]_retentionVars PROVE RetentionInv'
  OBVIOUS
<1>1. TypeOKRetention /\ Times /\ Listed /\ Stamps /\ Covered BY DEF RetentionInv
<1>2. TypeOKRetention' BY <1>1, RetentionTypesKept
<1>3. Times' /\ Listed' BY <1>1, TimesKept, ListedKept
<1>4. Stamps' /\ Covered' BY <1>1, <1>2, StampsKept, CoveredKept
<1> QED BY <1>2, <1>3, <1>4 DEF RetentionInv

\* The invariant holds of every state of the directory and its runs.
THEOREM RetentionInvHolds == SpecRetention => []RetentionInv
BY InitRetentionInv, NextRetentionInv, PTL DEF SpecRetention

-----------------------------------------------------------------------------
\* The files that r looked at and leaves.
Left(r) == {n \in Name : seen[r][n] # 0 /\ n \notin Excess(r)}

\* They are as few as they should be: the numbers of newer files are all different, as
\* no two files have the same time.
LEMMA FewLeft ==
  ASSUME RetentionInv, NEW r \in Run
  PROVE  IsFiniteSet(Left(r)) /\ Cardinality(Left(r)) <= KeepLogs - 1
<1> DEFINE N(n) == Cardinality(Newer(r, n))
           f == [n \in Left(r) |-> N(n)]
<1>1. TypeOKRetention /\ ListedBy(r) /\ ReadBy(r)
  BY DEF RetentionInv, Listed, Stamps
<1>2. KeepLogs \in Nat /\ KeepLogs > 0 BY RetentionAssumption
<1>3. \A n : IsFiniteSet(Newer(r, n)) /\ N(n) \in Nat
  <2>1. \A n : Newer(r, n) \subseteq Name BY DEF Newer
  <2> QED BY <2>1, NamesFinite, FS_Subset, FS_CardinalityType
<1>4. ASSUME NEW n \in Left(r) PROVE N(n) \in 0 .. KeepLogs - 2
  <2>1. ~ (N(n) >= KeepLogs - 1) BY DEF Left, Excess
  <2> QED BY <1>2, <1>3, <2>1
<1>5. ASSUME NEW n \in Left(r), NEW m \in Left(r), seen[r][n] < seen[r][m] PROVE N(m) < N(n)
  <2>1. n \in Name /\ m \in Name /\ seen[r][n] \in Nat /\ seen[r][m] \in Nat
    BY <1>1, RetentionAssumption DEF Left, TypeOKRetention
  <2>2. \A k \in Name : seen[r][k] \in Nat
    BY <1>1, RetentionAssumption DEF TypeOKRetention
  <2>3. Newer(r, m) \subseteq Newer(r, n) BY <1>5, <2>1, <2>2 DEF Newer
  <2>4. m \in Newer(r, n) /\ m \notin Newer(r, m) BY <1>5, <2>1 DEF Newer
  <2>5. N(m) <= N(n) /\ N(m) # N(n) BY <1>3, <2>3, <2>4, FS_Subset
  <2> QED BY <1>3, <2>5
<1>6. ASSUME NEW n \in Left(r), NEW m \in Left(r), N(n) = N(m) PROVE n = m
  <2>1. /\ n \in Name /\ m \in Name /\ seen[r][n] \in Nat /\ seen[r][m] \in Nat
        /\ seen[r][n] # 0 /\ seen[r][m] # 0
    BY <1>1, RetentionAssumption DEF Left, TypeOKRetention
  <2>2. seen[r][n] = seen[r][m]
    <3>1. ~ (seen[r][n] < seen[r][m]) /\ ~ (seen[r][m] < seen[r][n])
      BY <1>3, <1>5, <1>6
    <3> QED BY <2>1, <3>1
  <2>3. n[1] = m[1] BY <1>1, <2>1, <2>2 DEF ReadBy
  <2> QED BY <1>1, <2>1, <2>3 DEF ListedBy, Known
<1>7. f \in Injection(Left(r), 0 .. KeepLogs - 2)
  <2>1. f \in [Left(r) -> 0 .. KeepLogs - 2] BY <1>4
  <2>2. \A n, m \in Left(r) : f[n] = f[m] => n = m BY <1>6
  <2> QED BY <2>1, <2>2, Fun_IsInj
<1>8. /\ IsFiniteSet(0 .. KeepLogs - 2)
      /\ Cardinality(0 .. KeepLogs - 2) = KeepLogs - 1
  <2>1. 0 \in Int /\ KeepLogs - 2 \in Int BY <1>2
  <2> QED BY <1>2, <2>1, FS_Interval
<1> HIDE DEF f
<1> QED BY <1>7, <1>8, FS_Injection

\* The names of some runs are no more than the runs.
LEMMA NamesOf ==
  ASSUME NEW S, IsFiniteSet(S)
  PROVE  /\ IsFiniteSet({NameOf(q) : q \in S})
         /\ Cardinality({NameOf(q) : q \in S}) <= Cardinality(S)
<1> DEFINE T == {NameOf(q) : q \in S}
           f == [q \in S |-> NameOf(q)]
<1>1. f \in Surjection(S, T) BY DEF Surjection
<1> HIDE DEF f, T
<1>2. IsFiniteSet(T) /\ Cardinality(T) <= Cardinality(S) BY <1>1, FS_Surjection
<1> QED BY <1>2 DEF T

\* Who makes its file has removed the excess.
LEMMA OpensIsOpen ==
  ASSUME TypeOKRetention, [NextRetention]_retentionVars, NEW r \in Run, Opens(r)
  PROVE  OpenLog(r)
<1>1. pc[r] = "removing" /\ pc'[r] = "writing" BY DEF Opens
<1>2. ~ UNCHANGED retentionVars BY <1>1 DEF retentionVars
<1>3. PICK q \in Run :
        \/ ListLogs(q) \/ StatLog(q) \/ SortLogs(q) \/ RemoveLog(q) \/ OpenLog(q)
        \/ OpenFails(q) \/ WriteLog(q) \/ RelabelUnmade(q) \/ CloseToRelabel(q)
        \/ RenameLog(q) \/ Reopen(q) \/ EndRun(q)
  BY <1>2 DEF NextRetention
<1>4. q = r
  <2>1. CASE WriteLog(q) \/ RelabelUnmade(q) \/ CloseToRelabel(q) \/ RenameLog(q) \/ Reopen(q)
    BY <1>1, <2>1, RunsUntouched DEF Looking
  <2>2. CASE \/ ListLogs(q) \/ StatLog(q) \/ SortLogs(q) \/ RemoveLog(q) \/ OpenLog(q)
             \/ OpenFails(q) \/ EndRun(q)
    BY <1>1, <2>2, OthersUntouched
  <2> QED BY <1>3, <2>1, <2>2
<1>5. pc' # pc BY <1>1
<1>6. OpenFails(r) \/ EndRun(r) => pc'[r] = "done" BY EndsDoes DEF OpenFails, EndRun
<1> QED
  BY <1>1, <1>3, <1>4, <1>5, <1>6
  DEF ListLogs, StatLog, SortLogs, RemoveLog, WriteLog, RelabelUnmade, CloseToRelabel,
      RenameLog, Reopen

\* Then the directory holds its own file, those it was told of, and those it left.
LEMMA FewFiles ==
  ASSUME RetentionInv, NEW r \in Run, OpenLog(r)
  PROVE  Cardinality(Files') <= KeepLogs + Cardinality(extra[r])
<1> DEFINE Come == {NameOf(q) : q \in extra[r]}
<1>1. TypeOKRetention /\ Covered /\ Listed BY DEF RetentionInv
<1>2. /\ pc[r] = "removing" /\ victims[r] = {} /\ todo[r] = {} /\ label' = label
      /\ \A q \in Run \ {r} : there'[q] = there[q]
  BY <1>1 DEF OpenLog, TypeOKRetention, Listed, ListedBy
<1>3. Files' \subseteq (Left(r) \cup Come) \cup {NameOf(r)}
  <2>1. SUFFICES ASSUME NEW q \in Run, there'[q], q # r PROVE NameOf(q) \in Left(r) \cup Come
    BY <1>2 DEF Files, NameOf
  <2>2. there[q] /\ NameOf(q) \in Name BY <1>1, <1>2, <2>1, Names
  <2>3. CASE q \in extra[r] BY <2>3
  <2>4. CASE q \notin extra[r]
    <3>1. seen[r][NameOf(q)] # 0 /\ NameOf(q) \notin Excess(r)
      BY <1>1, <1>2, <2>2, <2>4 DEF Covered, CoveredBy, Looking
    <3> QED BY <2>2, <3>1 DEF Left
  <2> QED BY <2>3, <2>4
<1>4. IsFiniteSet(Left(r)) /\ Cardinality(Left(r)) <= KeepLogs - 1 BY FewLeft
<1>5. IsFiniteSet(extra[r])
  <2>1. extra[r] \subseteq Run BY <1>1 DEF TypeOKRetention
  <2> QED BY <2>1, RetentionAssumption, FS_Subset
<1>6. IsFiniteSet(Come) /\ Cardinality(Come) <= Cardinality(extra[r]) BY <1>5, NamesOf
<1> HIDE DEF Come
<1>7. /\ IsFiniteSet(Left(r) \cup Come)
      /\ Cardinality(Left(r) \cup Come) <= Cardinality(Left(r)) + Cardinality(Come)
  <2>1. IsFiniteSet(Left(r) \cap Come) BY <1>4, FS_Subset
  <2>2. Cardinality(Left(r) \cap Come) \in Nat BY <2>1, FS_CardinalityType
  <2>3. Cardinality(Left(r)) \in Nat /\ Cardinality(Come) \in Nat
    BY <1>4, <1>6, FS_CardinalityType
  <2>4. /\ IsFiniteSet(Left(r) \cup Come)
        /\ Cardinality(Left(r) \cup Come) =
             Cardinality(Left(r)) + Cardinality(Come) - Cardinality(Left(r) \cap Come)
    BY <1>4, <1>6, FS_Union
  <2> QED BY <2>2, <2>3, <2>4
<1> DEFINE All == (Left(r) \cup Come) \cup {NameOf(r)}
<1>8. IsFiniteSet(All) /\ Cardinality(All) <= Cardinality(Left(r) \cup Come) + 1
  <2>1. Cardinality(Left(r) \cup Come) \in Nat BY <1>7, FS_CardinalityType
  <2>2. /\ IsFiniteSet(All)
        /\ Cardinality(All) = IF NameOf(r) \in Left(r) \cup Come THEN Cardinality(Left(r) \cup Come)
                              ELSE Cardinality(Left(r) \cup Come) + 1
    BY <1>7, FS_AddElement
  <2> QED BY <2>1, <2>2
<1>9. IsFiniteSet(Files') /\ Cardinality(Files') <= Cardinality(All) BY <1>3, <1>8, FS_Subset
<1>10. /\ Cardinality(Left(r)) \in Nat /\ Cardinality(Come) \in Nat
       /\ Cardinality(Left(r) \cup Come) \in Nat /\ Cardinality(All) \in Nat
       /\ Cardinality(Files') \in Nat /\ Cardinality(extra[r]) \in Nat
       /\ KeepLogs \in Nat
  BY <1>4, <1>5, <1>6, <1>7, <1>8, <1>9, FS_CardinalityType, RetentionAssumption
<1> QED BY <1>4, <1>6, <1>7, <1>8, <1>9, <1>10

\* A run that makes its file leaves no more than `keep` files, but for those that came
\* since it listed them and those it could not remove, for any number of runs that do so
\* at once.
THEOREM FewCorrect == SpecRetention => KeepsFew
<1> DEFINE Few == \A r \in Run : Opens(r) =>
             Cardinality(Files') <= KeepLogs + Cardinality(extra[r])
<1>1. RetentionInv /\ [NextRetention]_retentionVars => [Few]_retentionVars
  <2>1. RetentionInv => TypeOKRetention BY DEF RetentionInv
  <2> QED BY <2>1, OpensIsOpen, FewFiles
<1> QED BY <1>1, RetentionInvHolds, PTL DEF SpecRetention, KeepsFew

-----------------------------------------------------------------------------
\* A file only goes when a run removes it.
LEMMA RemovesIsRemove ==
  ASSUME TypeOKRetention, [NextRetention]_retentionVars, NEW r \in Run, NEW q \in Run,
         Removes(r, q)
  PROVE  \E n \in victims[r] : n[1] = q
<1>1. there[q] /\ ~ there'[q] /\ victims'[r] # victims[r] BY DEF Removes
<1>2. ~ UNCHANGED retentionVars BY <1>1 DEF retentionVars
<1>3. PICK p \in Run :
        \/ ListLogs(p) \/ StatLog(p) \/ SortLogs(p) \/ RemoveLog(p) \/ OpenLog(p)
        \/ OpenFails(p) \/ WriteLog(p) \/ RelabelUnmade(p) \/ CloseToRelabel(p)
        \/ RenameLog(p) \/ Reopen(p) \/ EndRun(p)
  BY <1>2 DEF NextRetention
<1>4. RemoveLog(p)
  <2>1. CASE \/ ListLogs(p) \/ StatLog(p) \/ SortLogs(p) \/ OpenFails(p) \/ WriteLog(p)
             \/ RelabelUnmade(p) \/ CloseToRelabel(p) \/ RenameLog(p) \/ EndRun(p)
    <3>1. there' = there
      BY <2>1 DEF ListLogs, StatLog, SortLogs, OpenFails, WriteLog, RelabelUnmade,
                  CloseToRelabel, RenameLog, EndRun
    <3> QED BY <1>1, <3>1
  <2>2. CASE OpenLog(p) \/ Reopen(p)
    <3>1. there' = there \/ there' = [there EXCEPT ![p] = TRUE]
      BY <2>2 DEF OpenLog, Reopen
    <3> QED BY <1>1, <3>1 DEF TypeOKRetention
  <2> QED BY <1>3, <2>1, <2>2
<1>5. PICK n \in victims[p] : /\ victims' = [victims EXCEPT ![p] = @ \ {n}]
                              /\ there' = [there EXCEPT ![n[1]] = @ /\ ~ Removable(n)]
  BY <1>4 DEF RemoveLog
<1>6. p = r BY <1>1, <1>5 DEF TypeOKRetention
<1>7. n[1] = q BY <1>1, <1>5 DEF TypeOKRetention
<1> QED BY <1>5, <1>6, <1>7

\* What is in excess has as many later files as are kept, each of another run, which
\* wrote later than that of this file when the directory was listed.
LEMMA ManyLater ==
  ASSUME RetentionInv, NEW r \in Run, NEW n \in victims[r]
  PROVE  Cardinality({p \in Run \ {n[1]} : written[p] > before[r][n[1]]}) >= KeepLogs - 1
<1> DEFINE Later == {p \in Run \ {n[1]} : written[p] > before[r][n[1]]}
           f == [m \in Newer(r, n) |-> m[1]]
<1>1. TypeOKRetention /\ ListedBy(r) /\ ReadBy(r)
  BY DEF RetentionInv, Listed, Stamps
<1>2. n \in Name /\ n[1] \in Run /\ seen[r][n] # 0 /\ Cardinality(Newer(r, n)) >= KeepLogs - 1
  BY <1>1, Names DEF ListedBy, Excess
<1>3. /\ \A m \in Name : seen[r][m] \in Nat
      /\ \A q \in Run : written[q] \in Nat /\ before[r][q] \in Nat
  BY <1>1, RetentionAssumption DEF TypeOKRetention
<1>4. ASSUME NEW m \in Newer(r, n) PROVE m \in Name /\ m \in Known(r) /\ m[1] \in Later
  <2>1. m \in Name /\ m[1] \in Run /\ seen[r][m] > seen[r][n] BY <1>1, Names DEF Newer
  <2>2. seen[r][m] # 0 /\ m # n BY <1>2, <1>3, <2>1
  <2>3. m \in Known(r) /\ n \in Known(r) BY <1>2, <2>1, <2>2 DEF Known
  <2>4. m[1] # n[1] BY <1>1, <2>2, <2>3 DEF ListedBy
  <2>5. before[r][n[1]] <= seen[r][n] /\ seen[r][m] <= written[m[1]]
    BY <1>1, <1>2, <2>1, <2>2 DEF ReadBy
  <2>6. written[m[1]] > before[r][n[1]] BY <1>2, <1>3, <2>1, <2>5
  <2> QED BY <2>1, <2>3, <2>4, <2>6
<1>5. \A m, k \in Newer(r, n) : m[1] = k[1] => m = k BY <1>1, <1>4 DEF ListedBy
<1>6. f \in Injection(Newer(r, n), Later)
  <2>1. f \in [Newer(r, n) -> Later] BY <1>4
  <2>2. \A m, k \in Newer(r, n) : f[m] = f[k] => m = k BY <1>5
  <2> HIDE DEF f, Later
  <2> QED BY <2>1, <2>2, Fun_IsInj
<1>7. IsFiniteSet(Later)
  <2>1. Later \subseteq Run OBVIOUS
  <2> HIDE DEF Later
  <2> QED BY <2>1, RetentionAssumption, FS_Subset
<1> HIDE DEF f, Later
<1>8. IsFiniteSet(Newer(r, n)) /\ Cardinality(Newer(r, n)) <= Cardinality(Later)
  BY <1>6, <1>7, FS_Injection
<1>9. Cardinality(Newer(r, n)) \in Nat /\ Cardinality(Later) \in Nat /\ KeepLogs \in Nat
  BY <1>7, <1>8, FS_CardinalityType, RetentionAssumption
<1>10. Cardinality(Later) >= KeepLogs - 1 BY <1>2, <1>8, <1>9
<1> QED BY <1>10 DEF Later

\* A log is removed only after `keep` - 1 other runs wrote later than its run had when
\* the directory was listed, whatever others remove, write or rename meanwhile.
THEOREM OutlivedCorrect == SpecRetention => OutlivedByMany
<1> DEFINE Many == \A r, q \in Run : Removes(r, q) =>
             Cardinality({p \in Run \ {q} : written[p] > before[r][q]}) >= KeepLogs - 1
<1>1. RetentionInv /\ [NextRetention]_retentionVars => [Many]_retentionVars
  <2>1. RetentionInv => TypeOKRetention BY DEF RetentionInv
  <2> QED BY <2>1, RemovesIsRemove, ManyLater
<1> QED BY <1>1, RetentionInvHolds, PTL DEF SpecRetention, OutlivedByMany

\* The directory, the runs and what they know of it keep their types.
THEOREM RetentionTypeCorrect == SpecRetention => []TypeOKRetention
<1>1. RetentionInv => TypeOKRetention BY DEF RetentionInv
<1> QED BY <1>1, RetentionInvHolds, PTL
=============================================================================
