------------------------- MODULE ConsoleOutput_proofs -------------------------
(***************************************************************************)
(* That output comes in order and the display is hidden when it must be,   *)
(* for any number of threads, records and displays, and wherever a signal  *)
(* handler comes in between.                                               *)
(***************************************************************************)
EXTENDS ConsoleOutput, TLAPS

-----------------------------------------------------------------------------
(***************************************************************************)
(* Operations, items, and sequences of them, element by element.           *)
(***************************************************************************)

\* The first operation of s is op, with one of next after it; what an operation hands over.
At(s, op) == Len(s) > 0 /\ s[1].op = op
AtBefore(s, op, next) == At(s, op) /\ Len(s) > 1 /\ s[2].op \in next
HandsRecord(o) == o.op = "hand" /\ o.what = "record"
HandsShow(o) == o.op = "hand" /\ o.what = "show"
HandsHide(o) == o.op = "hand" /\ o.what = "hide"

\* z is s without its first element, with another one, or with x at its end.
Dropped(z, s) ==
  Len(z) = Len(s) - 1 /\ \A i \in 1 .. Len(z) : z[i] = s[i + 1]
Swapped(z, s, x) ==
  Len(z) = Len(s) /\ z[1] = x /\ \A i \in 2 .. Len(s) : z[i] = s[i]
Grown(z, s, x) ==
  /\ Len(z) = Len(s) + 1 /\ z[Len(z)] = x
  /\ \A i \in 1 .. Len(s) : z[i] = s[i]

\* An operation is one of these.
LEMMA OpTypes ==
  ASSUME NEW o \in Op
  PROVE  /\ o.op \in {"hand", "flush", "wait", "write", "ask", "arm", "exit"}
         /\ o.op = "hand" => o.what \in {"record", "show", "hide"}
         /\ HandsShow(o) \/ HandsHide(o) => o.arg \in Display
         /\ o.op \in {"flush", "wait"} => o.timed \in BOOLEAN
         /\ o.op = "wait" => o.event \in Event
         /\ o.op = "write" => o.after \in Nat
         /\ o.op = "exit" => o = Exit
BY DEF Op, HandsShow, HandsHide, Exit

\* The operations that threads begin with are operations.
LEMMA OpsAreTyped ==
  /\ Hand("record", 0) \in Op
  /\ \A d \in Display : Hand("show", d) \in Op /\ Hand("hide", d) \in Op
  /\ Flush \in Op /\ TimedFlush \in Op /\ Ask \in Op /\ Arm \in Op /\ Exit \in Op
  /\ \A e \in Event, b \in BOOLEAN : Wait(e, b) \in Op
  /\ \A n \in Nat : Write(n) \in Op
BY DEF Op, Hand, Flush, TimedFlush, Ask, Arm, Exit, Wait, Write

\* An item of the queue is one of these.
LEMMA ItemTypes ==
  ASSUME NEW x \in Item
  PROVE  /\ x.what \in {"record", "set", "show", "hide"}
         /\ x.what = "record" => x.arg \in Nat
         /\ x.what = "set" => x.arg \in Event
         /\ x.what \in {"show", "hide"} => x.arg \in Display
BY DEF Item

\* The tail of a sequence is the sequence without its first element.
LEMMA TailDrops ==
  ASSUME NEW S, NEW s \in Seq(S), s # <<>>
  PROVE  /\ Len(s) \in Nat /\ Len(s) > 0 /\ Head(s) = s[1]
         /\ Tail(s) \in Seq(S) /\ Dropped(Tail(s), s)
         /\ <<>> \o Tail(s) \in Seq(S) /\ Dropped(<<>> \o Tail(s), s)
BY DEF Dropped

\* Another element takes the place of the first.
LEMMA HeadSwaps ==
  ASSUME NEW S, NEW s \in Seq(S), s # <<>>, NEW x \in S
  PROVE  <<x>> \o Tail(s) \in Seq(S) /\ Swapped(<<x>> \o Tail(s), s, x)
BY DEF Swapped

\* An appended element is the last.
LEMMA AppendGrows ==
  ASSUME NEW S, NEW s \in Seq(S), NEW x \in S
  PROVE  Append(s, x) \in Seq(S) /\ Grown(Append(s, x), s, x)
BY DEF Grown

\* Four operations on top push the others down by four.
LEMMA FourOnTop ==
  ASSUME NEW S, NEW s \in Seq(S), NEW a \in S, NEW b \in S, NEW c \in S, NEW d \in S,
         NEW z, z = <<a, b, c, d>> \o s
  PROVE  /\ z \in Seq(S) /\ Len(z) = Len(s) + 4
         /\ z[1] = a /\ z[2] = b /\ z[3] = c /\ z[4] = d
         /\ \A i \in 1 .. Len(s) : z[i + 4] = s[i]
OBVIOUS

\* The model's heads and the proofs' first elements are the same.
LEMMA HeadIsFirst ==
  ASSUME NEW s \in Seq(Op), NEW op
  PROVE  (s # <<>> /\ Head(s).op = op) <=> At(s, op)
BY DEF At

-----------------------------------------------------------------------------
(***************************************************************************)
(* What a thread t still has to do, its display being l, after p presses   *)
(* and h records: what each operation is, and what may follow it.          *)
(***************************************************************************)

Each(s, i, t, l, p, h) ==
  /\ s[i].op \in {"flush", "wait"} /\ s[i].timed =>
       t = "main" /\ p = 2 /\ i < Len(s) /\ s[i + 1].op = "exit"
  /\ s[i].op = "wait" => s[i].event = <<t, Len(s) - i + 1>>
  /\ s[i].op = "write" => s[i].after <= h
  /\ HandsShow(s[i]) => s[i].arg = l
  /\ HandsHide(s[i]) => s[i].arg = l \/ (l = 0 /\ Len(s) = 1)
  /\ s[i].op = "arm" => l # 0
  /\ s[i].op = "exit" /\ p < 2 => i = Len(s) /\ l = 0

Follows(o, n, l) ==
  \/ o.op = "exit"
  \/ n.op = "flush" /\ HandsHide(o) /\ o.arg = l
  \/ n.op \in {"ask", "write", "exit"} /\ o.op \in {"flush", "wait"}
  \/ HandsShow(n) /\ o.op = "ask"
  \/ HandsHide(n) /\ (o.op \in {"flush", "wait"} \/ HandsRecord(o))
  \/ n.op = "arm" /\ HandsShow(o)

\* A program has a shape: each operation has, and each may follow the one before.
Fits(s, t, l, p, h) ==
  /\ \A i \in 1 .. Len(s) : Each(s, i, t, l, p, h)
  /\ \A i \in 1 .. Len(s) - 1 : Follows(s[i], s[i + 1], l)

\* What a thread other than the main one does.
Plain(s) ==
  \A i \in 1 .. Len(s) : HandsRecord(s[i]) \/ s[i].op \in {"flush", "wait", "write"}

\* Nothing left to do fits anywhere.
LEMMA EmptyFits ==
  ASSUME NEW t, NEW l, NEW p, NEW h
  PROVE  Fits(<<>>, t, l, p, h) /\ Plain(<<>>)
BY DEF Fits, Plain

\* What is left fits after the first operation is done ...
LEMMA FitsDropped ==
  ASSUME NEW s \in Seq(Op), NEW z \in Seq(Op), Dropped(z, s), NEW t, NEW l, NEW p, NEW h,
         Fits(s, t, l, p, h)
  PROVE  Fits(z, t, l, p, h)
<1>1. Len(s) \in Nat /\ Len(z) \in Nat /\ Len(z) = Len(s) - 1 BY DEF Dropped
<1>2. ASSUME NEW i \in 1 .. Len(z) PROVE Each(z, i, t, l, p, h)
  <2>1. i + 1 \in 1 .. Len(s) /\ z[i] = s[i + 1] BY <1>1, <1>2 DEF Dropped
  <2>2. i < Len(z) => z[i + 1] = s[(i + 1) + 1] BY <1>1, <1>2 DEF Dropped
  <2>3. Each(s, i + 1, t, l, p, h) BY <2>1 DEF Fits
  <2> QED BY <1>1, <2>1, <2>2, <2>3 DEF Each, HandsShow, HandsHide
<1>3. ASSUME NEW i \in 1 .. Len(z) - 1 PROVE Follows(z[i], z[i + 1], l)
  <2>1. z[i] = s[i + 1] /\ z[i + 1] = s[(i + 1) + 1] BY <1>1, <1>3 DEF Dropped
  <2>2. i + 1 \in 1 .. Len(s) - 1 BY <1>1, <1>3
  <2> QED BY <2>1, <2>2 DEF Fits
<1> QED BY <1>2, <1>3 DEF Fits

\* ... and after a flush has become the wait for its event.
LEMMA FitsSwapped ==
  ASSUME NEW s \in Seq(Op), NEW z \in Seq(Op), NEW t, NEW l, NEW p, NEW h,
         Len(s) > 0, s[1].op = "flush",
         Swapped(z, s, Wait(<<t, Len(s)>>, s[1].timed)), Fits(s, t, l, p, h)
  PROVE  Fits(z, t, l, p, h)
<1> DEFINE x == Wait(<<t, Len(s)>>, s[1].timed)
<1>1. Len(s) \in Nat /\ Len(z) = Len(s) BY DEF Swapped
<1>2. x.op = "wait" /\ x.timed = s[1].timed /\ x.event = <<t, Len(s)>> BY DEF Wait
<1>3. z[1] = x /\ \A i \in 2 .. Len(s) : z[i] = s[i] BY DEF Swapped
<1> HIDE DEF x
<1>4. ASSUME NEW i \in 1 .. Len(z) PROVE Each(z, i, t, l, p, h)
  <2>1. Each(s, i, t, l, p, h) BY <1>1 DEF Fits
  <2>2. i < Len(z) => z[i + 1] = s[i + 1] BY <1>1, <1>3
  <2>3. CASE i = 1
    <3>1. Len(s) - 1 + 1 = Len(s) BY <1>1
    <3> QED BY <1>1, <1>2, <1>3, <2>1, <2>2, <2>3, <3>1 DEF Each, HandsShow, HandsHide
  <2>4. CASE i # 1
    <3>1. z[i] = s[i] BY <1>1, <1>3, <2>4
    <3> QED BY <1>1, <2>1, <2>2, <3>1 DEF Each, HandsShow, HandsHide
  <2> QED BY <2>3, <2>4
<1>5. ASSUME NEW i \in 1 .. Len(z) - 1 PROVE Follows(z[i], z[i + 1], l)
  <2>1. i \in 1 .. Len(s) - 1 /\ z[i + 1] = s[i + 1] BY <1>1, <1>3
  <2>2. Follows(s[i], s[i + 1], l) BY <2>1 DEF Fits
  <2>3. CASE i = 1
    BY <1>2, <1>3, <2>1, <2>2, <2>3 DEF Follows, HandsShow, HandsHide, HandsRecord
  <2>4. CASE i # 1
    <3>1. z[i] = s[i] BY <1>1, <1>3, <2>1, <2>4
    <3> QED BY <2>1, <2>2, <3>1
  <2> QED BY <2>3, <2>4
<1> QED BY <1>4, <1>5 DEF Fits

\* More records do not matter, nor do displays and presses to the other threads.
LEMMA FitsMore ==
  ASSUME NEW s \in Seq(Op), NEW t, NEW l, NEW p, NEW h \in Nat, NEW k \in Nat, h <= k,
         Fits(s, t, l, p, h)
  PROVE  Fits(s, t, l, p, k)
<1>1. ASSUME NEW i \in 1 .. Len(s) PROVE Each(s, i, t, l, p, k)
  <2>1. Each(s, i, t, l, p, h) /\ s[i] \in Op BY DEF Fits
  <2>2. s[i].op = "write" => s[i].after \in Nat BY <2>1, OpTypes
  <2>3. s[i].op = "write" => s[i].after <= k BY <2>1, <2>2 DEF Each
  <2> QED BY <2>1, <2>3 DEF Each
<1> QED BY <1>1 DEF Fits

\* What fits a thread that has no display fits it whatever the main thread does.
LEMMA FitsPlain ==
  ASSUME NEW s \in Seq(Op), NEW t, t # "main", NEW l, NEW p, NEW h, NEW m, NEW q,
         Plain(s), Fits(s, t, l, p, h)
  PROVE  Fits(s, t, m, q, h)
<1>1. ASSUME NEW i \in 1 .. Len(s) PROVE Each(s, i, t, m, q, h)
  <2>1. Each(s, i, t, l, p, h) BY DEF Fits
  <2>2. HandsRecord(s[i]) \/ s[i].op \in {"flush", "wait", "write"} BY DEF Plain
  <2> QED BY <2>1, <2>2 DEF Each, HandsRecord, HandsShow, HandsHide
<1>2. ASSUME NEW i \in 1 .. Len(s) - 1 PROVE Follows(s[i], s[i + 1], m)
  <2>1. Follows(s[i], s[i + 1], l) BY DEF Fits
  <2>2. HandsRecord(s[i]) \/ s[i].op \in {"flush", "wait", "write"} BY DEF Plain
  <2> QED BY <2>1, <2>2 DEF Follows, HandsRecord, HandsShow, HandsHide
<1> QED BY <1>1, <1>2 DEF Fits

\* A plain program stays plain when its first operation is done ...
LEMMA PlainDropped ==
  ASSUME NEW s \in Seq(Op), NEW z \in Seq(Op), Dropped(z, s), Plain(s)
  PROVE  Plain(z)
<1>1. Len(s) \in Nat /\ Len(z) \in Nat /\ Len(z) = Len(s) - 1 BY DEF Dropped
<1>2. ASSUME NEW i \in 1 .. Len(z) PROVE i + 1 \in 1 .. Len(s) /\ z[i] = s[i + 1]
  BY <1>1, <1>2 DEF Dropped
<1> QED BY <1>2 DEF Plain

\* ... or becomes a wait.
LEMMA PlainSwapped ==
  ASSUME NEW s \in Seq(Op), NEW z \in Seq(Op), Plain(s),
         NEW e, NEW b, Swapped(z, s, Wait(e, b))
  PROVE  Plain(z)
<1>1. Len(s) \in Nat /\ Len(z) = Len(s) BY DEF Swapped
<1>2. ASSUME NEW i \in 1 .. Len(z) PROVE IF i = 1 THEN z[i] = Wait(e, b) ELSE z[i] = s[i]
  BY <1>1, <1>2 DEF Swapped
<1>3. Wait(e, b).op = "wait" BY DEF Wait
<1> QED BY <1>1, <1>2, <1>3 DEF Plain

\* The programs threads begin.
LEMMA PrintFits ==
  ASSUME NEW t, NEW l, NEW p, NEW h \in Nat, NEW n \in Nat, n <= h
  PROVE  Fits(PrintText(n), t, l, p, h) /\ Plain(PrintText(n))
BY DEF Fits, Plain, Each, Follows, PrintText, Flush, Write, HandsShow, HandsHide, HandsRecord

\* A record to hand over fits every thread.
LEMMA LogFits ==
  ASSUME NEW t, NEW l, NEW p, NEW h
  PROVE  Fits(<<Hand("record", 0)>>, t, l, p, h) /\ Plain(<<Hand("record", 0)>>)
BY DEF Fits, Plain, Each, Follows, Hand, HandsShow, HandsHide, HandsRecord

\* So do a prompt, a display and the end of the process, of the main thread.
LEMMA OthersFit ==
  ASSUME NEW t, NEW l, NEW p, NEW h
  PROVE  /\ Fits(<<Flush, Ask>>, t, l, p, h)
         /\ l # 0 =>
              Fits(<<Flush, Hand("hide", l), Flush, Ask, Hand("show", l)>>, t, l, p, h)
         /\ l # 0 => Fits(<<Hand("show", l), Arm>>, t, l, p, h)
         /\ \A d : Fits(<<Hand("hide", d)>>, t, 0, p, h)
         /\ Fits(<<Flush, Exit>>, t, 0, p, h)
BY DEF Fits, Each, Follows, Flush, Hand, Ask, Arm, Exit, HandsShow, HandsHide, HandsRecord

\* The handler's operations come on top of any others.
LEMMA QuitFits ==
  ASSUME NEW s \in Seq(Op), NEW l, NEW h, NEW p, p # 2, p < 2, l # 0, Fits(s, "main", l, p, h),
         NEW z \in Seq(Op), Len(z) = Len(s) + 4,
         z[1] = Hand("record", 0), z[2] = Hand("hide", l), z[3] = TimedFlush, z[4] = Exit,
         \A i \in 1 .. Len(s) : z[i + 4] = s[i]
  PROVE  Fits(z, "main", l, 2, h)
<1>1. Len(s) \in Nat OBVIOUS
<1>2. ASSUME NEW i \in 1 .. Len(z) PROVE Each(z, i, "main", l, 2, h)
  <2>1. CASE i \in 1 .. 4
    <3>1. i = 1 \/ i = 2 \/ i = 3 \/ i = 4 BY <2>1
    <3>2. z[3 + 1].op = "exit" /\ 3 < Len(z) BY <1>1 DEF Exit
    <3> QED BY <3>1, <3>2 DEF Each, Hand, TimedFlush, Exit, HandsShow, HandsHide
  <2>2. CASE i \notin 1 .. 4
    <3>1. i - 4 \in 1 .. Len(s) /\ z[i] = s[i - 4] BY <1>1, <2>2
    <3>2. Each(s, i - 4, "main", l, p, h) BY <3>1 DEF Fits
    <3>3. Len(s) - (i - 4) + 1 = Len(z) - i + 1 BY <1>1
    <3> QED BY <3>1, <3>2, <3>3 DEF Each, HandsShow, HandsHide
  <2> QED BY <2>1, <2>2
<1>3. ASSUME NEW i \in 1 .. Len(z) - 1 PROVE Follows(z[i], z[i + 1], l)
  <2>1. CASE i \in 1 .. 4
    <3>1. i = 1 \/ i = 2 \/ i = 3 \/ i = 4 BY <2>1
    <3>2. z[1 + 1] = Hand("hide", l) /\ z[2 + 1] = TimedFlush /\ z[3 + 1] = Exit
      OBVIOUS
    <3> QED BY <3>1, <3>2 DEF Follows, Hand, TimedFlush, Exit, HandsShow, HandsHide, HandsRecord
  <2>2. CASE i \notin 1 .. 4
    <3>1. i - 4 \in 1 .. Len(s) - 1 /\ z[i] = s[i - 4] BY <1>1, <2>2
    <3>2. z[i + 1] = s[(i - 4) + 1] BY <1>1, <2>2, <1>3
    <3> QED BY <3>1, <3>2 DEF Fits
  <2> QED BY <2>1, <2>2
<1> QED BY <1>2, <1>3 DEF Fits

-----------------------------------------------------------------------------
(***************************************************************************)
(* The k-th operation from the end keeps its place when the head goes or   *)
(* others come on top: that is why an event's name stays that of its flush. *)
(***************************************************************************)

\* The k-th operation from the end is a wait.
WaitsAt(s, k) == k \in 1 .. Len(s) /\ s[Len(s) - k + 1].op = "wait"

\* Doing the first operation ends the wait at the top, if it is one.
LEMMA WaitsDropped ==
  ASSUME NEW s \in Seq(Op), NEW z \in Seq(Op), Dropped(z, s), NEW k \in Nat
  PROVE  WaitsAt(s, k) <=> (WaitsAt(z, k) \/ (k = Len(s) /\ At(s, "wait")))
<1>1. Len(s) \in Nat /\ Len(z) \in Nat /\ Len(z) = Len(s) - 1 BY DEF Dropped
<1>2. ASSUME k \in 1 .. Len(z) PROVE z[Len(z) - k + 1] = s[Len(s) - k + 1]
  <2>1. Len(z) - k + 1 \in 1 .. Len(z) /\ (Len(z) - k + 1) + 1 = Len(s) - k + 1 BY <1>1, <1>2
  <2> QED BY <2>1 DEF Dropped
<1>3. CASE k \in 1 .. Len(z) BY <1>1, <1>2, <1>3 DEF WaitsAt, At
<1>4. CASE k = Len(s)
  <2>1. Len(s) - k + 1 = 1 BY <1>1, <1>4
  <2> QED BY <1>1, <1>4, <2>1 DEF WaitsAt, At
<1>5. CASE k \notin 1 .. Len(z) /\ k # Len(s) BY <1>1, <1>5 DEF WaitsAt
<1> QED BY <1>3, <1>4, <1>5

\* A wait in place of the first operation is a wait at the top.
LEMMA WaitsSwapped ==
  ASSUME NEW s \in Seq(Op), NEW z \in Seq(Op), Len(s) > 0, NEW e, NEW b,
         Swapped(z, s, Wait(e, b)), NEW k \in Nat
  PROVE  WaitsAt(z, k) <=> (WaitsAt(s, k) \/ k = Len(s))
<1>1. Len(s) \in Nat /\ Len(z) = Len(s) BY DEF Swapped
<1>2. Wait(e, b).op = "wait" BY DEF Wait
<1>3. CASE k \in 1 .. Len(s) - 1
  <2>1. Len(s) - k + 1 \in 2 .. Len(s) BY <1>1, <1>3
  <2>2. z[Len(s) - k + 1] = s[Len(s) - k + 1] BY <2>1 DEF Swapped
  <2> QED BY <1>1, <1>3, <2>2 DEF WaitsAt
<1>4. CASE k = Len(s)
  <2>1. Len(s) - k + 1 = 1 BY <1>1, <1>4
  <2> QED BY <1>1, <1>2, <1>4, <2>1 DEF WaitsAt, Swapped
<1>5. CASE k \notin 1 .. Len(s) - 1 /\ k # Len(s) BY <1>1, <1>5 DEF WaitsAt
<1> QED BY <1>3, <1>4, <1>5

\* Waits stay where they are, counted from the end, under a handler's operations.
LEMMA WaitsUnder ==
  ASSUME NEW s \in Seq(Op), NEW z \in Seq(Op), Len(z) = Len(s) + 4,
         \A i \in 1 .. Len(s) : z[i + 4] = s[i], NEW k \in Nat, WaitsAt(s, k)
  PROVE  WaitsAt(z, k)
<1>1. Len(s) \in Nat OBVIOUS
<1>2. Len(s) - k + 1 \in 1 .. Len(s) /\ (Len(s) - k + 1) + 4 = Len(z) - k + 1
  BY <1>1 DEF WaitsAt
<1>3. z[Len(z) - k + 1] = s[Len(s) - k + 1] BY <1>2
<1>4. k \in 1 .. Len(z) /\ s[Len(s) - k + 1].op = "wait" BY <1>1 DEF WaitsAt
<1> QED BY <1>3, <1>4 DEF WaitsAt

-----------------------------------------------------------------------------
(***************************************************************************)
(* The queue q, after u records were taken from it and h handed over.      *)
(***************************************************************************)

\* What an item is.
IsRecord(x) == x.what = "record"
IsSet(x, e) == x.what = "set" /\ x.arg = e
IsShow(x, d) == x.what = "show" /\ x.arg = d
IsHide(x, d) == x.what = "hide" /\ x.arg = d

\* Records stand in the order they were handed over, and none is missing.
Ordered(q, u, h) ==
  /\ \A i \in 1 .. Len(q) : IsRecord(q[i]) => q[i].arg \in u + 1 .. h
  /\ \A i, j \in 1 .. Len(q) :
       IsRecord(q[i]) /\ IsRecord(q[j]) /\ i < j => q[i].arg < q[j].arg
  /\ \A n \in u + 1 .. h : \E i \in 1 .. Len(q) : IsRecord(q[i]) /\ q[i].arg = n

\* Each event is queued once.
Unique(q) ==
  \A i, j \in 1 .. Len(q) :
    q[i].what = "set" /\ q[j].what = "set" /\ q[i].arg = q[j].arg => i = j

\* Where the elements of a shorter and of a longer queue come from.
LEMMA DroppedElements ==
  ASSUME NEW q \in Seq(Item), NEW z \in Seq(Item), Dropped(z, q)
  PROVE  /\ Len(q) \in Nat /\ Len(z) \in Nat /\ Len(q) = Len(z) + 1 /\ q[1] \in Item
         /\ \A i \in 1 .. Len(z) : i + 1 \in 1 .. Len(q) /\ z[i] = q[i + 1]
         /\ \A i \in 1 .. Len(q) : i # 1 => i - 1 \in 1 .. Len(z) /\ z[i - 1] = q[i]
<1>1. Len(q) \in Nat /\ Len(z) \in Nat /\ Len(z) = Len(q) - 1 BY DEF Dropped
<1>2. ASSUME NEW i \in 1 .. Len(z) PROVE i + 1 \in 1 .. Len(q) /\ z[i] = q[i + 1]
  BY <1>1, <1>2 DEF Dropped
<1>3. ASSUME NEW i \in 1 .. Len(q), i # 1 PROVE i - 1 \in 1 .. Len(z) /\ z[i - 1] = q[i]
  <2>1. i - 1 \in 1 .. Len(z) /\ (i - 1) + 1 = i BY <1>1, <1>3
  <2> QED BY <2>1 DEF Dropped
<1> QED BY <1>1, <1>2, <1>3

\* Where the elements of a queue come from that grew by one.
LEMMA GrownElements ==
  ASSUME NEW q \in Seq(Item), NEW z \in Seq(Item), NEW x, Grown(z, q, x)
  PROVE  /\ Len(q) \in Nat /\ Len(z) \in Nat /\ Len(z) = Len(q) + 1 /\ z[Len(z)] = x
         /\ \A i \in 1 .. Len(q) : i \in 1 .. Len(z) /\ z[i] = q[i]
         /\ \A i \in 1 .. Len(z) : i # Len(z) => i \in 1 .. Len(q) /\ z[i] = q[i]
BY DEF Grown

\* The first record of the queue is the next to be written.
LEMMA RecordTaken ==
  ASSUME NEW q \in Seq(Item), NEW z \in Seq(Item), Dropped(z, q), IsRecord(q[1]),
         NEW u \in Nat, NEW h \in Nat, Ordered(q, u, h)
  PROVE  q[1].arg = u + 1 /\ u + 1 <= h /\ Ordered(z, u + 1, h)
<1>1. /\ Len(q) \in Nat /\ Len(z) \in Nat /\ Len(q) = Len(z) + 1
      /\ \A i \in 1 .. Len(z) : i + 1 \in 1 .. Len(q) /\ z[i] = q[i + 1]
      /\ \A i \in 1 .. Len(q) : i # 1 => i - 1 \in 1 .. Len(z) /\ z[i - 1] = q[i]
  BY DroppedElements
<1>2. \A i \in 1 .. Len(q) : q[i] \in Item /\ (IsRecord(q[i]) => q[i].arg \in Nat)
  BY ItemTypes DEF IsRecord
<1>3. 1 \in 1 .. Len(q) /\ q[1].arg \in u + 1 .. h BY <1>1 DEF Ordered
<1>4. PICK i \in 1 .. Len(q) : IsRecord(q[i]) /\ q[i].arg = u + 1
  BY <1>3 DEF Ordered
<1>5. i = 1
  <2>1. ASSUME i # 1 PROVE q[1].arg < q[i].arg BY <1>3, <1>4, <2>1 DEF Ordered
  <2> QED BY <1>3, <1>4, <2>1
<1>6. q[1].arg = u + 1 BY <1>4, <1>5
<1>7. ASSUME NEW j \in 1 .. Len(z), IsRecord(z[j]) PROVE z[j].arg \in (u + 1) + 1 .. h
  <2>1. j + 1 \in 1 .. Len(q) /\ z[j] = q[j + 1] BY <1>1
  <2>2. q[1].arg < q[j + 1].arg /\ q[j + 1].arg \in u + 1 .. h
    BY <1>3, <1>7, <2>1 DEF Ordered
  <2>3. \A a \in u + 1 .. h : u + 1 < a => a \in (u + 1) + 1 .. h OBVIOUS
  <2> QED BY <1>6, <2>1, <2>2, <2>3
<1>8. ASSUME NEW j \in 1 .. Len(z), NEW k \in 1 .. Len(z), j < k,
             IsRecord(z[j]), IsRecord(z[k])
      PROVE  z[j].arg < z[k].arg
  <2>1. j + 1 \in 1 .. Len(q) /\ z[j] = q[j + 1] /\ k + 1 \in 1 .. Len(q) /\ z[k] = q[k + 1]
    BY <1>1
  <2>2. j + 1 < k + 1 /\ IsRecord(q[j + 1]) /\ IsRecord(q[k + 1]) BY <1>8, <2>1
  <2>3. q[j + 1].arg < q[k + 1].arg BY <2>1, <2>2 DEF Ordered
  <2> QED BY <2>1, <2>3
<1>9. ASSUME NEW n \in (u + 1) + 1 .. h
      PROVE  \E j \in 1 .. Len(z) : IsRecord(z[j]) /\ z[j].arg = n
  <2>1. PICK j \in 1 .. Len(q) : IsRecord(q[j]) /\ q[j].arg = n
    <3>1. n \in u + 1 .. h OBVIOUS
    <3> QED BY <3>1 DEF Ordered
  <2>2. j # 1 BY <1>6, <2>1
  <2> QED BY <1>1, <2>1, <2>2
<1>10. Ordered(z, u + 1, h) BY <1>7, <1>8, <1>9 DEF Ordered
<1>11. u + 1 <= h BY <1>3, <1>6
<1> QED BY <1>6, <1>10, <1>11

\* Taking anything else leaves the records in order ...
LEMMA OtherTaken ==
  ASSUME NEW q \in Seq(Item), NEW z \in Seq(Item), Dropped(z, q), ~ IsRecord(q[1]),
         NEW u \in Nat, NEW h \in Nat, Ordered(q, u, h)
  PROVE  Ordered(z, u, h)
<1>1. /\ Len(q) \in Nat /\ Len(z) \in Nat /\ Len(q) = Len(z) + 1
      /\ \A i \in 1 .. Len(z) : i + 1 \in 1 .. Len(q) /\ z[i] = q[i + 1]
      /\ \A i \in 1 .. Len(q) : i # 1 => i - 1 \in 1 .. Len(z) /\ z[i - 1] = q[i]
  BY DroppedElements
<1>2. ASSUME NEW j \in 1 .. Len(z), NEW k \in 1 .. Len(z), j < k,
             IsRecord(z[j]), IsRecord(z[k])
      PROVE  z[j].arg < z[k].arg
  <2>1. j + 1 \in 1 .. Len(q) /\ z[j] = q[j + 1] /\ k + 1 \in 1 .. Len(q) /\ z[k] = q[k + 1]
    BY <1>1
  <2> QED BY <1>2, <2>1 DEF Ordered
<1>3. ASSUME NEW n \in u + 1 .. h
      PROVE  \E j \in 1 .. Len(z) : IsRecord(z[j]) /\ z[j].arg = n
  <2>1. PICK j \in 1 .. Len(q) : IsRecord(q[j]) /\ q[j].arg = n BY DEF Ordered
  <2> QED BY <1>1, <2>1
<1>4. ASSUME NEW j \in 1 .. Len(z), IsRecord(z[j]) PROVE z[j].arg \in u + 1 .. h
  <2>1. j + 1 \in 1 .. Len(q) /\ z[j] = q[j + 1] BY <1>1
  <2> QED BY <1>4, <2>1 DEF Ordered
<1> QED BY <1>2, <1>3, <1>4 DEF Ordered

\* ... and so does a record that is handed over last ...
LEMMA RecordPut ==
  ASSUME NEW q \in Seq(Item), NEW z \in Seq(Item), NEW h \in Nat, NEW x,
         Grown(z, q, x), x.what = "record", x.arg = h + 1,
         NEW u \in Nat, u <= h, Ordered(q, u, h)
  PROVE  Ordered(z, u, h + 1)
<1>1. /\ Len(q) \in Nat /\ Len(z) = Len(q) + 1 /\ z[Len(z)] = x
      /\ \A i \in 1 .. Len(q) : i \in 1 .. Len(z) /\ z[i] = q[i]
      /\ \A i \in 1 .. Len(z) : i # Len(z) => i \in 1 .. Len(q) /\ z[i] = q[i]
  BY GrownElements
<1>2. ASSUME NEW i \in 1 .. Len(z), IsRecord(z[i]) PROVE z[i].arg \in u + 1 .. h + 1
  <2>1. CASE i = Len(z) BY <1>1, <2>1
  <2>2. CASE i # Len(z)
    <3>1. i \in 1 .. Len(q) /\ z[i] = q[i] BY <1>1, <2>2
    <3>2. q[i].arg \in u + 1 .. h BY <1>2, <3>1 DEF Ordered
    <3> QED BY <3>1, <3>2
  <2> QED BY <2>1, <2>2
<1>3. ASSUME NEW i \in 1 .. Len(z), NEW j \in 1 .. Len(z), i < j, IsRecord(z[i]), IsRecord(z[j])
      PROVE  z[i].arg < z[j].arg
  <2>1. i \in 1 .. Len(q) /\ z[i] = q[i] BY <1>1, <1>3
  <2>2. q[i].arg \in u + 1 .. h BY <1>3, <2>1 DEF Ordered
  <2>3. CASE j = Len(z) BY <1>1, <2>1, <2>2, <2>3
  <2>4. CASE j # Len(z)
    <3>1. j \in 1 .. Len(q) /\ z[j] = q[j] BY <1>1, <2>4
    <3> QED BY <1>3, <2>1, <3>1 DEF Ordered
  <2> QED BY <2>3, <2>4
<1>4. ASSUME NEW n \in u + 1 .. h + 1
      PROVE  \E i \in 1 .. Len(z) : IsRecord(z[i]) /\ z[i].arg = n
  <2>1. CASE n = h + 1
    <3>1. Len(z) \in 1 .. Len(z) BY <1>1
    <3> QED BY <1>1, <2>1, <3>1 DEF IsRecord
  <2>2. CASE n # h + 1
    <3>1. n \in u + 1 .. h BY <2>2
    <3>2. PICK i \in 1 .. Len(q) : IsRecord(q[i]) /\ q[i].arg = n BY <3>1 DEF Ordered
    <3> QED BY <1>1, <3>2
  <2> QED BY <2>1, <2>2
<1> QED BY <1>2, <1>3, <1>4 DEF Ordered

\* ... or something else.
LEMMA OtherPut ==
  ASSUME NEW q \in Seq(Item), NEW z \in Seq(Item), NEW h \in Nat, NEW x,
         Grown(z, q, x), x.what # "record", NEW u \in Nat, Ordered(q, u, h)
  PROVE  Ordered(z, u, h)
<1>1. /\ Len(q) \in Nat /\ Len(z) = Len(q) + 1 /\ z[Len(z)] = x
      /\ \A i \in 1 .. Len(q) : i \in 1 .. Len(z) /\ z[i] = q[i]
      /\ \A i \in 1 .. Len(z) : i # Len(z) => i \in 1 .. Len(q) /\ z[i] = q[i]
  BY GrownElements
<1>2. \A i \in 1 .. Len(z) : IsRecord(z[i]) => i \in 1 .. Len(q) /\ z[i] = q[i]
  BY <1>1 DEF IsRecord
<1>3. \A i \in 1 .. Len(z) : IsRecord(z[i]) => z[i].arg \in u + 1 .. h
  BY <1>2 DEF Ordered
<1>4. \A i, j \in 1 .. Len(z) :
        IsRecord(z[i]) /\ IsRecord(z[j]) /\ i < j => z[i].arg < z[j].arg
  BY <1>2 DEF Ordered
<1>5. ASSUME NEW n \in u + 1 .. h
      PROVE  \E i \in 1 .. Len(z) : IsRecord(z[i]) /\ z[i].arg = n
  <2>1. PICK i \in 1 .. Len(q) : IsRecord(q[i]) /\ q[i].arg = n BY DEF Ordered
  <2> QED BY <1>1, <2>1
<1> QED BY <1>3, <1>4, <1>5 DEF Ordered

\* A record that is not among the written ones, nor among those taken, is queued.
LEMMA StillQueued ==
  ASSUME NEW q, NEW u \in Nat, NEW h \in Nat, Ordered(q, u, h), NEW n \in Nat, n <= h, u < n
  PROVE  \E i \in 1 .. Len(q) : IsRecord(q[i]) /\ q[i].arg = n
<1>1. n \in u + 1 .. h OBVIOUS
<1> QED BY <1>1 DEF Ordered

\* An event that was taken is not queued again.
LEMMA UniqueDropped ==
  ASSUME NEW q \in Seq(Item), NEW z \in Seq(Item), Dropped(z, q), Unique(q)
  PROVE  /\ Unique(z)
         /\ q[1].what = "set" =>
              \A i \in 1 .. Len(z) : z[i].what = "set" => z[i].arg # q[1].arg
<1>1. /\ Len(q) \in Nat /\ Len(z) \in Nat /\ Len(q) = Len(z) + 1
      /\ \A i \in 1 .. Len(z) : i + 1 \in 1 .. Len(q) /\ z[i] = q[i + 1]
      /\ \A i \in 1 .. Len(q) : i # 1 => i - 1 \in 1 .. Len(z) /\ z[i - 1] = q[i]
  BY DroppedElements
<1>2. ASSUME NEW i \in 1 .. Len(z), NEW j \in 1 .. Len(z),
             z[i].what = "set", z[j].what = "set", z[i].arg = z[j].arg
      PROVE  i = j
  <2>1. i + 1 \in 1 .. Len(q) /\ z[i] = q[i + 1] /\ j + 1 \in 1 .. Len(q) /\ z[j] = q[j + 1]
    BY <1>1
  <2>2. i + 1 = j + 1 BY <1>2, <2>1 DEF Unique
  <2> QED BY <2>2
<1>3. ASSUME NEW i \in 1 .. Len(z), q[1].what = "set", z[i].what = "set", z[i].arg = q[1].arg
      PROVE  FALSE
  <2>1. i + 1 \in 1 .. Len(q) /\ z[i] = q[i + 1] /\ 1 \in 1 .. Len(q) BY <1>1
  <2>2. i + 1 = 1 BY <1>3, <2>1 DEF Unique
  <2> QED BY <2>2
<1> QED BY <1>2, <1>3 DEF Unique

\* Nor is one that was not queued before it is put in.
LEMMA UniqueGrown ==
  ASSUME NEW q \in Seq(Item), NEW z \in Seq(Item), NEW x, Grown(z, q, x), Unique(q),
         x.what = "set" => \A i \in 1 .. Len(q) : q[i].what = "set" => q[i].arg # x.arg
  PROVE  Unique(z)
<1>1. /\ Len(q) \in Nat /\ Len(z) \in Nat /\ Len(z) = Len(q) + 1 /\ z[Len(z)] = x
      /\ \A i \in 1 .. Len(q) : i \in 1 .. Len(z) /\ z[i] = q[i]
      /\ \A i \in 1 .. Len(z) : i # Len(z) => i \in 1 .. Len(q) /\ z[i] = q[i]
  BY GrownElements
<1>2. ASSUME NEW i \in 1 .. Len(z), NEW j \in 1 .. Len(z),
             z[i].what = "set", z[j].what = "set", z[i].arg = z[j].arg
      PROVE  i = j
  <2>1. CASE i # Len(z) /\ j # Len(z) BY <1>1, <1>2, <2>1 DEF Unique
  <2>2. CASE i # Len(z) /\ j = Len(z) BY <1>1, <1>2, <2>2
  <2>3. CASE i = Len(z) /\ j # Len(z) BY <1>1, <1>2, <2>3
  <2>4. CASE i = Len(z) /\ j = Len(z) BY <2>4
  <2> QED BY <2>1, <2>2, <2>3, <2>4
<1> QED BY <1>2 DEF Unique

\* Who waits for e may go on when n records are written, w of which are: none of
\* them stands behind e, and all are written once e is among the set events S.
Owes(q, S, w, e, n) ==
  /\ e \in S => n <= w
  /\ \A i, j \in 1 .. Len(q) : IsSet(q[i], e) /\ i < j /\ IsRecord(q[j]) => q[j].arg > n

\* What is owed before an event stays owed when the first item is taken ...
LEMMA OwesDropped ==
  ASSUME NEW q \in Seq(Item), NEW z \in Seq(Item), Dropped(z, q),
         NEW S, NEW w, NEW e, NEW n, Owes(q, S, w, e, n)
  PROVE  Owes(z, S, w, e, n)
<1>1. /\ Len(q) \in Nat /\ Len(z) \in Nat /\ Len(q) = Len(z) + 1
      /\ \A i \in 1 .. Len(z) : i + 1 \in 1 .. Len(q) /\ z[i] = q[i + 1]
      /\ \A i \in 1 .. Len(q) : i # 1 => i - 1 \in 1 .. Len(z) /\ z[i - 1] = q[i]
  BY DroppedElements
<1>2. ASSUME NEW i \in 1 .. Len(z), NEW j \in 1 .. Len(z),
             IsSet(z[i], e), i < j, IsRecord(z[j])
      PROVE  z[j].arg > n
  <2>1. i + 1 \in 1 .. Len(q) /\ z[i] = q[i + 1] /\ j + 1 \in 1 .. Len(q) /\ z[j] = q[j + 1]
    BY <1>1
  <2> QED BY <1>2, <2>1 DEF Owes
<1> QED BY <1>2 DEF Owes

\* ... when that item sets an event: the records before it are written by then ...
LEMMA OwesSet ==
  ASSUME NEW q \in Seq(Item), NEW z \in Seq(Item), Dropped(z, q), q[1].what = "set",
         NEW w \in Nat, NEW h \in Nat, Ordered(q, w, h),
         NEW S, NEW e, NEW n \in Nat, n <= h, Owes(q, S, w, e, n)
  PROVE  Owes(z, S \cup {q[1].arg}, w, e, n)
<1>1. /\ Len(q) \in Nat /\ Len(z) \in Nat /\ Len(q) = Len(z) + 1
      /\ \A i \in 1 .. Len(z) : i + 1 \in 1 .. Len(q) /\ z[i] = q[i + 1]
      /\ \A i \in 1 .. Len(q) : i # 1 => i - 1 \in 1 .. Len(z) /\ z[i - 1] = q[i]
  BY DroppedElements
<1>2. Owes(z, S, w, e, n) BY OwesDropped
<1>3. ASSUME e = q[1].arg PROVE n <= w
  <2>1. SUFFICES ASSUME w < n PROVE FALSE OBVIOUS
  <2>2. PICK j \in 1 .. Len(q) : IsRecord(q[j]) /\ q[j].arg = n BY <2>1, StillQueued
  <2>3. 1 \in 1 .. Len(q) /\ IsSet(q[1], e) BY <1>1, <1>3 DEF IsSet
  <2>4. j # 1 BY <2>2 DEF IsRecord
  <2>5. q[j].arg > n BY <2>2, <2>3, <2>4 DEF Owes
  <2> QED BY <2>2, <2>5
<1> QED BY <1>2, <1>3 DEF Owes

\* ... when later records are put in ...
LEMMA OwesGrown ==
  ASSUME NEW q \in Seq(Item), NEW z \in Seq(Item), NEW x, Grown(z, q, x),
         NEW S, NEW w, NEW e, NEW n, Owes(q, S, w, e, n),
         x.what = "record" => x.arg > n
  PROVE  Owes(z, S, w, e, n)
<1>1. /\ Len(q) \in Nat /\ Len(z) \in Nat /\ Len(z) = Len(q) + 1 /\ z[Len(z)] = x
      /\ \A i \in 1 .. Len(q) : i \in 1 .. Len(z) /\ z[i] = q[i]
      /\ \A i \in 1 .. Len(z) : i # Len(z) => i \in 1 .. Len(q) /\ z[i] = q[i]
  BY GrownElements
<1>2. ASSUME NEW i \in 1 .. Len(z), NEW j \in 1 .. Len(z),
             IsSet(z[i], e), i < j, IsRecord(z[j])
      PROVE  z[j].arg > n
  <2>1. i \in 1 .. Len(q) /\ z[i] = q[i] BY <1>1, <1>2
  <2>2. CASE j = Len(z) BY <1>1, <1>2, <2>2 DEF IsRecord
  <2>3. CASE j # Len(z) BY <1>1, <1>2, <2>1, <2>3 DEF Owes
  <2> QED BY <2>2, <2>3
<1> QED BY <1>2 DEF Owes

\* An event just queued is behind everything.
LEMMA OwesFresh ==
  ASSUME NEW q \in Seq(Item), NEW z \in Seq(Item), NEW x, Grown(z, q, x),
         NEW S, NEW w, NEW e, NEW n, e \notin S,
         \A i \in 1 .. Len(q) : ~ IsSet(q[i], e)
  PROVE  Owes(z, S, w, e, n)
<1>1. /\ Len(q) \in Nat /\ Len(z) \in Nat /\ Len(z) = Len(q) + 1 /\ z[Len(z)] = x
      /\ \A i \in 1 .. Len(q) : i \in 1 .. Len(z) /\ z[i] = q[i]
      /\ \A i \in 1 .. Len(z) : i # Len(z) => i \in 1 .. Len(q) /\ z[i] = q[i]
  BY GrownElements
<1>2. \A i, j \in 1 .. Len(z) : IsSet(z[i], e) => ~ i < j BY <1>1
<1> QED BY <1>2 DEF Owes

\* ... and when more is written, or an event is used up.
LEMMA OwesMore ==
  ASSUME NEW q, NEW S, NEW w \in Nat, NEW v \in Nat, w <= v, NEW T, T \subseteq S,
         NEW e, NEW n \in Nat, Owes(q, S, w, e, n)
  PROVE  Owes(q, T, v, e, n)
BY DEF Owes

-----------------------------------------------------------------------------
(***************************************************************************)
(* Displays: sh is the one on the terminal, q the queue.                   *)
(***************************************************************************)

Up(q, sh, d) == sh = d \/ \E i \in 1 .. Len(q) : IsShow(q[i], d)
HiddenBefore(q, d, n) ==
  \E j \in 1 .. Len(q) :
    j < n /\ IsHide(q[j], d) /\ \A k \in 1 .. Len(q) : IsShow(q[k], d) => k < j
AllHidden(q, sh) == \A d \in Display : ~ Up(q, sh, d)
AllHiddenBefore(q, sh, n) == \A d \in Display : Up(q, sh, d) => HiddenBefore(q, d, n)

\* What the output thread does to the terminal with the item x.
Draws(x, sh, to) ==
  /\ to \in {sh, 0} \/ IsShow(x, to)
  /\ x.what = "hide" => to # x.arg

\* Drawing the first item draws no display that was not on its way.
LEMMA DrawsDown ==
  ASSUME NEW q \in Seq(Item), NEW z \in Seq(Item), Dropped(z, q), NEW sh, NEW to,
         Draws(q[1], sh, to), NEW d \in Display, Up(z, to, d)
  PROVE  /\ Up(q, sh, d)
         /\ \A n \in Nat : HiddenBefore(q, d, n) => HiddenBefore(z, d, n - 1)
<1>1. /\ Len(q) \in Nat /\ Len(z) \in Nat /\ Len(q) = Len(z) + 1
      /\ \A i \in 1 .. Len(z) : i + 1 \in 1 .. Len(q) /\ z[i] = q[i + 1]
      /\ \A i \in 1 .. Len(q) : i # 1 => i - 1 \in 1 .. Len(z) /\ z[i - 1] = q[i]
  BY DroppedElements
<1>2. Up(q, sh, d)
  <2>1. CASE to = d
    <3>1. d # 0 BY DEF Display
    <3>2. 1 \in 1 .. Len(q) BY <1>1
    <3> QED BY <2>1, <3>1, <3>2 DEF Draws, Up
  <2>2. CASE to # d
    <3>1. PICK i \in 1 .. Len(z) : IsShow(z[i], d) BY <2>2 DEF Up
    <3>2. i + 1 \in 1 .. Len(q) /\ q[i + 1] = z[i] BY <1>1
    <3> QED BY <3>1, <3>2 DEF Up
  <2> QED BY <2>1, <2>2
<1>3. ASSUME NEW n \in Nat, HiddenBefore(q, d, n) PROVE HiddenBefore(z, d, n - 1)
  <2>1. PICK j \in 1 .. Len(q) :
          j < n /\ IsHide(q[j], d) /\ \A k \in 1 .. Len(q) : IsShow(q[k], d) => k < j
    BY <1>3 DEF HiddenBefore
  <2>2. j # 1
    <3>1. SUFFICES ASSUME j = 1 PROVE FALSE OBVIOUS
    <3>2. to # d BY <2>1, <3>1 DEF Draws, IsHide
    <3>3. PICK i \in 1 .. Len(z) : IsShow(z[i], d) BY <3>2 DEF Up
    <3>4. i + 1 \in 1 .. Len(q) /\ q[i + 1] = z[i] BY <1>1
    <3>5. i + 1 < j BY <2>1, <3>3, <3>4
    <3> QED BY <3>1, <3>5
  <2>3. j - 1 \in 1 .. Len(z) /\ z[j - 1] = q[j] /\ j - 1 < n - 1 BY <1>1, <2>1, <2>2
  <2>4. ASSUME NEW k \in 1 .. Len(z), IsShow(z[k], d) PROVE k < j - 1
    <3>1. k + 1 \in 1 .. Len(q) /\ q[k + 1] = z[k] BY <1>1
    <3>2. k + 1 < j BY <2>1, <2>4, <3>1
    <3> QED BY <3>2
  <2> QED BY <2>1, <2>3, <2>4 DEF HiddenBefore
<1> QED BY <1>2, <1>3

\* A display hidden by an item of the queue is hidden by the rest of it.
LEMMA HiddenDrawn ==
  ASSUME NEW q \in Seq(Item), NEW z \in Seq(Item), Dropped(z, q), NEW sh, NEW to,
         Draws(q[1], sh, to)
  PROVE  /\ AllHidden(q, sh) => AllHidden(z, to)
         /\ \A n \in Nat : AllHiddenBefore(q, sh, n) => AllHiddenBefore(z, to, n - 1)
         /\ AllHiddenBefore(q, sh, 1) => AllHidden(z, to)
<1>1. ASSUME NEW d \in Display, Up(z, to, d)
      PROVE  /\ Up(q, sh, d)
             /\ \A n \in Nat : HiddenBefore(q, d, n) => HiddenBefore(z, d, n - 1)
  BY <1>1, DrawsDown
<1>2. \A d : ~ HiddenBefore(q, d, 1) BY DEF HiddenBefore
<1> QED BY <1>1, <1>2 DEF AllHidden, AllHiddenBefore

\* A display that fails comes off the terminal.
LEMMA HiddenFailed ==
  ASSUME NEW q, NEW sh
  PROVE  /\ AllHidden(q, sh) => AllHidden(q, 0)
         /\ \A n : AllHiddenBefore(q, sh, n) => AllHiddenBefore(q, 0, n)
         /\ \A d \in Display : Up(q, 0, d) => Up(q, sh, d)
<1>1. 0 \notin Display BY DEF Display
<1>2. \A d \in Display : Up(q, 0, d) => Up(q, sh, d) BY <1>1 DEF Up
<1> QED BY <1>2 DEF AllHidden, AllHiddenBefore

\* An item that shows no display leaves hidden what is hidden.
LEMMA HiddenGrown ==
  ASSUME NEW q \in Seq(Item), NEW z \in Seq(Item), NEW x, Grown(z, q, x), NEW sh,
         NEW d \in Display, ~ IsShow(x, d)
  PROVE  /\ Up(z, sh, d) => Up(q, sh, d)
         /\ \A n \in Nat, m \in Nat :
              n <= m => (HiddenBefore(q, d, n) => HiddenBefore(z, d, m))
<1>1. /\ Len(q) \in Nat /\ Len(z) \in Nat /\ Len(z) = Len(q) + 1 /\ z[Len(z)] = x
      /\ \A i \in 1 .. Len(q) : i \in 1 .. Len(z) /\ z[i] = q[i]
      /\ \A i \in 1 .. Len(z) : i # Len(z) => i \in 1 .. Len(q) /\ z[i] = q[i]
  BY GrownElements
<1>2. \A i \in 1 .. Len(z) : IsShow(z[i], d) => i \in 1 .. Len(q) /\ z[i] = q[i] BY <1>1
<1>3. ASSUME NEW n \in Nat, NEW m \in Nat, n <= m, HiddenBefore(q, d, n)
      PROVE  HiddenBefore(z, d, m)
  <2>1. PICK j \in 1 .. Len(q) :
          j < n /\ IsHide(q[j], d) /\ \A k \in 1 .. Len(q) : IsShow(q[k], d) => k < j
    BY <1>3 DEF HiddenBefore
  <2>2. j \in 1 .. Len(z) /\ z[j] = q[j] /\ j < m BY <1>1, <1>3, <2>1
  <2>3. \A k \in 1 .. Len(z) : IsShow(z[k], d) => k < j BY <1>2, <2>1
  <2> QED BY <2>1, <2>2, <2>3 DEF HiddenBefore
<1> QED BY <1>2, <1>3 DEF Up

\* A hide at the end hides.
LEMMA HideLast ==
  ASSUME NEW q \in Seq(Item), NEW z \in Seq(Item), NEW x, Grown(z, q, x),
         NEW d, IsHide(x, d)
  PROVE  HiddenBefore(z, d, Len(z) + 1)
<1>1. /\ Len(q) \in Nat /\ Len(z) \in Nat /\ Len(z) = Len(q) + 1 /\ z[Len(z)] = x
      /\ \A i \in 1 .. Len(q) : i \in 1 .. Len(z) /\ z[i] = q[i]
      /\ \A i \in 1 .. Len(z) : i # Len(z) => i \in 1 .. Len(q) /\ z[i] = q[i]
  BY GrownElements
<1>2. \A k \in 1 .. Len(z) : IsShow(z[k], d) => k < Len(z)
  BY <1>1 DEF IsShow, IsHide
<1>3. Len(z) \in 1 .. Len(z) /\ Len(z) < Len(z) + 1 BY <1>1
<1> QED BY <1>1, <1>2, <1>3 DEF HiddenBefore

\* Displays are queued in the order of their blocks: what is shown or failed (up to m)
\* is not after any of them, and none is after the b-th.
Rising(q, m, b) ==
  /\ \A i \in 1 .. Len(q) : q[i].what = "show" => m <= q[i].arg /\ q[i].arg <= b
  /\ \A i, j \in 1 .. Len(q) :
       q[i].what = "show" /\ q[j].what = "show" /\ i < j => q[i].arg <= q[j].arg

\* Displays rise in the order of their blocks, whichever item is taken ...
LEMMA RisingDropped ==
  ASSUME NEW q \in Seq(Item), NEW z \in Seq(Item), Dropped(z, q),
         NEW m \in Nat, NEW b \in Nat, Rising(q, m, b)
  PROVE  /\ Rising(z, m, b)
         /\ q[1].what = "show" =>
              m <= q[1].arg /\ q[1].arg <= b /\ Rising(z, q[1].arg, b)
<1>1. /\ Len(q) \in Nat /\ Len(z) \in Nat /\ Len(q) = Len(z) + 1
      /\ \A i \in 1 .. Len(z) : i + 1 \in 1 .. Len(q) /\ z[i] = q[i + 1]
      /\ \A i \in 1 .. Len(q) : i # 1 => i - 1 \in 1 .. Len(z) /\ z[i - 1] = q[i]
  BY DroppedElements
<1>2. ASSUME NEW i \in 1 .. Len(z), NEW j \in 1 .. Len(z),
             z[i].what = "show", z[j].what = "show", i < j
      PROVE  z[i].arg <= z[j].arg
  <2>1. i + 1 \in 1 .. Len(q) /\ z[i] = q[i + 1] /\ j + 1 \in 1 .. Len(q) /\ z[j] = q[j + 1]
    BY <1>1
  <2> QED BY <1>2, <2>1 DEF Rising
<1>3. ASSUME NEW i \in 1 .. Len(z), z[i].what = "show"
      PROVE  m <= z[i].arg /\ z[i].arg <= b /\ (q[1].what = "show" => q[1].arg <= z[i].arg)
  <2>1. i + 1 \in 1 .. Len(q) /\ z[i] = q[i + 1] /\ 1 \in 1 .. Len(q) /\ 1 < i + 1 BY <1>1
  <2> QED BY <1>3, <2>1 DEF Rising
<1>4. 1 \in 1 .. Len(q) BY <1>1
<1>5. q[1].what = "show" => m <= q[1].arg /\ q[1].arg <= b BY <1>4 DEF Rising
<1> QED BY <1>2, <1>3, <1>5 DEF Rising

\* ... and if the one put in is the latest block's ...
LEMMA RisingGrown ==
  ASSUME NEW q \in Seq(Item), NEW z \in Seq(Item), NEW x, Grown(z, q, x),
         NEW m \in Nat, NEW b \in Nat, m <= b, Rising(q, m, b), x.what = "show" => x.arg = b
  PROVE  Rising(z, m, b)
<1>1. /\ Len(q) \in Nat /\ Len(z) \in Nat /\ Len(z) = Len(q) + 1 /\ z[Len(z)] = x
      /\ \A i \in 1 .. Len(q) : i \in 1 .. Len(z) /\ z[i] = q[i]
      /\ \A i \in 1 .. Len(z) : i # Len(z) => i \in 1 .. Len(q) /\ z[i] = q[i]
  BY GrownElements
<1>2. ASSUME NEW i \in 1 .. Len(z), z[i].what = "show"
      PROVE  m <= z[i].arg /\ z[i].arg <= b
  <2>1. CASE i = Len(z) BY <1>1, <1>2, <2>1
  <2>2. CASE i # Len(z) BY <1>1, <1>2, <2>2 DEF Rising
  <2> QED BY <2>1, <2>2
<1>3. ASSUME NEW i \in 1 .. Len(z), NEW j \in 1 .. Len(z),
             z[i].what = "show", z[j].what = "show", i < j
      PROVE  z[i].arg <= z[j].arg
  <2>1. i \in 1 .. Len(q) /\ z[i] = q[i] BY <1>1, <1>3
  <2>2. CASE j = Len(z) BY <1>1, <1>2, <1>3, <2>2
  <2>3. CASE j # Len(z) BY <1>1, <1>3, <2>1, <2>3 DEF Rising
  <2> QED BY <2>2, <2>3
<1> QED BY <1>2, <1>3 DEF Rising

\* ... and above any lower bound.
LEMMA RisingLower ==
  ASSUME NEW q \in Seq(Item), NEW m \in Nat, NEW n \in Nat, n <= m,
         NEW b \in Nat, NEW c \in Nat, b <= c, Rising(q, m, b)
  PROVE  Rising(q, n, c)
<1>1. ASSUME NEW i \in 1 .. Len(q), q[i].what = "show" PROVE q[i].arg \in Nat
  <2>1. q[i] \in Item OBVIOUS
  <2> QED BY <1>1, <2>1, ItemTypes DEF Display
<1> QED BY <1>1 DEF Rising

-----------------------------------------------------------------------------
(***************************************************************************)
(* What steps do to what threads have to do.                               *)
(***************************************************************************)

\* The output thread writes a record at a time, after a flush that returns at once.
Writing(s) ==
  Len(s) <= 2 /\ \A i \in 1 .. Len(s) : s[i].op = IF i = Len(s) THEN "write" ELSE "flush"

Types ==
  /\ queue \in Seq(Item) /\ todo \in [Thread -> Seq(Op)] /\ Writing(todo["output"])
  /\ lock \in {Free} \cup (User \X Nat) /\ set \in SUBSET Event
  /\ started \in BOOLEAN /\ (lock # Free => started)
  /\ ~ started => queue = <<>> /\ handed = 0 /\ shown = 0
  /\ handed \in Nat /\ written \in Nat
  /\ live \in 0 .. MaxDisplays /\ blocks \in 0 .. MaxDisplays /\ live \in {0, blocks}
  /\ shown \in 0 .. MaxDisplays /\ failed \in 0 .. MaxDisplays /\ broken \subseteq Display
  /\ taking \in BOOLEAN /\ armed \in BOOLEAN /\ (armed => live # 0) /\ presses \in 0 .. 2
  /\ flushed \in BOOLEAN /\ exited \in BOOLEAN

\* A step of thread t leaves the others their operations.
Others(t) == \A u \in Thread : u # t => todo'[u] = todo[u]
Drops(t) ==
  /\ todo' \in [Thread -> Seq(Op)] /\ Len(todo[t]) > 0
  /\ Dropped(todo'[t], todo[t]) /\ Others(t)
Swaps(t, x) ==
  /\ todo' \in [Thread -> Seq(Op)] /\ Len(todo[t]) > 0
  /\ Swapped(todo'[t], todo[t], x) /\ Others(t)
Starts(t, ops) ==
  /\ todo' \in [Thread -> Seq(Op)]
  /\ todo[t] = <<>> /\ todo'[t] = ops /\ Others(t)

\* The main thread and the workers hand things over; the output thread takes them.
LEMMA ThreadTypes ==
  /\ "main" \in User /\ "main" \in Thread /\ "output" \in Thread /\ User \subseteq Thread
  /\ Workers \subseteq User /\ "main" \notin Workers /\ "output" \notin User
  /\ \A t \in Thread : t = "output" \/ t \in User
BY ConsoleAssumption DEF User, Thread

\* An operation done with nothing to follow is dropped.
LEMMA ThenDrops ==
  ASSUME Types, NEW t \in Thread, todo[t] # <<>>, Then(t, <<>>)
  PROVE  Drops(t)
<1>1. todo[t] \in Seq(Op) /\ todo' = [todo EXCEPT ![t] = <<>> \o Tail(todo[t])]
  BY DEF Types, Then
<1>2. <<>> \o Tail(todo[t]) \in Seq(Op) /\ Dropped(<<>> \o Tail(todo[t]), todo[t])
      /\ Len(todo[t]) > 0
  BY <1>1, TailDrops
<1> QED BY <1>1, <1>2 DEF Types, Drops, Others

\* An operation that leaves another is replaced by it.
LEMMA ThenSwaps ==
  ASSUME Types, NEW t \in Thread, todo[t] # <<>>, NEW x \in Op, Then(t, <<x>>)
  PROVE  Swaps(t, x)
<1>1. todo[t] \in Seq(Op) /\ todo' = [todo EXCEPT ![t] = <<x>> \o Tail(todo[t])]
  BY DEF Types, Then
<1>2. <<x>> \o Tail(todo[t]) \in Seq(Op) /\ Swapped(<<x>> \o Tail(todo[t]), todo[t], x)
  BY <1>1, HeadSwaps
<1>3. Len(todo[t]) > 0 BY <1>1
<1> QED BY <1>1, <1>2, <1>3 DEF Types, Swaps, Others

\* A thread begins with operations only when it has none.
LEMMA BeginStarts ==
  ASSUME Types, NEW t \in Thread, NEW ops \in Seq(Op), Begin(t, ops)
  PROVE  Starts(t, ops)
BY DEF Types, Begin, Starts, Others

\* The operation at hand is the first one.
LEMMA AtAgain ==
  ASSUME Types, NEW t \in Thread, NEW op
  PROVE  AtOp(t, op) <=> (At(todo[t], op) /\ todo[t] # <<>> /\ Doing(t) = todo[t][1])
<1>1. todo[t] \in Seq(Op) BY DEF Types
<1> QED BY <1>1 DEF AtOp, At, Doing

\* What each action does to the operations, items and events, in these terms.
LEMMA FlushNothingDoes ==
  ASSUME Types, NEW t \in Thread, FlushNothing(t)
  PROVE  /\ At(todo[t], "flush") /\ Drops(t) /\ (t \in User => ~ started)
         /\ flushed' = (flushed \/ todo[t][1].timed)
<1>1. AtOp(t, "flush") /\ Then(t, <<>>) /\ (~ started \/ t = "output")
      /\ flushed' = (flushed \/ Doing(t).timed)
  BY DEF FlushNothing, ReturnsAtOnce
<1> QED BY <1>1, AtAgain, ThenDrops, ThreadTypes

\* A wait is over when its event is set, or, with a timeout, at any time.
LEMMA WaitedDoes ==
  ASSUME Types, NEW t \in Thread, Waited(t)
  PROVE  /\ At(todo[t], "wait") /\ Drops(t)
         /\ \/ /\ todo[t][1].event \in set
               /\ set' = set \ {todo[t][1].event}
               /\ flushed' = (flushed \/ todo[t][1].timed)
            \/ todo[t][1].timed /\ set' = set /\ flushed' = flushed
BY AtAgain, ThenDrops DEF Waited

\* A print writes and is done.
LEMMA WriteDirectlyDoes ==
  ASSUME Types, NEW t \in Thread, WriteDirectly(t)
  PROVE  At(todo[t], "write") /\ Drops(t)
BY AtAgain, ThenDrops DEF WriteDirectly

\* What the main thread does at a prompt, at a display's start and at its end.
LEMMA MainDoes ==
  ASSUME Types
  PROVE  /\ Answer => At(todo["main"], "ask") /\ Drops("main")
         /\ InstallHandler => At(todo["main"], "arm") /\ Drops("main")
         /\ EndProcess => At(todo["main"], "exit")
<1>1. "main" \in Thread BY ThreadTypes
<1>2. Answer => At(todo["main"], "ask") /\ Drops("main")
  BY <1>1, AtAgain, ThenDrops DEF Answer
<1>3. InstallHandler => At(todo["main"], "arm") /\ Drops("main")
  BY <1>1, AtAgain, ThenDrops DEF InstallHandler
<1>4. EndProcess => At(todo["main"], "exit") BY <1>1, AtAgain DEF EndProcess
<1> QED BY <1>2, <1>3, <1>4

\* A thread that takes the lock finds the output thread or starts it.
LEMMA TakeLockDoes ==
  ASSUME Types, NEW t \in Thread, TakeLock(t)
  PROVE  t \in User /\ lock' \in User \X Nat /\ started'
<1>1. AtOp(t, "hand") \/ (AtOp(t, "flush") /\ t # "output") BY DEF TakeLock, ReturnsAtOnce
<1>2. t # "output"
  <2>1. ASSUME At(todo["output"], "hand") PROVE FALSE
    <3>1. todo["output"] \in Seq(Op) BY ThreadTypes DEF Types
    <3>2. Len(todo["output"]) \in Nat BY <3>1
    <3>3. 1 \in 1 .. Len(todo["output"]) BY <2>1, <3>2 DEF At
    <3>4. todo["output"][1].op \in {"write", "flush"} BY <3>3 DEF Types, Writing
    <3> QED BY <2>1, <3>4 DEF At
  <2> QED BY <1>1, <2>1, AtAgain
<1>3. t \in User BY <1>2, ThreadTypes
<1>4. todo[t] \in Seq(Op) BY DEF Types
<1>5. Len(todo[t]) \in Nat BY <1>4
<1> QED BY <1>3, <1>5 DEF TakeLock, Holder

Puts(t, x) ==
  queue' \in Seq(Item) /\ Grown(queue', queue, x)

\* What a thread with the lock hands over: a record, a display or an event.
LEMMA PutItemDoes ==
  ASSUME Types, NEW t \in Thread, PutItem(t)
  PROVE  /\ t \in User /\ started
         /\ \/ /\ At(todo[t], "hand") /\ Drops(t) /\ HandsRecord(todo[t][1])
               /\ handed' = handed + 1
               /\ Puts(t, [what |-> "record", arg |-> handed + 1])
            \/ /\ At(todo[t], "hand") /\ Drops(t) /\ handed' = handed
               /\ HandsShow(todo[t][1]) \/ HandsHide(todo[t][1])
               /\ Puts(t, [what |-> todo[t][1].what, arg |-> todo[t][1].arg])
            \/ /\ At(todo[t], "flush") /\ handed' = handed
               /\ Swaps(t, Wait(<<t, Len(todo[t])>>, todo[t][1].timed))
               /\ Puts(t, [what |-> "set", arg |-> <<t, Len(todo[t])>>])
<1> DEFINE o == todo[t][1]
<1>1. todo[t] \in Seq(Op) /\ queue \in Seq(Item) BY DEF Types
<1>2. lock = <<t, Len(todo[t])>> BY DEF PutItem, Holder
<1>3. AtOp(t, "hand") \/ AtOp(t, "flush") BY DEF PutItem
<1>4. todo[t] # <<>> /\ Doing(t) = o BY <1>3, AtAgain
<1>5. Len(todo[t]) \in Nat /\ Len(todo[t]) > 0 BY <1>1, <1>4
<1>6. lock # Free BY <1>2, <1>5 DEF Free
<1>7. t \in User /\ started
  <2>1. lock \in User \X Nat /\ started BY <1>6 DEF Types
  <2> QED BY <1>2, <2>1
<1>8. o \in Op BY <1>1, <1>5
<1>9. CASE AtOp(t, "hand")
  <2>1. At(todo[t], "hand") /\ o.op = "hand" BY <1>9, AtAgain DEF At
  <2>2. /\ queue' = Append(queue, [what |-> o.what,
                                   arg |-> IF o.what = "record" THEN handed + 1 ELSE o.arg])
        /\ handed' = handed + IF o.what = "record" THEN 1 ELSE 0
        /\ Then(t, <<>>)
    <3>1. ~ AtOp(t, "flush") BY <2>1, AtAgain DEF At
    <3> QED BY <1>4, <3>1 DEF PutItem
  <2>3. Drops(t) BY <1>4, <2>2, ThenDrops
  <2>4. o.what \in {"record", "show", "hide"} BY <1>8, <2>1, OpTypes
  <2>5. CASE o.what = "record"
    <3>1. [what |-> "record", arg |-> handed + 1] \in Item BY DEF Item, Types
    <3>2. queue' = Append(queue, [what |-> "record", arg |-> handed + 1]) BY <2>2, <2>5
    <3>3. Puts(t, [what |-> "record", arg |-> handed + 1])
      BY <1>1, <3>1, <3>2, AppendGrows DEF Puts
    <3>4. handed' = handed + 1 BY <2>2, <2>5
    <3> QED BY <1>7, <2>1, <2>3, <2>5, <3>3, <3>4 DEF HandsRecord
  <2>6. CASE o.what # "record"
    <3>1. HandsShow(o) \/ HandsHide(o) BY <2>1, <2>4, <2>6 DEF HandsShow, HandsHide
    <3>2. [what |-> o.what, arg |-> o.arg] \in Item
      <4>1. o.arg \in Display BY <1>8, <3>1, OpTypes
      <4> QED BY <2>4, <2>6, <4>1 DEF Item
    <3>3. queue' = Append(queue, [what |-> o.what, arg |-> o.arg]) BY <2>2, <2>6
    <3>4. Puts(t, [what |-> o.what, arg |-> o.arg])
      BY <1>1, <3>2, <3>3, AppendGrows DEF Puts
    <3>5. handed' = handed BY <2>2, <2>6 DEF Types
    <3> QED BY <1>7, <2>1, <2>3, <3>1, <3>4, <3>5
  <2> QED BY <2>5, <2>6
<1>10. CASE AtOp(t, "flush")
  <2>1. At(todo[t], "flush") /\ o.op = "flush" BY <1>10, AtAgain DEF At
  <2>2. /\ queue' = Append(queue, [what |-> "set", arg |-> <<t, Len(todo[t])>>])
        /\ handed' = handed
        /\ Then(t, <<Wait(<<t, Len(todo[t])>>, o.timed)>>)
    <3>1. ~ AtOp(t, "hand") BY <2>1, AtAgain DEF At
    <3> QED BY <1>4, <3>1 DEF PutItem, Holder
  <2>3. <<t, Len(todo[t])>> \in Event BY <1>5 DEF Event
  <2>4. o.timed \in BOOLEAN BY <1>8, <2>1, OpTypes
  <2>5. Wait(<<t, Len(todo[t])>>, o.timed) \in Op BY <2>3, <2>4, OpsAreTyped
  <2>6. Swaps(t, Wait(<<t, Len(todo[t])>>, o.timed)) BY <1>4, <2>2, <2>5, ThenSwaps
  <2>7. [what |-> "set", arg |-> <<t, Len(todo[t])>>] \in Item BY <2>3 DEF Item
  <2>8. Puts(t, [what |-> "set", arg |-> <<t, Len(todo[t])>>])
    BY <1>1, <2>2, <2>7, AppendGrows DEF Puts
  <2> QED BY <1>7, <2>1, <2>2, <2>6, <2>8
<1> QED BY <1>3, <1>9, <1>10

\* What threads begin with.
LEMMA BeginsDo ==
  ASSUME Types
  PROVE  /\ \A t \in User : Log(t) => Starts(t, <<Hand("record", 0)>>)
         /\ \A t \in User : PrintFrom(t) => Starts(t, PrintText(handed))
         /\ AskUser /\ live = 0 => Starts("main", <<Flush, Ask>>)
         /\ AskUser /\ live # 0 => Starts("main",
              <<Flush, Hand("hide", live), Flush, Ask, Hand("show", live)>>)
         /\ EnterDisplay => Starts("main", <<Hand("show", live'), Arm>>)
         /\ LeaveDisplay => Starts("main", <<Hand("hide", live)>>)
         /\ Finish => Starts("main", <<Flush, Exit>>)
<1>1. "main" \in Thread /\ User \subseteq Thread BY ThreadTypes
<1>2. handed \in Nat /\ live \in Nat /\ (live # 0 => live \in Display)
  BY ConsoleAssumption DEF Types, Display
<1>3. Hand("record", 0) \in Op /\ Flush \in Op /\ Ask \in Op /\ Arm \in Op /\ Exit \in Op
      /\ Write(handed) \in Op
  BY <1>2, OpsAreTyped
<1>4. \A t \in User : Log(t) => Starts(t, <<Hand("record", 0)>>)
  <2>1. <<Hand("record", 0)>> \in Seq(Op) BY <1>3
  <2> QED BY <1>1, <2>1, BeginStarts DEF Log
<1>5. \A t \in User : PrintFrom(t) => Starts(t, PrintText(handed))
  <2>1. PrintText(handed) \in Seq(Op) BY <1>3 DEF PrintText
  <2> QED BY <1>1, <2>1, BeginStarts DEF PrintFrom
<1>6. AskUser /\ live = 0 => Starts("main", <<Flush, Ask>>)
  <2>1. <<Flush, Ask>> \in Seq(Op) BY <1>3
  <2>2. live = 0 => Prompt = <<Flush, Ask>> BY DEF Prompt
  <2> QED BY <1>1, <2>1, <2>2, BeginStarts DEF AskUser
<1>7. AskUser /\ live # 0 => Starts("main",
        <<Flush, Hand("hide", live), Flush, Ask, Hand("show", live)>>)
  <2>1. SUFFICES ASSUME AskUser, live # 0
                 PROVE  Starts("main",
                          <<Flush, Hand("hide", live), Flush, Ask, Hand("show", live)>>)
    OBVIOUS
  <2>2. Hand("hide", live) \in Op /\ Hand("show", live) \in Op BY <1>2, <2>1, OpsAreTyped
  <2>3. <<Flush, Hand("hide", live), Flush, Ask, Hand("show", live)>> \in Seq(Op)
    BY <1>3, <2>2
  <2>4. Prompt = <<Flush, Hand("hide", live), Flush, Ask, Hand("show", live)>>
    BY <2>1 DEF Prompt
  <2> QED BY <1>1, <2>1, <2>3, <2>4, BeginStarts DEF AskUser
<1>8. EnterDisplay => Starts("main", <<Hand("show", live'), Arm>>)
  <2>1. SUFFICES ASSUME EnterDisplay PROVE Starts("main", <<Hand("show", live'), Arm>>)
    OBVIOUS
  <2>2. live' = blocks + 1 /\ blocks + 1 \in Display
    BY <2>1, ConsoleAssumption DEF EnterDisplay, Types, Display
  <2>3. Hand("show", live') \in Op BY <2>2, OpsAreTyped
  <2>4. <<Hand("show", live'), Arm>> \in Seq(Op) BY <1>3, <2>3
  <2>5. Begin("main", <<Hand("show", live'), Arm>>) BY <2>1, <2>2 DEF EnterDisplay
  <2> QED BY <1>1, <2>4, <2>5, BeginStarts
<1>9. LeaveDisplay => Starts("main", <<Hand("hide", live)>>)
  <2>1. SUFFICES ASSUME LeaveDisplay PROVE Starts("main", <<Hand("hide", live)>>) OBVIOUS
  <2>2. Hand("hide", live) \in Op BY <1>2, <2>1, OpsAreTyped DEF LeaveDisplay
  <2>3. <<Hand("hide", live)>> \in Seq(Op) BY <2>2
  <2> QED BY <1>1, <2>1, <2>3, BeginStarts DEF LeaveDisplay
<1>10. Finish => Starts("main", <<Flush, Exit>>)
  <2>1. <<Flush, Exit>> \in Seq(Op) BY <1>3
  <2> QED BY <1>1, <2>1, BeginStarts DEF Finish
<1> QED BY <1>4, <1>5, <1>6, <1>7, <1>8, <1>9, <1>10

\* The second Ctrl+C puts its four operations on top.
LEMMA InterruptDoes ==
  ASSUME Types, Interrupt
  PROVE  /\ presses < 2 /\ presses' = presses + 1 /\ live # 0
         /\ \/ presses = 0 /\ todo' = todo
            \/ /\ presses = 1 /\ todo' \in [Thread -> Seq(Op)] /\ Others("main")
               /\ Len(todo'["main"]) = Len(todo["main"]) + 4
               /\ todo'["main"][1] = Hand("record", 0) /\ todo'["main"][2] = Hand("hide", live)
               /\ todo'["main"][3] = TimedFlush /\ todo'["main"][4] = Exit
               /\ \A i \in 1 .. Len(todo["main"]) : todo'["main"][i + 4] = todo["main"][i]
<1>1. /\ armed /\ presses < 2 /\ presses' = presses + 1
      /\ todo' = IF presses = 0 THEN todo ELSE [todo EXCEPT !["main"] = Quit \o todo["main"]]
  BY DEF Interrupt
<1>2. live # 0 /\ live \in Display /\ presses \in {0, 1}
  BY <1>1, ConsoleAssumption DEF Types, Display
<1>3. CASE presses = 0 BY <1>1, <1>2, <1>3
<1>4. CASE presses = 1
  <2>1. "main" \in Thread /\ todo \in [Thread -> Seq(Op)] BY ThreadTypes DEF Types
  <2>2. /\ Hand("record", 0) \in Op /\ Hand("hide", live) \in Op
        /\ TimedFlush \in Op /\ Exit \in Op
    BY <1>2, OpsAreTyped
  <2>3. todo' = [todo EXCEPT !["main"] = Quit \o todo["main"]] BY <1>1, <1>4
  <2> DEFINE z == Quit \o todo["main"]
  <2>4. /\ z \in Seq(Op) /\ Len(z) = Len(todo["main"]) + 4
        /\ z[1] = Hand("record", 0) /\ z[2] = Hand("hide", live)
        /\ z[3] = TimedFlush /\ z[4] = Exit
        /\ \A i \in 1 .. Len(todo["main"]) : z[i + 4] = todo["main"][i]
    <3>1. todo["main"] \in Seq(Op) BY <2>1
    <3>2. z = <<Hand("record", 0), Hand("hide", live), TimedFlush, Exit>> \o todo["main"]
      BY DEF Quit
    <3> HIDE DEF z
    <3> QED BY <2>2, <3>1, <3>2, FourOnTop
  <2> HIDE DEF z
  <2>5. todo' \in [Thread -> Seq(Op)] /\ todo'["main"] = z /\ Others("main")
    BY <2>1, <2>3, <2>4 DEF z, Others
  <2> QED BY <1>1, <1>2, <1>4, <2>4, <2>5
<1> QED BY <1>2, <1>3, <1>4

\* The output thread.
TakesItem(what) ==
  /\ todo["output"] = <<>> /\ Len(queue) > 0 /\ queue[1].what = what /\ queue[1] \in Item
  /\ started /\ queue' \in Seq(Item) /\ Dropped(queue', queue) /\ Head(queue) = queue[1]

\* The output thread takes the first item when it has nothing else to do.
LEMMA TakeDoes ==
  ASSUME Types, NEW what, Take(what)
  PROVE  TakesItem(what)
<1>1. /\ todo["output"] = <<>> /\ queue # <<>> /\ Head(queue).what = what
      /\ queue' = Tail(queue)
  BY DEF Take
<1>2. queue \in Seq(Item) /\ started BY <1>1 DEF Types
<1>3. /\ Len(queue) \in Nat /\ Len(queue) > 0 /\ Head(queue) = queue[1]
      /\ Tail(queue) \in Seq(Item) /\ Dropped(Tail(queue), queue)
  BY <1>1, <1>2, TailDrops
<1>4. queue[1] \in Item BY <1>2, <1>3
<1> QED BY <1>1, <1>2, <1>3, <1>4 DEF TakesItem

\* With a record it takes what the record's handler prints.
LEMMA TakeRecordDoes ==
  ASSUME Types, TakeRecord
  PROVE  /\ TakesItem("record") /\ queue[1].arg \in Nat
         /\ queue[1].arg # 0 => Starts("output", PrintText(queue[1].arg - 1))
<1>1. /\ TakesItem("record")
      /\ todo' = [todo EXCEPT !["output"] = PrintText(Head(queue).arg - 1)]
  BY TakeDoes DEF TakeRecord
<1>2. queue[1].arg \in Nat /\ Head(queue) = queue[1] BY <1>1, ItemTypes DEF TakesItem
<1>3. ASSUME queue[1].arg # 0 PROVE Starts("output", PrintText(queue[1].arg - 1))
  <2>1. queue[1].arg - 1 \in Nat BY <1>2, <1>3
  <2>2. PrintText(queue[1].arg - 1) \in Seq(Op) BY <2>1, OpsAreTyped DEF PrintText
  <2>3. "output" \in Thread /\ todo \in [Thread -> Seq(Op)] BY ThreadTypes DEF Types
  <2> QED BY <1>1, <1>2, <2>2, <2>3 DEF Starts, Others, TakesItem
<1> QED BY <1>1, <1>2, <1>3

\* A display is shown, fails to draw, or is left alone.
LEMMA ShowDoes ==
  ASSUME Types, Show
  PROVE  /\ TakesItem("show") /\ queue[1].arg \in Display
         /\ Draws(queue[1], shown, shown')
         /\ \/ shown' = shown /\ failed' = failed /\ broken' = broken
            \/ /\ shown = 0 /\ queue[1].arg # failed
               /\ \/ shown' = queue[1].arg /\ failed' = failed /\ broken' = broken
                  \/ /\ failed' = queue[1].arg /\ broken' = broken \cup {queue[1].arg}
                     /\ shown' = shown
<1>1. TakesItem("show") BY TakeDoes DEF Show
<1>2. queue[1].arg \in Display /\ Head(queue) = queue[1]
  BY <1>1, ItemTypes DEF TakesItem
<1>3. \/ shown' = shown /\ failed' = failed /\ broken' = broken
      \/ /\ shown = 0 /\ queue[1].arg # failed
         /\ \/ shown' = queue[1].arg /\ failed' = failed /\ broken' = broken
            \/ /\ failed' = queue[1].arg /\ broken' = broken \cup {queue[1].arg}
               /\ shown' = shown
  BY <1>2 DEF Show
<1>4. Draws(queue[1], shown, shown') BY <1>1, <1>3 DEF Draws, IsShow, TakesItem
<1> QED BY <1>1, <1>2, <1>3, <1>4

\* A display is hidden, or left alone if it is not the one shown.
LEMMA HideDoes ==
  ASSUME Types, Hide
  PROVE  /\ TakesItem("hide") /\ queue[1].arg \in Display
         /\ Draws(queue[1], shown, shown') /\ shown' \in {0, shown}
<1>1. TakesItem("hide") BY TakeDoes DEF Hide
<1>2. queue[1].arg \in Display /\ Head(queue) = queue[1]
  BY <1>1, ItemTypes DEF TakesItem
<1>3. \/ shown # queue[1].arg /\ shown' = shown
      \/ shown = queue[1].arg /\ shown' = 0
  BY <1>2 DEF Hide
<1>4. queue[1].arg # 0 BY <1>2 DEF Display
<1> QED BY <1>1, <1>2, <1>3, <1>4 DEF Draws

\* An event is set.
LEMMA SetEventDoes ==
  ASSUME Types, SetEvent
  PROVE  /\ TakesItem("set") /\ queue[1].arg \in Event /\ set' = set \cup {queue[1].arg}
<1>1. TakesItem("set") BY TakeDoes DEF SetEvent
<1>2. queue[1].arg \in Event /\ Head(queue) = queue[1]
  BY <1>1, ItemTypes DEF TakesItem
<1> QED BY <1>1, <1>2 DEF SetEvent

\* A record whose handler fails counts as written.
LEMMA RecordFailsDoes ==
  ASSUME Types, RecordFails
  PROVE  TakesItem("record") /\ written' = written + 1
BY TakeDoes DEF RecordFails

-----------------------------------------------------------------------------
(***************************************************************************)
(* The inductive invariant.                                                *)
(***************************************************************************)

\* Each thread has a program of its own to do; the last one, which exits, is alone.
Ends(s) == Len(s) > 0 /\ s[Len(s)].op = "exit"
Shapes ==
  /\ \A t \in Thread : Fits(todo[t], t, live, presses, handed)
  /\ \A t \in Thread : t # "main" => Plain(todo[t])
  /\ Ends(todo["main"]) /\ presses < 2 => \A t \in Workers : todo[t] = <<>>
Exits ==
  /\ exited \/ flushed => At(todo["main"], "exit")
  /\ flushed => presses = 2
Programs == Shapes /\ Exits

\* A set or queued event is one a thread still waits for, or that of the handler's
\* flush, whose time is over.
Awaited(s, p, e) ==
  \/ WaitsAt(s, e[2])
  \/ e[1] = "main" /\ e[2] = Len(s) + 1 /\ p = 2 /\ At(s, "exit")

Events ==
  /\ \A e \in set : Awaited(todo[e[1]], presses, e)
  /\ \A i \in 1 .. Len(queue) : queue[i].what = "set" =>
       Awaited(todo[queue[i].arg[1]], presses, queue[i].arg) /\ queue[i].arg \notin set
  /\ Unique(queue)

\* Every record is written, in the output thread's hands, or queued.
Taken == written + (IF todo["output"] = <<>> THEN 0 ELSE 1)
Records ==
  /\ Taken <= handed /\ Ordered(queue, Taken, handed)
  /\ \A i \in 1 .. Len(todo["output"]) :
       todo["output"][i].op = "write" => todo["output"][i].after = written

\* Who waits to print, or to exit, waits until what was handed over is written.
Prints ==
  /\ \A t \in Thread : At(todo[t], "write") => todo[t][1].after <= written
  /\ \A t \in User : AtBefore(todo[t], "wait", {"write"}) =>
       Owes(queue, set, written, todo[t][1].event, todo[t][2].after)
  /\ AtBefore(todo["main"], "wait", {"exit"}) /\ presses < 2 =>
       Owes(queue, set, written, todo["main"][1].event, handed)
  /\ At(todo["main"], "exit") /\ presses < 2 => written = handed

\* A display that is shown or will be belongs to the block, or its end is queued or
\* about to be; who waits to ask, or to exit, waits until all are hidden.
Ending(d) ==
  live = 0 /\ Len(todo["main"]) > 0 /\ HandsHide(todo["main"][1]) /\ todo["main"][1].arg = d
InBlock ==
  \A d \in Display : Up(queue, shown, d) =>
    HiddenBefore(queue, d, Len(queue) + 1) \/ d = live \/ Ending(d)
Quiet ==
  /\ AtBefore(todo["main"], "flush", {"ask", "exit"}) =>
       AllHiddenBefore(queue, shown, Len(queue) + 1)
  /\ AtBefore(todo["main"], "wait", {"ask", "exit"}) =>
       /\ todo["main"][1].event \in set => AllHidden(queue, shown)
       /\ \A i \in 1 .. Len(queue) : IsSet(queue[i], todo["main"][1].event) =>
            AllHiddenBefore(queue, shown, i)
  /\ At(todo["main"], "ask") => AllHidden(queue, shown)
  /\ At(todo["main"], "exit") /\ (presses < 2 \/ flushed) => AllHidden(queue, shown)
Displays == InBlock /\ Quiet

\* Displays come in the order of their blocks, and those that failed before the others.
Failures ==
  /\ failed <= blocks /\ shown <= blocks /\ (shown # 0 => failed < shown)
  /\ \A b \in broken : b <= failed
  /\ Rising(queue, failed, blocks) /\ Rising(queue, shown, blocks)

Inv == Types /\ Programs /\ Events /\ Records /\ Prints /\ Displays /\ Failures

\* At first nothing is handed over and nobody has anything to do.
LEMMA InitHolds == Init => Inv
<1> SUFFICES ASSUME Init PROVE Inv OBVIOUS
<1>1. queue = <<>> /\ Len(queue) = 0 /\ queue \in Seq(Item) BY DEF Init
<1>2. /\ todo \in [Thread -> Seq(Op)] /\ \A t \in Thread : todo[t] = <<>>
      /\ todo["output"] = <<>> /\ todo["main"] = <<>>
  BY ThreadTypes DEF Init
<1>3. \A t \in Thread : Len(todo[t]) = 0 BY <1>2
<1>4. Types
  <2>1. Writing(todo["output"]) BY <1>3, ThreadTypes DEF Writing
  <2>2. lock = Free /\ set = {} /\ started = FALSE /\ taking = TRUE /\ armed = FALSE
        /\ flushed = FALSE /\ exited = FALSE /\ shown = 0 /\ handed = 0
    BY DEF Init
  <2>3. live = 0 /\ blocks = 0 /\ failed = 0 /\ broken = {} /\ presses = 0 /\ written = 0
    BY DEF Init
  <2>4. 0 \in 0 .. MaxDisplays BY ConsoleAssumption
  <2>5. lock \in {Free} \cup (User \X Nat) /\ set \in SUBSET Event /\ started \in BOOLEAN
        /\ (lock # Free => started) /\ handed \in Nat /\ written \in Nat
    BY <2>2, <2>3
  <2>6. taking \in BOOLEAN /\ armed \in BOOLEAN /\ flushed \in BOOLEAN /\ exited \in BOOLEAN
    BY <2>2, Zenon
  <2>8. ~ armed /\ presses \in 0 .. 2 BY <2>2, <2>3
  <2>7. live \in 0 .. MaxDisplays /\ blocks \in 0 .. MaxDisplays /\ live \in {0, blocks}
        /\ shown \in 0 .. MaxDisplays /\ failed \in 0 .. MaxDisplays /\ broken \subseteq Display
    BY <2>2, <2>3, <2>4
  <2> QED BY <1>1, <1>2, <2>1, <2>2, <2>5, <2>6, <2>7, <2>8 DEF Types
<1>5. Programs BY <1>2, <1>3, EmptyFits, ThreadTypes DEF Init, Programs, Shapes, Exits, Ends
<1>6. Events BY <1>1 DEF Init, Events, Unique
<1>7. Records
  <2>1. Taken = 0 BY <1>2 DEF Init, Taken
  <2>2. Ordered(queue, 0, 0) BY <1>1 DEF Ordered
  <2> QED BY <1>2, <1>3, <2>1, <2>2, ThreadTypes DEF Init, Records
<1>8. \A t \in Thread : \A op : ~ At(todo[t], op) BY <1>3 DEF At
<1>9. Prints BY <1>8, ThreadTypes DEF Prints, AtBefore
<1>10. AllHidden(queue, shown)
  <2>1. shown = 0 /\ 0 \notin Display BY DEF Init, Display
  <2> QED BY <1>1, <2>1 DEF AllHidden, Up
<1>11. Displays BY <1>8, <1>10, ThreadTypes DEF Displays, InBlock, Quiet, AtBefore, AllHidden
<1>12. Failures BY <1>1, ConsoleAssumption DEF Init, Failures, Rising
<1> QED BY <1>4, <1>5, <1>6, <1>7, <1>9, <1>11, <1>12 DEF Inv

\* The last record the output thread took is the next one to be written.
LEMMA TakeRecordStarts ==
  ASSUME Types, Records, TakeRecord
  PROVE  /\ TakesItem("record") /\ queue[1].arg = written + 1
         /\ Starts("output", PrintText(written))
         /\ Taken = written /\ written + 1 <= handed
         /\ Ordered(queue', written + 1, handed)
<1>1. TakesItem("record")
      /\ (queue[1].arg # 0 => Starts("output", PrintText(queue[1].arg - 1)))
  BY TakeRecordDoes
<1>2. Taken = written /\ Ordered(queue, written, handed) /\ written \in Nat /\ handed \in Nat
  BY <1>1 DEF TakesItem, Taken, Records, Types
<1>3. queue \in Seq(Item) BY DEF Types
<1>4. queue[1].arg = written + 1 /\ written + 1 <= handed
      /\ Ordered(queue', written + 1, handed)
  BY <1>1, <1>2, <1>3, RecordTaken DEF TakesItem, IsRecord
<1>5. queue[1].arg # 0 /\ queue[1].arg - 1 = written BY <1>2, <1>4
<1> QED BY <1>1, <1>2, <1>4, <1>5

\* What the output thread has left to do is only a record's print.
LEMMA WritingDropped ==
  ASSUME NEW s \in Seq(Op), NEW z \in Seq(Op), Dropped(z, s), Writing(s)
  PROVE  Writing(z)
<1>1. Len(s) \in Nat /\ Len(z) \in Nat /\ Len(z) = Len(s) - 1 BY DEF Dropped
<1>2. ASSUME NEW i \in 1 .. Len(z)
      PROVE  z[i].op = IF i = Len(z) THEN "write" ELSE "flush"
  <2>1. i + 1 \in 1 .. Len(s) /\ z[i] = s[i + 1] BY <1>1, <1>2 DEF Dropped
  <2> QED BY <1>1, <2>1 DEF Writing
<1> QED BY <1>1, <1>2 DEF Writing

\* A print is a flush and a write.
LEMMA PrintIsWriting ==
  ASSUME NEW n
  PROVE  Writing(PrintText(n))
BY DEF Writing, PrintText, Flush, Write

\* What else threads do keeps the output thread's program.
LEMMA WritingKept ==
  ASSUME Types, NEW t \in Thread, Drops(t) \/ (t # "output" /\ Others(t))
  PROVE  Writing(todo'["output"])
<1>1. "output" \in Thread /\ todo["output"] \in Seq(Op) BY ThreadTypes DEF Types
<1>2. CASE t = "output"
  <2>1. Dropped(todo'["output"], todo["output"]) /\ todo'["output"] \in Seq(Op)
    BY <1>1, <1>2 DEF Drops
  <2> QED BY <1>1, <2>1, WritingDropped DEF Types
<1>3. CASE t # "output"
  <2>1. todo'["output"] = todo["output"] BY <1>1, <1>3 DEF Drops, Others
  <2> QED BY <2>1 DEF Types
<1> QED BY <1>2, <1>3

\* Every step keeps the types.
LEMMA TypesKept ==
  ASSUME Types, Programs, Records, [Next]_vars
  PROVE  Types'
<1> USE DEF Types
<1>0. "main" \in Thread /\ "output" \in Thread /\ User \subseteq Thread /\ "main" # "output"
      /\ "output" \notin User
  BY ThreadTypes
<1>1. CASE UNCHANGED vars BY <1>1 DEF vars, displayVars
<1>2. ASSUME NEW t \in Thread, FlushNothing(t) PROVE Types'
  <2>1. Drops(t) /\ flushed' = (flushed \/ todo[t][1].timed) /\ At(todo[t], "flush")
    BY <1>2, FlushNothingDoes
  <2>2. todo' \in [Thread -> Seq(Op)] /\ Writing(todo'["output"])
    BY <2>1, WritingKept DEF Drops
  <2>3. flushed' \in BOOLEAN
    <3>1. todo[t] \in Seq(Op) /\ Len(todo[t]) > 0 /\ todo[t][1].op = "flush" BY <2>1 DEF At
    <3>2. todo[t][1] \in Op BY <3>1
    <3> QED BY <2>1, <3>1, <3>2, OpTypes
  <2> QED BY <1>2, <2>2, <2>3 DEF FlushNothing, displayVars
<1>3. ASSUME NEW t \in Thread, TakeLock(t) PROVE Types'
  <2>1. lock' \in User \X Nat /\ started' BY <1>3, TakeLockDoes
  <2> QED BY <1>3, <2>1 DEF TakeLock, displayVars
<1>4. ASSUME NEW t \in Thread, PutItem(t) PROVE Types'
  <2>1. /\ t \in User /\ started /\ queue' \in Seq(Item) /\ handed' \in Nat
        /\ todo' \in [Thread -> Seq(Op)] /\ Others(t)
    <3>1. /\ t \in User /\ started /\ queue' \in Seq(Item)
          /\ (handed' = handed \/ handed' = handed + 1)
          /\ (Drops(t) \/ Swaps(t, Wait(<<t, Len(todo[t])>>, todo[t][1].timed)))
      BY <1>4, PutItemDoes DEF Puts
    <3> QED BY <3>1 DEF Drops, Swaps
  <2>2. Writing(todo'["output"]) BY <1>0, <2>1, WritingKept
  <2>3. lock' = Free /\ started' = started BY <1>4 DEF PutItem
  <2> QED BY <1>4, <2>1, <2>2, <2>3 DEF PutItem, displayVars
<1>5. ASSUME NEW t \in Thread, Waited(t) PROVE Types'
  <2>1. Drops(t) /\ At(todo[t], "wait")
    BY <1>5, WaitedDoes
  <2>2. todo' \in [Thread -> Seq(Op)] /\ Writing(todo'["output"])
    BY <2>1, WritingKept DEF Drops
  <2>3. flushed' \in BOOLEAN /\ set' \in SUBSET Event
    <3>1. todo[t] \in Seq(Op) /\ Len(todo[t]) > 0 /\ todo[t][1].op = "wait" BY <2>1 DEF At
    <3>2. todo[t][1] \in Op BY <3>1
    <3>3. todo[t][1].timed \in BOOLEAN BY <3>1, <3>2, OpTypes
    <3> QED BY <1>5, <3>3, WaitedDoes
  <2> QED BY <1>5, <2>2, <2>3 DEF Waited, displayVars
<1>6. ASSUME NEW t \in Thread, WriteDirectly(t) PROVE Types'
  <2>1. Drops(t) BY <1>6, WriteDirectlyDoes
  <2>2. todo' \in [Thread -> Seq(Op)] /\ Writing(todo'["output"])
    BY <2>1, WritingKept DEF Drops
  <2>3. written' \in Nat BY <1>6 DEF WriteDirectly
  <2> QED BY <1>6, <2>2, <2>3 DEF WriteDirectly, displayVars
<1>7. ASSUME NEW t \in User, Log(t) \/ PrintFrom(t) PROVE Types'
  <2>1. todo' \in [Thread -> Seq(Op)] /\ Others(t) BY <1>7, BeginsDo DEF Starts
  <2>2. Writing(todo'["output"]) BY <1>0, <2>1, WritingKept
  <2> QED BY <1>7, <2>1, <2>2 DEF Log, PrintFrom, idle, displayVars
<1>8. CASE AskUser \/ Finish
  <2>1. todo' \in [Thread -> Seq(Op)] /\ Others("main") BY <1>8, BeginsDo DEF Starts
  <2>2. Writing(todo'["output"]) BY <1>0, <2>1, WritingKept
  <2> QED BY <1>8, <2>1, <2>2 DEF AskUser, Finish, idle, displayVars
<1>9. CASE EnterDisplay
  <2>1. todo' \in [Thread -> Seq(Op)] /\ Others("main") BY <1>9, BeginsDo DEF Starts
  <2>2. Writing(todo'["output"]) BY <1>0, <2>1, WritingKept
  <2> QED BY <1>9, <2>1, <2>2, ConsoleAssumption DEF EnterDisplay, idle
<1>10. CASE LeaveDisplay
  <2>1. todo' \in [Thread -> Seq(Op)] /\ Others("main") BY <1>10, BeginsDo DEF Starts
  <2>2. Writing(todo'["output"]) BY <1>0, <2>1, WritingKept
  <2>3. live' = 0 /\ armed' = FALSE /\ 0 \in 0 .. MaxDisplays
    BY <1>10, ConsoleAssumption DEF LeaveDisplay
  <2> QED BY <1>10, <2>1, <2>2, <2>3 DEF LeaveDisplay, idle
<1>11. CASE Answer
  <2>1. todo' \in [Thread -> Seq(Op)] /\ Writing(todo'["output"])
    BY <1>0, <1>11, MainDoes, WritingKept DEF Drops
  <2> QED BY <1>11, <2>1 DEF Answer, displayVars
<1>12. CASE InstallHandler
  <2>1. todo' \in [Thread -> Seq(Op)] /\ Writing(todo'["output"])
    BY <1>0, <1>12, MainDoes, WritingKept DEF Drops
  <2>2. live # 0 /\ live' = live
    <3>1. 1 \in 1 .. Len(todo["main"]) /\ todo["main"][1].op = "arm"
      <4>1. todo["main"] \in Seq(Op) BY <1>0
      <4>2. At(todo["main"], "arm") BY <1>12, MainDoes
      <4> QED BY <4>1, <4>2 DEF At
    <3>2. Each(todo["main"], 1, "main", live, presses, handed)
      BY <1>0, <3>1 DEF Programs, Shapes, Fits
    <3> QED BY <1>12, <3>1, <3>2 DEF Each, InstallHandler
  <2>3. armed' \in BOOLEAN BY <1>12 DEF InstallHandler
  <2> QED BY <1>12, <2>1, <2>2, <2>3 DEF InstallHandler, idle
<1>13. CASE EndProcess BY <1>13 DEF EndProcess, displayVars
<1>14. CASE Interrupt
  <2>1. todo' \in [Thread -> Seq(Op)] /\ Writing(todo'["output"])
    BY <1>0, <1>14, InterruptDoes, WritingKept
  <2>2. presses' \in 0 .. 2 BY <1>14, InterruptDoes
  <2> QED BY <1>14, <2>1, <2>2 DEF Interrupt, displayVars
<1>15. CASE TakeRecord
  <2>1. TakesItem("record") /\ Starts("output", PrintText(written))
    BY <1>15, TakeRecordStarts
  <2>2. todo' \in [Thread -> Seq(Op)] /\ Writing(todo'["output"]) /\ started
        /\ queue' \in Seq(Item)
    BY <2>1, PrintIsWriting DEF Starts, TakesItem
  <2> QED BY <1>15, <2>2 DEF TakeRecord, displayVars
<1>16. CASE RecordFails
  <2>1. TakesItem("record") /\ written' = written + 1 BY <1>16, RecordFailsDoes
  <2> QED BY <1>16, <2>1 DEF RecordFails, TakesItem, displayVars
<1>17. CASE SetEvent
  <2>1. TakesItem("set") /\ set' \in SUBSET Event BY <1>17, SetEventDoes
  <2> QED BY <1>17, <2>1 DEF SetEvent, TakesItem, displayVars
<1>18. CASE Show
  <2>1. TakesItem("show") /\ shown' \in 0 .. MaxDisplays /\ failed' \in 0 .. MaxDisplays
        /\ broken' \subseteq Display
    <3>1. TakesItem("show") /\ queue[1].arg \in 0 .. MaxDisplays /\ queue[1].arg \in Display
      BY <1>18, ShowDoes DEF Display
    <3>2. \/ shown' = shown /\ failed' = failed /\ broken' = broken
          \/ shown' = queue[1].arg /\ failed' = failed /\ broken' = broken
          \/ failed' = queue[1].arg /\ broken' = broken \cup {queue[1].arg} /\ shown' = shown
      BY <1>18, ShowDoes
    <3> QED BY <3>1, <3>2
  <2> QED BY <1>18, <2>1 DEF Show, TakesItem, output
<1>19. CASE Hide
  <2>1. TakesItem("hide") /\ shown' \in {0, shown} BY <1>19, HideDoes
  <2> QED BY <1>19, <2>1, ConsoleAssumption DEF Hide, TakesItem, output
<1>20. CASE RedrawFails
  <2>1. shown \in Display /\ failed' = shown /\ broken' = broken \cup {shown} /\ shown' = 0
    BY <1>20 DEF RedrawFails, Display
  <2> QED BY <1>20, <2>1, ConsoleAssumption DEF RedrawFails, output
<1>21. CASE Terminal BY <1>21 DEF Terminal, displayVars
<1> QED
  BY <1>1, <1>2, <1>3, <1>4, <1>5, <1>6, <1>7, <1>8, <1>9, <1>10, <1>11, <1>12, <1>13,
     <1>14, <1>15, <1>16, <1>17, <1>18, <1>19, <1>20, <1>21
  DEF Next, ThreadStep, OutputStep

-----------------------------------------------------------------------------
(***************************************************************************)
(* Programs.                                                               *)
(***************************************************************************)

\* What comes after an operation that is done.
LEMMA AfterDrop ==
  ASSUME NEW s \in Seq(Op), NEW z \in Seq(Op), Dropped(z, s), Len(s) > 0,
         NEW t, NEW l, NEW p, NEW h, Fits(s, t, l, p, h), s[1].op # "exit"
  PROVE  /\ Len(z) > 0 => Len(s) > 1 /\ z[1] = s[2] /\ s[2] \in Op
         /\ ~ At(z, "wait")
         /\ At(z, "write") \/ At(z, "ask") \/ At(z, "exit") => s[1].op \in {"flush", "wait"}
         /\ At(z, "flush") => HandsHide(s[1]) /\ s[1].arg = l
         /\ s[1].op \in {"flush", "wait"} /\ s[1].timed => t = "main" /\ p = 2 /\ At(z, "exit")
<1>1. Len(s) \in Nat /\ Len(z) \in Nat /\ Len(z) = Len(s) - 1 BY DEF Dropped
<1>2. s[1] \in Op /\ Each(s, 1, t, l, p, h) BY <1>1 DEF Fits
<1>3. ASSUME Len(z) > 0
      PROVE  /\ Len(s) > 1 /\ z[1] = s[2] /\ s[2] \in Op /\ Follows(s[1], s[2], l)
  <2>1. 1 \in 1 .. Len(z) /\ 1 \in 1 .. Len(s) - 1 /\ 1 + 1 = 2 /\ 2 \in 1 .. Len(s)
    BY <1>1, <1>3
  <2>2. z[1] = s[2] /\ Follows(s[1], s[2], l) BY <2>1 DEF Dropped, Fits
  <2> QED BY <1>1, <1>3, <2>1, <2>2
<1>4. ~ At(z, "wait")
  BY <1>3 DEF At, Follows, HandsShow, HandsHide
<1>5. At(z, "write") \/ At(z, "ask") \/ At(z, "exit") => s[1].op \in {"flush", "wait"}
  BY <1>3 DEF At, Follows, HandsShow, HandsHide
<1>6. At(z, "flush") => HandsHide(s[1]) /\ s[1].arg = l
  BY <1>3 DEF At, Follows, HandsShow, HandsHide
<1>7. s[1].op \in {"flush", "wait"} /\ s[1].timed => t = "main" /\ p = 2 /\ At(z, "exit")
  <2>1. SUFFICES ASSUME s[1].op \in {"flush", "wait"}, s[1].timed
                 PROVE  t = "main" /\ p = 2 /\ At(z, "exit")
    OBVIOUS
  <2>2. t = "main" /\ p = 2 /\ 1 < Len(s) /\ s[1 + 1].op = "exit" BY <1>2, <2>1 DEF Each
  <2>3. Len(z) > 0 /\ 1 + 1 = 2 BY <1>1, <2>2
  <2> QED BY <1>3, <2>2, <2>3 DEF At
<1> QED BY <1>3, <1>4, <1>5, <1>6, <1>7

\* A program that ends the process after its first operation did so before ...
LEMMA EndsDropped ==
  ASSUME NEW s \in Seq(Op), NEW z \in Seq(Op), Dropped(z, s), Ends(z)
  PROVE  Ends(s)
<1>1. Len(s) \in Nat /\ Len(z) \in Nat /\ Len(z) = Len(s) - 1 /\ Len(z) > 0
  BY DEF Dropped, Ends
<1>2. Len(z) \in 1 .. Len(z) /\ Len(z) + 1 = Len(s) BY <1>1
<1>3. z[Len(z)] = s[Len(s)] BY <1>2 DEF Dropped
<1> QED BY <1>1, <1>3 DEF Ends

\* ... and before its first operation became a wait.
LEMMA EndsSwapped ==
  ASSUME NEW s \in Seq(Op), NEW z \in Seq(Op), NEW e, NEW b, Len(s) > 0,
         Swapped(z, s, Wait(e, b)), Ends(z)
  PROVE  Ends(s)
<1>1. Len(s) \in Nat /\ Len(z) = Len(s) /\ Len(s) > 0 BY DEF Swapped
<1>2. Len(s) # 1 BY <1>1 DEF Swapped, Ends, Wait
<1>3. Len(s) \in 2 .. Len(s) BY <1>1, <1>2
<1>4. z[Len(s)] = s[Len(s)] BY <1>3 DEF Swapped
<1> QED BY <1>1, <1>4 DEF Ends

\* The shapes of programs survive an operation that is done ...
LEMMA ShapesDrop ==
  ASSUME Types, Shapes, handed' \in Nat, NEW t \in Thread, Drops(t),
         live' = live, presses' = presses, handed <= handed'
  PROVE  Shapes'
<1>1. \A u \in Thread : todo[u] \in Seq(Op) /\ todo'[u] \in Seq(Op) BY DEF Types, Drops
<1>2. \A u \in Thread : u # t => todo'[u] = todo[u] BY DEF Drops, Others
<1>3. ASSUME NEW u \in Thread PROVE Fits(todo'[u], u, live', presses', handed')
  <2>1. Fits(todo[u], u, live, presses, handed) BY DEF Shapes
  <2>2. Fits(todo'[u], u, live, presses, handed)
    <3>1. CASE u = t BY <1>1, <2>1, <3>1, FitsDropped DEF Drops
    <3>2. CASE u # t BY <1>2, <2>1, <3>2
    <3> QED BY <3>1, <3>2
  <2>3. Fits(todo'[u], u, live, presses, handed') BY <1>1, <2>2, FitsMore DEF Types
  <2> QED BY <2>3
<1>4. ASSUME NEW u \in Thread, u # "main" PROVE Plain(todo'[u])
  <2>1. Plain(todo[u]) BY <1>4 DEF Shapes
  <2>2. CASE u = t BY <1>1, <2>1, <2>2, PlainDropped DEF Drops
  <2>3. CASE u # t BY <1>2, <2>1, <2>3
  <2> QED BY <2>2, <2>3
<1>5. ASSUME Ends(todo'["main"]), presses' < 2, NEW u \in Workers PROVE todo'[u] = <<>>
  <2>1. "main" \in Thread /\ u \in Thread /\ u # "main" BY ThreadTypes
  <2>2. Ends(todo["main"])
    <3>1. CASE t = "main" BY <1>1, <1>5, <2>1, <3>1, EndsDropped DEF Drops
    <3>2. CASE t # "main" BY <1>2, <1>5, <2>1, <3>2
    <3> QED BY <3>1, <3>2
  <2>3. todo[u] = <<>> BY <1>5, <2>2 DEF Shapes
  <2>4. u # t BY <2>3 DEF Drops
  <2> QED BY <1>2, <2>1, <2>3, <2>4
<1> QED BY <1>3, <1>4, <1>5 DEF Shapes

\* ... a flush that becomes a wait ...
LEMMA ShapesSwap ==
  ASSUME Types, Shapes, NEW t \in Thread, todo[t][1].op = "flush",
         Swaps(t, Wait(<<t, Len(todo[t])>>, todo[t][1].timed)),
         live' = live, presses' = presses, handed' = handed
  PROVE  Shapes'
<1>1. \A u \in Thread : todo[u] \in Seq(Op) /\ todo'[u] \in Seq(Op) BY DEF Types, Swaps
<1>2. \A u \in Thread : u # t => todo'[u] = todo[u] BY DEF Swaps, Others
<1>0. Len(todo[t]) > 0
      /\ Swapped(todo'[t], todo[t], Wait(<<t, Len(todo[t])>>, todo[t][1].timed))
  BY DEF Swaps
<1>3. ASSUME NEW u \in Thread PROVE Fits(todo'[u], u, live', presses', handed')
  <2>1. Fits(todo[u], u, live, presses, handed) BY DEF Shapes
  <2>2. Fits(todo'[u], u, live, presses, handed)
    <3>1. CASE u = t BY <1>0, <1>1, <2>1, <3>1, FitsSwapped
    <3>2. CASE u # t BY <1>2, <2>1, <3>2
    <3> QED BY <3>1, <3>2
  <2> QED BY <2>2
<1>4. ASSUME NEW u \in Thread, u # "main" PROVE Plain(todo'[u])
  <2>1. Plain(todo[u]) BY <1>4 DEF Shapes
  <2>2. CASE u = t BY <1>0, <1>1, <2>1, <2>2, PlainSwapped
  <2>3. CASE u # t BY <1>2, <2>1, <2>3
  <2> QED BY <2>2, <2>3
<1>5. ASSUME Ends(todo'["main"]), presses' < 2, NEW u \in Workers PROVE todo'[u] = <<>>
  <2>1. "main" \in Thread /\ u \in Thread /\ u # "main" BY ThreadTypes
  <2>2. Ends(todo["main"])
    <3>1. CASE t = "main" BY <1>0, <1>1, <1>5, <2>1, <3>1, EndsSwapped
    <3>2. CASE t # "main" BY <1>2, <1>5, <2>1, <3>2
    <3> QED BY <3>1, <3>2
  <2>3. todo[u] = <<>> BY <1>5, <2>2 DEF Shapes
  <2>4. u # t BY <1>0, <2>3
  <2> QED BY <1>2, <2>1, <2>3, <2>4
<1> QED BY <1>3, <1>4, <1>5 DEF Shapes

\* ... a program that begins ...
LEMMA ShapesStart ==
  ASSUME Types, Shapes, NEW t \in Thread, NEW ops, Starts(t, ops),
         Fits(ops, t, live', presses, handed), t # "main" => Plain(ops),
         presses' = presses, handed' = handed, t = "main" \/ live' = live,
         t = "main" /\ Ends(ops) => \A w \in Workers : todo[w] = <<>>,
         t \in Workers => ~ Finishing
  PROVE  Shapes'
<1>1. \A u \in Thread : todo[u] \in Seq(Op) /\ todo'[u] \in Seq(Op) BY DEF Types, Starts
<1>2. \A u \in Thread : u # t => todo'[u] = todo[u] BY DEF Starts, Others
<1>0. todo[t] = <<>> /\ todo'[t] = ops BY DEF Starts
<1>3. ASSUME NEW u \in Thread PROVE Fits(todo'[u], u, live', presses', handed')
  <2>1. CASE u = t BY <1>0, <2>1
  <2>2. CASE u # t
    <3>1. Fits(todo[u], u, live, presses, handed) /\ (u # "main" => Plain(todo[u]))
      BY DEF Shapes
    <3>2. CASE live' = live BY <1>2, <2>2, <3>1, <3>2
    <3>3. CASE t = "main" BY <1>1, <1>2, <2>2, <3>1, <3>3, FitsPlain
    <3> QED BY <3>2, <3>3
  <2> QED BY <2>1, <2>2
<1>4. ASSUME NEW u \in Thread, u # "main" PROVE Plain(todo'[u])
  <2>1. Plain(todo[u]) BY <1>4 DEF Shapes
  <2> QED BY <1>0, <1>2, <1>4, <2>1
<1>5. ASSUME Ends(todo'["main"]), presses' < 2, NEW u \in Workers PROVE todo'[u] = <<>>
  <2>1. "main" \in Thread /\ u \in Thread /\ u # "main" BY ThreadTypes
  <2>2. CASE t = "main"
    <3>1. todo[u] = <<>> BY <1>0, <1>5, <2>2
    <3> QED BY <1>2, <2>1, <2>2, <3>1
  <2>3. CASE t # "main"
    <3>1. Ends(todo["main"]) BY <1>2, <1>5, <2>1, <2>3
    <3>2. todo[u] = <<>> BY <1>5, <3>1 DEF Shapes
    <3>3. t \notin Workers
      <4>1. todo["main"] \in Seq(Op) BY <1>1, <2>1
      <4>2. Len(todo["main"]) \in 1 .. Len(todo["main"]) BY <3>1, <4>1 DEF Ends
      <4>3. todo["main"][Len(todo["main"])] = Exit BY <3>1, <4>1, <4>2, OpTypes DEF Ends
      <4>4. todo["main"] # <<>> /\ presses < 2 BY <1>5, <4>2
      <4>5. Finishing BY <4>3, <4>4 DEF Finishing
      <4> QED BY <4>5
    <3> QED BY <1>2, <2>1, <3>2, <3>3
  <2> QED BY <2>2, <2>3
<1> QED BY <1>3, <1>4, <1>5 DEF Shapes

\* ... and the second Ctrl+C.
LEMMA ShapesQuit ==
  ASSUME Types, Shapes, Interrupt
  PROVE  Shapes'
<1>1. \A u \in Thread : todo[u] \in Seq(Op) BY DEF Types
<1>2. /\ presses < 2 /\ presses' = presses + 1 /\ live # 0
      /\ live' = live /\ handed' = handed /\ presses \in {0, 1}
  BY InterruptDoes DEF Interrupt, displayVars, Types
<1>3. CASE presses = 0
  <2>1. todo' = todo /\ presses' = 1 BY <1>2, <1>3, InterruptDoes
  <2>2. ASSUME NEW u \in Thread PROVE Fits(todo'[u], u, live', presses', handed')
    <3>1. Fits(todo[u], u, live, 0, handed) BY <1>3 DEF Shapes
    <3>2. Fits(todo[u], u, live, 1, handed) BY <3>1 DEF Fits, Each
    <3> QED BY <1>2, <2>1, <3>2
  <2> QED BY <1>2, <1>3, <2>1, <2>2 DEF Shapes
<1>4. CASE presses = 1
  <2>1. /\ presses' = 2 /\ todo' \in [Thread -> Seq(Op)] /\ Others("main")
        /\ Len(todo'["main"]) = Len(todo["main"]) + 4
        /\ todo'["main"][1] = Hand("record", 0) /\ todo'["main"][2] = Hand("hide", live)
        /\ todo'["main"][3] = TimedFlush /\ todo'["main"][4] = Exit
        /\ \A i \in 1 .. Len(todo["main"]) : todo'["main"][i + 4] = todo["main"][i]
    BY <1>2, <1>4, InterruptDoes
  <2>2. "main" \in Thread BY ThreadTypes
  <2>3. ASSUME NEW u \in Thread PROVE Fits(todo'[u], u, live, 2, handed)
    <3>1. Fits(todo[u], u, live, presses, handed) BY DEF Shapes
    <3>2. CASE u = "main"
      <4>1. todo["main"] \in Seq(Op) /\ todo'["main"] \in Seq(Op) BY <1>1, <2>1, <2>2
      <4>2. Fits(todo["main"], "main", live, 1, handed) BY <1>4, <3>1, <3>2
      <4> DEFINE z == todo'["main"]
      <4>3. /\ z \in Seq(Op) /\ Len(z) = Len(todo["main"]) + 4
            /\ z[1] = Hand("record", 0) /\ z[2] = Hand("hide", live)
            /\ z[3] = TimedFlush /\ z[4] = Exit
            /\ \A i \in 1 .. Len(todo["main"]) : z[i + 4] = todo["main"][i]
        BY <2>1, <4>1
      <4> HIDE DEF z
      <4>4. 1 # 2 /\ 1 < 2 OBVIOUS
      <4>5. Fits(z, "main", live, 2, handed) BY <1>2, <4>1, <4>2, <4>3, <4>4, QuitFits
      <4> QED BY <3>2, <4>5 DEF z
    <3>3. CASE u # "main"
      <4>1. todo'[u] = todo[u] BY <2>1, <3>3 DEF Others
      <4>2. Plain(todo[u]) BY <3>3 DEF Shapes
      <4> QED BY <1>1, <3>1, <3>3, <4>1, <4>2, FitsPlain
    <3> QED BY <3>2, <3>3
  <2>4. \A u \in Thread : u # "main" => Plain(todo'[u]) BY <2>1 DEF Others, Shapes
  <2> QED BY <1>2, <2>1, <2>3, <2>4 DEF Shapes
<1> QED BY <1>2, <1>3, <1>4

\* The thread t is done with an operation, and nothing else changes its program.
LEMMA ExitsDrop ==
  ASSUME Types, Programs, NEW t \in Thread, Drops(t), todo[t][1].op # "exit",
         ~ exited, ~ exited', presses' = presses,
         flushed' => flushed \/ (todo[t][1].op \in {"flush", "wait"} /\ todo[t][1].timed)
  PROVE  Exits'
<1>1. SUFFICES ASSUME flushed' PROVE At(todo'["main"], "exit") /\ presses = 2
  BY DEF Exits
<1>2. "main" \in Thread /\ todo[t] \in Seq(Op) /\ todo'[t] \in Seq(Op)
  BY ThreadTypes DEF Types, Drops
<1>3. Fits(todo[t], t, live, presses, handed) BY DEF Programs, Shapes
<1>4. CASE flushed
  <2>1. At(todo["main"], "exit") /\ presses = 2 BY <1>4 DEF Programs, Exits
  <2>2. t # "main" BY <2>1 DEF At
  <2> QED BY <1>2, <2>1, <2>2 DEF Drops, Others
<1>5. CASE ~ flushed
  <2>1. todo[t][1].op \in {"flush", "wait"} /\ todo[t][1].timed BY <1>1, <1>5
  <2>2. t = "main" /\ presses = 2 /\ At(todo'[t], "exit")
    BY <1>2, <1>3, <2>1, AfterDrop DEF Drops
  <2> QED BY <2>2
<1> QED BY <1>4, <1>5

\* Another thread's step, or one of a main thread that does not exit yet.
LEMMA ExitsOthers ==
  ASSUME Types, Programs, NEW t \in Thread, Others(t), ~ At(todo[t], "exit"),
         ~ exited, ~ exited', presses' = presses, flushed' = flushed
  PROVE  Exits'
<1>1. "main" \in Thread BY ThreadTypes
<1>2. SUFFICES ASSUME flushed PROVE At(todo'["main"], "exit") /\ presses = 2
  BY DEF Exits
<1>3. At(todo["main"], "exit") /\ presses = 2 BY <1>2 DEF Programs, Exits
<1> QED BY <1>1, <1>3 DEF Others

\* A thread with nothing to do is at no operation.
LEMMA EmptyIsNowhere ==
  ASSUME NEW s \in Seq(Op), NEW op
  PROVE  /\ s = <<>> => ~ At(s, op)
         /\ At(s, op) => s # <<>> /\ s[1].op = op /\ s[1] \in Op /\ Len(s) > 0
<1>1. s = <<>> => Len(s) = 0 OBVIOUS
<1>2. At(s, op) => 1 \in 1 .. Len(s) BY DEF At
<1> QED BY <1>1, <1>2 DEF At

\* The programs that threads begin with have their shape.
LEMMA StartFits ==
  ASSUME Types
  PROVE  /\ \A t \in User : PrintFrom(t) =>
              Fits(PrintText(handed), t, live, presses, handed) /\ Plain(PrintText(handed))
         /\ ~ Ends(<<Hand("record", 0)>>) /\ \A n : ~ Ends(PrintText(n))
         /\ ~ Ends(<<Flush, Ask>>) /\ \A d : ~ Ends(<<Hand("show", d), Arm>>)
         /\ \A d : ~ Ends(<<Flush, Hand("hide", d), Flush, Ask, Hand("show", d)>>)
         /\ \A d : ~ Ends(<<Hand("hide", d)>>)
<1>1. \A t \in User : Fits(PrintText(handed), t, live, presses, handed) /\ Plain(PrintText(handed))
  <2>1. handed \in Nat /\ handed <= handed BY DEF Types
  <2> QED BY <2>1, PrintFits
<1>2. /\ ~ Ends(<<Hand("record", 0)>>) /\ \A n : ~ Ends(PrintText(n))
      /\ ~ Ends(<<Flush, Ask>>) /\ \A d : ~ Ends(<<Hand("show", d), Arm>>)
      /\ \A d : ~ Ends(<<Flush, Hand("hide", d), Flush, Ask, Hand("show", d)>>)
      /\ \A d : ~ Ends(<<Hand("hide", d)>>)
  BY DEF Ends, Hand, PrintText, Write, Flush, Ask, Arm
<1> QED BY <1>1, <1>2

\* Every step keeps the programs' shapes, and a thread that exits alone.
LEMMA ProgramsKept ==
  ASSUME Types, Types', Programs, Records, [Next]_vars
  PROVE  Programs'
<1>0. "main" \in Thread /\ "output" \in Thread /\ User \subseteq Thread /\ "main" # "output"
      /\ "output" \notin User /\ "output" \notin Workers /\ "main" \in User /\ Shapes
      /\ handed' \in Nat /\ handed \in Nat
      /\ (\A t \in Thread : todo[t] \in Seq(Op))
  BY ThreadTypes DEF Programs, Types
<1>1. CASE UNCHANGED vars
  BY <1>1 DEF vars, displayVars, Programs, Shapes, Exits
<1>2. ASSUME NEW t \in Thread, FlushNothing(t) PROVE Programs'
  <2>1. At(todo[t], "flush") /\ Drops(t) /\ flushed' = (flushed \/ todo[t][1].timed)
    BY <1>2, FlushNothingDoes
  <2>2. /\ live' = live /\ presses' = presses /\ handed' = handed /\ ~ exited /\ exited' = exited
    BY <1>2 DEF FlushNothing, displayVars
  <2>3. Shapes' BY <1>0, <2>1, <2>2, ShapesDrop
  <2>4. Exits' BY <2>1, <2>2, ExitsDrop DEF At
  <2> QED BY <2>3, <2>4 DEF Programs
<1>3. ASSUME NEW t \in Thread, TakeLock(t) PROVE Programs'
  BY <1>3 DEF TakeLock, displayVars, Programs, Shapes, Exits
<1>4. ASSUME NEW t \in Thread, PutItem(t) PROVE Programs'
  <2>1. /\ live' = live /\ presses' = presses /\ ~ exited /\ exited' = exited
        /\ flushed' = flushed
    BY <1>4 DEF PutItem, displayVars
  <2>2. /\ handed' = handed \/ handed' = handed + 1
        /\ \/ At(todo[t], "hand") /\ Drops(t)
           \/ /\ At(todo[t], "flush") /\ handed' = handed
              /\ Swaps(t, Wait(<<t, Len(todo[t])>>, todo[t][1].timed))
    BY <1>4, PutItemDoes
  <2>3. Others(t) /\ ~ At(todo[t], "exit") BY <2>2 DEF Drops, Swaps, At
  <2>4. Shapes'
    <3>1. CASE At(todo[t], "hand") /\ Drops(t) BY <1>0, <2>1, <2>2, <3>1, ShapesDrop
    <3>2. CASE /\ At(todo[t], "flush") /\ handed' = handed
               /\ Swaps(t, Wait(<<t, Len(todo[t])>>, todo[t][1].timed))
      BY <1>0, <2>1, <3>2, ShapesSwap DEF At
    <3> QED BY <2>2, <3>1, <3>2
  <2>5. Exits' BY <2>1, <2>3, ExitsOthers
  <2> QED BY <2>4, <2>5 DEF Programs
<1>5. ASSUME NEW t \in Thread, Waited(t) PROVE Programs'
  <2>1. /\ At(todo[t], "wait") /\ Drops(t)
        /\ flushed' = (flushed \/ todo[t][1].timed) \/ flushed' = flushed
    BY <1>5, WaitedDoes
  <2>2. /\ live' = live /\ presses' = presses /\ handed' = handed /\ ~ exited /\ exited' = exited
    BY <1>5 DEF Waited, displayVars
  <2>3. Shapes' BY <1>0, <2>1, <2>2, ShapesDrop
  <2>4. flushed' => flushed \/ todo[t][1].timed BY <2>1
  <2>5. Exits' BY <2>1, <2>2, <2>4, ExitsDrop DEF At
  <2> QED BY <2>3, <2>5 DEF Programs
<1>6. ASSUME NEW t \in Thread, WriteDirectly(t) PROVE Programs'
  <2>1. At(todo[t], "write") /\ Drops(t) BY <1>6, WriteDirectlyDoes
  <2>2. /\ live' = live /\ presses' = presses /\ handed' = handed /\ ~ exited /\ exited' = exited
        /\ flushed' = flushed
    BY <1>6 DEF WriteDirectly, displayVars
  <2>3. Shapes' BY <1>0, <2>1, <2>2, ShapesDrop
  <2>4. Exits' BY <2>1, <2>2, ExitsDrop DEF At
  <2> QED BY <2>3, <2>4 DEF Programs
<1>7. CASE Answer \/ InstallHandler
  <2>1. (At(todo["main"], "ask") \/ At(todo["main"], "arm")) /\ Drops("main")
    BY <1>7, MainDoes
  <2>2. /\ live' = live /\ presses' = presses /\ handed' = handed /\ ~ exited /\ exited' = exited
        /\ flushed' = flushed
    BY <1>7 DEF Answer, InstallHandler, idle, displayVars
  <2>3. Shapes' BY <1>0, <2>1, <2>2, ShapesDrop
  <2>4. Exits' BY <1>0, <2>1, <2>2, ExitsDrop DEF At
  <2> QED BY <2>3, <2>4 DEF Programs
<1>8. ASSUME NEW t \in Thread, NEW ops, Starts(t, ops), idle' = idle, ~ exited
      PROVE  Exits'
  <2>1. Others(t) /\ todo[t] = <<>> BY <1>8 DEF Starts
  <2>2. ~ At(todo[t], "exit") BY <1>0, <2>1, EmptyIsNowhere
  <2> QED BY <1>8, <2>1, <2>2, ExitsOthers DEF idle
<1>9. ASSUME NEW t \in User, ~ Finishing, Log(t) \/ PrintFrom(t) PROVE Programs'
  <2>1. t \in Thread /\ idle' = idle /\ live' = live /\ presses' = presses /\ handed' = handed
        /\ ~ exited
    BY <1>0, <1>9 DEF Log, PrintFrom, Begin, idle, displayVars
  <2>2. PICK ops : /\ Starts(t, ops) /\ Fits(ops, t, live, presses, handed) /\ Plain(ops)
                   /\ ~ Ends(ops)
    <3>1. CASE Log(t) BY <3>1, BeginsDo, LogFits, StartFits
    <3>2. CASE PrintFrom(t) BY <3>2, BeginsDo, StartFits
    <3> QED BY <1>9, <3>1, <3>2
  <2>3. Shapes' BY <1>0, <1>9, <2>1, <2>2, ShapesStart
  <2>4. Exits' BY <1>8, <2>1, <2>2
  <2> QED BY <2>3, <2>4 DEF Programs
<1>10. CASE AskUser \/ EnterDisplay \/ LeaveDisplay \/ Finish
  <2>1. idle' = idle /\ ~ exited /\ presses' = presses /\ handed' = handed
    BY <1>10 DEF AskUser, EnterDisplay, LeaveDisplay, Finish, Begin, idle
  <2>2. PICK ops : /\ Starts("main", ops) /\ Fits(ops, "main", live', presses, handed)
                   /\ (Ends(ops) => \A w \in Workers : todo[w] = <<>>)
    <3>1. CASE AskUser
      <4>1. live' = live BY <3>1 DEF AskUser, displayVars
      <4>2. CASE live = 0 BY <3>1, <4>1, <4>2, BeginsDo, OthersFit, StartFits
      <4>3. CASE live # 0
        <5> DEFINE ops == <<Flush, Hand("hide", live), Flush, Ask, Hand("show", live)>>
        <5>1. Starts("main", ops) /\ Fits(ops, "main", live, presses, handed) /\ ~ Ends(ops)
          BY <3>1, <4>3, BeginsDo, OthersFit, StartFits
        <5> QED BY <4>1, <5>1
      <4> QED BY <4>2, <4>3
    <3>2. CASE EnterDisplay
      <4>1. live' # 0 BY <3>2 DEF EnterDisplay, Types
      <4>2. Fits(<<Hand("show", live'), Arm>>, "main", live', presses, handed)
        BY <4>1, OthersFit
      <4> QED BY <3>2, <4>2, BeginsDo, StartFits
    <3>3. CASE LeaveDisplay
      <4>1. live' = 0 BY <3>3 DEF LeaveDisplay
      <4>2. Fits(<<Hand("hide", live)>>, "main", live', presses, handed)
        BY <4>1, OthersFit
      <4> QED BY <3>3, <4>2, BeginsDo, StartFits
    <3>4. CASE Finish
      <4>1. live' = 0 /\ \A w \in Workers : todo[w] = <<>> BY <3>4 DEF Finish, displayVars
      <4>2. Fits(<<Flush, Exit>>, "main", live', presses, handed) BY <4>1, OthersFit
      <4> QED BY <3>4, <4>1, <4>2, BeginsDo
    <3> QED BY <1>10, <3>1, <3>2, <3>3, <3>4
  <2>3. "main" \notin Workers BY ThreadTypes
  <2>4. Shapes' BY <1>0, <2>1, <2>2, <2>3, ShapesStart
  <2>5. Exits' BY <1>0, <1>8, <2>1, <2>2
  <2> QED BY <2>4, <2>5 DEF Programs
<1>11. CASE EndProcess
  <2>1. At(todo["main"], "exit") BY <1>11, MainDoes
  <2> QED BY <1>11, <2>1 DEF EndProcess, displayVars, Programs, Shapes, Exits
<1>12. CASE Interrupt
  <2>1. Shapes' BY <1>0, <1>12, ShapesQuit
  <2>2. ~ flushed BY <1>12 DEF Interrupt, Programs, Exits
  <2>3. ~ flushed' /\ ~ exited' BY <1>12, <2>2 DEF Interrupt
  <2> QED BY <2>1, <2>3 DEF Programs, Exits
<1>13. CASE TakeRecord
  <2>1. Starts("output", PrintText(written)) /\ written <= handed /\ written \in Nat
    BY <1>13, TakeRecordStarts DEF Types
  <2>2. live' = live /\ presses' = presses /\ handed' = handed /\ ~ exited
        /\ exited' = exited /\ flushed' = flushed
    BY <1>13 DEF TakeRecord, Take, displayVars
  <2>3. Fits(PrintText(written), "output", live, presses, handed) /\ Plain(PrintText(written))
    BY <1>0, <2>1, PrintFits
  <2>4. Shapes' BY <1>0, <2>1, <2>2, <2>3, ShapesStart
  <2>5. Others("output") /\ ~ At(todo["output"], "exit")
    BY <1>0, <2>1, EmptyIsNowhere DEF Starts
  <2>6. Exits' BY <1>0, <2>2, <2>5, ExitsOthers
  <2> QED BY <2>4, <2>6 DEF Programs
<1>14. CASE RecordFails \/ SetEvent \/ Show \/ Hide \/ RedrawFails \/ Terminal
  <2>1. /\ todo' = todo /\ live' = live /\ presses' = presses /\ handed' = handed
        /\ exited' = exited /\ flushed' = flushed
    BY <1>14
    DEF RecordFails, SetEvent, Show, Hide, RedrawFails, Terminal, output, displayVars
  <2> QED BY <2>1 DEF Programs, Shapes, Exits
<1> QED
  BY <1>1, <1>2, <1>3, <1>4, <1>5, <1>6, <1>7, <1>9, <1>10, <1>11, <1>12, <1>13, <1>14
  DEF Next, ThreadStep, OutputStep

-----------------------------------------------------------------------------
(***************************************************************************)
(* Events.                                                                 *)
(***************************************************************************)

Stays(e) == Awaited(todo[e[1]], presses, e) => Awaited(todo'[e[1]], presses', e)

\* Who waits for an event still does after another operation is done ...
LEMMA StaysDrop ==
  ASSUME Types, Programs, NEW t \in Thread, Drops(t), presses' = presses,
         ~ At(todo[t], "exit"), NEW e \in Event,
         \/ ~ At(todo[t], "wait") \/ e # todo[t][1].event
         \/ todo[t][1].op = "wait" /\ todo[t][1].timed
  PROVE  Stays(e)
<1> DEFINE s == todo[t]
           z == todo'[t]
<1>1. s \in Seq(Op) /\ z \in Seq(Op) /\ Dropped(z, s) /\ Len(s) > 0 /\ Len(s) \in Nat
      /\ Len(z) = Len(s) - 1
  BY DEF Types, Drops, Dropped
<1>2. e[1] \in Thread /\ e[2] \in Nat /\ e = <<e[1], e[2]>> BY DEF Event
<1>3. CASE e[1] # t
  <2>1. todo'[e[1]] = todo[e[1]] BY <1>2, <1>3 DEF Drops, Others
  <2> QED BY <2>1 DEF Stays
<1>4. CASE e[1] = t
  <2>1. SUFFICES ASSUME Awaited(s, presses, e) PROVE Awaited(z, presses, e)
    BY <1>4 DEF Stays
  <2>2. WaitsAt(s, e[2]) BY <1>4, <2>1 DEF Awaited
  <2>3. CASE WaitsAt(z, e[2]) BY <2>3 DEF Awaited
  <2>4. CASE ~ WaitsAt(z, e[2])
    <3>1. e[2] = Len(s) /\ At(s, "wait") BY <1>1, <1>2, <2>2, <2>4, WaitsDropped
    <3>2. Fits(s, t, live, presses, handed) BY DEF Programs, Shapes
    <3>3. 1 \in 1 .. Len(s) /\ s[1].op = "wait" BY <1>1, <3>1 DEF At
    <3>4. s[1].event = <<t, Len(s)>>
      <4>1. Each(s, 1, t, live, presses, handed) BY <3>2, <3>3 DEF Fits
      <4>2. Len(s) - 1 + 1 = Len(s) BY <1>1
      <4> QED BY <3>3, <4>1, <4>2 DEF Each
    <3>5. s[1].timed BY <1>2, <1>4, <3>1, <3>4
    <3>6. s[1].op # "exit" BY <3>3
    <3>7. t = "main" /\ presses = 2 /\ At(z, "exit") BY <1>1, <3>2, <3>3, <3>5, <3>6, AfterDrop
    <3> QED BY <1>1, <1>4, <3>1, <3>7 DEF Awaited
  <2> QED BY <2>3, <2>4
<1> QED BY <1>3, <1>4

\* ... after a flush becomes a wait, which names an event that nobody awaits ...
LEMMA StaysSwap ==
  ASSUME Types, NEW t \in Thread, NEW x, NEW b, Swaps(t, Wait(x, b)), presses' = presses,
         ~ At(todo[t], "exit"), NEW e \in Event
  PROVE  /\ Stays(e) /\ (e = <<t, Len(todo[t])>> => Awaited(todo'[e[1]], presses', e))
         /\ ~ At(todo[t], "wait") => ~ Awaited(todo[t], presses, <<t, Len(todo[t])>>)
<1> DEFINE s == todo[t]
           z == todo'[t]
<1>1. s \in Seq(Op) /\ z \in Seq(Op) /\ Swapped(z, s, Wait(x, b)) /\ Len(s) > 0 /\ Len(s) \in Nat
  BY DEF Types, Swaps
<1>2. e[1] \in Thread /\ e[2] \in Nat /\ e = <<e[1], e[2]>> BY DEF Event
<1>3. Stays(e)
  <2>1. CASE e[1] # t
    <3>1. todo'[e[1]] = todo[e[1]] BY <1>2, <2>1 DEF Swaps, Others
    <3> QED BY <3>1 DEF Stays
  <2>2. CASE e[1] = t
    <3>1. SUFFICES ASSUME Awaited(s, presses, e) PROVE Awaited(z, presses, e)
      BY <2>2 DEF Stays
    <3>2. WaitsAt(s, e[2]) BY <2>2, <3>1 DEF Awaited
    <3>3. WaitsAt(z, e[2]) BY <1>1, <1>2, <3>2, WaitsSwapped
    <3> QED BY <3>3 DEF Awaited
  <2> QED BY <2>1, <2>2
<1>4. ASSUME e = <<t, Len(s)>> PROVE Awaited(todo'[e[1]], presses', e)
  <2>1. e[1] = t /\ e[2] = Len(s) BY <1>4
  <2>2. WaitsAt(z, e[2]) BY <1>1, <1>2, <2>1, WaitsSwapped
  <2> QED BY <2>1, <2>2 DEF Awaited
<1>5. ASSUME ~ At(s, "wait") PROVE ~ Awaited(s, presses, <<t, Len(s)>>)
  <2>1. ~ WaitsAt(s, Len(s))
    <3>1. Len(s) - Len(s) + 1 = 1 BY <1>1
    <3> QED BY <1>1, <1>5, <3>1 DEF WaitsAt, At
  <2> QED BY <1>1, <2>1 DEF Awaited
<1> QED BY <1>3, <1>4, <1>5

\* ... after a program begins ...
LEMMA StaysOthers ==
  ASSUME Types, NEW t \in Thread, Others(t), todo[t] = <<>>, presses' = presses,
         NEW e \in Event
  PROVE  Stays(e)
<1>1. e[1] \in Thread /\ e[2] \in Nat BY DEF Event
<1>2. CASE e[1] # t
  <2>1. todo'[e[1]] = todo[e[1]] BY <1>1, <1>2 DEF Others
  <2> QED BY <2>1 DEF Stays
<1>3. CASE e[1] = t
  <2>1. Len(todo[t]) = 0 OBVIOUS
  <2> QED BY <1>1, <1>3, <2>1 DEF Stays, Awaited, WaitsAt, At
<1> QED BY <1>2, <1>3

\* ... and under the operations of the second Ctrl+C.
LEMMA StaysUnder ==
  ASSUME Types, Interrupt, NEW e \in Event
  PROVE  Stays(e)
<1>1. e[1] \in Thread /\ e[2] \in Nat BY DEF Event
<1>2. SUFFICES ASSUME Awaited(todo[e[1]], presses, e)
               PROVE  Awaited(todo'[e[1]], presses', e)
  BY DEF Stays
<1>3. presses # 2 BY InterruptDoes DEF Types
<1>4. WaitsAt(todo[e[1]], e[2]) BY <1>2, <1>3 DEF Awaited
<1>5. CASE todo' = todo BY <1>4, <1>5 DEF Awaited
<1>6. CASE todo' # todo
  <2>1. /\ todo' \in [Thread -> Seq(Op)] /\ Others("main")
        /\ Len(todo'["main"]) = Len(todo["main"]) + 4
        /\ \A i \in 1 .. Len(todo["main"]) : todo'["main"][i + 4] = todo["main"][i]
    BY <1>6, InterruptDoes
  <2>2. CASE e[1] = "main"
    <3>1. todo["main"] \in Seq(Op) /\ todo'["main"] \in Seq(Op)
      BY <1>1, <2>1, <2>2 DEF Types
    <3>2. WaitsAt(todo'["main"], e[2]) BY <1>1, <1>4, <2>1, <2>2, <3>1, WaitsUnder
    <3> QED BY <2>2, <3>2 DEF Awaited
  <2>3. CASE e[1] # "main"
    <3>1. todo'[e[1]] = todo[e[1]] BY <1>1, <2>1, <2>3 DEF Others
    <3> QED BY <1>4, <3>1 DEF Awaited
  <2> QED BY <2>2, <2>3
<1> QED BY <1>5, <1>6

\* Items of the queue are items, and what they set are events.
LEMMA QueuedTypes ==
  ASSUME Types
  PROVE  /\ \A i \in 1 .. Len(queue) : queue[i] \in Item
         /\ \A i \in 1 .. Len(queue) : queue[i].what = "set" => queue[i].arg \in Event
<1>1. queue \in Seq(Item) BY DEF Types
<1>2. \A i \in 1 .. Len(queue) : queue[i] \in Item BY <1>1
<1> QED BY <1>2, ItemTypes

\* The queue stays, and at most events are reset.
LEMMA EventsSame ==
  ASSUME Types, Events, queue' = queue, set' \subseteq set,
         \A e \in Event :
           e \in set' \/ (\E i \in 1 .. Len(queue) : queue[i].what = "set" /\ queue[i].arg = e)
             => Stays(e)
  PROVE  Events'
<1>1. ASSUME NEW e \in set' PROVE Awaited(todo'[e[1]], presses', e)
  <2>1. e \in set /\ e \in Event BY DEF Types
  <2> QED BY <2>1 DEF Events, Stays
<1>2. ASSUME NEW i \in 1 .. Len(queue), queue[i].what = "set"
      PROVE  Awaited(todo'[queue[i].arg[1]], presses', queue[i].arg) /\ queue[i].arg \notin set'
  <2>1. queue[i].arg \in Event BY <1>2, QueuedTypes
  <2>2. Stays(queue[i].arg) BY <1>2, <2>1
  <2> QED BY <1>2, <2>2 DEF Events, Stays
<1> QED BY <1>1, <1>2 DEF Events

\* An item goes, and an event may be set for it.
LEMMA EventsTaken ==
  ASSUME Types, Events, NEW what, TakesItem(what),
         \/ what # "set" /\ set' = set
         \/ what = "set" /\ set' = set \cup {queue[1].arg},
         \A e \in Event : Stays(e)
  PROVE  Events'
<1>1. queue \in Seq(Item) /\ queue' \in Seq(Item) /\ Dropped(queue', queue)
      /\ queue[1].what = what
  BY DEF Types, TakesItem
<1>2. /\ Len(queue) \in Nat /\ Len(queue') \in Nat /\ Len(queue) = Len(queue') + 1
      /\ \A i \in 1 .. Len(queue') : i + 1 \in 1 .. Len(queue) /\ queue'[i] = queue[i + 1]
  BY <1>1, DroppedElements
<1>3. 1 \in 1 .. Len(queue) BY <1>2
<1>4. ASSUME NEW e \in set' PROVE Awaited(todo'[e[1]], presses', e)
  <2>1. CASE e \in set BY <2>1 DEF Types, Events, Stays
  <2>2. CASE e \notin set
    <3>1. e = queue[1].arg /\ queue[1].what = "set" BY <1>1, <2>2
    <3>2. e \in Event /\ Awaited(todo[e[1]], presses, e) BY <1>3, <3>1, QueuedTypes DEF Events
    <3> QED BY <3>2 DEF Stays
  <2> QED BY <2>1, <2>2
<1>5. ASSUME NEW i \in 1 .. Len(queue'), queue'[i].what = "set"
      PROVE  /\ Awaited(todo'[queue'[i].arg[1]], presses', queue'[i].arg)
             /\ queue'[i].arg \notin set'
  <2>1. i + 1 \in 1 .. Len(queue) /\ queue'[i] = queue[i + 1] BY <1>2
  <2>2. queue[i + 1].arg \in Event BY <1>5, <2>1, QueuedTypes
  <2>3. Awaited(todo[queue[i + 1].arg[1]], presses, queue[i + 1].arg)
        /\ queue[i + 1].arg \notin set
    BY <1>5, <2>1 DEF Events
  <2>4. queue[1].what = "set" => queue'[i].arg # queue[1].arg
    BY <1>1, <1>5, UniqueDropped DEF Events
  <2>5. Awaited(todo'[queue'[i].arg[1]], presses', queue'[i].arg)
    BY <2>1, <2>2, <2>3 DEF Stays
  <2> QED BY <1>1, <2>1, <2>3, <2>4, <2>5
<1>6. Unique(queue') BY <1>1, UniqueDropped DEF Events
<1> QED BY <1>4, <1>5, <1>6 DEF Events

\* An item is put; its event, if it is one, is new.
LEMMA EventsPut ==
  ASSUME Types, Events, NEW t, NEW x, Puts(t, x), set' = set,
         \A e \in Event : Stays(e),
         x.what = "set" =>
           /\ x.arg \in Event /\ Awaited(todo'[x.arg[1]], presses', x.arg)
           /\ ~ Awaited(todo[x.arg[1]], presses, x.arg)
  PROVE  Events'
<1>1. queue \in Seq(Item) /\ queue' \in Seq(Item) /\ Grown(queue', queue, x)
  BY DEF Types, Puts
<1>2. /\ Len(queue) \in Nat /\ Len(queue') = Len(queue) + 1 /\ queue'[Len(queue')] = x
      /\ \A i \in 1 .. Len(queue') :
           i # Len(queue') => i \in 1 .. Len(queue) /\ queue'[i] = queue[i]
  BY <1>1, GrownElements
<1>3. \A e \in set' : Awaited(todo'[e[1]], presses', e) BY DEF Types, Events, Stays
<1>4. x.what = "set" =>
        x.arg \notin set /\ \A i \in 1 .. Len(queue) : queue[i].what = "set" => queue[i].arg # x.arg
  BY DEF Events
<1>5. ASSUME NEW i \in 1 .. Len(queue'), queue'[i].what = "set"
      PROVE  /\ Awaited(todo'[queue'[i].arg[1]], presses', queue'[i].arg)
             /\ queue'[i].arg \notin set'
  <2>1. CASE i = Len(queue') BY <1>2, <1>4, <1>5, <2>1
  <2>2. CASE i # Len(queue')
    <3>1. i \in 1 .. Len(queue) /\ queue'[i] = queue[i] BY <1>2, <2>2
    <3>2. queue[i].arg \in Event BY <1>5, <3>1, QueuedTypes
    <3> QED BY <1>5, <3>1, <3>2 DEF Events, Stays
  <2> QED BY <2>1, <2>2
<1>6. Unique(queue') BY <1>1, <1>4, UniqueGrown DEF Events
<1> QED BY <1>3, <1>5, <1>6 DEF Events

\* Every step keeps events awaited while they are queued or set.
LEMMA EventsKept ==
  ASSUME Types, Programs, Events, Records, [Next]_vars
  PROVE  Events'
<1>0. "main" \in Thread /\ "output" \in Thread /\ User \subseteq Thread
      /\ \A t \in Thread : todo[t] \in Seq(Op)
  BY ThreadTypes DEF Types
<1>1. ASSUME todo' = todo, presses' = presses, NEW e PROVE Stays(e) BY <1>1 DEF Stays
<1>2. CASE UNCHANGED vars
  BY <1>1, <1>2, EventsSame DEF vars, displayVars
<1>3. ASSUME NEW t \in Thread,
             FlushNothing(t) \/ WriteDirectly(t) \/ (t = "main" /\ (Answer \/ InstallHandler))
      PROVE  Events'
  <2>1. Drops(t) /\ ~ At(todo[t], "wait") /\ ~ At(todo[t], "exit")
    BY <1>3, FlushNothingDoes, WriteDirectlyDoes, MainDoes DEF At
  <2>2. queue' = queue /\ set' = set /\ presses' = presses
    BY <1>3 DEF FlushNothing, WriteDirectly, Answer, InstallHandler, idle
  <2>3. \A e \in Event : Stays(e) BY <2>1, <2>2, StaysDrop
  <2> QED BY <2>2, <2>3, EventsSame
<1>4. ASSUME NEW t \in Thread, Waited(t) PROVE Events'
  <2>1. At(todo[t], "wait") /\ Drops(t) /\ ~ At(todo[t], "exit") /\ todo[t][1].op = "wait"
    BY <1>4, WaitedDoes DEF At
  <2>2. queue' = queue /\ presses' = presses BY <1>4 DEF Waited
  <2>3. CASE todo[t][1].event \in set /\ set' = set \ {todo[t][1].event}
    <3>1. ASSUME NEW e \in Event,
                 e \in set'
                   \/ \E i \in 1 .. Len(queue) : queue[i].what = "set" /\ queue[i].arg = e
          PROVE  Stays(e)
      <4>1. e # todo[t][1].event BY <2>3, <3>1 DEF Events
      <4> QED BY <2>1, <2>2, <4>1, StaysDrop
    <3> QED BY <2>2, <2>3, <3>1, EventsSame
  <2>4. CASE todo[t][1].timed /\ set' = set
    <3>1. \A e \in Event : Stays(e) BY <2>1, <2>2, <2>4, StaysDrop
    <3> QED BY <2>2, <2>4, <3>1, EventsSame
  <2> QED BY <1>4, <2>3, <2>4, WaitedDoes
<1>5. ASSUME NEW t \in Thread, PutItem(t) PROVE Events'
  <2>1. set' = set /\ presses' = presses BY <1>5 DEF PutItem
  <2>2. CASE At(todo[t], "hand") /\ Drops(t)
    <3>1. ~ At(todo[t], "wait") /\ ~ At(todo[t], "exit") BY <2>2 DEF At
    <3>2. \A e \in Event : Stays(e) BY <2>1, <2>2, <3>1, StaysDrop
    <3>3. PICK x : Puts(t, x) /\ x.what # "set"
      <4>1. ~ At(todo[t], "flush") BY <2>2 DEF At
      <4>2. HandsRecord(todo[t][1]) \/ HandsShow(todo[t][1]) \/ HandsHide(todo[t][1])
            => todo[t][1].what # "set"
        BY DEF HandsRecord, HandsShow, HandsHide
      <4>3. \/ Puts(t, [what |-> "record", arg |-> handed + 1])
            \/ /\ HandsShow(todo[t][1]) \/ HandsHide(todo[t][1])
               /\ Puts(t, [what |-> todo[t][1].what, arg |-> todo[t][1].arg])
        BY <1>5, <4>1, PutItemDoes
      <4> QED BY <4>2, <4>3
    <3> QED BY <2>1, <3>2, <3>3, EventsPut
  <2>3. CASE /\ At(todo[t], "flush")
             /\ Swaps(t, Wait(<<t, Len(todo[t])>>, todo[t][1].timed))
             /\ Puts(t, [what |-> "set", arg |-> <<t, Len(todo[t])>>])
    <3>1. ~ At(todo[t], "wait") /\ ~ At(todo[t], "exit") BY <2>3 DEF At
    <3>2. <<t, Len(todo[t])>> \in Event BY <1>0 DEF Event
    <3>3. \A e \in Event : Stays(e) BY <2>1, <2>3, <3>1, StaysSwap
    <3>4. LET e == <<t, Len(todo[t])>>
          IN  Awaited(todo'[e[1]], presses', e) /\ ~ Awaited(todo[e[1]], presses, e)
      BY <2>1, <2>3, <3>1, <3>2, StaysSwap
    <3> QED BY <2>1, <2>3, <3>2, <3>3, <3>4, EventsPut
  <2> QED BY <1>5, <2>2, <2>3, PutItemDoes
<1>6. ASSUME NEW t \in Thread, NEW ops, Starts(t, ops), idle' = idle PROVE Events'
  <2>1. queue' = queue /\ set' = set /\ presses' = presses BY <1>6 DEF idle
  <2>2. \A e \in Event : Stays(e) BY <1>6, <2>1, StaysOthers DEF Starts
  <2> QED BY <2>1, <2>2, EventsSame
<1>7. ASSUME NEW t \in User, Log(t) \/ PrintFrom(t) PROVE Events'
  <2>1. idle' = idle BY <1>7 DEF Log, PrintFrom, idle
  <2> QED BY <1>0, <1>6, <1>7, <2>1, BeginsDo
<1>8. CASE AskUser \/ EnterDisplay \/ LeaveDisplay \/ Finish
  <2>1. idle' = idle BY <1>8 DEF AskUser, EnterDisplay, LeaveDisplay, Finish, idle
  <2>2. \E ops : Starts("main", ops) BY <1>8, BeginsDo
  <2> QED BY <1>0, <1>6, <2>1, <2>2
<1>9. CASE Interrupt
  <2>1. \A e \in Event : Stays(e) BY <1>9, StaysUnder
  <2>2. queue' = queue /\ set' = set BY <1>9 DEF Interrupt
  <2> QED BY <2>1, <2>2, EventsSame
<1>10. CASE TakeRecord
  <2>1. TakesItem("record") /\ Starts("output", PrintText(written))
    BY <1>10, TakeRecordStarts
  <2>2. set' = set /\ presses' = presses BY <1>10 DEF TakeRecord
  <2>3. \A e \in Event : Stays(e) BY <1>0, <2>1, <2>2, StaysOthers DEF Starts
  <2> QED BY <2>1, <2>2, <2>3, EventsTaken
<1>11. CASE RecordFails \/ Show \/ Hide
  <2>1. todo' = todo /\ presses' = presses /\ set' = set
    BY <1>11 DEF RecordFails, Show, Hide, output
  <2>2. \E w : w # "set" /\ TakesItem(w) BY <1>11, RecordFailsDoes, ShowDoes, HideDoes
  <2> QED BY <1>1, <2>1, <2>2, EventsTaken
<1>12. CASE SetEvent
  <2>1. todo' = todo /\ presses' = presses BY <1>12 DEF SetEvent
  <2> QED BY <1>1, <1>12, <2>1, SetEventDoes, EventsTaken
<1>13. CASE RedrawFails \/ Terminal \/ EndProcess \/ \E t \in Thread : TakeLock(t)
  <2>1. queue' = queue /\ set' = set /\ todo' = todo /\ presses' = presses
    BY <1>13 DEF RedrawFails, Terminal, EndProcess, TakeLock, output
  <2> QED BY <1>1, <2>1, EventsSame
<1> QED
  BY <1>0, <1>2, <1>3, <1>4, <1>5, <1>7, <1>8, <1>9, <1>10, <1>11, <1>12, <1>13
  DEF Next, ThreadStep, OutputStep

-----------------------------------------------------------------------------
(***************************************************************************)
(* Records.                                                                *)
(***************************************************************************)

\* What the output thread's next operation says of what is left.
LEMMA WritingEnds ==
  ASSUME NEW s \in Seq(Op), Writing(s)
  PROVE  /\ At(s, "write") => Len(s) = 1
         /\ At(s, "flush") => Len(s) = 2 /\ s[2].op = "write"
         /\ ~ At(s, "wait") /\ ~ At(s, "hand")
<1>1. Len(s) \in Nat OBVIOUS
<1>2. ASSUME NEW op, At(s, op)
      PROVE  1 \in 1 .. Len(s) /\ s[1].op = op
  BY <1>1, <1>2 DEF At
<1>3. Len(s) <= 2 BY DEF Writing
<1>4. At(s, "write") => Len(s) = 1
  <2>1. SUFFICES ASSUME At(s, "write"), 1 # Len(s) PROVE FALSE OBVIOUS
  <2>2. 1 \in 1 .. Len(s) /\ s[1].op = "write" BY <1>2, <2>1
  <2>3. s[1].op = "flush" BY <2>1, <2>2 DEF Writing
  <2> QED BY <2>2, <2>3
<1>5. At(s, "flush") => Len(s) = 2 /\ s[2].op = "write"
  <2>1. SUFFICES ASSUME At(s, "flush") PROVE Len(s) = 2 /\ s[2].op = "write" OBVIOUS
  <2>2. 1 \in 1 .. Len(s) /\ 1 # Len(s)
    <3>1. 1 \in 1 .. Len(s) /\ s[1].op = "flush" BY <1>2, <2>1
    <3> QED BY <3>1 DEF Writing
  <2>4. Len(s) \in 1 .. 2
    <3>1. \A n \in Nat : n <= 2 /\ 1 \in 1 .. n => n \in 1 .. 2 OBVIOUS
    <3> QED BY <1>1, <1>3, <2>2, <3>1, Zenon
  <2>3. Len(s) = 2 /\ 2 \in 1 .. Len(s) BY <2>2, <2>4
  <2> QED BY <2>3 DEF Writing
<1>6. ~ At(s, "wait") /\ ~ At(s, "hand") BY <1>2 DEF Writing
<1> QED BY <1>4, <1>5, <1>6

\* The output thread's program, the queue and the counters stay.
LEMMA RecordsSame ==
  ASSUME Records, todo'["output"] = todo["output"], queue' = queue,
         written' = written, handed' = handed
  PROVE  Records'
<1>1. Taken' = Taken BY DEF Taken
<1> QED BY <1>1 DEF Records

\* Records stay in order when something else is taken ...
LEMMA RecordsTaken ==
  ASSUME Types, Records, NEW what, what # "record", TakesItem(what),
         todo' = todo, written' = written, handed' = handed
  PROVE  Records'
<1>1. Taken' = Taken BY DEF Taken
<1>2. queue \in Seq(Item) /\ Taken \in Nat /\ handed \in Nat BY DEF Types, Taken
<1>3. Ordered(queue', Taken, handed)
  BY <1>2, OtherTaken DEF Records, TakesItem, IsRecord
<1> QED BY <1>1, <1>3 DEF Records

\* ... and when anything is put in.
LEMMA RecordsPut ==
  ASSUME Types, Records, NEW t, NEW x, Puts(t, x), todo'["output"] = todo["output"],
         written' = written,
         \/ x = [what |-> "record", arg |-> handed + 1] /\ handed' = handed + 1
         \/ x.what # "record" /\ handed' = handed
  PROVE  Records'
<1>1. Taken' = Taken BY DEF Taken
<1>2. queue \in Seq(Item) /\ Taken \in Nat /\ handed \in Nat /\ Taken <= handed
      /\ Ordered(queue, Taken, handed) /\ queue' \in Seq(Item) /\ Grown(queue', queue, x)
  BY DEF Types, Taken, Records, Puts
<1>3. Ordered(queue', Taken, handed') BY <1>2, RecordPut, OtherPut
<1>4. Taken <= handed' BY <1>2
<1> QED BY <1>1, <1>3, <1>4 DEF Records

\* The output thread flushes, which is nothing to it, and writes.
LEMMA RecordsWritten ==
  ASSUME Types, Records, Drops("output"), queue' = queue, handed' = handed,
         \/ At(todo["output"], "flush") /\ written' = written
         \/ At(todo["output"], "write") /\ written' = written + 1
  PROVE  Records'
<1> DEFINE s == todo["output"]
           z == todo'["output"]
<1>1. s \in Seq(Op) /\ z \in Seq(Op) /\ Writing(s) /\ Dropped(z, s) /\ Len(z) = Len(s) - 1
      /\ written \in Nat
  BY ThreadTypes DEF Types, Drops, Dropped
<1>2. s # <<>>
  <2>1. Len(s) > 0 BY DEF Drops
  <2>2. Len(<<>>) = 0 OBVIOUS
  <2> QED BY <2>1, <2>2
<1>3. Taken = written + 1 BY <1>2 DEF Taken
<1>4. CASE At(s, "flush") /\ written' = written
  <2>1. Len(s) = 2 /\ s[2].op = "write" BY <1>1, <1>4, WritingEnds
  <2>2. Len(z) = 1 /\ z[1] = s[2]
    <3>1. Len(z) = 1 /\ 1 \in 1 .. Len(z) /\ 1 + 1 = 2 BY <1>1, <2>1
    <3> QED BY <1>1, <3>1 DEF Dropped
  <2>3. z # <<>> BY <2>2
  <2>4. Taken' = Taken BY <1>3, <1>4, <2>3 DEF Taken
  <2>5. s[2].after = written
    <3>1. 2 \in 1 .. Len(s) BY <2>1
    <3> QED BY <2>1, <3>1 DEF Records
  <2> QED BY <1>4, <2>2, <2>4, <2>5 DEF Records
<1>5. CASE At(s, "write") /\ written' = written + 1
  <2>1. Len(z) = 0 BY <1>1, <1>5, WritingEnds
  <2>2. z = <<>> BY <1>1, <2>1
  <2>3. Taken' = Taken BY <1>3, <1>5, <2>2 DEF Taken
  <2> QED BY <2>1, <2>3 DEF Records
<1> QED BY <1>4, <1>5

\* Every step keeps the records in order.
LEMMA RecordsKept ==
  ASSUME Types, Programs, Records, [Next]_vars
  PROVE  Records'
<1>0. "main" \in Thread /\ "output" \in Thread /\ User \subseteq Thread /\ "main" # "output"
      /\ "output" \notin User /\ written \in Nat /\ handed \in Nat
      /\ (\A t \in Thread : todo[t] \in Seq(Op)) /\ queue \in Seq(Item)
  BY ThreadTypes DEF Types
<1>1. CASE UNCHANGED vars BY <1>1, RecordsSame DEF vars
<1>2. ASSUME NEW t \in Thread, t # "output", Others(t), queue' = queue, written' = written,
             handed' = handed
      PROVE  Records'
  BY <1>0, <1>2, RecordsSame DEF Others
<1>3. ASSUME NEW t \in Thread, FlushNothing(t) \/ Waited(t) \/ WriteDirectly(t)
      PROVE  Records'
  <2>1. Drops(t) /\ (At(todo[t], "flush") \/ At(todo[t], "wait") \/ At(todo[t], "write"))
    BY <1>3, FlushNothingDoes, WaitedDoes, WriteDirectlyDoes
  <2>2. queue' = queue /\ handed' = handed
    BY <1>3 DEF FlushNothing, Waited, WriteDirectly
  <2>3. CASE t = "output"
    <3>1. ~ At(todo["output"], "wait") BY <1>0, WritingEnds DEF Types
    <3>2. \/ At(todo["output"], "flush") /\ written' = written
          \/ At(todo["output"], "write") /\ written' = written + 1
      <4>1. ~ Waited(t) BY <2>3, <3>1, WaitedDoes
      <4>2. FlushNothing(t) => At(todo["output"], "flush") /\ written' = written
        BY <2>3, FlushNothingDoes DEF FlushNothing
      <4>3. WriteDirectly(t) => At(todo["output"], "write") /\ written' = written + 1
        BY <2>3, WriteDirectlyDoes DEF WriteDirectly
      <4> QED BY <1>3, <4>1, <4>2, <4>3
    <3> QED BY <2>1, <2>2, <2>3, <3>2, RecordsWritten
  <2>4. CASE t # "output"
    <3>1. written' = written BY <1>0, <1>3, <2>4 DEF FlushNothing, Waited, WriteDirectly
    <3> QED BY <1>2, <2>1, <2>2, <2>4, <3>1 DEF Drops
  <2> QED BY <2>3, <2>4
<1>4. ASSUME NEW t \in Thread, PutItem(t) PROVE Records'
  <2>1. written' = written BY <1>4 DEF PutItem
  <2>2. t # "output" /\ Others(t) BY <1>0, <1>4, PutItemDoes DEF Drops, Swaps
  <2>3. todo'["output"] = todo["output"] BY <1>0, <2>2 DEF Others
  <2>4. PICK x : /\ Puts(t, x)
                 /\ \/ x = [what |-> "record", arg |-> handed + 1] /\ handed' = handed + 1
                    \/ x.what # "record" /\ handed' = handed
    <3>1. ASSUME HandsShow(todo[t][1]) \/ HandsHide(todo[t][1])
          PROVE  [what |-> todo[t][1].what, arg |-> todo[t][1].arg].what # "record"
      BY <3>1 DEF HandsShow, HandsHide
    <3>2. [what |-> "set", arg |-> <<t, Len(todo[t])>>].what # "record" OBVIOUS
    <3> QED BY <1>4, <3>1, <3>2, PutItemDoes
  <2> QED BY <2>1, <2>3, <2>4, RecordsPut
<1>5. ASSUME NEW t \in User, Log(t) \/ PrintFrom(t) PROVE Records'
  <2>1. Others(t) /\ t # "output" BY <1>0, <1>5, BeginsDo DEF Starts
  <2>2. queue' = queue /\ written' = written /\ handed' = handed
    BY <1>5 DEF Log, PrintFrom, idle
  <2> QED BY <1>0, <1>2, <2>1, <2>2
<1>6. CASE AskUser \/ EnterDisplay \/ LeaveDisplay \/ Finish \/ Answer \/ InstallHandler
  <2>1. Others("main") BY <1>6, BeginsDo, MainDoes DEF Starts, Drops
  <2>2. queue' = queue /\ written' = written /\ handed' = handed
    BY <1>6 DEF AskUser, EnterDisplay, LeaveDisplay, Finish, Answer, InstallHandler, idle
  <2> QED BY <1>0, <1>2, <2>1, <2>2
<1>7. CASE Interrupt
  <2>1. Others("main") BY <1>7, InterruptDoes DEF Others
  <2>2. queue' = queue /\ written' = written /\ handed' = handed BY <1>7 DEF Interrupt
  <2> QED BY <1>0, <1>2, <2>1, <2>2
<1>8. CASE TakeRecord
  <2>1. /\ Starts("output", PrintText(written)) /\ written + 1 <= handed
        /\ Ordered(queue', written + 1, handed)
    BY <1>8, TakeRecordStarts
  <2>2. written' = written /\ handed' = handed BY <1>8 DEF TakeRecord
  <2>3. todo'["output"] = <<Flush, Write(written)>> BY <2>1 DEF Starts, PrintText
  <2>4. Taken' = written + 1 BY <2>2, <2>3 DEF Taken
  <2>5. \A i \in 1 .. Len(todo'["output"]) :
          todo'["output"][i].op = "write" => todo'["output"][i].after = written
    BY <2>3 DEF Flush, Write
  <2> QED BY <2>1, <2>2, <2>4, <2>5 DEF Records
<1>9. CASE RecordFails
  <2>1. TakesItem("record") /\ written' = written + 1 /\ handed' = handed /\ todo' = todo
    BY <1>9, RecordFailsDoes DEF RecordFails
  <2>2. todo["output"] = <<>> /\ IsRecord(queue[1]) /\ queue' \in Seq(Item)
        /\ Dropped(queue', queue)
    BY <2>1 DEF TakesItem, IsRecord
  <2>3. Taken = written /\ Taken' = written + 1
    <3>1. todo'["output"] = <<>> BY <2>1, <2>2
    <3> QED BY <1>0, <2>1, <2>2, <3>1 DEF Taken
  <2>4. written + 1 <= handed /\ Ordered(queue', written + 1, handed)
    BY <1>0, <2>2, <2>3, RecordTaken DEF Records
  <2>5. Len(todo'["output"]) = 0 BY <2>1, <2>2
  <2> QED BY <2>1, <2>3, <2>4, <2>5 DEF Records
<1>10. CASE SetEvent \/ Show \/ Hide
  <2>1. todo' = todo /\ written' = written /\ handed' = handed
    BY <1>10 DEF SetEvent, Show, Hide, output
  <2>2. \E w : w # "record" /\ TakesItem(w) BY <1>10, SetEventDoes, ShowDoes, HideDoes
  <2> QED BY <2>1, <2>2, RecordsTaken
<1>11. CASE RedrawFails \/ Terminal \/ EndProcess \/ \E t \in Thread : TakeLock(t)
  <2>1. queue' = queue /\ todo' = todo /\ written' = written /\ handed' = handed
    BY <1>11 DEF RedrawFails, Terminal, EndProcess, TakeLock, output
  <2> QED BY <2>1, RecordsSame
<1> QED
  BY <1>0, <1>1, <1>3, <1>4, <1>5, <1>6, <1>7, <1>8, <1>9, <1>10, <1>11
  DEF Next, ThreadStep, OutputStep

-----------------------------------------------------------------------------
(***************************************************************************)
(* What waits for records to be written.                                   *)
(***************************************************************************)

\* Counters only grow.
LEMMA CountersGrow ==
  ASSUME Types, [Next]_vars
  PROVE  /\ written' \in Nat /\ written <= written'
         /\ handed' \in Nat /\ handed <= handed'
         /\ presses' \in Nat /\ presses <= presses'
<1>0. written \in Nat /\ handed \in Nat /\ presses \in Nat BY DEF Types
<1>1. ASSUME NEW t \in Thread, ThreadStep(t)
      PROVE  /\ written' = written \/ written' = written + 1
             /\ handed' = handed \/ handed' = handed + 1
             /\ presses' = presses
  <2>1. PutItem(t) => handed' = handed \/ handed' = handed + 1 BY PutItemDoes
  <2>2. written' = written \/ written' = written + 1
    BY <1>0, <1>1
    DEF ThreadStep, FlushNothing, TakeLock, Waited, WriteDirectly, PutItem
  <2>3. handed' = handed \/ handed' = handed + 1
    BY <1>1, <2>1 DEF ThreadStep, FlushNothing, TakeLock, Waited, WriteDirectly
  <2>4. presses' = presses
    BY <1>1 DEF ThreadStep, FlushNothing, TakeLock, Waited, WriteDirectly, PutItem
  <2> QED BY <2>2, <2>3, <2>4
<1>2. CASE \/ AskUser \/ Answer \/ EnterDisplay \/ InstallHandler \/ LeaveDisplay \/ Finish
           \/ EndProcess \/ RedrawFails \/ Terminal \/ UNCHANGED vars
           \/ \E t \in User : Log(t) \/ PrintFrom(t)
  <2>1. written' = written /\ handed' = handed /\ presses' = presses
    BY <1>2
    DEF AskUser, Answer, EnterDisplay, InstallHandler, LeaveDisplay, Finish, EndProcess,
        RedrawFails, Terminal, Log, PrintFrom, idle, output, vars
  <2> QED BY <1>0, <2>1
<1>3. CASE Interrupt
  <2>1. written' = written /\ handed' = handed /\ presses' = presses + 1
    BY <1>3 DEF Interrupt
  <2> QED BY <1>0, <2>1
<1>4. CASE OutputStep
  <2>1. handed' = handed /\ presses' = presses
        /\ (written' = written \/ written' = written + 1)
    BY <1>4 DEF OutputStep, TakeRecord, RecordFails, SetEvent, Show, Hide, output
  <2> QED BY <1>0, <2>1
<1>5. CASE \E t \in Thread : ThreadStep(t)
  <2>1. /\ written' = written \/ written' = written + 1
        /\ handed' = handed \/ handed' = handed + 1
        /\ presses' = presses
    BY <1>1, <1>5
  <2> QED BY <1>0, <2>1
<1> QED BY <1>2, <1>3, <1>4, <1>5 DEF Next

\* Steps write records and hand over later ones: who waits for those before n goes on
\* to wait for them only.
LEMMA OwesKept ==
  ASSUME Types, Records, [Next]_vars, NEW e, NEW n \in Nat, n <= handed,
         Owes(queue, set, written, e, n)
  PROVE  Owes(queue', set', written', e, n)
<1>0. queue \in Seq(Item) /\ written \in Nat /\ handed \in Nat BY DEF Types
<1>1. CASE /\ queue' = queue /\ set' \subseteq set
           /\ written' = written \/ written' = written + 1
  <2>1. written' \in Nat /\ written <= written' BY <1>0, <1>1
  <2>2. Owes(queue, set', written', e, n) BY <1>0, <1>1, <2>1, OwesMore
  <2> QED BY <1>1, <2>1, <2>2
<1>2. CASE /\ \E w : TakesItem(w)
           /\ set' = set /\ (written' = written \/ written' = written + 1)
  <2>1. written' \in Nat /\ written <= written' BY <1>0, <1>2
  <2>2. queue' \in Seq(Item) /\ Dropped(queue', queue) BY <1>2 DEF TakesItem
  <2>3. Owes(queue', set, written, e, n) BY <1>0, <2>2, OwesDropped
  <2>4. Owes(queue', set, written', e, n) BY <1>0, <2>1, <2>3, OwesMore
  <2> QED BY <1>2, <2>1, <2>4
<1>3. CASE SetEvent
  <2>1. TakesItem("set") /\ set' = set \cup {queue[1].arg} /\ written' = written
    BY <1>3, SetEventDoes DEF SetEvent
  <2>2. queue' \in Seq(Item) /\ Dropped(queue', queue) /\ queue[1].what = "set"
        /\ Ordered(queue, written, handed)
    BY <1>0, <2>1 DEF TakesItem, Records, Taken
  <2>3. Owes(queue', set \cup {queue[1].arg}, written, e, n) BY <1>0, <2>2, OwesSet
  <2> QED BY <1>0, <2>1, <2>3
<1>4. ASSUME NEW t \in Thread, PutItem(t)
      PROVE  Owes(queue', set', written', e, n)
  <2>1. set' = set /\ written' = written BY <1>4 DEF PutItem
  <2>2. PICK x : Puts(t, x) /\ (x.what = "record" => x.arg > n)
    <3>1. [what |-> "record", arg |-> handed + 1].arg > n BY <1>0
    <3>2. ASSUME HandsShow(todo[t][1]) \/ HandsHide(todo[t][1])
          PROVE  [what |-> todo[t][1].what, arg |-> todo[t][1].arg].what # "record"
      BY <3>2 DEF HandsShow, HandsHide
    <3>3. [what |-> "set", arg |-> <<t, Len(todo[t])>>].what # "record" OBVIOUS
    <3> QED BY <1>4, <3>1, <3>2, <3>3, PutItemDoes
  <2>3. Owes(queue', set, written, e, n) BY <1>0, <2>2, OwesGrown DEF Puts
  <2> QED BY <1>0, <2>1, <2>3
<1>5. CASE TakeRecord \/ RecordFails \/ Show \/ Hide
  <2>1. \E w : TakesItem(w)
    BY <1>5, TakeRecordStarts, RecordFailsDoes, ShowDoes, HideDoes
  <2>2. set' = set /\ (written' = written \/ written' = written + 1)
    BY <1>5 DEF TakeRecord, RecordFails, Show, Hide, output
  <2> QED BY <1>2, <2>1, <2>2
<1>6. ASSUME NEW t \in Thread,
             FlushNothing(t) \/ TakeLock(t) \/ Waited(t) \/ WriteDirectly(t)
      PROVE  /\ queue' = queue /\ set' \subseteq set
             /\ written' = written \/ written' = written + 1
  BY <1>0, <1>6 DEF FlushNothing, TakeLock, Waited, WriteDirectly
<1>7. CASE \/ AskUser \/ Answer \/ EnterDisplay \/ InstallHandler \/ LeaveDisplay \/ Finish
           \/ EndProcess \/ Interrupt \/ RedrawFails \/ Terminal \/ UNCHANGED vars
           \/ \E t \in User : Log(t) \/ PrintFrom(t)
  <2>1. queue' = queue /\ set' = set /\ written' = written
    BY <1>7
    DEF AskUser, Answer, EnterDisplay, InstallHandler, LeaveDisplay, Finish, EndProcess,
        Interrupt, RedrawFails, Terminal, Log, PrintFrom, idle, output, vars
  <2> QED BY <1>1, <2>1
<1> QED
  BY <1>1, <1>3, <1>4, <1>5, <1>6, <1>7 DEF Next, ThreadStep, OutputStep

\* What Prints says of one thread's operations.
PrintsOf(t) ==
  /\ At(todo[t], "write") => todo[t][1].after <= written
  /\ AtBefore(todo[t], "wait", {"write"}) =>
       Owes(queue, set, written, todo[t][1].event, todo[t][2].after)
ExitsOf(t) ==
  t = "main" /\ presses < 2 =>
    /\ AtBefore(todo[t], "wait", {"exit"}) => Owes(queue, set, written, todo[t][1].event, handed)
    /\ At(todo[t], "exit") => written = handed

\* What holds of prints, thread by thread.
LEMMA PrintsAre ==
  ASSUME Types, Records
  PROVE  Prints <=> \A t \in User : PrintsOf(t) /\ ExitsOf(t)
<1>1. "main" \in User /\ User \subseteq Thread BY ThreadTypes
<1>2. ASSUME At(todo["output"], "write") PROVE todo["output"][1].after <= written
  <2>1. todo["output"] \in Seq(Op) BY ThreadTypes DEF Types
  <2>2. 1 \in 1 .. Len(todo["output"]) /\ todo["output"][1].op = "write"
    BY <1>2, <2>1 DEF At
  <2>3. todo["output"][1].after = written BY <2>2 DEF Records
  <2> QED BY <2>3 DEF Types
<1>3. \A t \in Thread : t \in User \/ t = "output" BY ThreadTypes
<1> QED BY <1>1, <1>2, <1>3 DEF Prints, PrintsOf, ExitsOf

\* A worker's or the main thread's operations stay.
LEMMA PrintsSame ==
  ASSUME Types, Programs, Records, [Next]_vars, NEW t \in User, PrintsOf(t),
         todo'[t] = todo[t]
  PROVE  PrintsOf(t)'
<1> DEFINE s == todo[t]
<1>1. t \in Thread /\ s \in Seq(Op) /\ Len(s) \in Nat /\ Fits(s, t, live, presses, handed)
      /\ handed \in Nat /\ written \in Nat
  BY ThreadTypes DEF Types, Programs, Shapes
<1>2. ASSUME At(s, "write") PROVE s[1].after <= written'
  <2>1. 1 \in 1 .. Len(s) /\ s[1].op = "write" BY <1>1, <1>2 DEF At
  <2>2. s[1] \in Op /\ s[1].after \in Nat BY <1>1, <2>1, OpTypes
  <2>3. s[1].after <= written BY <1>2 DEF PrintsOf
  <2> QED BY <1>1, <2>2, <2>3, CountersGrow
<1>3. ASSUME AtBefore(s, "wait", {"write"})
      PROVE  Owes(queue', set', written', s[1].event, s[2].after)
  <2>1. 2 \in 1 .. Len(s) /\ s[2].op = "write" BY <1>1, <1>3 DEF AtBefore
  <2>2. s[2].after \in Nat BY <1>1, <2>1, OpTypes
  <2>3. Each(s, 2, t, live, presses, handed) BY <1>1, <2>1 DEF Fits
  <2>4. s[2].after <= handed BY <2>1, <2>3 DEF Each
  <2>5. Owes(queue, set, written, s[1].event, s[2].after) BY <1>3 DEF PrintsOf
  <2> QED BY <2>2, <2>4, <2>5, OwesKept
<1> QED BY <1>2, <1>3 DEF PrintsOf

\* Nothing is handed over while the main thread is about to exit.
LEMMA LastIsLast ==
  ASSUME Types, Programs, [Next]_vars, presses < 2,
         AtBefore(todo["main"], "wait", {"exit"}) \/ At(todo["main"], "exit")
  PROVE  handed' = handed
<1> DEFINE s == todo["main"]
<1>1. "main" \in Thread /\ s \in Seq(Op) /\ Len(s) \in Nat /\ Fits(s, "main", live, presses, handed)
  BY ThreadTypes DEF Types, Programs, Shapes
<1>2. Ends(s)
  <2>1. CASE At(s, "exit")
    <3>1. 1 \in 1 .. Len(s) /\ s[1].op = "exit" BY <1>1, <2>1 DEF At
    <3>2. Each(s, 1, "main", live, presses, handed) BY <1>1, <3>1 DEF Fits
    <3>3. Len(s) = 1 BY <3>1, <3>2 DEF Each
    <3> QED BY <3>1, <3>3 DEF Ends
  <2>2. CASE AtBefore(s, "wait", {"exit"})
    <3>1. 2 \in 1 .. Len(s) /\ s[2].op = "exit" BY <1>1, <2>2 DEF AtBefore
    <3>2. Each(s, 2, "main", live, presses, handed) BY <1>1, <3>1 DEF Fits
    <3>3. Len(s) = 2 BY <3>1, <3>2 DEF Each
    <3> QED BY <3>1, <3>3 DEF Ends
  <2> QED BY <2>1, <2>2
<1>3. \A t \in Workers : todo[t] = <<>> BY <1>2 DEF Programs, Shapes
<1>4. ASSUME NEW t \in Thread, PutItem(t) PROVE handed' = handed
  <2>1. SUFFICES ASSUME At(todo[t], "hand") PROVE FALSE BY <1>4, PutItemDoes
  <2>2. t \in User BY <1>4, PutItemDoes
  <2>3. t # "main" BY <2>1 DEF At, AtBefore
  <2>4. t \in Workers BY <2>2, <2>3 DEF User
  <2>5. Len(todo[t]) = 0 BY <1>3, <2>4
  <2> QED BY <2>1, <2>5 DEF At
<1>5. CASE \E t \in Thread : ThreadStep(t)
  BY <1>4, <1>5 DEF ThreadStep, FlushNothing, TakeLock, Waited, WriteDirectly
<1>6. CASE ~ \E t \in Thread : ThreadStep(t)
  BY <1>6
  DEF Next, AskUser, Answer, EnterDisplay, InstallHandler, LeaveDisplay, Finish, EndProcess,
      RedrawFails, Terminal, Log, PrintFrom, Interrupt, idle, output, vars,
      OutputStep, TakeRecord, RecordFails, SetEvent, Show, Hide
<1> QED BY <1>5, <1>6

\* A thread that does nothing still exits with everything written ...
LEMMA ExitsSame ==
  ASSUME Types, Programs, Records, Records', [Next]_vars, NEW t \in User, ExitsOf(t),
         todo'[t] = todo[t]
  PROVE  ExitsOf(t)'
<1>1. SUFFICES ASSUME t = "main", presses' < 2
               PROVE  /\ AtBefore(todo[t], "wait", {"exit"}) =>
                           Owes(queue', set', written', todo[t][1].event, handed')
                      /\ At(todo[t], "exit") => written' = handed'
  BY DEF ExitsOf
<1>2. presses < 2 /\ handed \in Nat /\ written \in Nat
      /\ written' \in Nat /\ handed' \in Nat /\ written <= written'
  BY <1>1, CountersGrow DEF Types
<1>3. ASSUME AtBefore(todo[t], "wait", {"exit"})
      PROVE  Owes(queue', set', written', todo[t][1].event, handed')
  <2>1. handed' = handed BY <1>1, <1>2, <1>3, LastIsLast
  <2>2. Owes(queue, set, written, todo[t][1].event, handed) BY <1>1, <1>2, <1>3 DEF ExitsOf
  <2>3. handed <= handed BY <1>2
  <2> QED BY <1>2, <2>1, <2>2, <2>3, OwesKept
<1>4. ASSUME At(todo[t], "exit") PROVE written' = handed'
  <2>1. handed' = handed BY <1>1, <1>2, <1>4, LastIsLast
  <2>2. written = handed BY <1>1, <1>2, <1>4 DEF ExitsOf
  <2>3. Taken' <= handed' BY DEF Records
  <2>4. written' <= handed' BY <1>2, <2>3 DEF Taken
  <2> QED BY <1>2, <2>1, <2>2, <2>4
<1> QED BY <1>3, <1>4

\* The thread's next operation is none of these.
LEMMA PrintsElsewhere ==
  ASSUME NEW t, ~ At(todo'[t], "write"), ~ At(todo'[t], "wait"), ~ At(todo'[t], "exit")
  PROVE  PrintsOf(t)' /\ ExitsOf(t)'
BY DEF PrintsOf, ExitsOf, AtBefore

\* A thread is done with an operation: if it goes on to print or to exit, its flush
\* had nothing to wait for, or has waited for it.
LEMMA PrintsDrop ==
  ASSUME Types, Programs, Records, Prints, NEW t \in User, Drops(t), ~ At(todo[t], "exit"),
         presses' = presses,
         \/ ~ At(todo[t], "flush") /\ ~ At(todo[t], "wait")
         \/ /\ written' = written /\ handed' = handed
            /\ \/ At(todo[t], "flush") /\ ~ started
               \/ /\ At(todo[t], "wait")
                  /\ todo[t][1].event \in set \/ todo[t][1].timed
  PROVE  PrintsOf(t)' /\ ExitsOf(t)'
<1> DEFINE s == todo[t]
           z == todo'[t]
<1>1. t \in Thread /\ s \in Seq(Op) /\ z \in Seq(Op) /\ Dropped(z, s) /\ Len(s) > 0
      /\ Fits(s, t, live, presses, handed) /\ Len(s) \in Nat
      /\ written \in Nat /\ handed \in Nat /\ written <= handed
  BY ThreadTypes DEF Types, Programs, Shapes, Drops, Records, Taken
<1>2. s[1].op # "exit" /\ s[1] \in Op BY <1>1 DEF At
<1>3. /\ Len(z) > 0 => Len(s) > 1 /\ z[1] = s[2]
      /\ ~ At(z, "wait")
      /\ At(z, "write") \/ At(z, "ask") \/ At(z, "exit") => s[1].op \in {"flush", "wait"}
      /\ s[1].op \in {"flush", "wait"} /\ s[1].timed => t = "main" /\ presses = 2 /\ At(z, "exit")
  BY <1>1, <1>2, AfterDrop
<1>4. ASSUME At(z, "write") PROVE z[1].after <= written'
  <2>1. z[1] = s[2] /\ s[2].op = "write" /\ 2 \in 1 .. Len(s) /\ Len(s) > 1
    BY <1>1, <1>3, <1>4 DEF At
  <2>2. s[2] \in Op /\ Each(s, 2, t, live, presses, handed) BY <1>1, <2>1 DEF Fits
  <2>3. s[2].after \in Nat /\ s[2].after <= handed BY <2>1, <2>2, OpTypes DEF Each
  <2>4. At(s, "flush") \/ At(s, "wait") BY <1>1, <1>3, <1>4 DEF At
  <2>5. CASE At(s, "flush")
    <3>1. ~ started /\ written' = written BY <2>5 DEF At
    <3>2. handed = 0 BY <3>1 DEF Types
    <3> QED BY <1>1, <2>1, <2>3, <3>1, <3>2
  <2>6. CASE At(s, "wait")
    <3>1. ~ s[1].timed
      <4>1. s[1].op = "wait" BY <2>6 DEF At
      <4>2. ~ At(z, "exit") BY <1>4 DEF At
      <4> QED BY <1>3, <4>1, <4>2
    <3>2. s[1].event \in set /\ written' = written BY <2>6, <3>1 DEF At
    <3>3. AtBefore(s, "wait", {"write"}) BY <2>1, <2>6 DEF AtBefore
    <3>4. Owes(queue, set, written, s[1].event, s[2].after) BY <3>3 DEF Prints
    <3> QED BY <2>1, <3>2, <3>4 DEF Owes
  <2> QED BY <2>4, <2>5, <2>6
<1>5. ASSUME At(z, "exit"), t = "main", presses < 2 PROVE written' = handed'
  <2>1. z[1] = s[2] /\ s[2].op = "exit" /\ Len(s) > 1 BY <1>1, <1>3, <1>5 DEF At
  <2>4. At(s, "flush") \/ At(s, "wait") BY <1>1, <1>3, <1>5 DEF At
  <2>5. CASE At(s, "flush")
    <3>1. ~ started /\ written' = written /\ handed' = handed BY <2>5 DEF At
    <3>2. handed = 0 BY <3>1 DEF Types
    <3> QED BY <1>1, <3>1, <3>2
  <2>6. CASE At(s, "wait")
    <3>1. ~ s[1].timed
      <4>1. s[1].op = "wait" BY <2>6 DEF At
      <4> QED BY <1>3, <1>5, <4>1
    <3>2. s[1].event \in set /\ written' = written /\ handed' = handed BY <2>6, <3>1 DEF At
    <3>3. AtBefore(s, "wait", {"exit"}) BY <2>1, <2>6 DEF AtBefore
    <3>4. Owes(queue, set, written, s[1].event, handed) BY <1>5, <3>3 DEF Prints
    <3> QED BY <1>1, <3>2, <3>4 DEF Owes
  <2> QED BY <2>4, <2>5, <2>6
<1>6. ~ AtBefore(z, "wait", {"write"}) /\ ~ AtBefore(z, "wait", {"exit"})
  BY <1>3 DEF AtBefore
<1> QED BY <1>4, <1>5, <1>6 DEF PrintsOf, ExitsOf

\* A flush begins to wait, behind all that was handed over.
LEMMA PrintsSwap ==
  ASSUME Types, Types', Events, NEW t \in User, At(todo[t], "flush"), NEW b,
         Swaps(t, Wait(<<t, Len(todo[t])>>, b)),
         Puts(t, [what |-> "set", arg |-> <<t, Len(todo[t])>>]), set' = set, presses' = presses
  PROVE  PrintsOf(t)' /\ ExitsOf(t)'
<1> DEFINE s == todo[t]
           z == todo'[t]
           e == <<t, Len(s)>>
<1>1. t \in Thread /\ s \in Seq(Op) /\ z \in Seq(Op) /\ Len(z) = Len(s) /\ Len(s) > 0
      /\ z[1] = Wait(e, b) /\ Len(s) \in Nat
  BY ThreadTypes DEF Types, Swaps, Swapped
<1>2. z[1].op = "wait" /\ z[1].event = e BY <1>1 DEF Wait
<1>3. e \in Event /\ e[1] = t BY <1>1 DEF Event
<1>4. ~ At(s, "wait") /\ ~ At(s, "exit") BY DEF At
<1>5. ~ Awaited(s, presses, e) BY <1>1, <1>3, <1>4, StaysSwap
<1>6. e \notin set /\ \A i \in 1 .. Len(queue) : ~ IsSet(queue[i], e)
  BY <1>3, <1>5 DEF Events, IsSet
<1>7. queue \in Seq(Item) /\ queue' \in Seq(Item)
      /\ Grown(queue', queue, [what |-> "set", arg |-> e])
  BY DEF Types, Puts
<1>8. \A n : Owes(queue', set', written', e, n) BY <1>6, <1>7, OwesFresh
<1>9. ~ At(z, "write") /\ ~ At(z, "exit") BY <1>2 DEF At
<1> HIDE DEF e
<1> QED BY <1>2, <1>8, <1>9 DEF PrintsOf, ExitsOf

\* ... and still prints after what it waited for.
LEMMA PrintsOthers ==
  ASSUME Types, Programs, Records, Records', Prints, [Next]_vars, NEW t, Others(t),
         NEW u \in User, u # t
  PROVE  PrintsOf(u)' /\ ExitsOf(u)'
<1>1. u \in Thread /\ PrintsOf(u) /\ ExitsOf(u) BY ThreadTypes, PrintsAre
<1>2. todo'[u] = todo[u] BY <1>1 DEF Others
<1> QED BY <1>1, <1>2, PrintsSame, ExitsSame

\* No program begins at a write, a wait or an exit.
LEMMA StartsElsewhere ==
  /\ \A s : s = <<Hand("record", 0)>> => ~ At(s, "write") /\ ~ At(s, "wait") /\ ~ At(s, "exit")
  /\ \A n : ~ At(PrintText(n), "write") /\ ~ At(PrintText(n), "wait") /\ ~ At(PrintText(n), "exit")
  /\ \A s : s = <<Flush, Ask>> => ~ At(s, "write") /\ ~ At(s, "wait") /\ ~ At(s, "exit")
  /\ \A s, d : s = <<Flush, Hand("hide", d), Flush, Ask, Hand("show", d)>> =>
       ~ At(s, "write") /\ ~ At(s, "wait") /\ ~ At(s, "exit")
  /\ \A s, d : s = <<Hand("show", d), Arm>> =>
       ~ At(s, "write") /\ ~ At(s, "wait") /\ ~ At(s, "exit")
  /\ \A s, d : s = <<Hand("hide", d)>> =>
       ~ At(s, "write") /\ ~ At(s, "wait") /\ ~ At(s, "exit")
  /\ \A s : s = <<Flush, Exit>> => ~ At(s, "write") /\ ~ At(s, "wait") /\ ~ At(s, "exit")
BY DEF At, Hand, PrintText, Flush, Write, Ask, Arm, Exit

\* Every step keeps prints after the records they wait for.
LEMMA PrintsKept ==
  ASSUME Types, Types', Programs, Events, Records, Records', Prints, [Next]_vars
  PROVE  Prints'
<1>0. "main" \in User /\ User \subseteq Thread /\ "output" \in Thread /\ "output" \notin User
      /\ \A t \in User : PrintsOf(t) /\ ExitsOf(t)
  BY ThreadTypes, PrintsAre
<1>1. SUFFICES \A t \in User : PrintsOf(t)' /\ ExitsOf(t)'
  <2>1. ASSUME \A t \in User : PrintsOf(t)' /\ ExitsOf(t)' PROVE Prints'
    <3>1. \A t \in Thread : t \in User \/ t = "output" BY ThreadTypes
    <3>2. ASSUME At(todo'["output"], "write") PROVE todo'["output"][1].after <= written'
      <4>1. todo'["output"] \in Seq(Op) BY <1>0 DEF Types
      <4>2. 1 \in 1 .. Len(todo'["output"]) /\ todo'["output"][1].op = "write"
        BY <3>2, <4>1 DEF At
      <4>3. todo'["output"][1].after = written' BY <4>2 DEF Records
      <4> QED BY <4>3 DEF Types
    <3> QED BY <1>0, <2>1, <3>1, <3>2 DEF Prints, PrintsOf, ExitsOf
  <2> QED BY <2>1
<1>2. ASSUME NEW t \in Thread, Others(t), t \in User => PrintsOf(t)' /\ ExitsOf(t)'
      PROVE  \A u \in User : PrintsOf(u)' /\ ExitsOf(u)'
  BY <1>2, PrintsOthers
<1>3. CASE todo' = todo BY <1>0, <1>3, PrintsSame, ExitsSame
<1>4. ASSUME NEW t \in Thread, FlushNothing(t) \/ Waited(t) \/ WriteDirectly(t)
      PROVE  \A u \in User : PrintsOf(u)' /\ ExitsOf(u)'
  <2>1. Drops(t) /\ Others(t)
    BY <1>4, FlushNothingDoes, WaitedDoes, WriteDirectlyDoes DEF Drops
  <2>2. ASSUME t \in User PROVE PrintsOf(t)' /\ ExitsOf(t)'
    <3>1. presses' = presses BY <1>4 DEF FlushNothing, Waited, WriteDirectly
    <3>2. CASE FlushNothing(t)
      <4>1. At(todo[t], "flush") /\ ~ started /\ ~ At(todo[t], "exit")
        BY <2>2, <3>2, FlushNothingDoes DEF At
      <4>2. written' = written /\ handed' = handed BY <3>2 DEF FlushNothing
      <4> QED BY <2>1, <2>2, <3>1, <4>1, <4>2, PrintsDrop
    <3>3. CASE Waited(t)
      <4>1. /\ At(todo[t], "wait") /\ ~ At(todo[t], "exit")
            /\ todo[t][1].event \in set \/ todo[t][1].timed
        BY <3>3, WaitedDoes DEF At
      <4>2. written' = written /\ handed' = handed BY <3>3 DEF Waited
      <4> QED BY <2>1, <2>2, <3>1, <4>1, <4>2, PrintsDrop
    <3>4. CASE WriteDirectly(t)
      <4>1. /\ ~ At(todo[t], "wait") /\ ~ At(todo[t], "exit") /\ ~ At(todo[t], "flush")
        BY <3>4, WriteDirectlyDoes DEF At
      <4> QED BY <2>1, <2>2, <3>1, <4>1, PrintsDrop
    <3> QED BY <1>4, <3>2, <3>3, <3>4
  <2> QED BY <1>2, <2>1, <2>2
<1>5. CASE Answer \/ InstallHandler
  <2>1. /\ Drops("main") /\ Others("main")
        /\ ~ At(todo["main"], "wait") /\ ~ At(todo["main"], "exit") /\ ~ At(todo["main"], "flush")
    BY <1>5, MainDoes DEF Drops, At
  <2>2. presses' = presses BY <1>5 DEF Answer, InstallHandler, idle
  <2>3. PrintsOf("main")' /\ ExitsOf("main")' BY <1>0, <2>1, <2>2, PrintsDrop
  <2> QED BY <1>0, <1>2, <2>1, <2>3
<1>6. ASSUME NEW t \in Thread, PutItem(t)
      PROVE  \A u \in User : PrintsOf(u)' /\ ExitsOf(u)'
  <2>1. t \in User /\ presses' = presses /\ set' = set BY <1>6, PutItemDoes DEF PutItem
  <2>2. CASE At(todo[t], "hand") /\ Drops(t)
    <3>1. /\ ~ At(todo[t], "wait") /\ ~ At(todo[t], "exit") /\ ~ At(todo[t], "flush")
      BY <2>2 DEF At
    <3>2. PrintsOf(t)' /\ ExitsOf(t)' BY <2>1, <2>2, <3>1, PrintsDrop
    <3> QED BY <1>2, <2>2, <3>2 DEF Drops
  <2>3. CASE /\ At(todo[t], "flush")
             /\ Swaps(t, Wait(<<t, Len(todo[t])>>, todo[t][1].timed))
             /\ Puts(t, [what |-> "set", arg |-> <<t, Len(todo[t])>>])
    <3>1. PrintsOf(t)' /\ ExitsOf(t)' BY <2>1, <2>3, PrintsSwap
    <3> QED BY <1>2, <2>3, <3>1 DEF Swaps
  <2> QED BY <1>6, <2>2, <2>3, PutItemDoes
<1>7. ASSUME NEW t \in User, Log(t) \/ PrintFrom(t)
      PROVE  \A u \in User : PrintsOf(u)' /\ ExitsOf(u)'
  <2>1. /\ Others(t)
        /\ todo'[t] = <<Hand("record", 0)>> \/ todo'[t] = PrintText(handed)
    BY <1>7, BeginsDo DEF Starts
  <2>2. PrintsOf(t)' /\ ExitsOf(t)' BY <2>1, StartsElsewhere, PrintsElsewhere
  <2> QED BY <1>0, <1>2, <2>1, <2>2
<1>8. CASE AskUser \/ EnterDisplay \/ LeaveDisplay \/ Finish
  <2>1. /\ Others("main")
        /\ \/ todo'["main"] = <<Flush, Ask>> \/ todo'["main"] = <<Flush, Exit>>
           \/ todo'["main"] = <<Flush, Hand("hide", live), Flush, Ask, Hand("show", live)>>
           \/ todo'["main"] = <<Hand("show", live'), Arm>>
           \/ todo'["main"] = <<Hand("hide", live)>>
    BY <1>8, BeginsDo DEF Starts
  <2>2. ~ At(todo'["main"], "write") /\ ~ At(todo'["main"], "wait") /\ ~ At(todo'["main"], "exit")
    BY <2>1, StartsElsewhere
  <2>3. PrintsOf("main")' /\ ExitsOf("main")' BY <2>2, PrintsElsewhere
  <2> QED BY <1>0, <1>2, <2>1, <2>3
<1>9. CASE Interrupt
  <2>1. CASE todo' = todo BY <1>3, <2>1
  <2>2. CASE todo' # todo
    <3>1. Others("main") /\ todo'["main"][1] = Hand("record", 0) BY <1>9, <2>2, InterruptDoes
    <3>2. ~ At(todo'["main"], "write") /\ ~ At(todo'["main"], "wait")
          /\ ~ At(todo'["main"], "exit")
      BY <3>1 DEF At, Hand
    <3>3. PrintsOf("main")' /\ ExitsOf("main")' BY <3>2, PrintsElsewhere
    <3> QED BY <1>0, <1>2, <3>1, <3>3
  <2> QED BY <2>1, <2>2
<1>10. CASE TakeRecord
  <2>1. Others("output") BY <1>10, TakeRecordStarts DEF Starts
  <2> QED BY <1>0, <1>2, <2>1
<1>11. CASE \/ RecordFails \/ SetEvent \/ Show \/ Hide \/ RedrawFails \/ Terminal \/ EndProcess
            \/ UNCHANGED vars \/ \E t \in Thread : TakeLock(t)
  <2>1. todo' = todo
    BY <1>11
    DEF RecordFails, SetEvent, Show, Hide, RedrawFails, Terminal, EndProcess, vars, TakeLock,
        output
  <2> QED BY <1>3, <2>1
<1> QED
  BY <1>4, <1>5, <1>6, <1>7, <1>8, <1>9, <1>10, <1>11 DEF Next, ThreadStep, OutputStep

-----------------------------------------------------------------------------
(***************************************************************************)
(* Displays.                                                               *)
(***************************************************************************)

\* Steps that touch no display and no operation of the main thread change nothing ...
LEMMA DisplaysSame ==
  ASSUME Displays, queue' = queue, shown' = shown, live' = live, set' \subseteq set,
         todo'["main"] = todo["main"], presses' < 2 => presses < 2, flushed' => flushed
  PROVE  Displays'
<1>1. InBlock' BY DEF Displays, InBlock, Ending
<1>2. Quiet' BY DEF Displays, Quiet
<1> QED BY <1>1, <1>2 DEF Displays

\* ... and what the output thread takes only hides displays that are on their way out.
LEMMA DisplaysTaken ==
  ASSUME Types, Displays, NEW what, TakesItem(what), Draws(queue[1], shown, shown'),
         \/ set' = set
         \/ what = "set" /\ set' = set \cup {queue[1].arg},
         todo'["main"] = todo["main"], live' = live, presses' = presses, flushed' = flushed
  PROVE  Displays'
<1>1. queue \in Seq(Item) /\ queue' \in Seq(Item) /\ Dropped(queue', queue)
      /\ queue[1].what = what
  BY DEF Types, TakesItem
<1>2. /\ Len(queue) \in Nat /\ Len(queue') \in Nat /\ Len(queue) = Len(queue') + 1
      /\ \A i \in 1 .. Len(queue') : i + 1 \in 1 .. Len(queue) /\ queue'[i] = queue[i + 1]
  BY <1>1, DroppedElements
<1>3. ASSUME NEW d \in Display, Up(queue', shown', d)
      PROVE  /\ Up(queue, shown, d)
             /\ \A n \in Nat : HiddenBefore(queue, d, n) => HiddenBefore(queue', d, n - 1)
  BY <1>1, <1>3, DrawsDown
<1>4. /\ AllHidden(queue, shown) => AllHidden(queue', shown')
      /\ \A n \in Nat : AllHiddenBefore(queue, shown, n) => AllHiddenBefore(queue', shown', n - 1)
      /\ AllHiddenBefore(queue, shown, 1) => AllHidden(queue', shown')
  BY <1>1, HiddenDrawn
<1>5. Len(queue) + 1 \in Nat /\ (Len(queue) + 1) - 1 = Len(queue') + 1 BY <1>2
<1>6. InBlock'
  <2>1. ASSUME NEW d \in Display, Up(queue', shown', d)
        PROVE  HiddenBefore(queue', d, Len(queue') + 1) \/ d = live \/ Ending(d)
    <3>1. HiddenBefore(queue, d, Len(queue) + 1) \/ d = live \/ Ending(d)
      BY <1>3, <2>1 DEF Displays, InBlock
    <3>2. HiddenBefore(queue, d, Len(queue) + 1) => HiddenBefore(queue', d, (Len(queue) + 1) - 1)
      BY <1>3, <1>5, <2>1
    <3> QED BY <1>5, <3>1, <3>2
  <2> QED BY <2>1 DEF InBlock, Ending
<1>7. ASSUME AtBefore(todo["main"], "flush", {"ask", "exit"})
      PROVE  AllHiddenBefore(queue', shown', Len(queue') + 1)
  <2>1. AllHiddenBefore(queue, shown, Len(queue) + 1) BY <1>7 DEF Displays, Quiet
  <2>2. AllHiddenBefore(queue', shown', (Len(queue) + 1) - 1) BY <1>4, <1>5, <2>1
  <2> QED BY <1>5, <2>2
<1>8. ASSUME AtBefore(todo["main"], "wait", {"ask", "exit"})
      PROVE  /\ todo["main"][1].event \in set' => AllHidden(queue', shown')
             /\ \A i \in 1 .. Len(queue') : IsSet(queue'[i], todo["main"][1].event) =>
                  AllHiddenBefore(queue', shown', i)
  <2>1. /\ todo["main"][1].event \in set => AllHidden(queue, shown)
        /\ \A i \in 1 .. Len(queue) : IsSet(queue[i], todo["main"][1].event) =>
             AllHiddenBefore(queue, shown, i)
    BY <1>8 DEF Displays, Quiet
  <2>2. ASSUME todo["main"][1].event \in set' PROVE AllHidden(queue', shown')
    <3>1. CASE todo["main"][1].event \in set BY <1>4, <2>1, <3>1
    <3>2. CASE todo["main"][1].event \notin set
      <4>1. 1 \in 1 .. Len(queue) /\ IsSet(queue[1], todo["main"][1].event)
        BY <1>1, <1>2, <2>2, <3>2 DEF IsSet
      <4> QED BY <1>4, <2>1, <4>1
    <3> QED BY <3>1, <3>2
  <2>3. ASSUME NEW i \in 1 .. Len(queue'), IsSet(queue'[i], todo["main"][1].event)
        PROVE  AllHiddenBefore(queue', shown', i)
    <3>1. i + 1 \in 1 .. Len(queue) /\ queue'[i] = queue[i + 1] /\ i + 1 \in Nat
          /\ (i + 1) - 1 = i
      BY <1>2
    <3>2. AllHiddenBefore(queue, shown, i + 1) BY <2>1, <2>3, <3>1
    <3>3. AllHiddenBefore(queue', shown', (i + 1) - 1) BY <1>4, <3>1, <3>2
    <3> QED BY <3>1, <3>3
  <2> QED BY <2>2, <2>3
<1>9. Quiet' BY <1>4, <1>7, <1>8 DEF Displays, Quiet
<1> QED BY <1>6, <1>9 DEF Displays

\* Another thread hands over what is no display.
LEMMA DisplaysPut ==
  ASSUME Types, Programs, Displays, NEW t, t # "main", NEW x, Puts(t, x), shown' = shown,
         x.what # "show", x.what = "set" => x.arg[1] = t,
         todo'["main"] = todo["main"], live' = live, presses' = presses, flushed' = flushed,
         set' = set
  PROVE  Displays'
<1>1. queue \in Seq(Item) /\ queue' \in Seq(Item) /\ Grown(queue', queue, x)
  BY DEF Types, Puts
<1>2. /\ Len(queue) \in Nat /\ Len(queue') \in Nat /\ Len(queue') = Len(queue) + 1
      /\ queue'[Len(queue')] = x
      /\ \A i \in 1 .. Len(queue') :
           i # Len(queue') => i \in 1 .. Len(queue) /\ queue'[i] = queue[i]
  BY <1>1, GrownElements
<1>3. ASSUME NEW d \in Display
      PROVE  /\ Up(queue', shown, d) => Up(queue, shown, d)
             /\ \A n \in Nat, m \in Nat :
                  n <= m => (HiddenBefore(queue, d, n) => HiddenBefore(queue', d, m))
  <2>1. ~ IsShow(x, d) BY DEF IsShow
  <2> QED BY <1>1, <2>1, HiddenGrown
<1>4. /\ AllHidden(queue, shown) => AllHidden(queue', shown)
      /\ \A n \in Nat, m \in Nat :
           n <= m => (AllHiddenBefore(queue, shown, n) => AllHiddenBefore(queue', shown, m))
  BY <1>3 DEF AllHidden, AllHiddenBefore
<1>5. Len(queue) + 1 \in Nat /\ Len(queue') + 1 \in Nat /\ Len(queue) + 1 <= Len(queue') + 1
  BY <1>2
<1>6. InBlock'
  <2>1. ASSUME NEW d \in Display, Up(queue', shown, d)
        PROVE  HiddenBefore(queue', d, Len(queue') + 1) \/ d = live \/ Ending(d)
    BY <1>3, <1>5, <2>1 DEF Displays, InBlock
  <2> QED BY <2>1 DEF InBlock, Ending
<1>7. ASSUME AtBefore(todo["main"], "wait", {"ask", "exit"})
      PROVE  /\ todo["main"][1].event \in set => AllHidden(queue', shown)
             /\ \A i \in 1 .. Len(queue') : IsSet(queue'[i], todo["main"][1].event) =>
                  AllHiddenBefore(queue', shown, i)
  <2>1. /\ todo["main"][1].event \in set => AllHidden(queue, shown)
        /\ \A i \in 1 .. Len(queue) : IsSet(queue[i], todo["main"][1].event) =>
             AllHiddenBefore(queue, shown, i)
    BY <1>7 DEF Displays, Quiet
  <2>2. todo["main"][1].event[1] = "main"
    <3>1. "main" \in Thread /\ todo["main"] \in Seq(Op) BY ThreadTypes DEF Types
    <3>2. 1 \in 1 .. Len(todo["main"]) /\ todo["main"][1].op = "wait"
      BY <1>7, <3>1 DEF AtBefore, At
    <3>3. Each(todo["main"], 1, "main", live, presses, handed)
      BY <3>1, <3>2 DEF Programs, Shapes, Fits
    <3> QED BY <3>2, <3>3 DEF Each
  <2>3. ASSUME NEW i \in 1 .. Len(queue'), IsSet(queue'[i], todo["main"][1].event)
        PROVE  AllHiddenBefore(queue', shown, i)
    <3>1. i # Len(queue') BY <1>2, <2>2, <2>3 DEF IsSet
    <3>2. i \in 1 .. Len(queue) /\ queue'[i] = queue[i] /\ i \in Nat /\ i <= i
      BY <1>2, <3>1
    <3>3. AllHiddenBefore(queue, shown, i) BY <2>1, <2>3, <3>2
    <3> QED BY <1>4, <3>2, <3>3
  <2> QED BY <1>4, <2>1, <2>3
<1>8. Quiet' BY <1>4, <1>5, <1>7 DEF Displays, Quiet
<1> QED BY <1>6, <1>8 DEF Displays

\* The main thread is not where the display must be hidden.
Elsewhere(s) ==
  ~ AtBefore(s, "flush", {"ask", "exit"}) /\ ~ At(s, "wait") /\ ~ At(s, "ask") /\ ~ At(s, "exit")

\* Away from prompts and exits no display need be hidden.
LEMMA QuietElsewhere ==
  ASSUME Elsewhere(todo'["main"])
  PROVE  Quiet'
BY DEF Elsewhere, Quiet, AtBefore

\* The main thread's program has its shape.
LEMMA MainProgram ==
  ASSUME Types, Programs
  PROVE  /\ "main" \in Thread /\ todo["main"] \in Seq(Op) /\ Len(todo["main"]) \in Nat
         /\ Fits(todo["main"], "main", live, presses, handed)
         /\ Len(todo["main"]) > 0 =>
              todo["main"][1] \in Op /\ Each(todo["main"], 1, "main", live, presses, handed)
<1>1. "main" \in Thread /\ todo["main"] \in Seq(Op) BY ThreadTypes DEF Types
<1>2. Len(todo["main"]) \in Nat /\ Fits(todo["main"], "main", live, presses, handed)
  BY <1>1 DEF Programs, Shapes
<1>3. Len(todo["main"]) > 0 => 1 \in 1 .. Len(todo["main"]) BY <1>2
<1> QED BY <1>1, <1>2, <1>3 DEF Fits

\* The main thread flushed, or did something else than handing over.
LEMMA DisplaysDrop ==
  ASSUME Types, Programs, Displays, Drops("main"), queue' = queue, shown' = shown,
         live' = live, presses' = presses, ~ At(todo["main"], "hand"), ~ At(todo["main"], "exit"),
         \/ ~ At(todo["main"], "flush") /\ ~ At(todo["main"], "wait")
         \/ At(todo["main"], "flush") /\ ~ started
         \/ /\ At(todo["main"], "wait")
            /\ \/ todo["main"][1].event \in set
               \/ todo["main"][1].timed /\ flushed' = flushed
  PROVE  Displays'
<1> DEFINE s == todo["main"]
           z == todo'["main"]
<1>1. s \in Seq(Op) /\ z \in Seq(Op) /\ Dropped(z, s) /\ Len(s) > 0
      /\ Fits(s, "main", live, presses, handed) /\ Len(s) \in Nat
  BY MainProgram DEF Drops
<1>2. s[1].op # "exit" /\ s[1].op # "hand" BY <1>1 DEF At
<1>3. /\ Len(z) > 0 => Len(s) > 1 /\ z[1] = s[2]
      /\ ~ At(z, "wait")
      /\ At(z, "write") \/ At(z, "ask") \/ At(z, "exit") => s[1].op \in {"flush", "wait"}
      /\ At(z, "flush") => HandsHide(s[1])
      /\ s[1].op \in {"flush", "wait"} /\ s[1].timed => presses = 2 /\ At(z, "exit")
  BY <1>1, <1>2, AfterDrop
<1>4. InBlock'
  <2>1. \A d : ~ Ending(d) BY <1>2 DEF Ending, HandsHide
  <2> QED BY <2>1 DEF Displays, InBlock
<1>5. ~ At(z, "flush") /\ ~ At(z, "wait") BY <1>2, <1>3 DEF HandsHide
<1>6. ASSUME At(z, "ask") \/ (At(z, "exit") /\ (presses' < 2 \/ flushed'))
      PROVE  AllHidden(queue, shown)
  <2>1. z[1] = s[2] /\ Len(s) > 1 /\ s[2].op \in {"ask", "exit"}
        /\ (At(s, "flush") \/ At(s, "wait"))
    BY <1>1, <1>3, <1>6 DEF At
  <2>2. CASE At(s, "flush")
    <3>1. ~ started BY <2>2 DEF At
    <3>2. Len(queue) = 0 /\ shown = 0 BY <3>1 DEF Types
    <3> QED BY <3>2 DEF AllHidden, Up, Display
  <2>3. CASE At(s, "wait")
    <3>1. s[1].op = "wait" /\ AtBefore(s, "wait", {"ask", "exit"})
      BY <2>1, <2>3 DEF At, AtBefore
    <3>2. CASE s[1].event \in set BY <3>1, <3>2 DEF Displays, Quiet
    <3>3. CASE s[1].event \notin set
      <4>1. s[1].timed /\ flushed' = flushed BY <2>3, <3>3 DEF At
      <4>2. presses = 2 /\ At(z, "exit") BY <1>3, <3>1, <4>1
      <4>3. ~ flushed
        <5>1. flushed => At(s, "exit") BY DEF Programs, Exits
        <5> QED BY <1>2, <5>1 DEF At
      <4> QED BY <1>6, <4>1, <4>2, <4>3 DEF At
    <3> QED BY <3>2, <3>3
  <2> QED BY <2>1, <2>2, <2>3
<1>7. Quiet' BY <1>5, <1>6 DEF Quiet, AtBefore
<1> QED BY <1>4, <1>7 DEF Displays

\* The main thread hands something over.
LEMMA DisplaysHand ==
  ASSUME Types, Programs, Displays, Drops("main"), At(todo["main"], "hand"), NEW x,
         Puts("main", x), shown' = shown, live' = live,
         \/ HandsRecord(todo["main"][1]) /\ x.what = "record"
         \/ /\ HandsShow(todo["main"][1]) \/ HandsHide(todo["main"][1])
            /\ x.what = todo["main"][1].what /\ x.arg = todo["main"][1].arg
  PROVE  Displays'
<1> DEFINE s == todo["main"]
           z == todo'["main"]
<1>1. s \in Seq(Op) /\ z \in Seq(Op) /\ Dropped(z, s) /\ Len(s) > 0 /\ s[1] \in Op
      /\ Fits(s, "main", live, presses, handed) /\ Len(s) \in Nat
      /\ Each(s, 1, "main", live, presses, handed)
  BY MainProgram DEF Drops
<1>2. s[1].op = "hand" BY <1>1 DEF At
<1>3. /\ ~ At(z, "wait") /\ ~ At(z, "ask") /\ ~ At(z, "exit")
      /\ At(z, "flush") => HandsHide(s[1]) /\ s[1].arg = live
  BY <1>1, <1>2, AfterDrop
<1>4. queue \in Seq(Item) /\ queue' \in Seq(Item) /\ Grown(queue', queue, x)
      /\ Len(queue) \in Nat /\ Len(queue') = Len(queue) + 1 /\ Len(queue') \in Nat
  BY GrownElements DEF Types, Puts
<1>5. ASSUME NEW d \in Display, Up(queue', shown, d)
      PROVE  HiddenBefore(queue', d, Len(queue') + 1) \/ d = live
  <2>1. CASE IsShow(x, d)
    <3>1. HandsShow(s[1]) /\ s[1].arg = d BY <2>1 DEF IsShow, HandsHide, HandsRecord
    <3> QED BY <1>1, <3>1 DEF Each
  <2>2. CASE IsHide(x, d) BY <1>4, <2>2, HideLast
  <2>3. CASE ~ IsShow(x, d) /\ ~ IsHide(x, d)
    <3>1. Up(queue, shown, d) BY <1>4, <1>5, <2>3, HiddenGrown
    <3>2. ~ Ending(d) BY <1>2, <2>3 DEF Ending, IsHide, HandsHide, HandsShow, HandsRecord
    <3>3. HiddenBefore(queue, d, Len(queue) + 1) \/ d = live
      BY <3>1, <3>2 DEF Displays, InBlock
    <3>4. Len(queue) + 1 \in Nat /\ Len(queue') + 1 \in Nat
          /\ Len(queue) + 1 <= Len(queue') + 1
      BY <1>4
    <3>5. HiddenBefore(queue, d, Len(queue) + 1) => HiddenBefore(queue', d, Len(queue') + 1)
      BY <1>4, <2>3, <3>4, HiddenGrown
    <3> QED BY <3>3, <3>5
  <2> QED BY <2>1, <2>2, <2>3
<1>6. InBlock' BY <1>5 DEF InBlock
<1>7. ASSUME At(z, "flush") PROVE AllHiddenBefore(queue', shown, Len(queue') + 1)
  <2>1. HandsHide(s[1]) /\ s[1].arg = live BY <1>3, <1>7
  <2>2. IsHide(x, live) BY <2>1 DEF IsHide, HandsHide, HandsRecord, HandsShow
  <2>3. HiddenBefore(queue', live, Len(queue') + 1) BY <1>4, <2>2, HideLast
  <2> QED BY <1>5, <2>3 DEF AllHiddenBefore
<1>8. Quiet' BY <1>3, <1>7 DEF Quiet, AtBefore
<1> QED BY <1>6, <1>8 DEF Displays

\* The main thread begins to wait.
LEMMA DisplaysSwap ==
  ASSUME Types, Programs, Events, Displays, At(todo["main"], "flush"), NEW b,
         Swaps("main", Wait(<<"main", Len(todo["main"])>>, b)),
         Puts("main", [what |-> "set", arg |-> <<"main", Len(todo["main"])>>]),
         shown' = shown, live' = live, set' = set, presses' = presses
  PROVE  Displays'
<1> DEFINE s == todo["main"]
           z == todo'["main"]
           e == <<"main", Len(s)>>
           x == [what |-> "set", arg |-> e]
<1>1. s \in Seq(Op) /\ z \in Seq(Op) /\ Len(z) = Len(s) /\ Len(s) > 0 /\ Len(s) \in Nat
      /\ z[1] = Wait(e, b) /\ (Len(s) > 1 => z[2] = s[2]) /\ "main" \in Thread
  BY MainProgram DEF Swaps, Swapped
<1>2. z[1].op = "wait" /\ z[1].event = e /\ s[1].op = "flush" BY <1>1 DEF Wait, At
<1>3. e \in Event /\ e[1] = "main" BY <1>1 DEF Event
<1>4. ~ At(s, "wait") /\ ~ At(s, "exit") BY DEF At
<1>5. ~ Awaited(s, presses, e) BY <1>1, <1>3, <1>4, StaysSwap
<1>6. e \notin set /\ \A i \in 1 .. Len(queue) : ~ IsSet(queue[i], e)
  BY <1>3, <1>5 DEF Events, IsSet
<1>7. queue \in Seq(Item) /\ queue' \in Seq(Item) /\ Grown(queue', queue, x)
  BY DEF Types, Puts
<1>8. \A d : ~ IsShow(x, d) BY DEF IsShow
<1> HIDE DEF e, x
<1>9. /\ Len(queue) \in Nat /\ Len(queue') \in Nat /\ Len(queue') = Len(queue) + 1
      /\ \A i \in 1 .. Len(queue') :
           i # Len(queue') => i \in 1 .. Len(queue) /\ queue'[i] = queue[i]
  BY <1>7, GrownElements
<1>10. ASSUME NEW d \in Display
       PROVE  /\ Up(queue', shown, d) => Up(queue, shown, d)
              /\ \A n \in Nat, m \in Nat :
                   n <= m => (HiddenBefore(queue, d, n) => HiddenBefore(queue', d, m))
  BY <1>7, <1>8, HiddenGrown
<1>11. Len(queue) + 1 \in Nat /\ Len(queue') + 1 \in Nat /\ Len(queue) + 1 <= Len(queue') + 1
       /\ Len(queue) + 1 <= Len(queue')
  BY <1>9
<1>12. InBlock'
  <2>1. \A d : ~ Ending(d) BY <1>2 DEF Ending, HandsHide
  <2>2. ASSUME NEW d \in Display, Up(queue', shown, d)
        PROVE  HiddenBefore(queue', d, Len(queue') + 1) \/ d = live
    BY <1>10, <1>11, <2>1, <2>2 DEF Displays, InBlock
  <2> QED BY <2>2 DEF InBlock
<1>13. ASSUME AtBefore(z, "wait", {"ask", "exit"}),
              NEW i \in 1 .. Len(queue'), IsSet(queue'[i], e)
       PROVE  AllHiddenBefore(queue', shown, i)
  <2>1. i = Len(queue') BY <1>6, <1>9, <1>13
  <2>2. AtBefore(s, "flush", {"ask", "exit"}) BY <1>1, <1>2, <1>13 DEF AtBefore, At
  <2>3. AllHiddenBefore(queue, shown, Len(queue) + 1) BY <2>2 DEF Displays, Quiet
  <2>4. AllHiddenBefore(queue', shown, Len(queue'))
    BY <1>9, <1>10, <1>11, <2>3 DEF AllHiddenBefore
  <2> QED BY <2>1, <2>4
<1>14. Quiet' BY <1>2, <1>6, <1>13 DEF Quiet, AtBefore, At
<1> QED BY <1>12, <1>14 DEF Displays

\* No program begins where a display must be hidden.
LEMMA StartsQuiet ==
  /\ \A s : s = <<Hand("record", 0)>> => Elsewhere(s)
  /\ \A n : Elsewhere(PrintText(n))
  /\ \A s, d : s = <<Flush, Hand("hide", d), Flush, Ask, Hand("show", d)>> => Elsewhere(s)
  /\ \A s, d : s = <<Hand("show", d), Arm>> => Elsewhere(s)
  /\ \A s, d : s = <<Hand("hide", d)>> =>
       Elsewhere(s) /\ Len(s) > 0 /\ HandsHide(s[1]) /\ s[1].arg = d
  /\ \A s : s = <<Flush, Ask>> \/ s = <<Flush, Exit>> =>
       ~ At(s, "wait") /\ ~ At(s, "ask") /\ ~ At(s, "exit")
BY DEF Elsewhere, At, AtBefore, Hand, PrintText, Flush, Write, Ask, Arm, Exit, HandsHide

\* The main thread begins something.
LEMMA DisplaysStart ==
  ASSUME Types, Displays, NEW ops, Starts("main", ops), queue' = queue, shown' = shown,
         \/ live' = live /\ Elsewhere(ops)
         \/ /\ live' = 0 /\ live = 0
            /\ ~ At(ops, "wait") /\ ~ At(ops, "ask") /\ ~ At(ops, "exit")
         \/ live = 0 /\ Elsewhere(ops)
         \/ /\ live' = 0 /\ Elsewhere(ops)
            /\ Len(ops) > 0 /\ HandsHide(ops[1]) /\ ops[1].arg = live
  PROVE  Displays'
<1>1. todo["main"] = <<>> /\ todo'["main"] = ops BY DEF Starts
<1>2. Len(todo["main"]) = 0 BY <1>1
<1>3. 0 \notin Display BY DEF Display
<1>4. \A d \in Display : Up(queue, shown, d) => HiddenBefore(queue, d, Len(queue) + 1) \/ d = live
  BY <1>2 DEF Displays, InBlock, Ending
<1>5. InBlock'
  <2>1. ASSUME NEW d \in Display, Up(queue, shown, d)
        PROVE  HiddenBefore(queue, d, Len(queue) + 1) \/ d = live' \/ Ending(d)'
    BY <1>1, <1>3, <1>4, <2>1 DEF Ending
  <2> QED BY <2>1 DEF InBlock
<1>6. Quiet'
  <2>1. CASE Elsewhere(ops) BY <1>1, <2>1, QuietElsewhere
  <2>2. CASE /\ live' = 0 /\ live = 0
             /\ ~ At(ops, "wait") /\ ~ At(ops, "ask") /\ ~ At(ops, "exit")
    <3>1. AllHiddenBefore(queue', shown', Len(queue') + 1)
      BY <1>3, <1>4, <2>2 DEF AllHiddenBefore
    <3> QED BY <1>1, <2>2, <3>1 DEF Quiet, AtBefore
  <2> QED BY <2>1, <2>2
<1> QED BY <1>5, <1>6 DEF Displays

\* The handler's operations come first: the record, then the hide.
LEMMA DisplaysInterrupt ==
  ASSUME Types, Displays, Interrupt
  PROVE  Displays'
<1>1. /\ presses < 2 /\ presses \in Nat /\ live # 0 /\ live' = live /\ queue' = queue
      /\ shown' = shown /\ set' = set /\ flushed' = flushed
  BY InterruptDoes DEF Interrupt, displayVars, Types
<1>2. CASE todo' = todo BY <1>1, <1>2, DisplaysSame
<1>3. CASE todo' # todo
  <2>1. todo'["main"][1] = Hand("record", 0) BY <1>3, InterruptDoes
  <2>2. Elsewhere(todo'["main"]) BY <2>1 DEF Elsewhere, AtBefore, At, Hand
  <2>3. InBlock' BY <1>1 DEF Displays, InBlock, Ending
  <2> QED BY <2>2, <2>3, QuietElsewhere DEF Displays
<1> QED BY <1>2, <1>3

\* Every step keeps displays hidden where they must be.
LEMMA DisplaysKept ==
  ASSUME Types, Programs, Events, Records, Displays, [Next]_vars
  PROVE  Displays'
<1>0. "main" \in User /\ "main" \in Thread /\ User \subseteq Thread /\ "main" # "output"
      /\ todo["main"] \in Seq(Op) /\ presses \in Nat
  BY ThreadTypes DEF Types
<1>1. CASE UNCHANGED vars BY <1>1, DisplaysSame DEF vars, displayVars
<1>2. ASSUME NEW t \in Thread, FlushNothing(t) PROVE Displays'
  <2>1. At(todo[t], "flush") /\ Drops(t) /\ (t \in User => ~ started)
        /\ flushed' = (flushed \/ todo[t][1].timed)
    BY <1>2, FlushNothingDoes
  <2>2. queue' = queue /\ shown' = shown /\ live' = live /\ presses' = presses /\ set' = set
    BY <1>2 DEF FlushNothing, displayVars
  <2>3. CASE t = "main"
    <3>1. ~ At(todo["main"], "hand") /\ ~ At(todo["main"], "exit") BY <2>1, <2>3 DEF At
    <3> QED BY <1>0, <2>1, <2>2, <2>3, <3>1, DisplaysDrop
  <2>4. CASE t # "main"
    <3>1. ~ todo[t][1].timed
      <4>1. todo[t] \in Seq(Op) BY DEF Types
      <4>2. 1 \in 1 .. Len(todo[t]) /\ todo[t][1].op = "flush" BY <2>1, <4>1 DEF At
      <4>3. Each(todo[t], 1, t, live, presses, handed)
        BY <4>2 DEF Programs, Shapes, Fits
      <4> QED BY <2>4, <4>2, <4>3 DEF Each
    <3>2. todo'["main"] = todo["main"] BY <1>0, <2>1, <2>4 DEF Drops, Others
    <3>3. flushed' => flushed BY <2>1, <3>1
    <3> QED BY <2>2, <3>2, <3>3, DisplaysSame
  <2> QED BY <2>3, <2>4
<1>3. ASSUME NEW t \in Thread, Waited(t) PROVE Displays'
  <2>1. /\ At(todo[t], "wait") /\ Drops(t)
        /\ \/ /\ todo[t][1].event \in set
              /\ set' = set \ {todo[t][1].event}
              /\ flushed' = (flushed \/ todo[t][1].timed)
           \/ todo[t][1].timed /\ set' = set /\ flushed' = flushed
    BY <1>3, WaitedDoes
  <2>2. queue' = queue /\ shown' = shown /\ live' = live /\ presses' = presses
    BY <1>3 DEF Waited, displayVars
  <2>3. CASE t = "main"
    <3>1. ~ At(todo["main"], "hand") /\ ~ At(todo["main"], "exit") BY <2>1, <2>3 DEF At
    <3> QED BY <2>1, <2>2, <2>3, <3>1, DisplaysDrop
  <2>4. CASE t # "main"
    <3>1. ~ todo[t][1].timed
      <4>1. todo[t] \in Seq(Op) BY DEF Types
      <4>2. 1 \in 1 .. Len(todo[t]) /\ todo[t][1].op = "wait" BY <2>1, <4>1 DEF At
      <4>3. Each(todo[t], 1, t, live, presses, handed)
        BY <4>2 DEF Programs, Shapes, Fits
      <4> QED BY <2>4, <4>2, <4>3 DEF Each
    <3>2. todo'["main"] = todo["main"] BY <1>0, <2>1, <2>4 DEF Drops, Others
    <3>3. (flushed' => flushed) /\ set' \subseteq set BY <2>1, <3>1
    <3> QED BY <2>2, <3>2, <3>3, DisplaysSame
  <2> QED BY <2>3, <2>4
<1>4. ASSUME NEW t \in Thread,
             WriteDirectly(t) \/ (t = "main" /\ (Answer \/ InstallHandler))
      PROVE  Displays'
  <2>1. Drops(t) /\ (At(todo[t], "write") \/ At(todo[t], "ask") \/ At(todo[t], "arm"))
    BY <1>4, WriteDirectlyDoes, MainDoes
  <2>2. queue' = queue /\ shown' = shown /\ live' = live /\ presses' = presses /\ set' = set
        /\ flushed' = flushed
    BY <1>4 DEF WriteDirectly, Answer, InstallHandler, idle, displayVars
  <2>3. CASE t = "main"
    <3>1. ~ At(todo["main"], "hand") /\ ~ At(todo["main"], "exit")
          /\ ~ At(todo["main"], "flush") /\ ~ At(todo["main"], "wait")
      BY <2>1, <2>3 DEF At
    <3> QED BY <2>1, <2>2, <2>3, <3>1, DisplaysDrop
  <2>4. CASE t # "main"
    <3>1. todo'["main"] = todo["main"] BY <1>0, <2>1, <2>4 DEF Drops, Others
    <3> QED BY <2>2, <3>1, DisplaysSame
  <2> QED BY <2>3, <2>4
<1>5. ASSUME NEW t \in Thread, PutItem(t) PROVE Displays'
  <2>1. shown' = shown /\ live' = live /\ presses' = presses /\ set' = set /\ flushed' = flushed
    BY <1>5 DEF PutItem, displayVars
  <2>2. CASE t = "main"
    <3>1. CASE At(todo["main"], "hand")
      <4>1. ~ At(todo["main"], "flush") BY <3>1 DEF At
      <4>2. Drops("main") BY <1>5, <2>2, <4>1, PutItemDoes
      <4>3. \/ /\ HandsRecord(todo["main"][1])
               /\ Puts("main", [what |-> "record", arg |-> handed + 1])
            \/ /\ HandsShow(todo["main"][1]) \/ HandsHide(todo["main"][1])
               /\ Puts("main", [what |-> todo["main"][1].what, arg |-> todo["main"][1].arg])
        BY <1>5, <2>2, <4>1, PutItemDoes
      <4>4. PICK x :
              /\ Puts("main", x)
              /\ \/ HandsRecord(todo["main"][1]) /\ x.what = "record"
                 \/ /\ HandsShow(todo["main"][1]) \/ HandsHide(todo["main"][1])
                    /\ x.what = todo["main"][1].what /\ x.arg = todo["main"][1].arg
        BY <4>3
      <4> QED BY <2>1, <3>1, <4>2, <4>4, DisplaysHand
    <3>2. CASE ~ At(todo["main"], "hand")
      <4>1. /\ At(todo["main"], "flush")
            /\ Swaps("main", Wait(<<"main", Len(todo["main"])>>, todo["main"][1].timed))
            /\ Puts("main", [what |-> "set", arg |-> <<"main", Len(todo["main"])>>])
        BY <1>5, <2>2, <3>2, PutItemDoes
      <4> QED BY <2>1, <4>1, DisplaysSwap
    <3> QED BY <3>1, <3>2
  <2>3. CASE t # "main"
    <3>1. Others(t) BY <1>5, PutItemDoes DEF Drops, Swaps
    <3>2. todo'["main"] = todo["main"] BY <1>0, <2>3, <3>1 DEF Others
    <3>3. ~ (At(todo[t], "hand") /\ (HandsShow(todo[t][1]) \/ HandsHide(todo[t][1])))
      <4>1. SUFFICES ASSUME At(todo[t], "hand") PROVE HandsRecord(todo[t][1])
        BY DEF HandsRecord, HandsShow, HandsHide
      <4>2. todo[t] \in Seq(Op) BY DEF Types
      <4>3. 1 \in 1 .. Len(todo[t]) /\ todo[t][1].op = "hand" BY <4>1, <4>2 DEF At
      <4> QED BY <2>3, <4>3 DEF Programs, Shapes, Plain
    <3>4. PICK x : Puts(t, x) /\ x.what # "show" /\ (x.what = "set" => x.arg[1] = t)
      <4>1. [what |-> "record", arg |-> handed + 1].what = "record" OBVIOUS
      <4>2. [what |-> "set", arg |-> <<t, Len(todo[t])>>].arg[1] = t
            /\ [what |-> "set", arg |-> <<t, Len(todo[t])>>].what = "set"
        OBVIOUS
      <4>3. \/ Puts(t, [what |-> "record", arg |-> handed + 1])
            \/ Puts(t, [what |-> "set", arg |-> <<t, Len(todo[t])>>])
        BY <1>5, <3>3, PutItemDoes
      <4> QED BY <4>1, <4>2, <4>3
    <3> QED BY <2>1, <2>3, <3>2, <3>4, DisplaysPut
  <2> QED BY <2>2, <2>3
<1>6. ASSUME NEW t \in User, Log(t) \/ PrintFrom(t) PROVE Displays'
  <2>1. queue' = queue /\ shown' = shown /\ live' = live /\ presses' = presses /\ set' = set
        /\ flushed' = flushed
    BY <1>6 DEF Log, PrintFrom, idle, displayVars
  <2>2. PICK ops : Starts(t, ops) /\ Elsewhere(ops) BY <1>6, BeginsDo, StartsQuiet
  <2>3. CASE t = "main" BY <2>1, <2>2, <2>3, DisplaysStart
  <2>4. CASE t # "main"
    <3>1. todo'["main"] = todo["main"] BY <1>0, <2>2, <2>4 DEF Starts, Others
    <3> QED BY <2>1, <3>1, DisplaysSame
  <2> QED BY <2>3, <2>4
<1>7. CASE AskUser
  <2>1. queue' = queue /\ shown' = shown /\ live' = live BY <1>7 DEF AskUser, idle, displayVars
  <2>2. CASE live = 0
    <3>1. Starts("main", <<Flush, Ask>>) BY <1>7, <2>2, BeginsDo
    <3> QED BY <2>1, <2>2, <3>1, StartsQuiet, DisplaysStart
  <2>3. CASE live # 0
    <3> DEFINE ops == <<Flush, Hand("hide", live), Flush, Ask, Hand("show", live)>>
    <3>1. Starts("main", ops) BY <1>7, <2>3, BeginsDo
    <3>2. Elsewhere(ops) BY StartsQuiet
    <3> HIDE DEF ops
    <3> QED BY <2>1, <3>1, <3>2, DisplaysStart
  <2> QED BY <2>2, <2>3
<1>8. CASE EnterDisplay
  <2>1. queue' = queue /\ shown' = shown /\ live = 0 BY <1>8 DEF EnterDisplay, idle
  <2>2. Starts("main", <<Hand("show", live'), Arm>>) BY <1>8, BeginsDo
  <2>3. Elsewhere(<<Hand("show", live'), Arm>>) BY StartsQuiet
  <2> QED BY <2>1, <2>2, <2>3, DisplaysStart
<1>9. CASE LeaveDisplay
  <2>1. queue' = queue /\ shown' = shown /\ live' = 0 BY <1>9 DEF LeaveDisplay, idle
  <2>2. Starts("main", <<Hand("hide", live)>>) BY <1>9, BeginsDo
  <2> QED BY <2>1, <2>2, StartsQuiet, DisplaysStart
<1>10. CASE Finish
  <2>1. queue' = queue /\ shown' = shown /\ live' = 0 /\ live = 0
    BY <1>10 DEF Finish, idle, displayVars
  <2>2. Starts("main", <<Flush, Exit>>) BY <1>10, BeginsDo
  <2> QED BY <2>1, <2>2, StartsQuiet, DisplaysStart
<1>11. CASE Interrupt BY <1>11, DisplaysInterrupt
<1>12. CASE OutputStep
  <2>1. todo'["main"] = todo["main"] /\ live' = live /\ presses' = presses /\ flushed' = flushed
    <3>1. CASE TakeRecord
      BY <1>0, <3>1, TakeRecordStarts DEF TakeRecord, Starts, Others, displayVars
    <3>2. CASE ~ TakeRecord
      BY <1>12, <3>2 DEF OutputStep, RecordFails, SetEvent, Show, Hide, output, displayVars
    <3> QED BY <3>1, <3>2
  <2>2. CASE TakeRecord \/ RecordFails
    <3>1. TakesItem("record") /\ shown' = shown /\ set' = set
      BY <2>2, TakeRecordStarts, RecordFailsDoes DEF TakeRecord, RecordFails, displayVars
    <3>2. Draws(queue[1], shown, shown') BY <3>1 DEF Draws, TakesItem
    <3> QED BY <2>1, <3>1, <3>2, DisplaysTaken
  <2>3. CASE SetEvent
    <3>1. TakesItem("set") /\ shown' = shown /\ set' = set \cup {queue[1].arg}
      BY <2>3, SetEventDoes DEF SetEvent, displayVars
    <3>2. Draws(queue[1], shown, shown') BY <3>1 DEF Draws, TakesItem
    <3> QED BY <2>1, <3>1, <3>2, DisplaysTaken
  <2>4. CASE Show
    <3>1. TakesItem("show") /\ Draws(queue[1], shown, shown') /\ set' = set
      BY <2>4, ShowDoes DEF Show, output
    <3> QED BY <2>1, <3>1, DisplaysTaken
  <2>5. CASE Hide
    <3>1. TakesItem("hide") /\ Draws(queue[1], shown, shown') /\ set' = set
      BY <2>5, HideDoes DEF Hide, output
    <3> QED BY <2>1, <3>1, DisplaysTaken
  <2> QED BY <1>12, <2>2, <2>3, <2>4, <2>5 DEF OutputStep
<1>13. CASE RedrawFails
  <2>1. queue' = queue /\ shown' = 0 /\ live' = live /\ todo' = todo /\ set' = set
        /\ presses' = presses /\ flushed' = flushed
    BY <1>13 DEF RedrawFails, output
  <2>2. /\ AllHidden(queue, shown) => AllHidden(queue, 0)
        /\ \A n : AllHiddenBefore(queue, shown, n) => AllHiddenBefore(queue, 0, n)
        /\ \A d \in Display : Up(queue, 0, d) => Up(queue, shown, d)
    BY HiddenFailed
  <2>3. InBlock' BY <2>1, <2>2 DEF Displays, InBlock, Ending
  <2>4. Quiet' BY <2>1, <2>2 DEF Displays, Quiet
  <2> QED BY <2>3, <2>4 DEF Displays
<1>14. CASE Terminal \/ EndProcess \/ \E t \in Thread : TakeLock(t)
  <2>1. queue' = queue /\ shown' = shown /\ live' = live /\ set' = set
        /\ todo' = todo /\ presses' = presses /\ flushed' = flushed
    BY <1>14 DEF Terminal, EndProcess, TakeLock, displayVars
  <2> QED BY <2>1, DisplaysSame
<1> QED
  BY <1>0, <1>1, <1>2, <1>3, <1>4, <1>5, <1>6, <1>7, <1>8, <1>9, <1>10, <1>11, <1>12, <1>13,
     <1>14
  DEF Next, ThreadStep

-----------------------------------------------------------------------------
(***************************************************************************)
(* Failures.                                                               *)
(***************************************************************************)

\* Every step keeps a display that failed hidden: later ones are of later blocks.
LEMMA FailuresKept ==
  ASSUME Types, Programs, Records, Failures, [Next]_vars
  PROVE  Failures'
<1>0. /\ queue \in Seq(Item) /\ blocks \in Nat /\ failed \in Nat /\ shown \in Nat
      /\ live \in {0, blocks}
      /\ failed <= blocks /\ shown <= blocks /\ (shown # 0 => failed < shown)
      /\ \A b \in broken : b <= failed /\ b \in Nat
      /\ Rising(queue, failed, blocks) /\ Rising(queue, shown, blocks)
  BY ConsoleAssumption DEF Types, Failures, Display
<1>1. CASE queue' = queue /\ blocks' = blocks /\ shown' = shown /\ failed' = failed
           /\ broken' = broken
  BY <1>1 DEF Failures
<1>2. CASE \E t \in Thread : PutItem(t)
  <2>1. PICK t \in Thread : PutItem(t) BY <1>2
  <2>2. blocks' = blocks /\ shown' = shown /\ failed' = failed /\ broken' = broken
    BY <2>1 DEF PutItem, displayVars
  <2>3. PICK x : Puts(t, x) /\ (x.what = "show" => x.arg = blocks)
    <3>1. [what |-> "record", arg |-> handed + 1].what # "show"
          /\ [what |-> "set", arg |-> <<t, Len(todo[t])>>].what # "show"
      OBVIOUS
    <3>2. ASSUME At(todo[t], "hand"), HandsShow(todo[t][1]) \/ HandsHide(todo[t][1])
          PROVE  LET x == [what |-> todo[t][1].what, arg |-> todo[t][1].arg]
                 IN  x.what = "show" => x.arg = blocks
      <4>1. todo[t] \in Seq(Op) BY DEF Types
      <4>2. 1 \in 1 .. Len(todo[t]) /\ todo[t][1] \in Op BY <3>2, <4>1 DEF At
      <4>3. Each(todo[t], 1, t, live, presses, handed)
        BY <4>2 DEF Programs, Shapes, Fits
      <4>4. ASSUME HandsShow(todo[t][1]) PROVE todo[t][1].arg = blocks
        <5>1. todo[t][1].arg = live /\ todo[t][1].arg # 0
          BY <4>2, <4>3, <4>4, OpTypes DEF Each, Display
        <5> QED BY <1>0, <5>1
      <4> QED BY <3>2, <4>4 DEF HandsShow, HandsHide
    <3> QED BY <2>1, <3>1, <3>2, PutItemDoes
  <2>4. Rising(queue', failed, blocks) /\ Rising(queue', shown, blocks)
    BY <1>0, <2>3, RisingGrown DEF Puts
  <2> QED BY <1>0, <2>2, <2>4 DEF Failures
<1>3. CASE EnterDisplay
  <2>1. queue' = queue /\ blocks' = blocks + 1 /\ shown' = shown /\ failed' = failed
        /\ broken' = broken
    BY <1>3 DEF EnterDisplay, idle
  <2>2. blocks' \in Nat /\ blocks <= blocks' /\ failed <= failed /\ shown <= shown
    BY <1>0, <2>1
  <2>3. Rising(queue, failed, blocks') /\ Rising(queue, shown, blocks')
    BY <1>0, <2>2, RisingLower
  <2> QED BY <1>0, <2>1, <2>3 DEF Failures
<1>4. CASE TakeRecord \/ RecordFails \/ SetEvent \/ Hide
  <2>1. /\ blocks' = blocks /\ failed' = failed /\ broken' = broken
        /\ shown' = shown \/ shown' = 0
    BY <1>4, HideDoes
    DEF TakeRecord, RecordFails, SetEvent, Hide, output, displayVars
  <2>2. queue' \in Seq(Item) /\ Dropped(queue', queue)
    BY <1>4, TakeRecordStarts, RecordFailsDoes, SetEventDoes, HideDoes DEF TakesItem
  <2>3. Rising(queue', failed, blocks) /\ Rising(queue', shown, blocks)
    BY <1>0, <2>2, RisingDropped
  <2>4. Rising(queue', 0, blocks)
    <3>1. 0 <= failed /\ blocks <= blocks BY <1>0
    <3> QED BY <1>0, <2>2, <2>3, <3>1, RisingLower
  <2>5. Rising(queue', shown', blocks) BY <2>1, <2>3, <2>4
  <2> QED BY <1>0, <2>1, <2>3, <2>5 DEF Failures
<1>5. CASE Show
  <2>1. TakesItem("show") /\ queue[1].arg \in Display /\ blocks' = blocks
    BY <1>5, ShowDoes DEF Show, output
  <2>2. queue' \in Seq(Item) /\ Dropped(queue', queue) /\ queue[1].what = "show"
        /\ queue[1].arg \in Nat
    BY <2>1 DEF TakesItem, Display
  <2>3. /\ Rising(queue', failed, blocks) /\ Rising(queue', shown, blocks)
        /\ Rising(queue', queue[1].arg, blocks)
        /\ failed <= queue[1].arg /\ shown <= queue[1].arg /\ queue[1].arg <= blocks
    BY <1>0, <2>2, RisingDropped
  <2>4. CASE shown' = shown /\ failed' = failed /\ broken' = broken
    BY <1>0, <2>1, <2>3, <2>4 DEF Failures
  <2>5. CASE /\ shown = 0 /\ queue[1].arg # failed
             /\ shown' = queue[1].arg /\ failed' = failed /\ broken' = broken
    BY <1>0, <2>1, <2>2, <2>3, <2>5 DEF Failures
  <2>6. CASE /\ shown = 0 /\ failed' = queue[1].arg
             /\ broken' = broken \cup {queue[1].arg} /\ shown' = shown
    <3>1. \A b \in broken' : b <= failed'
      <4>1. \A b \in Nat : b <= failed => b <= queue[1].arg BY <1>0, <2>2, <2>3
      <4>2. queue[1].arg <= queue[1].arg BY <2>2
      <4> QED BY <1>0, <2>6, <4>1, <4>2
    <3> QED BY <1>0, <2>1, <2>3, <2>6, <3>1 DEF Failures
  <2> QED BY <1>5, <2>4, <2>5, <2>6, ShowDoes
<1>6. CASE RedrawFails
  <2>1. shown # 0 /\ failed' = shown /\ broken' = broken \cup {shown} /\ shown' = 0
        /\ queue' = queue /\ blocks' = blocks
    BY <1>6 DEF RedrawFails, output
  <2>2. \A b \in broken' : b <= failed'
    <3>1. \A b \in Nat : b <= failed => b <= shown BY <1>0, <2>1
    <3>2. shown <= shown BY <1>0
    <3> QED BY <1>0, <2>1, <3>1, <3>2
  <2>3. Rising(queue, 0, blocks)
    <3>1. 0 <= failed /\ blocks <= blocks BY <1>0
    <3> QED BY <1>0, <3>1, RisingLower
  <2> QED BY <1>0, <2>1, <2>2, <2>3 DEF Failures
<1>7. CASE \/ AskUser \/ Answer \/ InstallHandler \/ LeaveDisplay \/ Finish
           \/ EndProcess \/ Interrupt \/ Terminal \/ UNCHANGED vars
           \/ \E t \in User : Log(t) \/ PrintFrom(t)
           \/ \E t \in Thread : FlushNothing(t) \/ TakeLock(t) \/ Waited(t) \/ WriteDirectly(t)
  <2>1. queue' = queue /\ blocks' = blocks /\ shown' = shown /\ failed' = failed
        /\ broken' = broken
    BY <1>7
    DEF AskUser, Answer, InstallHandler, LeaveDisplay, Finish, EndProcess, Interrupt, Terminal,
        Log, PrintFrom, FlushNothing, TakeLock, Waited, WriteDirectly, idle, vars, displayVars
  <2> QED BY <1>1, <2>1
<1> QED BY <1>2, <1>3, <1>4, <1>5, <1>6, <1>7 DEF Next, ThreadStep, OutputStep

-----------------------------------------------------------------------------
(***************************************************************************)
(* The theorems.                                                           *)
(***************************************************************************)

\* Every step keeps the invariant.
LEMMA NextHolds == Inv /\ [Next]_vars => Inv'
<1> SUFFICES ASSUME Inv, [Next]_vars PROVE Inv' OBVIOUS
<1>1. Types /\ Programs /\ Events /\ Records /\ Prints /\ Displays /\ Failures BY DEF Inv
<1>2. Types' BY <1>1, TypesKept
<1>3. Programs' BY <1>1, <1>2, ProgramsKept
<1>4. Events' BY <1>1, EventsKept
<1>5. Records' BY <1>1, RecordsKept
<1>6. Prints' BY <1>1, <1>2, <1>5, PrintsKept
<1>7. Displays' BY <1>1, DisplaysKept
<1>8. Failures' BY <1>1, FailuresKept
<1> QED BY <1>2, <1>3, <1>4, <1>5, <1>6, <1>7, <1>8 DEF Inv

\* The invariant holds of every state of the process.
THEOREM InvHolds == Spec => []Inv
<1> QED BY InitHolds, NextHolds, PTL DEF Spec

\* Queues, operations, counters and displays keep their types, the output thread is there
\* before anything is queued for it, and no more is written than was handed over.
THEOREM TypeCorrect == Spec => []TypeOK
<1>1. ASSUME Inv PROVE TypeOK
  <2>1. Types /\ Records BY <1>1 DEF Inv
  <2>2. written \in 0 .. handed BY <2>1 DEF Types, Records, Taken
  <2>3. queue # <<>> => started BY <2>1 DEF Types
  <2> QED BY <2>1, <2>2, <2>3 DEF Types, TypeOK
<1> QED BY <1>1, InvHolds, PTL

\* What a thread prints comes after every record handed over before, whatever the
\* handler of a signal puts in between.
THEOREM PrintsInOrder == Spec => []PrintComesAfter
<1>1. ASSUME Inv PROVE PrintComesAfter
  <2>1. SUFFICES ASSUME NEW t \in Thread, AtOp(t, "write") PROVE written >= Doing(t).after
    BY DEF PrintComesAfter
  <2>2. Types /\ Prints BY <1>1 DEF Inv
  <2>3. At(todo[t], "write") /\ Doing(t) = todo[t][1] /\ todo[t] \in Seq(Op)
    BY <2>1, <2>2, AtAgain DEF Types
  <2>4. todo[t][1].after <= written BY <2>2, <2>3 DEF Prints
  <2>5. todo[t][1].after \in Nat
    <3>1. 1 \in 1 .. Len(todo[t]) /\ todo[t][1].op = "write" BY <2>3 DEF At
    <3> QED BY <2>3, <3>1, OpTypes
  <2>6. written \in Nat BY <2>2 DEF Types
  <2> QED BY <2>3, <2>4, <2>5, <2>6
<1> QED BY <1>1, InvHolds, PTL

\* With every display hidden by the queue, none is shown by it.
LEMMA HiddenMeans ==
  ASSUME Types, AllHidden(queue, shown)
  PROVE  shown = 0 /\ \A i \in 1 .. Len(queue) : queue[i].what # "show"
<1>1. shown = 0
  <2>1. shown \in Display => Up(queue, shown, shown) BY DEF Up
  <2> QED BY <2>1, ConsoleAssumption DEF AllHidden, Types, Display
<1>2. ASSUME NEW i \in 1 .. Len(queue), queue[i].what = "show" PROVE FALSE
  <2>1. queue[i] \in Item BY QueuedTypes
  <2>2. queue[i].arg \in Display BY <1>2, <2>1, ItemTypes
  <2>3. Up(queue, shown, queue[i].arg) BY <1>2 DEF Up, IsShow
  <2> QED BY <2>2, <2>3 DEF AllHidden
<1> QED BY <1>1, <1>2

\* No display is on the terminal, nor can one appear, while the user is asked, none after
\* it failed to draw, and none after its block but until the output thread is done.
THEOREM HiddenCorrect == Spec => []HiddenWhenDue
<1>1. ASSUME Inv PROVE HiddenWhenDue
  <2>1. Types /\ Displays /\ Failures BY <1>1 DEF Inv
  <2>2. HiddenAtPrompt
    <3>1. SUFFICES ASSUME AtOp("main", "ask")
                   PROVE  shown = 0 /\ \A i \in 1 .. Len(queue) : queue[i].what # "show"
      BY DEF HiddenAtPrompt
    <3>2. At(todo["main"], "ask") BY <2>1, <3>1, AtAgain, ThreadTypes
    <3>3. AllHidden(queue, shown) BY <2>1, <3>2 DEF Displays, Quiet
    <3> QED BY <2>1, <3>3, HiddenMeans
  <2>3. FailedStaysHidden
    <3>1. SUFFICES ASSUME shown \in broken PROVE FALSE BY DEF FailedStaysHidden
    <3>2. shown \in Nat /\ shown # 0 /\ failed \in Nat
      BY <2>1, <3>1, ConsoleAssumption DEF Types, Display
    <3>3. shown <= failed /\ failed < shown BY <2>1, <3>1, <3>2 DEF Failures
    <3> QED BY <3>2, <3>3
  <2>4. HiddenAfterBlock
    <3>1. SUFFICES ASSUME todo["main"] = <<>>, queue = <<>>, shown # 0 PROVE shown = live
      BY DEF HiddenAfterBlock
    <3>2. shown \in Display BY <2>1, <3>1, ConsoleAssumption DEF Types, Display
    <3>3. Up(queue, shown, shown) BY DEF Up
    <3>4. Len(queue) = 0 /\ Len(todo["main"]) = 0 BY <3>1
    <3>5. ~ HiddenBefore(queue, shown, Len(queue) + 1) /\ ~ Ending(shown)
      BY <3>4 DEF HiddenBefore, Ending
    <3> QED BY <2>1, <3>2, <3>3, <3>5 DEF Displays, InBlock
  <2> QED BY <2>2, <2>3, <2>4 DEF HiddenWhenDue
<1> QED BY <1>1, InvHolds, PTL

\* A process that finishes has written every record and hidden its display; so has one
\* that quits at the second Ctrl+C, the records aside, unless its flush gave up.
THEOREM ExitCorrect == Spec => []ExitsClean
<1>1. ASSUME Inv PROVE ExitsClean
  <2>1. SUFFICES ASSUME exited, presses < 2 \/ flushed
                 PROVE  shown = 0 /\ (presses < 2 => written = handed)
    BY DEF ExitsClean
  <2>2. Types /\ Programs /\ Prints /\ Displays BY <1>1 DEF Inv
  <2>3. At(todo["main"], "exit") BY <2>1, <2>2 DEF Programs, Exits
  <2>4. AllHidden(queue, shown) BY <2>1, <2>2, <2>3 DEF Displays, Quiet
  <2>5. shown = 0 BY <2>2, <2>4, HiddenMeans
  <2>6. presses < 2 => written = handed BY <2>2, <2>3 DEF Prints
  <2> QED BY <2>5, <2>6
<1> QED BY <1>1, InvHolds, PTL
=============================================================================
