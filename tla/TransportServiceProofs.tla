------------------------- MODULE TransportServiceProofs -------------------------
(***************************************************************************)
(* Every kind of transport implements TransportService, for any number of  *)
(* tasks, calls and packets: what is received comes in the order it was    *)
(* heard and once, and no success is reported that nobody made.            *)
(***************************************************************************)
EXTENDS TransportsProofs, FiniteSetTheorems

(* Packets on their way to the application, by the numbers they were heard *)
(* at: those in a queue rise, and come before those of the next.           *)
Rising(s, n) ==
  /\ s \in Seq(Nat)
  /\ \A i \in 1 .. Len(s) : s[i] \in 1 .. n
  /\ \A i, j \in 1 .. Len(s) : i < j => s[i] < s[j]

Before(s, u) == \A i \in 1 .. Len(s), j \in 1 .. Len(u) : s[i] < u[j]

LinesRise(l, n) ==
  \A i \in 1 .. Len(l) : l[i].event = "rx" =>
    /\ l[i].n \in 1 .. n
    /\ \A j \in 1 .. Len(l) : l[j].event = "rx" /\ i < j => l[i].n < l[j].n

BeforeLines(s, l) ==
  \A i \in 1 .. Len(s), j \in 1 .. Len(l) : l[j].event = "rx" => s[i] < l[j].n

QueuesInOrder ==
  /\ heard \in Nat
  /\ Rising(inbox, heard) /\ Rising(queue, heard) /\ Before(inbox, queue)

PostedInOrder == Rising(posted, heard) /\ Before(inbox, posted) /\ Before(queue, posted)
CopiedInOrder == Rising(copied, heard) /\ Before(inbox, copied)
LinesInOrder ==
  LinesRise(lines, heard) /\ BeforeLines(inbox, lines) /\ BeforeLines(queue, lines)

OrderInv ==
  /\ QueuesInOrder
  /\ kind = "concentrator" => LinesInOrder
  /\ kind = "usb" => PostedInOrder
  /\ kind = "skill" => CopiedInOrder

(* Successes that may still be reported: on a stream, a tally of them that *)
(* goes up with every answer "ok" not read yet does not pass the frames    *)
(* that were accepted; the answer to connect's own command is not one, and *)
(* is gone before a call can read it.  Elsewhere, each task whose frame    *)
(* was taken reports it once.                                              *)
Tallied(l, low, high) ==
  \E tally \in [0 .. Len(l) -> low .. high] :
    \A i \in 0 .. Len(l), j \in 1 .. Len(l) : i < j =>
      /\ tally[i] <= tally[j]
      /\ l[j].event = "ok" => tally[i] < tally[j]

AnswersCounted ==
  connected => Tallied(lines, trues, accepted) /\ \A i \in 1 .. Len(cmds) : cmds[i] # 0

Sent == {t \in Tasks : at[t] = "sent"}

SentCounted ==
  /\ at = [t \in Tasks |-> at[t]]
  /\ IsFiniteSet(Sent) /\ trues + Cardinality(Sent) <= accepted

CountInv ==
  /\ trues \in Nat /\ accepted \in Nat /\ trues <= accepted
  /\ kind = "concentrator" => AnswersCounted
  /\ kind # "concentrator" => SentCounted

SInv == OrderInv /\ CountInv

-----------------------------------------------------------------------------
(* Rising sequences.                                                       *)
LEMMA EmptyRises ==
  ASSUME NEW n, NEW s PROVE Rising(<<>>, n) /\ Before(<<>>, s) /\ Before(s, <<>>)
  BY DEF Rising, Before

LEMMA StillRising ==
  ASSUME NEW n \in Nat, NEW s, Rising(s, n) PROVE Rising(s, n + 1)
  BY DEF Rising

LEMMA HeardRises ==
  ASSUME NEW n \in Nat, NEW s, Rising(s, n)
  PROVE  /\ Rising(Append(s, n + 1), n + 1)
         /\ \A r : Rising(r, n) /\ Before(r, s) => Before(r, Append(s, n + 1))
<1> DEFINE m == Append(s, n + 1)
<1>1. /\ m \in Seq(Nat) /\ Len(m) = Len(s) + 1 /\ Len(s) \in Nat /\ m[Len(s) + 1] = n + 1
      /\ \A i \in 1 .. Len(s) : m[i] = s[i] /\ s[i] \in 1 .. n
  BY DEF Rising
<1>2. \A i \in 1 .. Len(m) : i \in 1 .. Len(s) \/ i = Len(s) + 1
  BY <1>1
<1> HIDE DEF m
<1>3. Rising(m, n + 1)
  <2>1. \A i \in 1 .. Len(m) : m[i] \in 1 .. n + 1
    BY <1>1, <1>2
  <2>2. ASSUME NEW i \in 1 .. Len(m), NEW j \in 1 .. Len(m), i < j PROVE m[i] < m[j]
    <3>1. i \in 1 .. Len(s)
      BY <1>1, <2>2
    <3>2. CASE j \in 1 .. Len(s)
      BY <1>1, <2>2, <3>1, <3>2 DEF Rising
    <3>3. CASE j = Len(s) + 1
      BY <1>1, <3>1, <3>3
    <3> QED
      BY <1>2, <3>2, <3>3
  <2> QED
    BY <1>1, <2>1, <2>2 DEF Rising
<1>4. ASSUME NEW r, Rising(r, n), Before(r, s), NEW i \in 1 .. Len(r), NEW j \in 1 .. Len(m)
      PROVE  r[i] < m[j]
  <2>1. CASE j \in 1 .. Len(s)
    BY <1>1, <1>4, <2>1 DEF Before
  <2>2. CASE j = Len(s) + 1
    BY <1>1, <1>4, <2>2 DEF Rising
  <2> QED
    BY <1>2, <2>1, <2>2
<1> QED
  BY <1>3, <1>4 DEF m, Before

LEMMA HandOver ==
  ASSUME NEW n \in Nat, NEW s, NEW u, Rising(s, n), Rising(u, n), Before(s, u), u # <<>>
  PROVE  /\ Rising(Append(s, Head(u)), n) /\ Rising(Tail(u), n)
         /\ Before(Append(s, Head(u)), Tail(u))
         /\ \A r : Before(r, s) /\ Before(r, u) =>
              Before(r, Append(s, Head(u))) /\ Before(r, Tail(u))
         /\ \A r : Before(s, r) /\ Before(u, r) =>
              Before(Append(s, Head(u)), r) /\ Before(Tail(u), r)
<1> DEFINE m == Append(s, Head(u))
           w == Tail(u)
<1>1. /\ m \in Seq(Nat) /\ Len(m) = Len(s) + 1 /\ Len(s) \in Nat /\ m[Len(s) + 1] = u[1]
      /\ \A i \in 1 .. Len(s) : m[i] = s[i]
  BY DEF Rising
<1>2. \A i \in 1 .. Len(m) : i \in 1 .. Len(s) \/ i = Len(s) + 1
  BY <1>1
<1>3. /\ w \in Seq(Nat) /\ Len(w) = Len(u) - 1 /\ Len(u) \in Nat /\ 1 \in 1 .. Len(u)
      /\ \A i \in 1 .. Len(w) : w[i] = u[i + 1] /\ i + 1 \in 1 .. Len(u) /\ 1 < i + 1
  BY DEF Rising
<1> HIDE DEF m, w
<1>4. Rising(m, n)
  <2>1. u[1] \in 1 .. n /\ \A i \in 1 .. Len(s) : s[i] \in 1 .. n /\ s[i] < u[1]
    BY <1>3 DEF Rising, Before
  <2>2. \A i \in 1 .. Len(m) : m[i] \in 1 .. n
    BY <1>1, <1>2, <2>1
  <2>3. ASSUME NEW i \in 1 .. Len(m), NEW j \in 1 .. Len(m), i < j PROVE m[i] < m[j]
    <3>1. i \in 1 .. Len(s)
      BY <1>1, <2>3
    <3>2. CASE j \in 1 .. Len(s)
      BY <1>1, <2>3, <3>1, <3>2 DEF Rising
    <3>3. CASE j = Len(s) + 1
      BY <1>1, <2>1, <3>1, <3>3
    <3> QED
      BY <1>2, <3>2, <3>3
  <2> QED
    BY <1>1, <2>2, <2>3 DEF Rising
<1>5. Rising(w, n)
  <2>1. \A i \in 1 .. Len(w) : w[i] \in 1 .. n
    BY <1>3 DEF Rising
  <2>2. ASSUME NEW i \in 1 .. Len(w), NEW j \in 1 .. Len(w), i < j PROVE w[i] < w[j]
    <3>1. w[i] = u[i + 1] /\ w[j] = u[j + 1] /\ i + 1 < j + 1
          /\ i + 1 \in 1 .. Len(u) /\ j + 1 \in 1 .. Len(u)
      BY <1>3, <2>2
    <3> QED
      BY <3>1 DEF Rising
  <2> QED
    BY <1>3, <2>1, <2>2 DEF Rising
<1>6. Before(m, w)
  BY <1>1, <1>2, <1>3 DEF Rising, Before
<1>7. ASSUME NEW r, Before(r, s), Before(r, u) PROVE Before(r, m) /\ Before(r, w)
  BY <1>1, <1>2, <1>3, <1>7 DEF Before
<1>8. ASSUME NEW r, Before(s, r), Before(u, r) PROVE Before(m, r) /\ Before(w, r)
  BY <1>1, <1>2, <1>3, <1>8 DEF Before
<1> QED
  BY <1>4, <1>5, <1>6, <1>7, <1>8 DEF m, w

(* A queue emptied at once, as the skill's window is.                      *)
LEMMA HandOverAll ==
  ASSUME NEW n \in Nat, NEW s, NEW u, Rising(s, n), Rising(u, n), Before(s, u)
  PROVE  /\ Rising(s \o u, n) /\ Len(s \o u) = Len(s) + Len(u)
         /\ SubSeq(s \o u, 1, Len(s)) = s
<1> DEFINE m == s \o u
<1>1. /\ m \in Seq(Nat) /\ Len(m) = Len(s) + Len(u) /\ Len(s) \in Nat /\ Len(u) \in Nat
      /\ \A i \in 1 .. Len(s) : m[i] = s[i]
      /\ \A i \in 1 .. Len(m) : i \notin 1 .. Len(s) =>
           m[i] = u[i - Len(s)] /\ i - Len(s) \in 1 .. Len(u) /\ i > Len(s)
  BY DEF Rising
<1> HIDE DEF m
<1>2. Rising(m, n)
  <2>1. \A i \in 1 .. Len(s) : s[i] \in 1 .. n
    BY DEF Rising
  <2>2. \A i \in 1 .. Len(u) : u[i] \in 1 .. n
    BY DEF Rising
  <2>3. \A i \in 1 .. Len(m) : m[i] \in 1 .. n
    BY <1>1, <2>1, <2>2
  <2>4. ASSUME NEW i \in 1 .. Len(m), NEW j \in 1 .. Len(m), i < j PROVE m[i] < m[j]
    <3>1. CASE j \in 1 .. Len(s)
      <4>1. i \in 1 .. Len(s)
        BY <1>1, <2>4, <3>1
      <4> QED
        BY <1>1, <2>4, <3>1, <4>1 DEF Rising
    <3>2. CASE j \notin 1 .. Len(s) /\ i \in 1 .. Len(s)
      <4>1. m[j] = u[j - Len(s)] /\ j - Len(s) \in 1 .. Len(u) /\ m[i] = s[i]
        BY <1>1, <3>2
      <4> QED
        BY <3>2, <4>1 DEF Before
    <3>3. CASE j \notin 1 .. Len(s) /\ i \notin 1 .. Len(s)
      <4>1. /\ m[j] = u[j - Len(s)] /\ j - Len(s) \in 1 .. Len(u)
            /\ m[i] = u[i - Len(s)] /\ i - Len(s) \in 1 .. Len(u)
            /\ i - Len(s) < j - Len(s)
        BY <1>1, <2>4, <3>3
      <4> QED
        BY <4>1 DEF Rising
    <3> QED
      BY <3>1, <3>2, <3>3
  <2> QED
    BY <1>1, <2>3, <2>4 DEF Rising
<1>3. SubSeq(m, 1, Len(s)) = s
  BY <1>1 DEF Rising
<1> QED
  BY <1>1, <1>2, <1>3 DEF m

(* The lines of a stream.                                                  *)
LEMMA EmptyLines ==
  ASSUME NEW n, NEW s PROVE LinesRise(<<>>, n) /\ BeforeLines(s, <<>>)
  BY DEF LinesRise, BeforeLines

LEMMA HeardLines ==
  ASSUME NEW n \in Nat, NEW l \in Seq(LineType), LinesRise(l, n)
  PROVE  /\ LinesRise(l, n + 1)
         /\ LinesRise(Append(l, Line("rx", n + 1)), n + 1)
         /\ \A r : Rising(r, n) /\ BeforeLines(r, l) =>
              BeforeLines(r, Append(l, Line("rx", n + 1)))
<1> DEFINE m == Append(l, Line("rx", n + 1))
<1>1. /\ Len(m) = Len(l) + 1 /\ Len(l) \in Nat
      /\ m[Len(l) + 1] = [event |-> "rx", n |-> n + 1]
      /\ \A i \in 1 .. Len(l) : m[i] = l[i]
  BY DEF Line
<1>2. \A i \in 1 .. Len(m) : i \in 1 .. Len(l) \/ i = Len(l) + 1
  BY <1>1
<1>3. \A i \in 1 .. Len(l) : l[i].event = "rx" => l[i].n \in 1 .. n
  BY DEF LinesRise
<1> HIDE DEF m
<1>4. LinesRise(l, n + 1)
  BY <1>3 DEF LinesRise
<1>5. LinesRise(m, n + 1)
  <2>1. \A i \in 1 .. Len(m) : m[i].event = "rx" => m[i].n \in 1 .. n + 1
    BY <1>1, <1>2, <1>3
  <2>2. ASSUME NEW i \in 1 .. Len(m), NEW j \in 1 .. Len(m), i < j,
               m[i].event = "rx", m[j].event = "rx"
        PROVE  m[i].n < m[j].n
    <3>1. i \in 1 .. Len(l)
      BY <1>1, <2>2
    <3>2. CASE j \in 1 .. Len(l)
      BY <1>1, <2>2, <3>1, <3>2 DEF LinesRise
    <3>3. CASE j = Len(l) + 1
      BY <1>1, <1>3, <2>2, <3>1, <3>3
    <3> QED
      BY <1>2, <3>2, <3>3
  <2> QED
    BY <2>1, <2>2 DEF LinesRise
<1>6. ASSUME NEW r, Rising(r, n), BeforeLines(r, l), NEW i \in 1 .. Len(r),
             NEW j \in 1 .. Len(m), m[j].event = "rx"
      PROVE  r[i] < m[j].n
  <2>1. CASE j \in 1 .. Len(l)
    BY <1>1, <1>6, <2>1 DEF BeforeLines
  <2>2. CASE j = Len(l) + 1
    BY <1>1, <1>6, <2>2 DEF Rising
  <2> QED
    BY <1>2, <2>1, <2>2
<1> QED
  BY <1>4, <1>5, <1>6 DEF m, BeforeLines

LEMMA AnswerLines ==
  ASSUME NEW n, NEW l \in Seq(LineType), NEW event, event # "rx", LinesRise(l, n)
  PROVE  /\ LinesRise(Append(l, Line(event, 0)), n)
         /\ \A r : BeforeLines(r, l) => BeforeLines(r, Append(l, Line(event, 0)))
<1> DEFINE m == Append(l, Line(event, 0))
<1>1. /\ Len(m) = Len(l) + 1 /\ Len(l) \in Nat
      /\ m[Len(l) + 1].event # "rx"
      /\ \A i \in 1 .. Len(l) : m[i] = l[i]
  BY DEF Line
<1>2. \A i \in 1 .. Len(m) : m[i].event = "rx" => i \in 1 .. Len(l)
  BY <1>1
<1> HIDE DEF m
<1> QED
  BY <1>1, <1>2 DEF LinesRise, BeforeLines, m

LEMMA TakenLine ==
  ASSUME NEW n, NEW l \in Seq(LineType), l # <<>>, LinesRise(l, n)
  PROVE  /\ LinesRise(Tail(l), n)
         /\ \A r : BeforeLines(r, l) => BeforeLines(r, Tail(l))
<1> DEFINE w == Tail(l)
<1>1. /\ Len(w) = Len(l) - 1 /\ Len(l) \in Nat
      /\ \A i \in 1 .. Len(w) : w[i] = l[i + 1] /\ i + 1 \in 1 .. Len(l)
  OBVIOUS
<1> HIDE DEF w
<1>2. \A i, j \in 1 .. Len(w) : i < j => i + 1 < j + 1
  OBVIOUS
<1>3. LinesRise(w, n)
  BY <1>1, <1>2 DEF LinesRise
<1>4. \A r : BeforeLines(r, l) => BeforeLines(r, w)
  BY <1>1 DEF BeforeLines
<1> QED
  BY <1>3, <1>4 DEF w

(* The receive loop queues the packet it reads.                            *)
LEMMA QueuedLine ==
  ASSUME NEW n \in Nat, NEW l \in Seq(LineType), l # <<>>, Head(l).event = "rx",
         LinesRise(l, n), NEW r, Rising(r, n), BeforeLines(r, l)
  PROVE  /\ Rising(Append(r, Head(l).n), n)
         /\ BeforeLines(Append(r, Head(l).n), Tail(l))
         /\ \A q : Before(q, r) /\ BeforeLines(q, l) => Before(q, Append(r, Head(l).n))
<1> DEFINE m == Append(r, Head(l).n)
           w == Tail(l)
<1>1. /\ Len(w) = Len(l) - 1 /\ Len(l) \in Nat /\ 1 \in 1 .. Len(l) /\ l[1] = Head(l)
      /\ \A i \in 1 .. Len(w) : w[i] = l[i + 1] /\ i + 1 \in 1 .. Len(l) /\ 1 < i + 1
  OBVIOUS
<1>2. l[1].n \in 1 .. n
  BY <1>1 DEF LinesRise
<1>3. /\ m \in Seq(Nat) /\ Len(m) = Len(r) + 1 /\ Len(r) \in Nat /\ m[Len(r) + 1] = l[1].n
      /\ \A i \in 1 .. Len(r) : m[i] = r[i]
  BY <1>1, <1>2 DEF Rising
<1>4. \A i \in 1 .. Len(m) : i \in 1 .. Len(r) \/ i = Len(r) + 1
  BY <1>3
<1> HIDE DEF m, w
<1>5. Rising(m, n)
  <2>1. \A i \in 1 .. Len(r) : r[i] \in 1 .. n /\ r[i] < l[1].n
    BY <1>1 DEF Rising, BeforeLines
  <2>2. \A i \in 1 .. Len(m) : m[i] \in 1 .. n
    BY <1>2, <1>3, <1>4, <2>1
  <2>3. ASSUME NEW i \in 1 .. Len(m), NEW j \in 1 .. Len(m), i < j PROVE m[i] < m[j]
    <3>1. i \in 1 .. Len(r)
      BY <1>3, <2>3
    <3>2. CASE j \in 1 .. Len(r)
      BY <1>3, <2>3, <3>1, <3>2 DEF Rising
    <3>3. CASE j = Len(r) + 1
      BY <1>3, <2>1, <3>1, <3>3
    <3> QED
      BY <1>4, <3>2, <3>3
  <2> QED
    BY <1>3, <2>2, <2>3 DEF Rising
<1>6. BeforeLines(m, w)
  <2>1. ASSUME NEW i \in 1 .. Len(m), NEW j \in 1 .. Len(w), w[j].event = "rx"
        PROVE  m[i] < w[j].n
    <3>1. w[j] = l[j + 1] /\ j + 1 \in 1 .. Len(l) /\ 1 < j + 1
      BY <1>1
    <3>2. CASE i \in 1 .. Len(r)
      BY <1>3, <2>1, <3>1, <3>2 DEF BeforeLines
    <3>3. CASE i = Len(r) + 1
      BY <1>1, <1>3, <2>1, <3>1, <3>3 DEF LinesRise
    <3> QED
      BY <1>4, <3>2, <3>3
  <2> QED
    BY <2>1 DEF BeforeLines
<1>7. ASSUME NEW q, Before(q, r), BeforeLines(q, l) PROVE Before(q, m)
  BY <1>1, <1>3, <1>4, <1>7 DEF Before, BeforeLines
<1> QED
  BY <1>5, <1>6, <1>7 DEF m, w

(* receive() takes from a queue that comes before what is on the stream.   *)
LEMMA HandOverBeforeLines ==
  ASSUME NEW n, NEW s, NEW u, NEW l, Rising(s, n), Rising(u, n), u # <<>>,
         BeforeLines(s, l), BeforeLines(u, l)
  PROVE  BeforeLines(Append(s, Head(u)), l) /\ BeforeLines(Tail(u), l)
<1> DEFINE m == Append(s, Head(u))
           w == Tail(u)
<1>1. /\ Len(m) = Len(s) + 1 /\ Len(s) \in Nat /\ m[Len(s) + 1] = u[1]
      /\ \A i \in 1 .. Len(s) : m[i] = s[i]
  BY DEF Rising
<1>2. \A i \in 1 .. Len(m) : i \in 1 .. Len(s) \/ i = Len(s) + 1
  BY <1>1
<1>3. /\ Len(w) = Len(u) - 1 /\ Len(u) \in Nat /\ 1 \in 1 .. Len(u)
      /\ \A i \in 1 .. Len(w) : w[i] = u[i + 1] /\ i + 1 \in 1 .. Len(u)
  BY DEF Rising
<1> HIDE DEF m, w
<1>4. BeforeLines(m, l) /\ BeforeLines(w, l)
  BY <1>1, <1>2, <1>3 DEF BeforeLines
<1> QED
  BY <1>4 DEF m, w

(* Tallies of the answers "ok" on a stream.                                *)
LEMMA TallyNone ==
  ASSUME NEW l \in Seq(LineType), \A i \in 1 .. Len(l) : l[i].event # "ok",
         NEW low \in Nat, NEW high \in Nat, low <= high
  PROVE  Tallied(l, low, high)
<1> DEFINE tally == [i \in 0 .. Len(l) |-> low]
<1>1. tally \in [0 .. Len(l) -> low .. high]
  OBVIOUS
<1>2. \A i \in 0 .. Len(l), j \in 1 .. Len(l) : tally[i] <= tally[j]
  OBVIOUS
<1> HIDE DEF tally
<1> QED
  BY <1>1, <1>2 DEF Tallied

LEMMA TallyMore ==
  ASSUME NEW l \in Seq(LineType), NEW x \in LineType, NEW low \in Nat, NEW high \in Nat,
         Tallied(l, low, high)
  PROVE  /\ x.event # "ok" => Tallied(Append(l, x), low, high)
         /\ Tallied(Append(l, x), low, high + 1) /\ Tallied(l, low, high + 1)
<1> DEFINE m == Append(l, x)
<1>1. /\ Len(m) = Len(l) + 1 /\ Len(l) \in Nat /\ m[Len(l) + 1] = x
      /\ \A i \in 1 .. Len(l) : m[i] = l[i]
  OBVIOUS
<1> HIDE DEF m
<1>2. PICK c \in [0 .. Len(l) -> low .. high] :
        \A i \in 0 .. Len(l), j \in 1 .. Len(l) : i < j =>
          c[i] <= c[j] /\ (l[j].event = "ok" => c[i] < c[j])
  BY DEF Tallied
<1>3. Tallied(l, low, high + 1)
  <2>1. c \in [0 .. Len(l) -> low .. high + 1]
    OBVIOUS
  <2> QED
    BY <1>2, <2>1 DEF Tallied
<1>4. ASSUME NEW top \in {high, high + 1}, x.event = "ok" => top = high + 1
      PROVE  Tallied(m, low, top)
  <2> DEFINE d == [i \in 0 .. Len(m) |-> IF i \in 0 .. Len(l) THEN c[i] ELSE top]
  <2>1. \A i \in 0 .. Len(l) : d[i] = c[i] /\ c[i] \in low .. high
    BY <1>1
  <2>2. d[Len(m)] = top /\ Len(m) = Len(l) + 1
    BY <1>1
  <2>3. low <= high /\ top \in low .. top /\ high <= top
    BY <2>1
  <2>4. d \in [0 .. Len(m) -> low .. top]
    BY <1>1, <2>1, <2>3
  <2> HIDE DEF d
  <2>5. ASSUME NEW i \in 0 .. Len(m), NEW j \in 1 .. Len(m), i < j
        PROVE  d[i] <= d[j] /\ (m[j].event = "ok" => d[i] < d[j])
    <3>1. i \in 0 .. Len(l)
      BY <1>1, <2>5
    <3>2. CASE j \in 1 .. Len(l)
      <4>1. c[i] <= c[j] /\ (l[j].event = "ok" => c[i] < c[j])
        BY <1>2, <2>5, <3>1, <3>2
      <4>2. d[i] = c[i] /\ d[j] = c[j] /\ m[j] = l[j]
        BY <1>1, <2>1, <3>1, <3>2
      <4> QED
        BY <4>1, <4>2
    <3>3. CASE j = Len(m)
      <4>1. d[i] \in low .. high /\ d[j] = top /\ m[j] = x
        BY <1>1, <2>1, <2>2, <3>1, <3>3
      <4> QED
        BY <1>4, <2>3, <4>1
    <3> QED
      BY <1>1, <3>2, <3>3
  <2> QED
    BY <2>4, <2>5 DEF Tallied
<1> QED
  BY <1>3, <1>4 DEF m

LEMMA TallyTake ==
  ASSUME NEW l \in Seq(LineType), l # <<>>, NEW low \in Nat, NEW high \in Nat,
         Tallied(l, low, high)
  PROVE  /\ Tallied(Tail(l), low, high)
         /\ Head(l).event = "ok" => low + 1 <= high /\ Tallied(Tail(l), low + 1, high)
<1> DEFINE w == Tail(l)
<1>1. /\ Len(w) = Len(l) - 1 /\ Len(l) \in Nat /\ 1 \in 1 .. Len(l) /\ l[1] = Head(l)
      /\ \A i \in 1 .. Len(w) : w[i] = l[i + 1]
  OBVIOUS
<1> HIDE DEF w
<1>2. PICK c \in [0 .. Len(l) -> low .. high] :
        \A i \in 0 .. Len(l), j \in 1 .. Len(l) : i < j =>
          c[i] <= c[j] /\ (l[j].event = "ok" => c[i] < c[j])
  BY DEF Tallied
<1> DEFINE d == [i \in 0 .. Len(w) |-> c[i + 1]]
<1>3. \A i \in 0 .. Len(w) : d[i] = c[i + 1] /\ i + 1 \in 1 .. Len(l) /\ c[i + 1] \in low .. high
  BY <1>1
<1>4. DOMAIN d = 0 .. Len(w) /\ d = [i \in 0 .. Len(w) |-> d[i]]
  OBVIOUS
<1> HIDE DEF d
<1>5. ASSUME NEW i \in 0 .. Len(w), NEW j \in 1 .. Len(w), i < j
      PROVE  d[i] <= d[j] /\ (w[j].event = "ok" => d[i] < d[j])
  <2>1. /\ d[i] = c[i + 1] /\ d[j] = c[j + 1] /\ w[j] = l[j + 1]
        /\ i + 1 \in 0 .. Len(l) /\ j + 1 \in 1 .. Len(l) /\ i + 1 < j + 1
    BY <1>1, <1>3, <1>5
  <2> QED
    BY <1>2, <2>1
<1>6. Tallied(w, low, high)
  <2>1. d \in [0 .. Len(w) -> low .. high]
    BY <1>3, <1>4
  <2> QED
    BY <1>5, <2>1 DEF Tallied
<1>7. ASSUME Head(l).event = "ok" PROVE low + 1 <= high /\ Tallied(w, low + 1, high)
  <2>1. c[0] \in low .. high /\ c[0] < c[1] /\ c[1] \in low .. high
    <3>1. 0 \in 0 .. Len(l) /\ 0 < 1
      BY <1>1
    <3> QED
      BY <1>1, <1>2, <1>7, <3>1
  <2>2. ASSUME NEW i \in 0 .. Len(w) PROVE d[i] \in low + 1 .. high
    <3>1. CASE i = 0
      BY <1>3, <2>1, <3>1
    <3>2. CASE i > 0
      <4>1. 1 \in 0 .. Len(l) /\ 1 < i + 1 /\ i + 1 \in 1 .. Len(l)
        BY <1>1, <3>2
      <4>2. c[1] <= c[i + 1]
        BY <1>2, <4>1
      <4> QED
        BY <1>3, <2>1, <4>2
    <3> QED
      BY <3>1, <3>2
  <2>3. d \in [0 .. Len(w) -> low + 1 .. high]
    BY <1>4, <2>2
  <2>4. low + 1 <= high
    BY <2>1
  <2>5. Tallied(w, low + 1, high)
    BY <1>5, <2>3 DEF Tallied
  <2> QED
    BY <2>4, <2>5
<1> QED
  BY <1>6, <1>7 DEF w

-----------------------------------------------------------------------------
(* The concentrator's steps.                                               *)
LEMMA CHearsStep ==
  ASSUME StreamTyped, SInv, kind = "concentrator", DaemonHears
  PROVE  SInv' /\ Service!Hear
<1>1. /\ heard' = heard + 1
      /\ lines' = (IF link = "up" THEN Append(lines, Line("rx", heard + 1)) ELSE lines)
      /\ UNCHANGED <<kind, connected, queue, inbox, accepted, trues, cmds>>
  BY DEF DaemonHears, appVars
<1>2. lines \in Seq(LineType) /\ heard \in Nat
  BY DEF StreamTyped
<1>3. Line("rx", heard + 1) \in LineType /\ Line("rx", heard + 1).event = "rx"
  BY <1>2 DEF LineType, Line
<1>4. QueuesInOrder'
  BY <1>1, <1>2, StillRising DEF SInv, OrderInv, QueuesInOrder
<1>5. LinesInOrder'
  BY <1>1, <1>2, HeardLines DEF SInv, OrderInv, QueuesInOrder, LinesInOrder
<1>6. AnswersCounted'
  <2> SUFFICES ASSUME connected PROVE Tallied(lines', trues, accepted)
    BY <1>1 DEF SInv, CountInv, AnswersCounted
  <2>1. Tallied(lines, trues, accepted) /\ trues \in Nat /\ accepted \in Nat
    BY DEF SInv, CountInv, AnswersCounted
  <2> QED
    BY <1>1, <1>2, <1>3, <2>1, TallyMore
<1> QED
  BY <1>1, <1>4, <1>5, <1>6 DEF SInv, OrderInv, CountInv, Service!Hear

LEMMA CAnswersStep ==
  ASSUME StreamTyped, SInv, kind = "concentrator", NEW event \in {"ok", "err"},
         DaemonAnswers(event)
  PROVE  SInv' /\ (Service!Accept \/ UNCHANGED Service!serviceVars)
<1>1. /\ cmds # <<>> /\ cmds' = Tail(cmds)
      /\ lines' = (IF link = "up" THEN Append(lines, Line(event, 0)) ELSE lines)
      /\ UNCHANGED <<kind, connected, queue, heard, inbox, trues>>
      /\ accepted' = (IF Head(cmds) # 0 /\ event = "ok" THEN accepted + 1 ELSE accepted)
  BY DEF DaemonAnswers, appVars
<1>2. /\ lines \in Seq(LineType) /\ cmds \in Seq(Nat) /\ heard \in Nat
      /\ trues \in Nat /\ accepted \in Nat /\ trues <= accepted
  BY DEF StreamTyped, SInv, CountInv
<1>3. Line(event, 0) \in LineType /\ Line(event, 0).event = event
  BY DEF LineType, Line
<1>4. QueuesInOrder'
  BY <1>1 DEF SInv, OrderInv, QueuesInOrder
<1>5. LinesInOrder'
  BY <1>1, <1>2, AnswerLines DEF SInv, OrderInv, LinesInOrder
<1>6. AnswersCounted'
  <2> SUFFICES ASSUME connected
               PROVE  /\ Tallied(lines', trues, accepted')
                      /\ \A i \in 1 .. Len(cmds') : cmds'[i] # 0
    BY <1>1 DEF AnswersCounted
  <2>1. Tallied(lines, trues, accepted) /\ \A i \in 1 .. Len(cmds) : cmds[i] # 0
    BY DEF SInv, CountInv, AnswersCounted
  <2>2. /\ Head(cmds) = cmds[1] /\ 1 \in 1 .. Len(cmds)
        /\ \A i \in 1 .. Len(cmds') : cmds'[i] = cmds[i + 1] /\ i + 1 \in 1 .. Len(cmds)
    BY <1>1, <1>2
  <2>3. event = "ok" => accepted' = accepted + 1
    BY <1>1, <2>1, <2>2
  <2>4. event # "ok" => accepted' = accepted
    BY <1>1
  <2>5. Tallied(lines', trues, accepted')
    <3>1. CASE event = "ok"
      BY <1>1, <1>2, <1>3, <2>1, <2>3, <3>1, TallyMore
    <3>2. CASE event # "ok"
      BY <1>1, <1>2, <1>3, <2>1, <2>4, <3>2, TallyMore
    <3> QED
      BY <3>1, <3>2
  <2> QED
    BY <2>1, <2>2, <2>5
<1>7. accepted' \in Nat /\ trues <= accepted'
  BY <1>1, <1>2
<1> QED
  BY <1>1, <1>2, <1>4, <1>5, <1>6, <1>7
  DEF SInv, OrderInv, CountInv, Service!Accept, Service!serviceVars

(* Steps that neither move packets nor report, the ones that empty the     *)
(* stream among them.                                                      *)
LEMMA CQuietStep ==
  ASSUME SInv, kind = "concentrator",
         UNCHANGED <<kind, queue, heard, inbox, accepted, trues>>,
         lines' \in {lines, <<>>},
         connected' => connected /\ lines' = lines /\ \A i \in 1 .. Len(cmds') : cmds'[i] # 0
  PROVE  SInv' /\ UNCHANGED Service!serviceVars
<1>1. LinesInOrder'
  BY EmptyLines DEF SInv, OrderInv, LinesInOrder
<1> QED
  BY <1>1 DEF SInv, OrderInv, QueuesInOrder, CountInv, AnswersCounted, Service!serviceVars

(* A line is taken by connect, or by the receive loop if it is an answer.  *)
LEMMA CDropsStep ==
  ASSUME StreamTyped, SInv, kind = "concentrator", lines # <<>>, lines' = Tail(lines),
         UNCHANGED <<kind, queue, heard, inbox, accepted, trues, cmds>>,
         connected' => connected \/ (NoAnswer' /\ cmds = <<>>)
  PROVE  SInv' /\ UNCHANGED Service!serviceVars
<1>1. /\ lines \in Seq(LineType) /\ lines' \in Seq(LineType)
      /\ trues \in Nat /\ accepted \in Nat /\ trues <= accepted
  BY TailLines DEF StreamTyped, SInv, CountInv
<1>2. LinesInOrder'
  BY <1>1, TakenLine DEF SInv, OrderInv, LinesInOrder
<1>3. AnswersCounted'
  <2>1. CASE connected
    <3>1. Tallied(lines, trues, accepted)
      BY <2>1 DEF SInv, CountInv, AnswersCounted
    <3>2. Tallied(lines', trues, accepted)
      BY <1>1, <3>1, TallyTake
    <3> QED
      BY <2>1, <3>2 DEF SInv, CountInv, AnswersCounted
  <2>2. CASE NoAnswer' /\ cmds = <<>>
    <3>1. \A i \in 1 .. Len(lines') : lines'[i].event # "ok"
      BY <2>2 DEF NoAnswer, AnswerAt
    <3>2. Tallied(lines', trues, accepted)
      BY <1>1, <3>1, TallyNone
    <3> QED
      BY <2>2, <3>2 DEF AnswersCounted
  <2> QED
    BY <2>1, <2>2 DEF AnswersCounted
<1> QED
  BY <1>2, <1>3 DEF SInv, OrderInv, QueuesInOrder, CountInv, Service!serviceVars

(* The receive loop takes a packet.                                        *)
LEMMA CQueuesStep ==
  ASSUME StreamTyped, SInv, kind = "concentrator", lines # <<>>, lines' = Tail(lines),
         Head(lines).event = "rx", queue' = Append(queue, Head(lines).n),
         UNCHANGED <<kind, connected, heard, inbox, accepted, trues, cmds>>
  PROVE  SInv' /\ UNCHANGED Service!serviceVars
<1>1. /\ lines \in Seq(LineType) /\ heard \in Nat
      /\ trues \in Nat /\ accepted \in Nat /\ trues <= accepted
  BY DEF StreamTyped, SInv, CountInv
<1>2. QueuesInOrder' /\ LinesInOrder'
  <2>1. /\ LinesRise(lines, heard) /\ BeforeLines(queue, lines) /\ BeforeLines(inbox, lines)
        /\ Rising(queue, heard) /\ Before(inbox, queue)
    BY DEF SInv, OrderInv, QueuesInOrder, LinesInOrder
  <2>2. /\ Rising(queue', heard) /\ BeforeLines(queue', lines') /\ Before(inbox, queue')
    BY <1>1, <2>1, QueuedLine
  <2>3. LinesRise(lines', heard) /\ BeforeLines(inbox, lines')
    BY <1>1, <2>1, TakenLine
  <2> QED
    BY <2>2, <2>3 DEF SInv, OrderInv, QueuesInOrder, LinesInOrder
<1>3. AnswersCounted'
  <2>1. connected => Tallied(lines, trues, accepted)
    BY DEF SInv, CountInv, AnswersCounted
  <2>2. connected => Tallied(lines', trues, accepted)
    BY <1>1, <2>1, TallyTake
  <2> QED
    BY <2>2 DEF SInv, CountInv, AnswersCounted
<1> QED
  BY <1>2, <1>3 DEF SInv, OrderInv, CountInv, Service!serviceVars

(* A call takes the answer "ok".                                           *)
LEMMA CReportsStep ==
  ASSUME StreamTyped, SInv, kind = "concentrator", connected,
         lines # <<>>, lines' = Tail(lines), Head(lines).event = "ok", trues' = trues + 1,
         UNCHANGED <<kind, connected, queue, heard, inbox, accepted, cmds>>
  PROVE  SInv' /\ Service!Report
<1>1. /\ lines \in Seq(LineType) /\ trues \in Nat /\ accepted \in Nat
      /\ Tallied(lines, trues, accepted)
  BY DEF StreamTyped, SInv, CountInv, AnswersCounted
<1>2. trues + 1 <= accepted /\ Tallied(lines', trues + 1, accepted)
  BY <1>1, TallyTake
<1>3. LinesInOrder'
  BY <1>1, TakenLine DEF SInv, OrderInv, LinesInOrder
<1>4. AnswersCounted'
  BY <1>2 DEF SInv, CountInv, AnswersCounted
<1>5. trues' \in Nat /\ trues' <= accepted /\ trues < accepted
  BY <1>1, <1>2
<1> QED
  BY <1>3, <1>4, <1>5 DEF SInv, OrderInv, QueuesInOrder, CountInv, Service!Report

LEMMA ConcentratorStep ==
  ASSUME IInv, SInv, kind = "concentrator", ConcentratorNext, kind' = kind
  PROVE  SInv' /\ [Service!ServiceNext]_(Service!serviceVars)
<1> USE DEF historyVars
<1>1. StreamInv /\ StreamTyped
  BY DEF IInv, StreamInv
<1>2. CASE DaemonHears
  BY <1>1, <1>2, CHearsStep DEF Service!ServiceNext
<1>3. ASSUME NEW event \in {"ok", "err"}, DaemonAnswers(event)
      PROVE  SInv' /\ [Service!ServiceNext]_(Service!serviceVars)
  BY <1>1, <1>3, CAnswersStep DEF Service!ServiceNext
<1>4. CASE DaemonCloses \/ DaemonResets \/ LoopEnds \/ \E place : LoopStays(place)
  <2>1. /\ lines' = lines /\ cmds' = cmds /\ connected' \in {connected, FALSE}
        /\ UNCHANGED <<kind, queue, heard, inbox, accepted, trues>>
    BY <1>4 DEF DaemonCloses, DaemonResets, LoopEnds, LoopStays, baseVars, appVars
  <2>2. connected' => connected /\ \A i \in 1 .. Len(cmds') : cmds'[i] # 0
    BY <2>1 DEF SInv, CountInv, AnswersCounted
  <2> QED
    BY <2>1, <2>2, CQuietStep
<1>5. ASSUME NEW t \in Tasks,
             \/ Connect(t) \/ NotGreeted(t) \/ Disconnect(t) \/ CloseStream(t)
             \/ Disconnected(t) \/ StreamGone(t)
      PROVE  SInv' /\ UNCHANGED Service!serviceVars
  <2>1. /\ lines' \in {lines, <<>>}
        /\ UNCHANGED <<kind, queue, heard, inbox, accepted, trues>>
        /\ connected' => connected /\ lines' = lines /\ cmds' = cmds
    BY <1>5 DEF Connect, NotGreeted, Disconnect, CloseStream, Disconnected, StreamGone,
       concentratorVars, streamVars
  <2>2. connected' => \A i \in 1 .. Len(cmds') : cmds'[i] # 0
    BY <2>1 DEF SInv, CountInv, AnswersCounted
  <2> QED
    BY <2>1, <2>2, CQuietStep
<1>6. ASSUME NEW t \in Tasks, Send(t) PROVE SInv' /\ UNCHANGED Service!serviceVars
  <2>1. /\ UNCHANGED <<kind, connected, queue, heard, inbox, accepted, trues, lines>>
        /\ connected /\ cmds' \in {cmds, Append(cmds, begun + 1)}
    BY <1>6 DEF Send
  <2>2. begun + 1 # 0 /\ cmds \in Seq(Nat) /\ begun + 1 \in Nat
    BY <1>1 DEF StreamTyped
  <2>3. \A i \in 1 .. Len(cmds) : cmds[i] # 0
    BY <2>1 DEF SInv, CountInv, AnswersCounted
  <2>4. \A i \in 1 .. Len(cmds') : cmds'[i] # 0
    BY <2>1, <2>2, <2>3
  <2> QED
    BY <2>1, <2>4, CQuietStep
<1>7. ASSUME NEW t \in Tasks, Greeted(t) PROVE SInv' /\ UNCHANGED Service!serviceVars
  <2>1. /\ at[t] = "greeting" /\ lines # <<>> /\ lines' = Tail(lines)
        /\ UNCHANGED <<kind, queue, heard, inbox, accepted, trues, cmds>>
        /\ connected' => connected \/ Head(lines).event = "ok"
    BY <1>7 DEF Greeted
  <2>2. OneAnswer
    BY <1>1, <2>1 DEF StreamInv, GreetingAlone
  <2>3. Head(lines).event = "ok" => NoAnswer' /\ cmds = <<>>
    BY <1>1, <2>1, <2>2, TakeLine
  <2> QED
    BY <1>1, <2>1, <2>3, CDropsStep
<1>8. ASSUME NEW t \in InCall, TakeAnswer(t)
      PROVE  SInv' /\ [Service!ServiceNext]_(Service!serviceVars)
  <2>1. /\ lines # <<>> /\ lines' = Tail(lines)
        /\ trues' = (IF Head(lines).event = "ok" THEN trues + 1 ELSE trues)
        /\ UNCHANGED <<kind, connected, queue, heard, inbox, accepted, cmds>>
    BY <1>8 DEF TakeAnswer
  <2>2. connected
    BY <1>1, <1>8, <2>1 DEF StreamInv, Orphaned
  <2>3. CASE Head(lines).event = "ok"
    BY <1>1, <2>1, <2>2, <2>3, CReportsStep DEF Service!ServiceNext
  <2>4. CASE Head(lines).event # "ok"
    BY <1>1, <2>1, <2>2, <2>4, CDropsStep
  <2> QED
    BY <2>3, <2>4
<1>9. ASSUME NEW t \in Tasks, Drained(t) \/ ReadAnswer(t) \/ Answered(t) \/ Timeout(t)
      PROVE  SInv' /\ [Service!ServiceNext]_(Service!serviceVars)
  <2>1. t \in InCall
    BY <1>9 DEF Drained, ReadAnswer, Answered, Timeout, InCall
  <2>2. CASE ~TakeAnswer(t)
    <3>1. UNCHANGED <<kind, connected, queue, heard, inbox, accepted, trues, lines, cmds>>
      BY <1>9, <2>2 DEF Drained, ReadAnswer, Answered, Timeout, Unanswered, concentratorVars, streamVars
    <3>2. connected' => connected /\ \A i \in 1 .. Len(cmds') : cmds'[i] # 0
      BY <3>1 DEF SInv, CountInv, AnswersCounted
    <3> QED
      BY <3>1, <3>2, CQuietStep
  <2> QED
    BY <1>8, <2>1, <2>2
<1>10. CASE LoopTakes
  <2>1. /\ lines # <<>> /\ lines' = Tail(lines)
        /\ queue' = (IF Head(lines).event = "rx" THEN Append(queue, Head(lines).n) ELSE queue)
        /\ UNCHANGED <<kind, connected, heard, inbox, accepted, trues, cmds>>
    BY <1>10 DEF LoopTakes
  <2>2. CASE Head(lines).event = "rx"
    BY <1>1, <2>1, <2>2, CQueuesStep
  <2>3. CASE Head(lines).event # "rx"
    BY <1>1, <2>1, <2>3, CDropsStep
  <2> QED
    BY <2>2, <2>3
<1>11. CASE LoopReads \/ LoopWoken \/ LoopWakes
  BY <1>4, <1>10, <1>11 DEF LoopReads, LoopWoken, LoopWakes
<1> QED
  BY <1>2, <1>3, <1>4, <1>5, <1>6, <1>7, <1>9, <1>11 DEF ConcentratorNext

-----------------------------------------------------------------------------
(* Who has something to report, after a step of one task.                  *)
LEMMA SentGoes ==
  ASSUME SentCounted, trues \in Nat, accepted \in Nat, NEW t \in Tasks, NEW place,
         Goes(t, place), place # "sent"
  PROVE  /\ at' = [u \in Tasks |-> at'[u]] /\ IsFiniteSet(Sent')
         /\ at[t] # "sent" => Cardinality(Sent') = Cardinality(Sent)
         /\ at[t] = "sent" => /\ Cardinality(Sent') = Cardinality(Sent) - 1
                              /\ trues + 1 <= accepted
         /\ Cardinality(Sent) \in Nat
<1>1. /\ at' = [u \in Tasks |-> at'[u]] /\ at'[t] = place
      /\ \A u \in Tasks : u # t => at'[u] = at[u]
  BY DEF SentCounted, Goes
<1>2. Sent' = Sent \ {t}
  BY <1>1 DEF Sent
<1>3. /\ IsFiniteSet(Sent \ {t}) /\ Cardinality(Sent) \in Nat
      /\ Cardinality(Sent \ {t}) = IF t \in Sent THEN Cardinality(Sent) - 1 ELSE Cardinality(Sent)
      /\ Cardinality(Sent \ {t}) \in Nat
  BY FS_RemoveElement, FS_CardinalityType DEF SentCounted
<1>4. t \in Sent <=> at[t] = "sent"
  BY DEF Sent
<1>5. t \in Sent => trues + 1 <= accepted
  BY <1>3 DEF SentCounted
<1> QED
  BY <1>1, <1>2, <1>3, <1>4, <1>5

LEMMA SentMore ==
  ASSUME SentCounted, trues \in Nat, accepted \in Nat, NEW t \in Tasks,
         Goes(t, "sent"), trues' = trues, accepted' = accepted + 1
  PROVE  SentCounted'
<1>1. /\ at' = [u \in Tasks |-> at'[u]] /\ at'[t] = "sent"
      /\ \A u \in Tasks : u # t => at'[u] = at[u]
  BY DEF SentCounted, Goes
<1>2. Sent' = Sent \union {t}
  BY <1>1 DEF Sent
<1>3. /\ IsFiniteSet(Sent \union {t}) /\ Cardinality(Sent) \in Nat
      /\ Cardinality(Sent \union {t}) \in {Cardinality(Sent), Cardinality(Sent) + 1}
  BY FS_AddElement, FS_CardinalityType DEF SentCounted
<1>4. trues + Cardinality(Sent \union {t}) <= accepted + 1
  BY <1>3 DEF SentCounted
<1> QED
  BY <1>1, <1>2, <1>3, <1>4 DEF SentCounted

(* Steps of the USB transport and the skill that move no packets.          *)
QueuesStay == UNCHANGED <<kind, heard, inbox, queue>>

LEMMA OffStreamStay ==
  ASSUME SInv, kind # "concentrator", QueuesStay,
         kind = "usb" => posted' = posted, kind = "skill" => copied' = copied
  PROVE  OrderInv'
  BY DEF SInv, OrderInv, QueuesStay, QueuesInOrder, PostedInOrder, CopiedInOrder

(* Those that accept and report nothing.                                   *)
LEMMA QuietGoes ==
  ASSUME SInv, kind # "concentrator", UNCHANGED <<kind, accepted, trues>>,
         at' = at \/ \E t \in Tasks : \E place : at[t] # "sent" /\ place # "sent" /\ Goes(t, place)
  PROVE  CountInv'
<1>1. SentCounted /\ trues \in Nat /\ accepted \in Nat
  BY DEF SInv, CountInv
<1>2. CASE at' = at
  BY <1>1, <1>2 DEF SInv, CountInv, SentCounted, Sent
<1>3. ASSUME NEW t \in Tasks, NEW place, at[t] # "sent", place # "sent", Goes(t, place)
      PROVE  CountInv'
  <2>1. /\ at' = [u \in Tasks |-> at'[u]] /\ IsFiniteSet(Sent')
        /\ Cardinality(Sent') = Cardinality(Sent)
    BY <1>1, <1>3, SentGoes
  <2> QED
    BY <2>1 DEF SInv, CountInv, SentCounted
<1> QED
  BY <1>2, <1>3

(* A call returns what the library did.                                    *)
LEMMA ReturnsStep ==
  ASSUME SInv, kind # "concentrator", QueuesStay, accepted' = accepted,
         kind = "usb" => posted' = posted, kind = "skill" => copied' = copied,
         NEW t \in Tasks, Goes(t, "idle"),
         trues' = IF at[t] = "sent" THEN trues + 1 ELSE trues
  PROVE  SInv' /\ (Service!Report \/ UNCHANGED Service!serviceVars)
<1>1. SentCounted /\ trues \in Nat /\ accepted \in Nat /\ trues <= accepted
  BY DEF SInv, CountInv
<1>2. OrderInv'
  BY OffStreamStay
<1>3. /\ at' = [u \in Tasks |-> at'[u]] /\ IsFiniteSet(Sent') /\ Cardinality(Sent) \in Nat
      /\ at[t] # "sent" => Cardinality(Sent') = Cardinality(Sent)
      /\ at[t] = "sent" => Cardinality(Sent') = Cardinality(Sent) - 1 /\ trues + 1 <= accepted
  BY <1>1, SentGoes
<1>4. trues + Cardinality(Sent) <= accepted
  BY <1>1 DEF SentCounted
<1>5. trues' + Cardinality(Sent') <= accepted /\ trues' \in Nat /\ trues' <= accepted
  BY <1>1, <1>3, <1>4
<1>6. CountInv'
  BY <1>1, <1>3, <1>5 DEF QueuesStay, CountInv, SentCounted
<1>7. Service!Report \/ UNCHANGED Service!serviceVars
  BY <1>1, <1>3 DEF QueuesStay, Service!Report, Service!serviceVars
<1> QED
  BY <1>2, <1>6, <1>7 DEF SInv

(* The library takes a frame.                                              *)
LEMMA AcceptsStep ==
  ASSUME SInv, kind # "concentrator", QueuesStay, trues' = trues, accepted' = accepted + 1,
         kind = "usb" => posted' = posted, kind = "skill" => copied' = copied,
         NEW t \in Tasks, Goes(t, "sent")
  PROVE  SInv' /\ Service!Accept
<1>1. SentCounted /\ trues \in Nat /\ accepted \in Nat /\ trues <= accepted
  BY DEF SInv, CountInv
<1>2. OrderInv' /\ SentCounted'
  BY <1>1, OffStreamStay, SentMore
<1>3. CountInv'
  BY <1>1, <1>2 DEF QueuesStay, CountInv
<1> QED
  BY <1>2, <1>3 DEF SInv, QueuesStay, Service!Accept

-----------------------------------------------------------------------------
(* The steps of the USB transport.                                         *)
LEMMA UsbStep ==
  ASSUME SInv, kind = "usb", UsbNext, kind' = kind
  PROVE  SInv' /\ [Service!ServiceNext]_(Service!serviceVars)
<1> USE DEF historyVars
<1>1. CASE UHears
  <2>1. /\ heard' = heard + 1
        /\ posted' \in {posted, Append(posted, heard + 1)}
        /\ UNCHANGED <<queue, at, inbox, accepted, trues>>
    BY <1>1 DEF UHears, appVars
  <2>2. /\ heard \in Nat /\ Rising(inbox, heard) /\ Rising(queue, heard)
        /\ Rising(posted, heard) /\ Before(inbox, posted) /\ Before(queue, posted)
    BY DEF SInv, OrderInv, QueuesInOrder, PostedInOrder
  <2>3. Rising(posted', heard') /\ Before(inbox, posted') /\ Before(queue, posted')
    BY <2>1, <2>2, HeardRises, StillRising
  <2>4. QueuesInOrder' /\ PostedInOrder'
    BY <2>1, <2>2, <2>3, StillRising DEF SInv, OrderInv, QueuesInOrder, PostedInOrder
  <2>5. CountInv'
    BY <2>1, QuietGoes
  <2> QED
    BY <2>1, <2>4, <2>5 DEF SInv, OrderInv, Service!ServiceNext, Service!Hear
<1>2. CASE Posted
  <2>1. /\ posted # <<>> /\ queue' = Append(queue, Head(posted)) /\ posted' = Tail(posted)
        /\ UNCHANGED <<heard, at, inbox, accepted, trues>>
    BY <1>2 DEF Posted
  <2>2. /\ heard \in Nat /\ Rising(queue, heard) /\ Rising(posted, heard)
        /\ Before(queue, posted) /\ Before(inbox, queue) /\ Before(inbox, posted)
    BY DEF SInv, OrderInv, QueuesInOrder, PostedInOrder
  <2>3. QueuesInOrder' /\ PostedInOrder'
    BY <2>1, <2>2, HandOver DEF SInv, OrderInv, QueuesInOrder, PostedInOrder
  <2>4. CountInv'
    BY <2>1, QuietGoes
  <2> QED
    BY <2>1, <2>3, <2>4 DEF SInv, OrderInv, Service!serviceVars
<1>3. ASSUME NEW t \in Tasks, USendReturns(t)
      PROVE  SInv' /\ [Service!ServiceNext]_(Service!serviceVars)
  <2>1. /\ QueuesStay /\ posted' = posted /\ accepted' = accepted /\ Goes(t, "idle")
        /\ trues' = IF at[t] = "sent" THEN trues + 1 ELSE trues
    BY <1>3 DEF USendReturns, QueuesStay, usbVars, pubsubVars
  <2> QED
    BY <2>1, ReturnsStep DEF Service!ServiceNext
<1>4. ASSUME NEW t \in Tasks, USent(t), iface # 0 /\ iface = port
      PROVE  SInv' /\ [Service!ServiceNext]_(Service!serviceVars)
  <2>1. /\ QueuesStay /\ posted' = posted /\ accepted' = accepted + 1 /\ trues' = trues
        /\ Goes(t, "sent")
    BY <1>4 DEF USent, QueuesStay, usbVars, pubsubVars
  <2> QED
    BY <2>1, AcceptsStep DEF Service!ServiceNext
<1>5. ASSUME Unplug \/ Established \/ \E t \in Tasks : UNoInterface(t)
      PROVE  SInv' /\ UNCHANGED Service!serviceVars
  <2>1. QueuesStay /\ UNCHANGED <<posted, at, accepted, trues>>
    BY <1>5 DEF Unplug, Established, UNoInterface, QueuesStay, baseVars, appVars, usbVars, pubsubVars
  <2> QED
    BY <2>1, OffStreamStay, QuietGoes DEF SInv, QueuesStay, Service!serviceVars
<1>6. ASSUME NEW t \in Tasks,
             \/ UConnect(t) \/ UOpens(t) \/ UConnected(t) \/ UConnectFails(t)
             \/ UDisconnect(t) \/ UCloses(t) \/ UDisconnected(t)
             \/ USend(t) \/ (USent(t) /\ ~(iface # 0 /\ iface = port))
      PROVE  SInv' /\ UNCHANGED Service!serviceVars
  <2>1. QueuesStay /\ UNCHANGED <<posted, accepted, trues>>
    BY <1>6 DEF UConnect, UOpens, UConnected, UConnectFails, UDisconnect, UCloses, UDisconnected,
       USend, USent, QueuesStay, usbVars, pubsubVars
  <2>2. at[t] # "sent"
    BY <1>6 DEF UConnect, UOpens, UConnected, UConnectFails, UDisconnect, UCloses, UDisconnected,
       USend, USent
  <2>3. \E place \in {"opening", "opened", "idle", "closing", "closed", "sending", "refused"} :
          Goes(t, place)
    BY <1>6 DEF UConnect, UOpens, UConnected, UConnectFails, UDisconnect, UCloses, UDisconnected,
       USend, BeginCall, USent
  <2>4. CountInv'
    BY <2>1, <2>2, <2>3, QuietGoes DEF QueuesStay
  <2> QED
    BY <2>1, <2>4, OffStreamStay DEF SInv, QueuesStay, Service!serviceVars
<1> QED
  BY <1>1, <1>2, <1>3, <1>4, <1>5, <1>6 DEF UsbNext

-----------------------------------------------------------------------------
(* What receive() and the skill's window return comes after all that was   *)
(* returned before.                                                        *)
LEMMA NewestIsLast ==
  ASSUME NEW s \in Seq(Nat), NEW k \in 0 .. Len(s)
  PROVE  Service!Newest(SubSeq(s, 1, k)) = IF k = 0 THEN 0 ELSE s[k]
<1> DEFINE m == SubSeq(s, 1, k)
<1>1. m \in Seq(Nat) /\ Len(m) = k /\ \A i \in 1 .. k : m[i] = s[i]
  OBVIOUS
<1> HIDE DEF m
<1>2. CASE k = 0
  <2>1. m = <<>>
    BY <1>1, <1>2, EmptySeq
  <2> QED
    BY <1>2, <2>1 DEF Service!Newest, m
<1>3. CASE k # 0
  <2>1. m # <<>>
    BY <1>1, <1>3
  <2>2. Service!Newest(m) = m[k]
    BY <1>1, <2>1 DEF Service!Newest
  <2> QED
    BY <1>1, <1>3, <2>2 DEF m
<1> QED
  BY <1>2, <1>3

LEMMA Delivers ==
  ASSUME heard \in Nat, Rising(inbox', heard), Len(inbox') > Len(inbox),
         SubSeq(inbox', 1, Len(inbox)) = inbox, inbox \in Seq(Nat),
         UNCHANGED <<heard, accepted, trues>>
  PROVE  Service!Deliver
<1>1. ASSUME NEW i \in Len(inbox) + 1 .. Len(inbox')
      PROVE  inbox'[i] > Service!Newest(SubSeq(inbox', 1, i - 1)) /\ inbox'[i] <= heard
  <2>1. /\ inbox' \in Seq(Nat) /\ Len(inbox) \in Nat /\ Len(inbox') \in Nat
        /\ i \in 1 .. Len(inbox') /\ i - 1 \in 0 .. Len(inbox')
    BY <1>1 DEF Rising
  <2>2. Service!Newest(SubSeq(inbox', 1, i - 1)) = IF i - 1 = 0 THEN 0 ELSE inbox'[i - 1]
    BY <2>1, NewestIsLast
  <2>3. inbox'[i] \in 1 .. heard
    BY <2>1 DEF Rising
  <2>4. i - 1 # 0 => i - 1 \in 1 .. Len(inbox') /\ i - 1 < i
    BY <2>1
  <2>5. i - 1 # 0 => inbox'[i - 1] < inbox'[i]
    BY <2>1, <2>4 DEF Rising
  <2>6. i - 1 # 0 => inbox'[i - 1] \in Nat
    BY <2>1, <2>4
  <2> QED
    BY <2>1, <2>2, <2>3, <2>5, <2>6
<1> QED
  BY <1>1 DEF Service!Deliver

LEMMA ReceiveStep ==
  ASSUME SInv, Receive, UNCHANGED <<concentratorVars, usbVars, skillVars>>, kind # "skill"
  PROVE  SInv' /\ Service!Deliver
<1>1. /\ queue # <<>> /\ inbox' = Append(inbox, Head(queue)) /\ queue' = Tail(queue)
      /\ UNCHANGED <<kind, connected, at, heard, accepted, trues>>
      /\ UNCHANGED <<lines, cmds, posted>>
  BY DEF Receive, concentratorVars, streamVars, usbVars, pubsubVars
<1>2. heard \in Nat /\ Rising(inbox, heard) /\ Rising(queue, heard) /\ Before(inbox, queue)
  BY DEF SInv, OrderInv, QueuesInOrder
<1>3. QueuesInOrder'
  BY <1>1, <1>2, HandOver DEF QueuesInOrder
<1>4. kind = "usb" => PostedInOrder'
  BY <1>1, <1>2, HandOver DEF SInv, OrderInv, PostedInOrder
<1>5. kind = "concentrator" => LinesInOrder'
  BY <1>1, <1>2, HandOverBeforeLines DEF SInv, OrderInv, LinesInOrder
<1>6. CountInv'
  BY <1>1 DEF SInv, CountInv, AnswersCounted, SentCounted, Sent
<1>7. /\ inbox \in Seq(Nat) /\ Len(inbox') > Len(inbox)
      /\ SubSeq(inbox', 1, Len(inbox)) = inbox
  <2>1. inbox \in Seq(Nat) /\ Head(queue) \in Nat
    BY <1>1, <1>2 DEF Rising
  <2>2. /\ SubSeq(Append(inbox, Head(queue)), 1, Len(inbox)) = inbox
        /\ Len(Append(inbox, Head(queue))) = Len(inbox) + 1 /\ Len(inbox) \in Nat
    BY <2>1
  <2> QED
    BY <1>1, <2>1, <2>2
<1>8. Service!Deliver
  BY <1>1, <1>2, <1>3, <1>7, Delivers DEF QueuesInOrder
<1> QED
  BY <1>1, <1>3, <1>4, <1>5, <1>6, <1>8 DEF SInv, OrderInv

(* The skill's steps.                                                      *)
LEMMA SkillStep ==
  ASSUME SInv, kind = "skill", SkillNext, kind' = kind
  PROVE  SInv' /\ [Service!ServiceNext]_(Service!serviceVars)
<1> USE DEF historyVars
<1> DEFINE c == Commander
<1>0. c \in Tasks
  BY SkillAssumption
<1>1. /\ heard \in Nat /\ Rising(inbox, heard) /\ Rising(queue, heard) /\ Before(inbox, queue)
      /\ Rising(copied, heard) /\ Before(inbox, copied)
  BY DEF SInv, OrderInv, QueuesInOrder, CopiedInOrder
<1> HIDE DEF c
<1>2. CASE SHears
  <2>1. /\ heard' = heard + 1 /\ queue' \in {queue, Append(queue, heard + 1)}
        /\ UNCHANGED <<copied, at, inbox, accepted, trues>>
    BY <1>2 DEF SHears, skillVars
  <2>2. Rising(queue', heard') /\ Before(inbox, queue')
    BY <1>1, <2>1, HeardRises, StillRising
  <2>3. QueuesInOrder' /\ CopiedInOrder'
    BY <1>1, <2>1, <2>2, StillRising DEF QueuesInOrder, CopiedInOrder
  <2>4. CountInv'
    BY <2>1, QuietGoes
  <2> QED
    BY <2>1, <2>3, <2>4 DEF SInv, OrderInv, Service!ServiceNext, Service!Hear
<1>3. CASE DeviceGone \/ SClose(c) \/ SGet(c) \/ SAttemptFails(c) \/ (SSend(c) /\ ~alive)
  <2>1. QueuesStay /\ UNCHANGED <<copied, accepted, trues>>
    BY <1>3 DEF DeviceGone, SClose, SGet, SAttemptFails, SSend, QueuesStay, appVars, skillVars
  <2>2. \/ at' = at
        \/ at[c] # "sent" /\ \E place \in {"attempting", "idle", "refused"} : Goes(c, place)
    BY <1>3 DEF DeviceGone, SClose, SGet, SAttemptFails, SSend, BeginCall, appVars
  <2>3. CountInv'
    BY <1>0, <2>1, <2>2, QuietGoes
  <2> QED
    BY <2>1, <2>3, OffStreamStay DEF SInv, QueuesStay, Service!serviceVars
<1>4. CASE SConnects(c) \/ SListen(c) \/ SCopy(c)
  <2>1. /\ queue' \in {queue, <<>>} /\ copied' \in {copied, queue}
        /\ UNCHANGED <<heard, inbox, accepted, trues>>
        /\ at[c] # "sent" /\ \E place \in {"idle", "listening", "copied"} : Goes(c, place)
    BY <1>4 DEF SConnects, SListen, SCopy, skillVars
  <2>2. QueuesInOrder' /\ CopiedInOrder'
    BY <1>1, <2>1, EmptyRises DEF QueuesInOrder, CopiedInOrder
  <2>3. CountInv'
    BY <1>0, <2>1, QuietGoes
  <2> QED
    BY <2>1, <2>2, <2>3 DEF SInv, OrderInv, Service!serviceVars
<1>5. CASE SSend(c) /\ alive
  <2>1. /\ QueuesStay /\ copied' = copied /\ accepted' = accepted + 1 /\ trues' = trues
        /\ Goes(c, "sent")
    BY <1>5 DEF SSend, BeginCall, QueuesStay, skillVars
  <2> QED
    BY <1>0, <2>1, AcceptsStep DEF Service!ServiceNext
<1>6. CASE SSendReturns(c)
  <2>1. /\ QueuesStay /\ copied' = copied /\ accepted' = accepted /\ Goes(c, "idle")
        /\ trues' = IF at[c] = "sent" THEN trues + 1 ELSE trues
    BY <1>6 DEF SSendReturns, QueuesStay, skillVars
  <2> QED
    BY <1>0, <2>1, ReturnsStep DEF Service!ServiceNext
<1>7. CASE SReturn(c)
  <2>1. /\ queue' = <<>> /\ copied' = <<>> /\ inbox' = inbox \o copied
        /\ at[c] # "sent" /\ Goes(c, "idle")
        /\ UNCHANGED <<heard, accepted, trues>>
    BY <1>7 DEF SReturn
  <2>2. /\ Rising(inbox', heard) /\ Len(inbox') = Len(inbox) + Len(copied)
        /\ SubSeq(inbox', 1, Len(inbox)) = inbox
    BY <1>1, <2>1, HandOverAll
  <2>3. QueuesInOrder' /\ CopiedInOrder'
    BY <1>1, <2>1, <2>2, EmptyRises DEF QueuesInOrder, CopiedInOrder
  <2>4. CountInv'
    BY <1>0, <2>1, QuietGoes
  <2>5. inbox \in Seq(Nat) /\ copied \in Seq(Nat) /\ Len(inbox) \in Nat /\ Len(copied) \in Nat
    BY <1>1 DEF Rising
  <2>6. SInv'
    BY <2>3, <2>4 DEF SInv, OrderInv
  <2>7. CASE copied = <<>>
    <3>1. inbox \o <<>> = inbox
      BY <2>5
    <3> QED
      BY <2>1, <2>6, <2>7, <3>1 DEF Service!serviceVars
  <2>8. CASE copied # <<>>
    <3>1. Len(copied) > 0
      BY <2>5, <2>8, EmptySeq
    <3>2. Len(inbox') > Len(inbox)
      BY <2>2, <2>5, <3>1
    <3>3. Service!Deliver
      BY <1>1, <2>1, <2>2, <2>5, <3>2, Delivers
    <3> QED
      BY <2>6, <3>3 DEF Service!ServiceNext
  <2> QED
    BY <2>7, <2>8
<1> QED
  BY <1>2, <1>3, <1>4, <1>5, <1>6, <1>7 DEF SkillNext, c

-----------------------------------------------------------------------------
LEMMA ServiceStarts == Init => SInv /\ Service!ServiceInit
<1> SUFFICES ASSUME Init PROVE SInv /\ Service!ServiceInit
  OBVIOUS
<1>1. Service!ServiceInit
  BY DEF Init, BaseInit, Service!ServiceInit
<1>2. OrderInv
  BY EmptyRises, EmptyLines DEF Init, BaseInit, ConcentratorInit, UsbInit, SkillInit, OrderInv,
     QueuesInOrder, LinesInOrder, PostedInOrder, CopiedInOrder
<1>3. Sent = {} /\ ~connected /\ at = [t \in Tasks |-> at[t]] /\ trues = 0 /\ accepted = 0
  BY DEF Init, BaseInit, Sent
<1>4. CountInv
  BY <1>3, FS_EmptySet DEF CountInv, AnswersCounted, SentCounted
<1> QED
  BY <1>1, <1>2, <1>4 DEF SInv

LEMMA ServiceSteps ==
  IInv /\ SInv /\ [Next]_vars => SInv' /\ [Service!ServiceNext]_(Service!serviceVars)
<1> SUFFICES ASSUME IInv, SInv, [Next]_vars
             PROVE  SInv' /\ [Service!ServiceNext]_(Service!serviceVars)
  OBVIOUS
<1>1. CASE kind = "concentrator" /\ ConcentratorNext /\ UNCHANGED <<usbVars, skillVars>>
  BY <1>1, KindStays, ConcentratorStep DEF Next
<1>2. CASE kind = "usb" /\ UsbNext /\ UNCHANGED <<concentratorVars, skillVars>>
  BY <1>2, KindStays, UsbStep DEF Next
<1>3. CASE kind = "skill" /\ SkillNext /\ UNCHANGED <<concentratorVars, usbVars>>
  BY <1>3, KindStays, SkillStep DEF Next
<1>4. CASE kind # "skill" /\ Receive /\ UNCHANGED <<concentratorVars, usbVars, skillVars>>
  BY <1>4, ReceiveStep DEF Service!ServiceNext
<1>5. CASE UNCHANGED vars
  <2>1. /\ UNCHANGED <<kind, connected, queue, at, heard, inbox, accepted, trues>>
        /\ UNCHANGED <<lines, cmds, posted, copied>>
    BY <1>5 DEF vars, baseVars, appVars, historyVars, concentratorVars, streamVars, usbVars,
       pubsubVars, skillVars
  <2>2. OrderInv'
    BY <2>1 DEF SInv, OrderInv, QueuesInOrder, LinesInOrder, PostedInOrder, CopiedInOrder
  <2>3. CountInv'
    BY <2>1 DEF SInv, CountInv, AnswersCounted, SentCounted, Sent
  <2> QED
    BY <2>1, <2>2, <2>3 DEF SInv, Service!serviceVars
<1> QED
  BY <1>1, <1>2, <1>3, <1>4, <1>5 DEF Next

(* Every kind of transport keeps the promise of MeshTransport (base.py     *)
(* 119, 133, 155): packets are handed over in the order they were heard    *)
(* and at most once, although they wait on a stream two readers share, in  *)
(* the event loop or in a window's copy, and across reconnections; and the *)
(* successes reported never outnumber the frames that were accepted, the   *)
(* daemon's answer to connect's own command not being taken for one.       *)
THEOREM TransportsImplementService == Spec => ImplementsService
<1>1. Init => SInv /\ Service!ServiceInit
  BY ServiceStarts
<1>2. IInv /\ SInv /\ [Next]_vars => SInv'
  BY ServiceSteps
<1>3. IInv /\ SInv /\ [Next]_vars => [Service!ServiceNext]_(Service!serviceVars)
  BY ServiceSteps
<1> QED
  BY <1>1, <1>2, <1>3, Invariant, PTL DEF Spec, ImplementsService, Service!ServiceSpec
===============================================================================
