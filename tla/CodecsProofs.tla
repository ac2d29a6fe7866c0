------------------------------ MODULE CodecsProofs ------------------------------
(***************************************************************************)
(* Proofs about Codecs: what is read back of a varint, a message, a packet, *)
(* a frame, an uplink event and a channel, for words of any width and any  *)
(* values.                                                                 *)
(***************************************************************************)
EXTENDS Codecs, SequenceTheorems, WellFoundedInduction, TLAPS

(* Messages, and what one says of the field of a number: nothing, or a     *)
(* value in the only field of that number.                                 *)
IsMessage(msg) == \E S : msg \in Seq(S)

Lacks(msg, n) == \A i \in 1 .. Len(msg) : msg[i].num # n

Carries(msg, n, wireType, v) ==
  \E k \in 1 .. Len(msg) :
    /\ msg[k].num = n /\ msg[k].wire = wireType /\ msg[k].value = v
    /\ \A i \in 1 .. Len(msg) : msg[i].num = n => i = k

-----------------------------------------------------------------------------
(* Arithmetic modulo a word.                                               *)
LEMMA ModSmall == ASSUME NEW n \in Nat \ {0}, NEW v \in 0 .. n - 1 PROVE (v % n) = v
  OBVIOUS

LEMMA ModNegative == ASSUME NEW n \in Nat \ {0}, NEW v \in (-n) .. -1 PROVE (v % n) = v + n
  OBVIOUS

LEMMA ModUnique ==
  ASSUME NEW n \in Nat \ {0}, NEW q \in Int, NEW r \in 0 .. n - 1
  PROVE  ((q * n + r) % n) = r
  OBVIOUS

LEMMA ModPast ==
  ASSUME NEW n \in Nat \ {0}, NEW m \in Nat, (m % n) = 0, NEW v \in (-n) .. -1
  PROVE  ((v + m) % n) = v + n
<1> DEFINE q == m \div n
<1>1. q \in Int /\ m = q * n
  OBVIOUS
<1> HIDE DEF q
<1>2. q - 1 \in Int /\ v + n \in 0 .. n - 1
  BY <1>1
<1>3. (((q - 1) * n + (v + n)) % n) = v + n
  BY <1>2, ModUnique
<1>4. (q - 1) * n + (v + n) = v + m
  BY <1>1
<1> QED
  BY <1>3, <1>4

(* A signed number of half the words survives 32 bits.                     *)
LEMMA SignedRoundTrip ==
  ASSUME NEW v \in Int, 2 * v \in (-WORD32) .. WORD32 - 1
  PROVE  /\ Signed32(v % WORD32) = v /\ (v % WORD32) \in 0 .. WORD32 - 1
         /\ v # 0 => (v % WORD32) # 0
<1>1. WORD32 \in Nat \ {0}
  BY PacketsAssumption
<1>2. CASE v >= 0
  <2>1. (v % WORD32) = v
    BY <1>1, <1>2, ModSmall
  <2> QED
    BY <1>1, <1>2, <2>1 DEF Signed32
<1>3. CASE v < 0
  <2>1. (v % WORD32) = v + WORD32
    BY <1>1, <1>3, ModNegative
  <2> QED
    BY <1>1, <1>3, <2>1 DEF Signed32
<1> QED
  BY <1>2, <1>3

(* The two's complement of a negative int32 in 64 bits is read back.       *)
LEMMA Int32RoundTrip ==
  ASSUME NEW v \in Int, 2 * v \in (-WORD32) .. WORD32 - 1
  PROVE  Int32(Unsigned(v)) = v
<1>1. WORD32 \in Nat \ {0} /\ WORD \in Nat /\ (WORD % WORD32) = 0
  BY PacketsAssumption
<1>2. CASE v >= 0
  BY <1>2, SignedRoundTrip DEF Unsigned, Int32
<1>3. CASE v < 0
  <2>0. v \in (-WORD32) .. -1
    BY <1>1, <1>3
  <2>1. ((v + WORD) % WORD32) = v + WORD32
    BY <1>1, <2>0, ModPast
  <2> QED
    BY <1>1, <1>3, <2>1 DEF Unsigned, Int32, Signed32
<1> QED
  BY <1>2, <1>3

LEMMA UnsignedRange ==
  ASSUME NEW v \in Numbers
  PROVE  /\ v \in Int /\ Unsigned(v) \in 0 .. WORD - 1 /\ Unsigned(v) # None
         /\ v >= 0 => Unsigned(v) = v
  BY CodecsAssumption, PacketsAssumption DEF Unsigned

LEMMA SignedRange ==
  ASSUME NEW v \in Signed
  PROVE  v \in Int /\ 2 * v \in (-WORD32) .. WORD32 - 1
<1>1. v \in Numbers /\ 2 * v \in (-WORD32) .. WORD32 - 1
  BY DEF Signed
<1>2. v \in Int
  BY <1>1, UnsignedRange
<1> QED
  BY <1>1, <1>2

-----------------------------------------------------------------------------
(* Induction and recursion over the natural numbers, for sets and          *)
(* functions.                                                              *)
LEMMA Least ==
  ASSUME NEW T, T \subseteq Nat, T # {}
  PROVE  \E n \in T : \A m \in T : n <= m
<1> DEFINE R == OpToRel(<, Nat)
<1>1. IsWellFoundedOn(R, Nat)
  BY NatLessThanWellFounded
<1>2. R = {ss \in Nat \X Nat : ss[1] < ss[2]}
  BY Zenon DEF OpToRel
<1> HIDE DEF R
<1>3. PICK n \in T : \A m \in T : ~(<<m, n>> \in R)
  BY <1>1, WFMin, Zenon
<1>4. \A m \in T : n <= m
  <2> SUFFICES ASSUME NEW m \in T, m < n PROVE FALSE
    OBVIOUS
  <2>1. <<m, n>> \in Nat \X Nat /\ <<m, n>>[1] = m /\ <<m, n>>[2] = n
    OBVIOUS
  <2>2. <<m, n>> \in R
    BY <1>2, <2>1
  <2> QED
    BY <1>3, <2>2
<1> QED
  BY <1>4

(* A set that holds every number all of whose predecessors it holds, holds *)
(* them all.                                                               *)
LEMMA Induction ==
  ASSUME NEW T, \A n \in Nat : (\A m \in 0 .. n - 1 : m \in T) => n \in T
  PROVE  Nat \subseteq T
<1> SUFFICES ASSUME Nat \ T # {} PROVE FALSE
  OBVIOUS
<1>1. PICK n \in Nat \ T : \A m \in Nat \ T : n <= m
  BY Least
<1>2. \A m \in 0 .. n - 1 : m \in T
  BY <1>1
<1> QED
  BY <1>2

(* A function that follows its values down to a base exists.               *)
Follows(f, v, base, b, g, down) ==
  f[v] = IF v \in base THEN b[v] ELSE g[<<v, f[down[v]]>>]

Approximates(f, n, S, base, b, g, down) ==
  f \in [0 .. n -> S] /\ \A v \in 0 .. n : Follows(f, v, base, b, g, down)

LEMMA Recursion ==
  ASSUME NEW S, NEW base, NEW b \in [Nat -> S], NEW g \in [Nat \X S -> S],
         NEW down \in [Nat -> Nat], \A v \in Nat \ base : down[v] < v
  PROVE  \E f \in [Nat -> S] : \A v \in Nat : Follows(f, v, base, b, g, down)
<1> DEFINE App(f, n) == Approximates(f, n, S, base, b, g, down)
<1>1. ASSUME NEW n \in Nat, NEW f, App(f, n), NEW m \in Nat, NEW h, App(h, m)
      PROVE  \A v \in Nat : v <= n /\ v <= m => f[v] = h[v]
  <2> DEFINE T == {v \in Nat : v <= n /\ v <= m => f[v] = h[v]}
  <2>1. ASSUME NEW v \in Nat, \A u \in 0 .. v - 1 : u \in T PROVE v \in T
    <3> SUFFICES ASSUME v <= n, v <= m PROVE f[v] = h[v]
      OBVIOUS
    <3>1. Follows(f, v, base, b, g, down) /\ Follows(h, v, base, b, g, down)
      BY <1>1 DEF Approximates
    <3>2. CASE v \in base
      BY <3>1, <3>2 DEF Follows
    <3>3. CASE v \notin base
      <4>1. down[v] \in Nat /\ down[v] < v
        BY <3>3
      <4>2. f[down[v]] = h[down[v]]
        BY <2>1, <4>1
      <4> QED
        BY <3>1, <3>3, <4>2 DEF Follows
    <3> QED
      BY <3>2, <3>3
  <2> HIDE DEF T
  <2>2. Nat \subseteq T
    BY <2>1, Induction
  <2> QED
    BY <2>2 DEF T
<1>2. \A n \in Nat : \E f : App(f, n)
  <2> DEFINE T == {n \in Nat : \E f : App(f, n)}
  <2>1. ASSUME NEW n \in Nat, \A m \in 0 .. n - 1 : m \in T PROVE n \in T
    <3>1. CASE n = 0
      <4> DEFINE f == [v \in 0 .. 0 |-> b[v]]
      <4>1. 0 \in base
        <5> SUFFICES ASSUME 0 \notin base PROVE FALSE
          OBVIOUS
        <5>1. down[0] \in Nat /\ down[0] < 0
          OBVIOUS
        <5> QED
          BY <5>1
      <4>2. App(f, 0)
        BY <4>1 DEF Approximates, Follows
      <4> QED
        BY <3>1, <4>2
    <3>2. CASE n # 0
      <4>1. n - 1 \in 0 .. n - 1
        BY <3>2
      <4>2. PICK p : App(p, n - 1)
        BY <2>1, <4>1
      <4> DEFINE last == IF n \in base THEN b[n] ELSE g[<<n, p[down[n]]>>]
                 f == [v \in 0 .. n |-> IF v = n THEN last ELSE p[v]]
      <4>3. p \in [0 .. n - 1 -> S] /\ \A v \in 0 .. n - 1 : Follows(p, v, base, b, g, down)
        BY <4>2 DEF Approximates
      <4>4. n \notin base => down[n] \in 0 .. n - 1
        OBVIOUS
      <4>5. last \in S
        BY <4>3, <4>4
      <4> HIDE DEF last
      <4>6. f \in [0 .. n -> S] /\ f[n] = last /\ \A v \in 0 .. n - 1 : f[v] = p[v]
        BY <4>3, <4>5
      <4> HIDE DEF f
      <4>7. Follows(f, n, base, b, g, down)
        BY <4>4, <4>6 DEF Follows, last
      <4>8. ASSUME NEW v \in 0 .. n - 1 PROVE Follows(f, v, base, b, g, down)
        <5>1. v \notin base => down[v] \in 0 .. n - 1
          OBVIOUS
        <5> QED
          BY <4>3, <4>6, <5>1 DEF Follows
      <4>9. App(f, n)
        <5>1. \A v \in 0 .. n : v = n \/ v \in 0 .. n - 1
          OBVIOUS
        <5> QED
          BY <4>6, <4>7, <4>8, <5>1 DEF Approximates
      <4> QED
        BY <4>9
    <3> QED
      BY <3>1, <3>2
  <2> HIDE DEF T
  <2>2. Nat \subseteq T
    BY <2>1, Induction
  <2> QED
    BY <2>2 DEF T
<1> DEFINE A == [n \in Nat |-> CHOOSE f : App(f, n)]
           F == [n \in Nat |-> A[n][n]]
<1>3. \A n \in Nat : App(A[n], n)
  BY <1>2
<1> HIDE DEF A
<1>4. F \in [Nat -> S]
  BY <1>3 DEF Approximates
<1>5. ASSUME NEW v \in Nat PROVE Follows(F, v, base, b, g, down)
  <2>1. Follows(A[v], v, base, b, g, down)
    BY <1>3 DEF Approximates
  <2>2. ASSUME v \notin base PROVE F[down[v]] = A[v][down[v]]
    <3>1. down[v] \in Nat /\ down[v] < v
      BY <2>2
    <3>2. A[down[v]][down[v]] = A[v][down[v]]
      BY <1>1, <1>3, <3>1
    <3> QED
      BY <3>1, <3>2
  <2> QED
    BY <2>1, <2>2 DEF Follows
<1> QED
  BY <1>4, <1>5

-----------------------------------------------------------------------------
(* Varints.                                                                *)
LEMMA Quotient ==
  ASSUME NEW v \in Nat
  PROVE  /\ (v \div DIGIT) \in Nat /\ (v % DIGIT) \in 0 .. DIGIT - 1
         /\ v = (v % DIGIT) + DIGIT * (v \div DIGIT)
         /\ v >= DIGIT => v \div DIGIT # 0 /\ v \div DIGIT < v
         /\ \A w \in Nat : v < DIGIT * w => v \div DIGIT < w
<1> DEFINE q == v \div DIGIT
           r == v % DIGIT
<1>1. DIGIT \in Nat /\ DIGIT >= 2
  BY PacketsAssumption
<1>2. q \in Nat /\ r \in 0 .. DIGIT - 1 /\ v = r + DIGIT * q
  BY <1>1
<1> HIDE DEF q, r
<1>3. v >= DIGIT => q # 0
  BY <1>1, <1>2
<1>4. q # 0 => q < v
  BY <1>1, <1>2
<1>5. ASSUME NEW w \in Nat, v < DIGIT * w PROVE q < w
  <2> SUFFICES ASSUME q >= w PROVE FALSE
    BY <1>2
  <2>1. DIGIT * q >= DIGIT * w
    BY <1>1, <1>2
  <2> QED
    BY <1>1, <1>2, <1>5, <2>1
<1> QED
  BY <1>2, <1>3, <1>4, <1>5 DEF q, r

VarintBytes == [low : 0 .. DIGIT - 1, more : BOOLEAN]

LEMMA ByteType ==
  ASSUME NEW d \in 0 .. DIGIT - 1
  PROVE  /\ Byte(d, TRUE) \in VarintBytes /\ Byte(d, TRUE).low = d /\ Byte(d, TRUE).more
         /\ Byte(d, FALSE) \in VarintBytes /\ Byte(d, FALSE).low = d /\ ~Byte(d, FALSE).more
  BY Zenon DEF Byte, VarintBytes

LEMMA Single ==
  ASSUME NEW S, NEW x \in S PROVE <<x>> \in Seq(S) /\ Len(<<x>>) = 1 /\ <<x>>[1] = x
  OBVIOUS

LEMMA Prepend ==
  ASSUME NEW S, NEW x \in S, NEW s \in Seq(S)
  PROVE  /\ <<x>> \o s \in Seq(S) /\ Len(<<x>> \o s) = Len(s) + 1
         /\ (<<x>> \o s)[1] = x /\ \A i \in 1 .. Len(s) : (<<x>> \o s)[i + 1] = s[i]
  OBVIOUS

(* The recursive definitions define functions.                             *)
LEMMA WeightStep ==
  Weight[0] = 1 /\ \A n \in Nat \ {0} : Weight[n] = DIGIT * Weight[n - 1]
<1> DEFINE b == [n \in Nat |-> 1]
           g == [x \in Nat \X Nat |-> DIGIT * x[2]]
           down == [n \in Nat |-> IF n = 0 THEN 0 ELSE n - 1]
           Step(f) == [n \in Nat |-> IF n = 0 THEN 1 ELSE DIGIT * f[n - 1]]
<1>1. b \in [Nat -> Nat] /\ g \in [Nat \X Nat -> Nat] /\ down \in [Nat -> Nat]
  BY PacketsAssumption
<1>2. \A n \in Nat \ {0} : down[n] < n
  OBVIOUS
<1>3. PICK f \in [Nat -> Nat] : \A n \in Nat : Follows(f, n, {0}, b, g, down)
  <2> HIDE DEF b, g, down
  <2> QED
    BY <1>1, <1>2, Recursion
<1>4. f = Step(f)
  <2>1. \A n \in Nat : f[n] = IF n = 0 THEN 1 ELSE DIGIT * f[n - 1]
    <3> SUFFICES ASSUME NEW n \in Nat PROVE f[n] = IF n = 0 THEN 1 ELSE DIGIT * f[n - 1]
      OBVIOUS
    <3>1. CASE n = 0
      BY <1>3, <3>1 DEF Follows
    <3>2. CASE n # 0
      <4>1. n - 1 \in Nat /\ f[n - 1] \in Nat /\ down[n] = n - 1 /\ n \notin {0}
        BY <3>2
      <4>2. <<n, f[n - 1]>> \in Nat \X Nat /\ <<n, f[n - 1]>>[2] = f[n - 1]
        BY <4>1
      <4>3. g[<<n, f[n - 1]>>] = DIGIT * f[n - 1]
        BY <4>2
      <4> HIDE DEF g, down
      <4>4. f[n] = g[<<n, f[n - 1]>>]
        BY <1>3, <4>1 DEF Follows
      <4> QED
        BY <3>2, <4>3, <4>4
    <3> QED
      BY <3>1, <3>2
  <2> QED
    BY <2>1
<1>5. Weight = CHOOSE w : w = Step(w)
  BY DEF Weight
<1>6. Weight = Step(Weight)
  <2> HIDE DEF Step
  <2> QED
    BY <1>4, <1>5, Zenon
<1> QED
  BY <1>6

LEMMA WeightType == \A n \in Nat : Weight[n] \in Nat
<1> DEFINE T == {n \in Nat : Weight[n] \in Nat}
<1>1. ASSUME NEW n \in Nat, \A m \in 0 .. n - 1 : m \in T PROVE n \in T
  <2>1. CASE n = 0
    BY <2>1, WeightStep
  <2>2. CASE n # 0
    <3>1. Weight[n] = DIGIT * Weight[n - 1] /\ Weight[n - 1] \in Nat
      BY <1>1, <2>2, WeightStep
    <3> QED
      BY <3>1, PacketsAssumption
  <2> QED
    BY <2>1, <2>2
<1> HIDE DEF T
<1>2. Nat \subseteq T
  BY <1>1, Induction
<1> QED
  BY <1>2 DEF T

(* One step of the recursion of Digits.                                    *)
DigitsOf(v) ==
  IF v < DIGIT THEN <<Byte(v, FALSE)>>
  ELSE <<Byte(v % DIGIT, TRUE)>> \o Digits[v \div DIGIT]

LEMMA DigitsStep == \A v \in Nat : Digits[v] \in Seq(VarintBytes) /\ Digits[v] = DigitsOf(v)
<1> DEFINE S == Seq(VarintBytes)
           b == [v \in Nat |-> IF v < DIGIT THEN <<Byte(v, FALSE)>> ELSE <<>>]
           g == [x \in Nat \X S |-> <<Byte(x[1] % DIGIT, TRUE)>> \o x[2]]
           down == [v \in Nat |-> v \div DIGIT]
           base == {v \in Nat : v < DIGIT}
           Step(f) == [v \in Nat |-> IF v < DIGIT THEN <<Byte(v, FALSE)>>
                                     ELSE <<Byte(v % DIGIT, TRUE)>> \o f[v \div DIGIT]]
<1>0. DIGIT \in Nat \ {0, 1}
  BY PacketsAssumption
<1>1. b \in [Nat -> S]
  <2> SUFFICES ASSUME NEW v \in Nat PROVE (IF v < DIGIT THEN <<Byte(v, FALSE)>> ELSE <<>>) \in S
    OBVIOUS
  <2>1. CASE v < DIGIT
    <3>1. v \in 0 .. DIGIT - 1
      BY <1>0, <2>1
    <3>2. Byte(v, FALSE) \in VarintBytes
      BY <3>1, ByteType, Zenon
    <3>3. <<Byte(v, FALSE)>> \in S
      BY <3>2, Single, Zenon
    <3> QED
      BY <2>1, <3>3, Zenon
  <2>2. CASE ~(v < DIGIT)
    BY <2>2
  <2> QED
    BY <2>1, <2>2
<1>2. g \in [Nat \X S -> S]
  <2> SUFFICES ASSUME NEW x \in Nat \X S PROVE <<Byte(x[1] % DIGIT, TRUE)>> \o x[2] \in S
    OBVIOUS
  <2>1. x[1] \in Nat /\ x[2] \in S
    OBVIOUS
  <2>2. Byte(x[1] % DIGIT, TRUE) \in VarintBytes
    BY <2>1, Quotient, ByteType
  <2> QED
    BY <2>1, <2>2, Prepend
<1>3. down \in [Nat -> Nat] /\ \A v \in Nat \ base : down[v] < v
  <2>1. \A v \in Nat : down[v] = v \div DIGIT
    OBVIOUS
  <2>2. \A v \in Nat : (v \div DIGIT) \in Nat /\ (v >= DIGIT => v \div DIGIT < v)
    BY Quotient
  <2> QED
    BY <1>0, <2>1, <2>2
<1>4. PICK f \in [Nat -> S] : \A v \in Nat : Follows(f, v, base, b, g, down)
  <2> HIDE DEF S, b, g, down, base
  <2> QED
    BY <1>1, <1>2, <1>3, Recursion
<1>5. f = Step(f)
  <2>1. ASSUME NEW v \in Nat
        PROVE  f[v] = IF v < DIGIT THEN <<Byte(v, FALSE)>>
                      ELSE <<Byte(v % DIGIT, TRUE)>> \o f[v \div DIGIT]
    <3>1. CASE v < DIGIT
      <4>1. f[v] = b[v]
        BY <1>4, <3>1 DEF Follows
      <4> QED
        BY <3>1, <4>1
    <3>2. CASE ~(v < DIGIT)
      <4>1. f[v] = g[<<v, f[v \div DIGIT]>>]
        BY <1>4, <3>2 DEF Follows
      <4>2. f[v \div DIGIT] \in S
        BY Quotient
      <4>3. <<v, f[v \div DIGIT]>> \in Nat \X S
        BY <4>2
      <4> QED
        BY <3>2, <4>1, <4>3
    <3> QED
      BY <3>1, <3>2
  <2> QED
    BY <2>1
<1>6. Digits = CHOOSE d : d = Step(d)
  BY DEF Digits
<1>7. Digits = Step(Digits)
  <2> HIDE DEF Step
  <2> QED
    BY <1>5, <1>6, Zenon
<1>8. \A v \in Nat : Digits[v] = DigitsOf(v)
  BY <1>7 DEF DigitsOf
<1> DEFINE T == {v \in Nat : Digits[v] \in S}
<1>9. ASSUME NEW v \in Nat, \A u \in 0 .. v - 1 : u \in T PROVE v \in T
  <2>1. CASE v < DIGIT
    <3>1. v \in 0 .. DIGIT - 1
      BY <1>0, <2>1
    <3>2. Byte(v, FALSE) \in VarintBytes
      BY <3>1, ByteType, Zenon
    <3>3. Digits[v] = <<Byte(v, FALSE)>>
      BY <1>8, <2>1, Zenon DEF DigitsOf
    <3>4. Digits[v] \in S
      BY <3>2, <3>3, Single, Zenon
    <3> QED
      BY <3>4
  <2>2. CASE ~(v < DIGIT)
    <3>0. (v \div DIGIT) \in Nat /\ v \div DIGIT < v
      BY <1>0, <2>2, Quotient
    <3>1. (v \div DIGIT) \in 0 .. v - 1
      BY <3>0
    <3>2. Digits[v \div DIGIT] \in S
      BY <1>9, <3>1
    <3>3. Byte(v % DIGIT, TRUE) \in VarintBytes
      BY Quotient, ByteType
    <3>4. Digits[v] = <<Byte(v % DIGIT, TRUE)>> \o Digits[v \div DIGIT]
      BY <1>8, <2>2 DEF DigitsOf
    <3>5. Digits[v] \in S
      <4> DEFINE x == Byte(v % DIGIT, TRUE)
                 s == Digits[v \div DIGIT]
      <4>1. x \in VarintBytes /\ s \in Seq(VarintBytes) /\ Digits[v] = <<x>> \o s
        BY <3>2, <3>3, <3>4
      <4> HIDE DEF x, s
      <4> QED
        BY <4>1, Prepend
    <3> QED
      BY <3>5
  <2> QED
    BY <2>1, <2>2
<1> HIDE DEF T
<1>10. Nat \subseteq T
  BY <1>9, Induction
<1> QED
  BY <1>8, <1>10 DEF T

(* The value of the first n bytes, counted from the last to the first.     *)
Counts(w, data, n) ==
  w[n + 1] = 0 /\ \A i \in 1 .. n : w[i] = data[i].low + DIGIT * w[i + 1]

LEMMA ValueCounts ==
  ASSUME NEW data, NEW n \in Nat, \A i \in 1 .. n : data[i].low \in Nat
  PROVE  \E from : Counts(from, data, n) /\ ValueOf(data, n) = from[1]
<1> DEFINE b == [j \in Nat |-> 0]
           g == [x \in Nat \X Nat |->
                   IF x[1] \in 1 .. n THEN data[n + 1 - x[1]].low + DIGIT * x[2] ELSE 0]
           down == [j \in Nat |-> IF j = 0 THEN 0 ELSE j - 1]
           Step(f) == [i \in 1 .. n + 1 |-> IF i > n THEN 0 ELSE data[i].low + DIGIT * f[i + 1]]
<1>0. DIGIT \in Nat
  BY PacketsAssumption
<1>1. b \in [Nat -> Nat] /\ down \in [Nat -> Nat] /\ \A j \in Nat \ {0} : down[j] < j
  OBVIOUS
<1>2. g \in [Nat \X Nat -> Nat]
  <2> SUFFICES ASSUME NEW x \in Nat \X Nat
               PROVE  (IF x[1] \in 1 .. n THEN data[n + 1 - x[1]].low + DIGIT * x[2] ELSE 0) \in Nat
    OBVIOUS
  <2>1. x[1] \in Nat /\ x[2] \in Nat
    OBVIOUS
  <2>2. x[1] \in 1 .. n => n + 1 - x[1] \in 1 .. n
    BY <2>1
  <2> QED
    BY <1>0, <2>1, <2>2
<1>3. PICK h \in [Nat -> Nat] : \A j \in Nat : Follows(h, j, {0}, b, g, down)
  <2> HIDE DEF b, g, down
  <2> QED
    BY <1>1, <1>2, Recursion
<1>4. h[0] = 0
  BY <1>3 DEF Follows
<1>5. ASSUME NEW i \in 1 .. n PROVE h[n + 1 - i] = data[i].low + DIGIT * h[n - i]
  <2> DEFINE j == n + 1 - i
  <2>1. j \in Nat /\ j # 0 /\ j - 1 = n - i /\ j \in 1 .. n /\ n + 1 - j = i
    OBVIOUS
  <2> HIDE DEF j
  <2>2. h[j] = g[<<j, h[j - 1]>>]
    BY <1>3, <2>1 DEF Follows
  <2>3. <<j, h[j - 1]>> \in Nat \X Nat
    BY <2>1
  <2>4. h[j] = data[n + 1 - j].low + DIGIT * h[j - 1]
    BY <2>1, <2>2, <2>3
  <2> QED
    BY <2>1, <2>4 DEF j
<1> HIDE DEF b, g, down
<1> DEFINE start == [i \in 1 .. n + 1 |-> h[n + 1 - i]]
<1>6. start = Step(start)
  <2>1. ASSUME NEW i \in 1 .. n + 1
        PROVE  h[n + 1 - i] = IF i > n THEN 0 ELSE data[i].low + DIGIT * start[i + 1]
    <3>1. CASE i > n
      <4>1. n + 1 - i = 0
        BY <3>1
      <4> QED
        BY <1>4, <3>1, <4>1
    <3>2. CASE ~(i > n)
      <4>1. i \in 1 .. n /\ i + 1 \in 1 .. n + 1 /\ n + 1 - (i + 1) = n - i
        BY <3>2
      <4>2. start[i + 1] = h[n - i]
        BY <4>1
      <4> QED
        BY <1>5, <3>2, <4>1, <4>2
    <3> QED
      BY <3>1, <3>2
  <2> QED
    BY <2>1
<1> DEFINE from == CHOOSE f : f = Step(f)
<1>7. ValueOf(data, n) = from[1]
  BY DEF ValueOf
<1>8. from = Step(from)
  <2> HIDE DEF Step, start
  <2> QED
    BY <1>6, Zenon
<1> HIDE DEF from
<1>9. Counts(from, data, n)
  <2>1. \A i \in 1 .. n + 1 : from[i] = IF i > n THEN 0 ELSE data[i].low + DIGIT * from[i + 1]
    BY <1>8, Zenon
  <2> HIDE DEF Step
  <2>2. n + 1 \in 1 .. n + 1 /\ n + 1 > n
    OBVIOUS
  <2>3. \A i \in 1 .. n : i \in 1 .. n + 1 /\ ~(i > n)
    OBVIOUS
  <2> QED
    BY <2>1, <2>2, <2>3, Zenon DEF Counts
<1> QED
  BY <1>7, <1>9

LEMMA ValueUnique ==
  ASSUME NEW data, NEW n \in Nat, \A i \in 1 .. n : data[i].low \in Nat,
         NEW w, Counts(w, data, n)
  PROVE  ValueOf(data, n) = w[1]
<1>1. PICK from : Counts(from, data, n) /\ ValueOf(data, n) = from[1]
  BY ValueCounts
<1> DEFINE T == {j \in Nat : j <= n => from[n + 1 - j] = w[n + 1 - j]}
<1>2. ASSUME NEW j \in Nat, \A k \in 0 .. j - 1 : k \in T PROVE j \in T
  <2> SUFFICES ASSUME j <= n PROVE from[n + 1 - j] = w[n + 1 - j]
    OBVIOUS
  <2>1. CASE j = 0
    BY <1>1, <2>1 DEF Counts
  <2>2. CASE j # 0
    <3> DEFINE i == n + 1 - j
    <3>1. i \in 1 .. n /\ j - 1 \in 0 .. j - 1 /\ n + 1 - (j - 1) = i + 1
      BY <2>2
    <3>2. from[n + 1 - (j - 1)] = w[n + 1 - (j - 1)]
      BY <1>2, <3>1
    <3>3. from[i + 1] = w[i + 1]
      BY <3>1, <3>2
    <3> HIDE DEF i
    <3>4. from[i] = w[i]
      BY <1>1, <3>1, <3>3 DEF Counts
    <3> QED
      BY <3>4 DEF i
  <2> QED
    BY <2>1, <2>2
<1> HIDE DEF T
<1>3. n \in T
  BY <1>2, Induction
<1>4. n + 1 - n = 1
  OBVIOUS
<1>5. from[1] = w[1]
  BY <1>3, <1>4 DEF T
<1> QED
  BY <1>1, <1>5

(* The digits of a number spell it: every byte but the last is marked, the *)
(* last is not 0 unless the number is, and they are no more than needed.   *)
Spells(s, v) ==
  /\ Len(s) \in Nat \ {0}
  /\ \A i \in 1 .. Len(s) - 1 : s[i].more
  /\ ~s[Len(s)].more
  /\ v # 0 => s[Len(s)].low # 0
  /\ Len(s) > 1 => v # 0
  /\ \E w : Counts(w, s, Len(s)) /\ w[1] = v
  /\ \A n \in Nat \ {0} : v < Weight[n] => Len(s) <= n

LEMMA DigitsSpell == \A v \in Nat : Spells(Digits[v], v)
<1> DEFINE T == {v \in Nat : Spells(Digits[v], v)}
<1>0. DIGIT \in Nat \ {0, 1}
  BY PacketsAssumption
<1>1. ASSUME NEW v \in Nat, \A u \in 0 .. v - 1 : u \in T PROVE v \in T
  <2> DEFINE s == Digits[v]
  <2>1. CASE v < DIGIT
    <3> DEFINE x == Byte(v, FALSE)
               w == [i \in 1 .. 2 |-> IF i = 1 THEN v ELSE 0]
    <3>1. v \in 0 .. DIGIT - 1
      BY <1>0, <2>1
    <3>2. x.low = v /\ ~x.more
      BY <3>1, ByteType, Zenon
    <3>3. s = <<x>>
      BY <2>1, DigitsStep, Zenon DEF DigitsOf
    <3> HIDE DEF s, x
    <3>4. Len(s) = 1 /\ s[1] = x
      BY <3>3
    <3>5. Counts(w, s, Len(s)) /\ w[1] = v
      BY <1>0, <3>2, <3>4 DEF Counts
    <3>6. ~s[Len(s)].more
      BY <3>2, <3>4, Zenon
    <3> HIDE DEF w
    <3>7. Spells(s, v)
      BY <3>2, <3>4, <3>5, <3>6 DEF Spells
    <3> QED
      BY <3>7 DEF s
  <2>2. CASE ~(v < DIGIT)
    <3> DEFINE q == v \div DIGIT
               r == v % DIGIT
               x == Byte(r, TRUE)
               t == Digits[q]
    <3>1. /\ q \in Nat /\ r \in 0 .. DIGIT - 1 /\ v = r + DIGIT * q
          /\ q # 0 /\ q < v /\ \A n \in Nat : v < DIGIT * n => q < n
      BY <1>0, <2>2, Quotient
    <3>2. x \in VarintBytes /\ x.low = r
      BY <3>1, ByteType, Zenon
    <3>3. x.more
      BY <3>1, ByteType, Zenon
    <3>4. s = <<x>> \o t
      BY <2>2, DigitsStep, Zenon DEF DigitsOf
    <3>5. t \in Seq(VarintBytes)
      BY <3>1, DigitsStep
    <3> HIDE DEF q, r
    <3>6. Spells(t, q)
      <4>1. q \in 0 .. v - 1
        BY <3>1
      <4> QED
        BY <1>1, <4>1
    <3> HIDE DEF s, x, t
    <3>7. /\ Len(s) = Len(t) + 1 /\ s[1] = x /\ \A i \in 1 .. Len(t) : s[i + 1] = t[i]
      BY <3>2, <3>4, <3>5, Prepend
    <3>8. Len(t) \in Nat \ {0}
      BY <3>6 DEF Spells
    <3>9. s[Len(s)] = t[Len(t)]
      BY <3>7, <3>8
    <3>10. ~s[Len(s)].more
      BY <3>6, <3>9, Zenon DEF Spells
    <3>11. s[Len(s)].low # 0
      BY <3>1, <3>6, <3>9 DEF Spells
    <3>12. ASSUME NEW i \in 1 .. Len(s) - 1 PROVE s[i].more
      <4>1. CASE i = 1
        BY <3>3, <3>7, <4>1, Zenon
      <4>2. CASE i # 1
        <5>1. i - 1 \in 1 .. Len(t) - 1 /\ i - 1 \in 1 .. Len(t) /\ (i - 1) + 1 = i
          BY <3>7, <3>8, <4>2
        <5>2. s[i] = t[i - 1]
          BY <3>7, <5>1
        <5>3. t[i - 1].more
          BY <3>6, <5>1, Zenon DEF Spells
        <5> QED
          BY <5>2, <5>3, Zenon
      <4> QED
        BY <4>1, <4>2
    <3>13. \E w : Counts(w, s, Len(s)) /\ w[1] = v
      <4>1. PICK y : Counts(y, t, Len(t)) /\ y[1] = q
        BY <3>6 DEF Spells
      <4> DEFINE w == [i \in 1 .. Len(s) + 1 |-> IF i = 1 THEN v ELSE y[i - 1]]
      <4>2. w[1] = v /\ \A i \in 1 .. Len(s) : w[i + 1] = y[i]
        BY <3>7, <3>8
      <4> HIDE DEF w
      <4>3. w[Len(s) + 1] = 0
        BY <3>7, <3>8, <4>1, <4>2 DEF Counts
      <4>4. ASSUME NEW i \in 1 .. Len(s) PROVE w[i] = s[i].low + DIGIT * w[i + 1]
        <5>1. CASE i = 1
          BY <3>1, <3>2, <3>7, <4>1, <4>2, <5>1
        <5>2. CASE i # 1
          <6>1. i - 1 \in 1 .. Len(t) /\ i - 1 \in 1 .. Len(s) /\ (i - 1) + 1 = i
            BY <3>7, <3>8, <5>2
          <6>2. w[i] = y[i - 1] /\ w[i + 1] = y[i] /\ s[i] = t[i - 1]
            BY <3>7, <4>2, <6>1
          <6>3. y[i - 1] = t[i - 1].low + DIGIT * y[i]
            BY <4>1, <6>1 DEF Counts
          <6> QED
            BY <6>2, <6>3
        <5> QED
          BY <5>1, <5>2
      <4>5. Counts(w, s, Len(s)) /\ w[1] = v
        BY <4>2, <4>3, <4>4 DEF Counts
      <4> QED
        BY <4>5
    <3>14. ASSUME NEW n \in Nat \ {0}, v < Weight[n] PROVE Len(s) <= n
      <4>1. Weight[n] = DIGIT * Weight[n - 1] /\ Weight[n - 1] \in Nat
        BY WeightStep, WeightType
      <4>2. q < Weight[n - 1]
        BY <3>1, <3>14, <4>1
      <4>3. n - 1 # 0
        BY <3>1, <4>2, WeightStep
      <4>4. Len(t) <= n - 1
        BY <3>6, <4>2, <4>3 DEF Spells
      <4> QED
        BY <3>7, <3>8, <4>4
    <3>15. Spells(s, v)
      BY <3>1, <3>7, <3>8, <3>10, <3>11, <3>12, <3>13, <3>14 DEF Spells
    <3> QED
      BY <3>15 DEF s
  <2> QED
    BY <2>1, <2>2
<1> HIDE DEF T
<1>2. Nat \subseteq T
  BY <1>1, Induction
<1> QED
  BY <1>2 DEF T

(* Bytes that begin as the varint of v does, as far as they go.            *)
BeginsLike(data, v) ==
  /\ data \in Seq(VarintBytes)
  /\ \A i \in 1 .. Len(data) : i <= Len(EncodeVarint(v)) => data[i] = EncodeVarint(v)[i]

LEMMA VarintRead ==
  ASSUME NEW v \in Numbers, NEW data, BeginsLike(data, v)
  PROVE  DecodeVarint(data) =
           IF Len(data) < Len(EncodeVarint(v)) THEN Malformed
           ELSE [size |-> Len(EncodeVarint(v)), value |-> Unsigned(v)]
<1> DEFINE u == Unsigned(v)
           s == EncodeVarint(v)
           n == Len(s)
           ends == {i \in DOMAIN data : ~data[i].more}
<1>0. MAX_BYTES \in Nat \ {0} /\ WORD \in Nat /\ WORD <= Weight[MAX_BYTES]
  BY PacketsAssumption, WidthAssumption
<1>1. u \in Nat /\ u < WORD
  BY <1>0, UnsignedRange
<1>2. s = Digits[u]
  BY DEF EncodeVarint
<1> HIDE DEF u, s
<1>3. Spells(s, u) /\ s \in Seq(VarintBytes)
  BY <1>1, <1>2, DigitsSpell, DigitsStep
<1>4. n \in Nat \ {0} /\ n <= MAX_BYTES
  <2>1. Weight[MAX_BYTES] \in Nat
    BY <1>0, WeightType
  <2> QED
    BY <1>0, <1>1, <1>3, <2>1 DEF Spells
<1>5. /\ data \in Seq(VarintBytes) /\ DOMAIN data = 1 .. Len(data) /\ Len(data) \in Nat
      /\ \A i \in 1 .. Len(data) : i <= n => data[i] = s[i]
  BY DEF BeginsLike, s
<1>6. \A i \in 1 .. Len(data) : i < n => data[i].more
  <2> SUFFICES ASSUME NEW i \in 1 .. Len(data), i < n PROVE data[i].more
    OBVIOUS
  <2>1. i \in 1 .. n - 1 /\ data[i] = s[i]
    BY <1>4, <1>5
  <2>2. s[i].more
    BY <1>3, <2>1, Zenon DEF Spells, n
  <2> QED
    BY <2>1, <2>2, Zenon
<1>7. CASE Len(data) < n
  <2>1. ends = {}
    <3> SUFFICES ASSUME NEW i \in 1 .. Len(data) PROVE data[i].more
      BY <1>5, Zenon
    <3>1. i < n
      BY <1>4, <1>5, <1>7
    <3> QED
      BY <1>6, <3>1, Zenon
  <2>2. DecodeVarint(data) = Malformed
    BY <2>1, Zenon DEF DecodeVarint
  <2> QED
    BY <1>7, <2>2 DEF s
<1>8. CASE ~(Len(data) < n)
  <2>1. n \in 1 .. Len(data) /\ data[n] = s[n]
    BY <1>4, <1>5, <1>8
  <2>2. ~data[n].more
    BY <1>3, <2>1, Zenon DEF Spells, n
  <2>3. n \in ends
    BY <1>5, <2>1, <2>2, Zenon
  <2>4. \A i \in ends : i \in Int /\ n <= i
    <3> SUFFICES ASSUME NEW i \in 1 .. Len(data), ~data[i].more PROVE i \in Int /\ n <= i
      BY <1>5, Zenon
    <3>1. ~(i < n)
      BY <1>6, Zenon
    <3> QED
      BY <1>4, <3>1
  <2> HIDE DEF ends
  <2>5. Min(ends) = n
    <3>1. \E i \in ends : \A j \in ends : i <= j
      BY <2>3, <2>4
    <3> DEFINE m == CHOOSE i \in ends : \A j \in ends : i <= j
    <3>2. m \in ends /\ \A j \in ends : m <= j
      BY <3>1
    <3>3. Min(ends) = m
      BY DEF Min
    <3> HIDE DEF m
    <3> QED
      BY <1>4, <2>3, <2>4, <3>2, <3>3
  <2>6. \A i \in 1 .. n : data[i] = s[i] /\ data[i].low \in Nat
    <3> SUFFICES ASSUME NEW i \in 1 .. n PROVE data[i] = s[i] /\ data[i].low \in Nat
      OBVIOUS
    <3>1. i \in 1 .. Len(data) /\ i <= n
      BY <1>5, <2>1
    <3>2. data[i] \in VarintBytes
      BY <1>5, <3>1
    <3>3. data[i].low \in 0 .. DIGIT - 1
      BY <3>2, Zenon DEF VarintBytes
    <3> QED
      BY <1>5, <3>1, <3>3
  <2>7. ValueOf(data, n) = u
    <3>1. PICK w : Counts(w, s, n) /\ w[1] = u
      BY <1>3, Zenon DEF Spells, n
    <3>2. Counts(w, data, n)
      BY <2>6, <3>1 DEF Counts
    <3> QED
      BY <1>4, <2>6, <3>1, <3>2, ValueUnique
  <2>8. DecodeVarint(data) = [size |-> n, value |-> u]
    <3>1. ends # {} /\ ~(Min(ends) > MAX_BYTES)
      BY <1>0, <1>4, <2>3, <2>5
    <3> QED
      BY <2>5, <2>7, <3>1, Zenon DEF DecodeVarint, ends
  <2> QED
    BY <1>8, <2>8 DEF s, u
<1> QED
  BY <1>7, <1>8

(* What is written begins like its varint, and so does what is left of it. *)
LEMMA VarintWritten ==
  ASSUME NEW v \in Numbers, NEW next \in Numbers
  PROVE  BeginsLike(EncodeVarint(v) \o EncodeVarint(next), v)
<1>1. EncodeVarint(v) \in Seq(VarintBytes) /\ EncodeVarint(next) \in Seq(VarintBytes)
  BY UnsignedRange, PacketsAssumption, DigitsStep DEF EncodeVarint
<1> HIDE DEF EncodeVarint
<1> QED
  BY <1>1 DEF BeginsLike

LEMMA VarintCut ==
  ASSUME NEW v, NEW data, BeginsLike(data, v), NEW n \in Nat, n < Len(data)
  PROVE  BeginsLike(SubSeq(data, 1, n), v)
<1> DEFINE d == SubSeq(data, 1, n)
<1>1. /\ data \in Seq(VarintBytes)
      /\ \A i \in 1 .. Len(data) : i <= Len(EncodeVarint(v)) => data[i] = EncodeVarint(v)[i]
  BY DEF BeginsLike
<1>2. d \in Seq(VarintBytes) /\ Len(d) = n /\ \A i \in 1 .. n : d[i] = data[i]
  BY <1>1
<1>3. \A i \in 1 .. n : i \in 1 .. Len(data)
  BY <1>1
<1> HIDE DEF d
<1>4. BeginsLike(d, v)
  BY <1>1, <1>2, <1>3 DEF BeginsLike
<1> QED
  BY <1>4 DEF d
-----------------------------------------------------------------------------
(* Messages put together field by field.                                   *)
LEMMA EmptyMessage == IsMessage(<<>>) /\ \A n : Lacks(<<>>, n)
<1>1. <<>> \in Seq({})
  OBVIOUS
<1> QED
  BY <1>1 DEF IsMessage, Lacks

LEMMA OneField ==
  ASSUME NEW n, NEW wireType, NEW v
  PROVE  /\ IsMessage(Field(n, wireType, v)) /\ Field(n, wireType, v) # Nothing
         /\ Carries(Field(n, wireType, v), n, wireType, v)
         /\ \A m : m # n => Lacks(Field(n, wireType, v), m)
<1> DEFINE f == [num |-> n, wire |-> wireType, value |-> v]
           msg == <<f>>
<1>1. msg \in Seq({f}) /\ Len(msg) = 1 /\ msg[1] = f /\ msg # <<>>
  OBVIOUS
<1>2. f.num = n /\ f.wire = wireType /\ f.value = v
  OBVIOUS
<1> HIDE DEF f, msg
<1>3. IsMessage(msg)
  BY <1>1 DEF IsMessage
<1>4. Carries(msg, n, wireType, v)
  BY <1>1, <1>2 DEF Carries
<1>5. \A m : m # n => Lacks(msg, m)
  BY <1>1, <1>2 DEF Lacks
<1> QED
  BY <1>1, <1>3, <1>4, <1>5 DEF Field, Nothing, f, msg

LEMMA Join ==
  ASSUME NEW s, NEW t, IsMessage(s), IsMessage(t)
  PROVE  /\ IsMessage(s \o t)
         /\ \A n : Lacks(s, n) /\ Lacks(t, n) => Lacks(s \o t, n)
         /\ \A n, w, v : Carries(s, n, w, v) /\ Lacks(t, n) => Carries(s \o t, n, w, v)
         /\ \A n, w, v : Lacks(s, n) /\ Carries(t, n, w, v) => Carries(s \o t, n, w, v)
<1>1. PICK S : s \in Seq(S)
  BY DEF IsMessage
<1>2. PICK T : t \in Seq(T)
  BY DEF IsMessage
<1> DEFINE m == s \o t
<1>3. s \in Seq(S \union T) /\ t \in Seq(S \union T)
  BY <1>1, <1>2
<1>4. /\ m \in Seq(S \union T) /\ Len(m) = Len(s) + Len(t) /\ Len(s) \in Nat /\ Len(t) \in Nat
      /\ \A i \in 1 .. Len(s) : m[i] = s[i]
      /\ \A i \in 1 .. Len(t) : m[i + Len(s)] = t[i]
  BY <1>3
<1> HIDE DEF m
<1>5. \A i \in 1 .. Len(m) :
        \/ i \in 1 .. Len(s)
        \/ i - Len(s) \in 1 .. Len(t) /\ i = (i - Len(s)) + Len(s)
  BY <1>4
<1>6. IsMessage(m)
  BY <1>4 DEF IsMessage
<1>7. ASSUME NEW n, Lacks(s, n), Lacks(t, n) PROVE Lacks(m, n)
  BY <1>4, <1>5, <1>7 DEF Lacks
<1>8. ASSUME NEW n, NEW w, NEW v, Carries(s, n, w, v), Lacks(t, n) PROVE Carries(m, n, w, v)
  <2>1. PICK k \in 1 .. Len(s) :
          /\ s[k].num = n /\ s[k].wire = w /\ s[k].value = v
          /\ \A i \in 1 .. Len(s) : s[i].num = n => i = k
    BY <1>8 DEF Carries
  <2>2. k \in 1 .. Len(m) /\ m[k] = s[k]
    BY <1>4
  <2>3. ASSUME NEW i \in 1 .. Len(m), m[i].num = n PROVE i = k
    <3>1. i \in 1 .. Len(s)
      BY <1>4, <1>5, <1>8, <2>3 DEF Lacks
    <3> QED
      BY <1>4, <2>1, <2>3, <3>1
  <2> QED
    BY <2>1, <2>2, <2>3 DEF Carries
<1>9. ASSUME NEW n, NEW w, NEW v, Lacks(s, n), Carries(t, n, w, v) PROVE Carries(m, n, w, v)
  <2>1. PICK k \in 1 .. Len(t) :
          /\ t[k].num = n /\ t[k].wire = w /\ t[k].value = v
          /\ \A i \in 1 .. Len(t) : t[i].num = n => i = k
    BY <1>9 DEF Carries
  <2>2. k + Len(s) \in 1 .. Len(m) /\ m[k + Len(s)] = t[k]
    BY <1>4
  <2>3. ASSUME NEW i \in 1 .. Len(m), m[i].num = n PROVE i = k + Len(s)
    <3>1. i - Len(s) \in 1 .. Len(t) /\ i = (i - Len(s)) + Len(s)
      BY <1>4, <1>5, <1>9, <2>3 DEF Lacks
    <3>2. m[i] = t[i - Len(s)]
      BY <1>4, <3>1
    <3>3. i - Len(s) = k
      BY <2>1, <2>3, <3>1, <3>2
    <3> QED
      BY <1>4, <3>1, <3>3
  <2> QED
    BY <2>1, <2>2, <2>3 DEF Carries
<1> QED
  BY <1>6, <1>7, <1>8, <1>9 DEF m

(* What the readers find.                                                  *)
LEMMA ReadsNothing ==
  ASSUME NEW msg, IsMessage(msg), NEW n, Lacks(msg, n), NEW w, NEW default
  PROVE  /\ Last(msg, n, w, default) = default
         /\ FieldOf(msg, n, default) = default
         /\ ReadField(msg, n, default) = default
<1>1. DOMAIN msg = 1 .. Len(msg)
  BY DEF IsMessage
<1> QED
  BY <1>1 DEF Lacks, Last, FieldOf, ReadField

LEMMA ReadsValue ==
  ASSUME NEW msg, IsMessage(msg), NEW n, NEW w, NEW v, Carries(msg, n, w, v), NEW default
  PROVE  /\ Last(msg, n, w, default) = v
         /\ FieldOf(msg, n, default) = v
         /\ ReadField(msg, n, default) = IF w = "32bit" THEN Signed32(v) ELSE v
<1>1. DOMAIN msg = 1 .. Len(msg) /\ Len(msg) \in Nat
  BY DEF IsMessage
<1>2. PICK k \in 1 .. Len(msg) :
        /\ msg[k].num = n /\ msg[k].wire = w /\ msg[k].value = v
        /\ \A i \in 1 .. Len(msg) : msg[i].num = n => i = k
  BY DEF Carries
<1>3. k \in Int /\ Max({k}) = k
  <2>1. k \in Int /\ k >= k
    BY <1>1
  <2>2. \A x \in {k} : x = k
    OBVIOUS
  <2> QED
    BY <2>1, <2>2 DEF Max
<1>4. {i \in DOMAIN msg : msg[i].num = n} = {k}
  BY <1>1, <1>2
<1>5. {i \in DOMAIN msg : msg[i].num = n /\ msg[i].wire = w} = {k}
  BY <1>1, <1>2
<1>6. {k} # {}
  OBVIOUS
<1> QED
  BY <1>2, <1>3, <1>4, <1>5, <1>6 DEF Last, FieldOf, ReadField

-----------------------------------------------------------------------------
(* The fields of packets.py.                                               *)
LEMMA VarintPart ==
  ASSUME NEW n, NEW v
  PROVE  /\ IsMessage(VarintField(n, v)) /\ \A m : m # n => Lacks(VarintField(n, v), m)
         /\ v = 0 => Lacks(VarintField(n, v), n)
         /\ v # 0 => Carries(VarintField(n, v), n, "varint", Unsigned(v))
  BY EmptyMessage, OneField DEF VarintField

LEMMA BytesPart ==
  ASSUME NEW n, NEW v
  PROVE  /\ IsMessage(BytesField(n, v)) /\ \A m : m # n => Lacks(BytesField(n, v), m)
         /\ v = Nothing => Lacks(BytesField(n, v), n)
         /\ v # Nothing => Carries(BytesField(n, v), n, "bytes", v)
  BY EmptyMessage, OneField DEF BytesField

LEMMA FixedPart ==
  ASSUME NEW n, NEW v
  PROVE  /\ IsMessage(Fixed32(n, v)) /\ \A m : m # n => Lacks(Fixed32(n, v), m)
         /\ Carries(Fixed32(n, v), n, "32bit", v % WORD32)
  BY OneField DEF Fixed32

LEMMA FixedIfPart ==
  ASSUME NEW n, NEW v
  PROVE  /\ IsMessage(Fixed32If(n, v)) /\ \A m : m # n => Lacks(Fixed32If(n, v), m)
         /\ v = 0 => Lacks(Fixed32If(n, v), n)
         /\ v # 0 => Carries(Fixed32If(n, v), n, "32bit", v % WORD32)
  BY EmptyMessage, FixedPart DEF Fixed32If

LEMMA BoolPart ==
  ASSUME NEW n, NEW b
  PROVE  /\ IsMessage(BoolIf(n, b)) /\ \A m : m # n => Lacks(BoolIf(n, b), m)
         /\ ~b => Lacks(BoolIf(n, b), n)
         /\ b => Carries(BoolIf(n, b), n, "varint", 1)
<1>1. Unsigned(1) = 1 /\ 1 # 0
  BY DEF Unsigned
<1>2. CASE b
  <2>1. BoolIf(n, b) = VarintField(n, 1)
    BY <1>2 DEF BoolIf
  <2>2. /\ IsMessage(VarintField(n, 1)) /\ \A m : m # n => Lacks(VarintField(n, 1), m)
        /\ Carries(VarintField(n, 1), n, "varint", 1)
    BY <1>1, VarintPart
  <2> QED
    BY <1>2, <2>1, <2>2, Zenon
<1>3. CASE ~b
  <2>1. BoolIf(n, b) = <<>>
    BY <1>3 DEF BoolIf
  <2> QED
    BY <1>3, <2>1, EmptyMessage
<1> QED
  BY <1>2, <1>3

(* A word is its own 32 bits.                                              *)
LEMMA WordsFit == ASSUME NEW v \in Words PROVE (v % WORD32) = v /\ v \in Nat /\ v # None
  BY ModSmall, PacketsAssumption, CodecsAssumption DEF Words

-----------------------------------------------------------------------------
(* Positions.                                                              *)
LEMMA PositionFields ==
  ASSUME NEW p, p.latitude # None => Packs(p.latitude)
  PROVE  LET msg == EncodePosition(p)
         IN  /\ IsMessage(msg)
             /\ p.latitude = None => Lacks(msg, 1)
             /\ p.latitude # None => Carries(msg, 1, "32bit", p.latitude % WORD32)
             /\ p.altitude \in {None, 0} => Lacks(msg, 3)
             /\ p.altitude \notin {None, 0} => Carries(msg, 3, "varint", Unsigned(p.altitude))
             /\ p.time = 0 => Lacks(msg, 4)
             /\ p.time # 0 => Carries(msg, 4, "32bit", p.time % WORD32)
<1> DEFINE A == Given(p.latitude, SFixed32(1, p.latitude))
           B == Given(p.altitude, VarintField(3, p.altitude))
           C == Fixed32If(4, p.time)
<1>1. /\ IsMessage(A) /\ Lacks(A, 3) /\ Lacks(A, 4)
      /\ p.latitude = None => Lacks(A, 1)
      /\ p.latitude # None => Carries(A, 1, "32bit", p.latitude % WORD32)
  BY EmptyMessage, FixedPart DEF Given, Fixed32, SFixed32
<1>2. /\ IsMessage(B) /\ Lacks(B, 1) /\ Lacks(B, 4)
      /\ p.altitude \in {None, 0} => Lacks(B, 3)
      /\ p.altitude \notin {None, 0} => Carries(B, 3, "varint", Unsigned(p.altitude))
  BY EmptyMessage, VarintPart DEF Given
<1>3. /\ IsMessage(C) /\ Lacks(C, 1) /\ Lacks(C, 3)
      /\ p.time = 0 => Lacks(C, 4)
      /\ p.time # 0 => Carries(C, 4, "32bit", p.time % WORD32)
  BY FixedIfPart
<1>4. EncodePosition(p) = (A \o B) \o C
  BY DEF EncodePosition
<1> HIDE DEF A, B, C
<1> QED
  BY <1>1, <1>2, <1>3, <1>4, Join

LEMMA PositionRoundTrip ==
  ASSUME NEW p \in Positions, EncodePosition(p) # None
  PROVE  DecodePosition(EncodePosition(p)) =
           [p EXCEPT !.altitude = IF @ \in {None, 0} THEN None ELSE Unsigned(@)]
<1> DEFINE msg == EncodePosition(p)
<1>1. /\ p = [latitude |-> p.latitude, altitude |-> p.altitude, time |-> p.time]
      /\ p.latitude \in Numbers \union {None} /\ p.altitude \in Numbers \union {None}
      /\ p.time \in Words
  BY DEF Positions
<1>0. p.latitude # None => Packs(p.latitude)
  BY Zenon DEF EncodePosition
<1>2. /\ IsMessage(msg)
      /\ p.latitude = None => Lacks(msg, 1)
      /\ p.latitude # None => Carries(msg, 1, "32bit", p.latitude % WORD32)
      /\ p.altitude \in {None, 0} => Lacks(msg, 3)
      /\ p.altitude \notin {None, 0} => Carries(msg, 3, "varint", Unsigned(p.altitude))
      /\ p.time = 0 => Lacks(msg, 4)
      /\ p.time # 0 => Carries(msg, 4, "32bit", p.time % WORD32)
  BY <1>0, PositionFields
<1> HIDE DEF msg
<1>3. LET lat == Last(msg, 1, "32bit", None)
      IN  (IF lat = None THEN None ELSE Signed32(lat)) = p.latitude
  <2>1. CASE p.latitude = None
    BY <1>2, <2>1, ReadsNothing
  <2>2. CASE p.latitude # None
    <3>1. p.latitude \in Int /\ 2 * p.latitude \in (-WORD32) .. WORD32 - 1
      BY <1>0, <1>1, <2>2, CodecsAssumption, PacketsAssumption DEF Packs
    <3>2. /\ Signed32(p.latitude % WORD32) = p.latitude
          /\ (p.latitude % WORD32) \in 0 .. WORD32 - 1
      BY <3>1, SignedRoundTrip
    <3>3. (p.latitude % WORD32) # None
      BY <3>2, PacketsAssumption
    <3>4. Last(msg, 1, "32bit", None) = p.latitude % WORD32
      BY <1>2, <2>2, ReadsValue
    <3> QED
      BY <3>2, <3>3, <3>4
  <2> QED
    BY <2>1, <2>2
<1>4. Last(msg, 3, "varint", None)
        = IF p.altitude \in {None, 0} THEN None ELSE Unsigned(p.altitude)
  BY <1>2, ReadsNothing, ReadsValue
<1>5. Last(msg, 4, "32bit", 0) = p.time
  <2>1. (p.time % WORD32) = p.time
    BY <1>1, WordsFit
  <2> QED
    BY <1>2, <2>1, ReadsNothing, ReadsValue
<1> QED
  BY <1>1, <1>3, <1>4, <1>5 DEF DecodePosition, msg

-----------------------------------------------------------------------------
(* Users.                                                                  *)
LEMMA UserFields ==
  ASSUME NEW u
  PROVE  LET msg == EncodeUser(u)
         IN  /\ IsMessage(msg)
             /\ u.long_name = Nothing => Lacks(msg, 2)
             /\ u.long_name # Nothing => Carries(msg, 2, "bytes", u.long_name)
             /\ u.short_name = Nothing => Lacks(msg, 3)
             /\ u.short_name # Nothing => Carries(msg, 3, "bytes", u.short_name)
             /\ u.hw_model = 0 => Lacks(msg, 5)
             /\ u.hw_model # 0 => Carries(msg, 5, "varint", Unsigned(u.hw_model))
             /\ ~u.is_licensed => Lacks(msg, 6)
             /\ u.is_licensed => Carries(msg, 6, "varint", 1)
<1> DEFINE A == BytesField(2, u.long_name)
           B == BytesField(3, u.short_name)
           C == VarintField(5, u.hw_model)
           D == BoolIf(6, u.is_licensed)
<1>1. /\ IsMessage(A) /\ Lacks(A, 3) /\ Lacks(A, 5) /\ Lacks(A, 6)
      /\ u.long_name = Nothing => Lacks(A, 2)
      /\ u.long_name # Nothing => Carries(A, 2, "bytes", u.long_name)
  BY BytesPart
<1>2. /\ IsMessage(B) /\ Lacks(B, 2) /\ Lacks(B, 5) /\ Lacks(B, 6)
      /\ u.short_name = Nothing => Lacks(B, 3)
      /\ u.short_name # Nothing => Carries(B, 3, "bytes", u.short_name)
  BY BytesPart
<1>3. /\ IsMessage(C) /\ Lacks(C, 2) /\ Lacks(C, 3) /\ Lacks(C, 6)
      /\ u.hw_model = 0 => Lacks(C, 5)
      /\ u.hw_model # 0 => Carries(C, 5, "varint", Unsigned(u.hw_model))
  BY VarintPart
<1>4. /\ IsMessage(D) /\ Lacks(D, 2) /\ Lacks(D, 3) /\ Lacks(D, 5)
      /\ ~u.is_licensed => Lacks(D, 6)
      /\ u.is_licensed => Carries(D, 6, "varint", 1)
  BY BoolPart
<1>5. EncodeUser(u) = ((A \o B) \o C) \o D
  BY DEF EncodeUser
<1> HIDE DEF A, B, C, D
<1> QED
  BY <1>1, <1>2, <1>3, <1>4, <1>5, Join

LEMMA UserRoundTrip == ASSUME NEW u \in Users PROVE DecodeUser(EncodeUser(u)) = u
<1> DEFINE msg == EncodeUser(u)
<1>1. /\ u = [long_name |-> u.long_name, short_name |-> u.short_name,
              hw_model |-> u.hw_model, is_licensed |-> u.is_licensed]
      /\ u.hw_model \in Unsigneds /\ u.is_licensed \in BOOLEAN
  BY Zenon DEF Users
<1>2. /\ IsMessage(msg)
      /\ u.long_name = Nothing => Lacks(msg, 2)
      /\ u.long_name # Nothing => Carries(msg, 2, "bytes", u.long_name)
      /\ u.short_name = Nothing => Lacks(msg, 3)
      /\ u.short_name # Nothing => Carries(msg, 3, "bytes", u.short_name)
      /\ u.hw_model = 0 => Lacks(msg, 5)
      /\ u.hw_model # 0 => Carries(msg, 5, "varint", Unsigned(u.hw_model))
      /\ ~u.is_licensed => Lacks(msg, 6)
      /\ u.is_licensed => Carries(msg, 6, "varint", 1)
  BY UserFields
<1> HIDE DEF msg
<1>3. Last(msg, 2, "bytes", Nothing) = u.long_name /\ Last(msg, 3, "bytes", Nothing) = u.short_name
  BY <1>2, ReadsNothing, ReadsValue
<1>4. Last(msg, 5, "varint", 0) = u.hw_model
  <2>1. Unsigned(u.hw_model) = u.hw_model
    BY <1>1, UnsignedRange DEF Unsigneds
  <2> QED
    BY <1>2, <2>1, ReadsNothing, ReadsValue
<1>5. LastBool(msg, 6) = u.is_licensed
  <2>1. CASE u.is_licensed
    <3>1. Last(msg, 6, "varint", 0) = 1 /\ 1 # 0
      BY <1>2, <2>1, ReadsValue
    <3> QED
      BY <1>1, <2>1, <3>1 DEF LastBool
  <2>2. CASE ~u.is_licensed
    <3>1. Last(msg, 6, "varint", 0) = 0
      BY <1>2, <2>2, ReadsNothing
    <3> QED
      BY <1>1, <2>2, <3>1 DEF LastBool
  <2> QED
    BY <2>1, <2>2
<1> QED
  BY <1>1, <1>3, <1>4, <1>5, Zenon DEF DecodeUser, msg

-----------------------------------------------------------------------------
(* Data.                                                                   *)
LEMMA DataFields ==
  ASSUME NEW d
  PROVE  LET msg == EncodeData(d)
         IN  /\ IsMessage(msg)
             /\ d.portnum = 0 => Lacks(msg, 1)
             /\ d.portnum # 0 => Carries(msg, 1, "varint", Unsigned(d.portnum))
             /\ d.payload = Nothing => Lacks(msg, 2)
             /\ d.payload # Nothing => Carries(msg, 2, "bytes", d.payload)
             /\ ~d.want_response => Lacks(msg, 3)
             /\ d.want_response => Carries(msg, 3, "varint", 1)
             /\ d.request_id = 0 => Lacks(msg, 6)
             /\ d.request_id # 0 => Carries(msg, 6, "32bit", d.request_id % WORD32)
             /\ d.bitfield \in {None, 0} => Lacks(msg, 9)
             /\ d.bitfield \notin {None, 0} => Carries(msg, 9, "varint", Unsigned(d.bitfield))
<1> DEFINE A == VarintField(1, d.portnum)
           B == BytesField(2, d.payload)
           C == BoolIf(3, d.want_response)
           D == Fixed32If(6, d.request_id)
           E == IF d.bitfield = None THEN <<>> ELSE VarintField(9, d.bitfield)
<1>1. /\ IsMessage(A) /\ Lacks(A, 2) /\ Lacks(A, 3) /\ Lacks(A, 6) /\ Lacks(A, 9)
      /\ d.portnum = 0 => Lacks(A, 1)
      /\ d.portnum # 0 => Carries(A, 1, "varint", Unsigned(d.portnum))
  BY VarintPart
<1>2. /\ IsMessage(B) /\ Lacks(B, 1) /\ Lacks(B, 3) /\ Lacks(B, 6) /\ Lacks(B, 9)
      /\ d.payload = Nothing => Lacks(B, 2)
      /\ d.payload # Nothing => Carries(B, 2, "bytes", d.payload)
  BY BytesPart
<1>3. /\ IsMessage(C) /\ Lacks(C, 1) /\ Lacks(C, 2) /\ Lacks(C, 6) /\ Lacks(C, 9)
      /\ ~d.want_response => Lacks(C, 3)
      /\ d.want_response => Carries(C, 3, "varint", 1)
  BY BoolPart
<1>4. /\ IsMessage(D) /\ Lacks(D, 1) /\ Lacks(D, 2) /\ Lacks(D, 3) /\ Lacks(D, 9)
      /\ d.request_id = 0 => Lacks(D, 6)
      /\ d.request_id # 0 => Carries(D, 6, "32bit", d.request_id % WORD32)
  BY FixedIfPart
<1>5. /\ IsMessage(E) /\ Lacks(E, 1) /\ Lacks(E, 2) /\ Lacks(E, 3) /\ Lacks(E, 6)
      /\ d.bitfield \in {None, 0} => Lacks(E, 9)
      /\ d.bitfield \notin {None, 0} => Carries(E, 9, "varint", Unsigned(d.bitfield))
  BY EmptyMessage, VarintPart
<1>6. EncodeData(d) = (((A \o B) \o C) \o D) \o E
  BY DEF EncodeData
<1> HIDE DEF A, B, C, D, E
<1>7. LET m == (A \o B) \o C
      IN  /\ IsMessage(m) /\ Lacks(m, 6) /\ Lacks(m, 9)
          /\ d.portnum = 0 => Lacks(m, 1)
          /\ d.portnum # 0 => Carries(m, 1, "varint", Unsigned(d.portnum))
          /\ d.payload = Nothing => Lacks(m, 2)
          /\ d.payload # Nothing => Carries(m, 2, "bytes", d.payload)
          /\ ~d.want_response => Lacks(m, 3)
          /\ d.want_response => Carries(m, 3, "varint", 1)
  BY <1>1, <1>2, <1>3, Join
<1> DEFINE m == (A \o B) \o C
<1> HIDE DEF m
<1>8. EncodeData(d) = (m \o D) \o E
  BY <1>6 DEF m
<1>9. /\ IsMessage(m) /\ Lacks(m, 6) /\ Lacks(m, 9)
      /\ d.portnum = 0 => Lacks(m, 1)
      /\ d.portnum # 0 => Carries(m, 1, "varint", Unsigned(d.portnum))
      /\ d.payload = Nothing => Lacks(m, 2)
      /\ d.payload # Nothing => Carries(m, 2, "bytes", d.payload)
      /\ ~d.want_response => Lacks(m, 3)
      /\ d.want_response => Carries(m, 3, "varint", 1)
  BY <1>7 DEF m
<1> QED
  BY <1>4, <1>5, <1>8, <1>9, Join

(* What a Data says, read back, for any port the code may send.            *)
LEMMA DataRead ==
  ASSUME NEW d \in Datas
  PROVE  DecodeData(EncodeData(d)) =
           [portnum |-> IF d.portnum \in KnownPorts THEN d.portnum ELSE 0,
            payload |-> d.payload, want_response |-> d.want_response,
            request_id |-> d.request_id,
            bitfield |-> IF d.bitfield = 0 THEN None ELSE d.bitfield]
<1> DEFINE msg == EncodeData(d)
<1>1. /\ d.portnum \in {0, 4, 10, 11} /\ d.request_id \in Words
      /\ d.bitfield \in Unsigneds \union {None}
  BY DEF Datas
<1>2. d.want_response \in BOOLEAN
  BY Zenon DEF Datas
<1>3. /\ IsMessage(msg)
      /\ d.portnum = 0 => Lacks(msg, 1)
      /\ d.portnum # 0 => Carries(msg, 1, "varint", Unsigned(d.portnum))
      /\ d.payload = Nothing => Lacks(msg, 2)
      /\ d.payload # Nothing => Carries(msg, 2, "bytes", d.payload)
      /\ ~d.want_response => Lacks(msg, 3)
      /\ d.want_response => Carries(msg, 3, "varint", 1)
      /\ d.request_id = 0 => Lacks(msg, 6)
      /\ d.request_id # 0 => Carries(msg, 6, "32bit", d.request_id % WORD32)
      /\ d.bitfield \in {None, 0} => Lacks(msg, 9)
      /\ d.bitfield \notin {None, 0} => Carries(msg, 9, "varint", Unsigned(d.bitfield))
  BY DataFields
<1> HIDE DEF msg
<1>4. Last(msg, 1, "varint", 0) = d.portnum
  <2>1. Unsigned(d.portnum) = d.portnum
    BY <1>1 DEF Unsigned
  <2> QED
    BY <1>3, <2>1, ReadsNothing, ReadsValue
<1>5. Last(msg, 2, "bytes", Nothing) = d.payload
  BY <1>3, ReadsNothing, ReadsValue
<1>6. LastBool(msg, 3) = d.want_response
  <2>1. CASE d.want_response
    <3>1. Last(msg, 3, "varint", 0) = 1 /\ 1 # 0
      BY <1>3, <2>1, ReadsValue
    <3> QED
      BY <1>2, <2>1, <3>1 DEF LastBool
  <2>2. CASE ~d.want_response
    <3>1. Last(msg, 3, "varint", 0) = 0
      BY <1>3, <2>2, ReadsNothing
    <3> QED
      BY <1>2, <2>2, <3>1 DEF LastBool
  <2> QED
    BY <2>1, <2>2
<1>7. Last(msg, 6, "32bit", 0) = d.request_id
  <2>1. (d.request_id % WORD32) = d.request_id
    BY <1>1, WordsFit
  <2> QED
    BY <1>3, <2>1, ReadsNothing, ReadsValue
<1>8. Last(msg, 9, "varint", None) = IF d.bitfield = 0 THEN None ELSE d.bitfield
  <2>1. d.bitfield # None => Unsigned(d.bitfield) = d.bitfield
    BY <1>1, UnsignedRange DEF Unsigneds
  <2> QED
    BY <1>3, <2>1, ReadsNothing, ReadsValue
<1> QED
  BY <1>4, <1>5, <1>6, <1>7, <1>8, Zenon DEF DecodeData, msg

LEMMA DataRoundTrip ==
  ASSUME NEW d \in Datas
  PROVE  DecodeData(EncodeData(d)) =
           [d EXCEPT !.portnum = IF @ \in KnownPorts THEN @ ELSE 0,
                     !.bitfield = IF @ = 0 THEN None ELSE @]
<1> DEFINE port == IF d.portnum \in KnownPorts THEN d.portnum ELSE 0
           bits == IF d.bitfield = 0 THEN None ELSE d.bitfield
           named == [d EXCEPT !.portnum = port]
<1>1. PICK a, b, c, r, f : d = [portnum |-> a, payload |-> b, want_response |-> c,
                                request_id |-> r, bitfield |-> f]
  BY Zenon DEF Datas
<1>2. /\ d.portnum = a /\ d.payload = b /\ d.want_response = c
      /\ d.request_id = r /\ d.bitfield = f
  BY <1>1, Zenon
<1>3. [d EXCEPT !.portnum = IF @ \in KnownPorts THEN @ ELSE 0,
                !.bitfield = IF @ = 0 THEN None ELSE @]
        = [named EXCEPT !.bitfield = bits]
  OBVIOUS
<1>4. DecodeData(EncodeData(d)) =
        [portnum |-> port, payload |-> b, want_response |-> c, request_id |-> r, bitfield |-> bits]
  BY <1>2, DataRead, Zenon
<1> HIDE DEF port, bits
<1>5. named =
        [portnum |-> port, payload |-> b, want_response |-> c, request_id |-> r, bitfield |-> f]
  BY <1>1
<1> HIDE DEF named
<1>6. [named EXCEPT !.bitfield = bits] =
        [portnum |-> port, payload |-> b, want_response |-> c, request_id |-> r, bitfield |-> bits]
  BY <1>5, SMT
<1> QED
  BY <1>3, <1>4, <1>6, Zenon

-----------------------------------------------------------------------------
(* Packets.                                                                *)
LEMMA PacketFields ==
  ASSUME NEW p
  PROVE  LET msg == ToProtobuf(p)
         IN  /\ IsMessage(msg)
             /\ Carries(msg, 1, "32bit", p.source % WORD32)
             /\ Carries(msg, 2, "32bit", p.destination % WORD32)
             /\ p.channel # 0 => Carries(msg, 3, "varint", Unsigned(p.channel))
             /\ p.decoded = None \/ EncodeData(p.decoded) = Nothing => Lacks(msg, 4)
             /\ p.decoded # None /\ EncodeData(p.decoded) # Nothing =>
                  Carries(msg, 4, "bytes", EncodeData(p.decoded))
             /\ p.decoded # None \/ p.encrypted = Nothing => Lacks(msg, 5)
             /\ p.decoded = None /\ p.encrypted # Nothing =>
                  Carries(msg, 5, "bytes", p.encrypted)
             /\ Carries(msg, 6, "32bit", p.id % WORD32)
             /\ p.hop_limit = 0 => Lacks(msg, 9)
             /\ p.hop_limit # 0 => Carries(msg, 9, "varint", Unsigned(p.hop_limit))
             /\ ~p.want_ack => Lacks(msg, 10)
             /\ p.want_ack => Carries(msg, 10, "varint", 1)
             /\ p.rssi = 0 \/ (p.rssi % WORD32) = 0 => Lacks(msg, 12)
             /\ p.rssi # 0 /\ (p.rssi % WORD32) # 0 =>
                  Carries(msg, 12, "varint", Unsigned(p.rssi % WORD32))
<1> DEFINE A == Fixed32(1, p.source)
           B == Fixed32(2, p.destination)
           C == VarintField(3, p.channel)
           D == IF p.decoded = None THEN BytesField(5, p.encrypted)
                ELSE BytesField(4, EncodeData(p.decoded))
           E == Fixed32(6, p.id)
           F == VarintField(9, p.hop_limit)
           G == BoolIf(10, p.want_ack)
           H == IF p.rssi = 0 THEN <<>> ELSE VarintField(12, p.rssi % WORD32)
           m == ((A \o B) \o C) \o D
           w == (m \o E) \o F
<1>1. /\ IsMessage(A) /\ \A n \in {2, 3, 4, 5, 6, 9, 10, 12} : Lacks(A, n)
      /\ Carries(A, 1, "32bit", p.source % WORD32)
  BY FixedPart
<1>2. /\ IsMessage(B) /\ \A n \in {1, 3, 4, 5, 6, 9, 10, 12} : Lacks(B, n)
      /\ Carries(B, 2, "32bit", p.destination % WORD32)
  BY FixedPart
<1>3. /\ IsMessage(C) /\ \A n \in {1, 2, 4, 5, 6, 9, 10, 12} : Lacks(C, n)
      /\ p.channel # 0 => Carries(C, 3, "varint", Unsigned(p.channel))
  BY VarintPart
<1>4. /\ IsMessage(D) /\ \A n \in {1, 2, 3, 6, 9, 10, 12} : Lacks(D, n)
      /\ p.decoded = None \/ EncodeData(p.decoded) = Nothing => Lacks(D, 4)
      /\ p.decoded # None /\ EncodeData(p.decoded) # Nothing =>
           Carries(D, 4, "bytes", EncodeData(p.decoded))
      /\ p.decoded # None \/ p.encrypted = Nothing => Lacks(D, 5)
      /\ p.decoded = None /\ p.encrypted # Nothing => Carries(D, 5, "bytes", p.encrypted)
  <2>1. CASE p.decoded = None
    BY <2>1, BytesPart
  <2>2. CASE p.decoded # None
    BY <2>2, BytesPart
  <2> QED
    BY <2>1, <2>2
<1>5. /\ IsMessage(E) /\ \A n \in {1, 2, 3, 4, 5, 9, 10, 12} : Lacks(E, n)
      /\ Carries(E, 6, "32bit", p.id % WORD32)
  BY FixedPart
<1>6. /\ IsMessage(F) /\ \A n \in {1, 2, 3, 4, 5, 6, 10, 12} : Lacks(F, n)
      /\ p.hop_limit = 0 => Lacks(F, 9)
      /\ p.hop_limit # 0 => Carries(F, 9, "varint", Unsigned(p.hop_limit))
  BY VarintPart
<1>7. /\ IsMessage(G) /\ \A n \in {1, 2, 3, 4, 5, 6, 9, 12} : Lacks(G, n)
      /\ ~p.want_ack => Lacks(G, 10)
      /\ p.want_ack => Carries(G, 10, "varint", 1)
  BY BoolPart
<1>8. /\ IsMessage(H) /\ \A n \in {1, 2, 3, 4, 5, 6, 9, 10} : Lacks(H, n)
      /\ p.rssi = 0 \/ (p.rssi % WORD32) = 0 => Lacks(H, 12)
      /\ p.rssi # 0 /\ (p.rssi % WORD32) # 0 =>
           Carries(H, 12, "varint", Unsigned(p.rssi % WORD32))
  BY EmptyMessage, VarintPart
<1>9. ToProtobuf(p) = (w \o G) \o H
  BY DEF ToProtobuf
<1> HIDE DEF A, B, C, D, E, F, G, H
<1>10. /\ IsMessage(m) /\ \A n \in {6, 9, 10, 12} : Lacks(m, n)
       /\ Carries(m, 1, "32bit", p.source % WORD32)
       /\ Carries(m, 2, "32bit", p.destination % WORD32)
       /\ p.channel # 0 => Carries(m, 3, "varint", Unsigned(p.channel))
       /\ p.decoded = None \/ EncodeData(p.decoded) = Nothing => Lacks(m, 4)
       /\ p.decoded # None /\ EncodeData(p.decoded) # Nothing =>
            Carries(m, 4, "bytes", EncodeData(p.decoded))
       /\ p.decoded # None \/ p.encrypted = Nothing => Lacks(m, 5)
       /\ p.decoded = None /\ p.encrypted # Nothing => Carries(m, 5, "bytes", p.encrypted)
  BY <1>1, <1>2, <1>3, <1>4, Join
<1> HIDE DEF m
<1>11. /\ IsMessage(w) /\ \A n \in {10, 12} : Lacks(w, n)
       /\ Carries(w, 1, "32bit", p.source % WORD32)
       /\ Carries(w, 2, "32bit", p.destination % WORD32)
       /\ p.channel # 0 => Carries(w, 3, "varint", Unsigned(p.channel))
       /\ p.decoded = None \/ EncodeData(p.decoded) = Nothing => Lacks(w, 4)
       /\ p.decoded # None /\ EncodeData(p.decoded) # Nothing =>
            Carries(w, 4, "bytes", EncodeData(p.decoded))
       /\ p.decoded # None \/ p.encrypted = Nothing => Lacks(w, 5)
       /\ p.decoded = None /\ p.encrypted # Nothing => Carries(w, 5, "bytes", p.encrypted)
       /\ Carries(w, 6, "32bit", p.id % WORD32)
       /\ p.hop_limit = 0 => Lacks(w, 9)
       /\ p.hop_limit # 0 => Carries(w, 9, "varint", Unsigned(p.hop_limit))
  BY <1>5, <1>6, <1>10, Join
<1> HIDE DEF w
<1> QED
  BY <1>7, <1>8, <1>9, <1>11, Join

LEMMA PacketRead ==
  ASSUME NEW p \in Packets0
  PROVE  FromProtobuf(ToProtobuf(p)) =
           [source |-> p.source, destination |-> p.destination, channel |-> p.channel,
            decoded |-> IF p.decoded = None THEN None
                        ELSE IF EncodeData(p.decoded) = Nothing THEN None
                        ELSE DecodeData(EncodeData(p.decoded)),
            encrypted |-> p.encrypted, id |-> p.id,
            hop_limit |-> IF p.hop_limit = 0 THEN 3 ELSE p.hop_limit,
            want_ack |-> p.want_ack, rssi |-> p.rssi % WORD32]
<1> DEFINE msg == ToProtobuf(p)
<1>1. /\ p.source \in {1, WORD32 - 1} /\ p.destination = WORD32 - 1 /\ p.channel = 1
      /\ p.id = WORD32 - 2 /\ p.hop_limit \in 0 .. 7 /\ p.rssi \in Signed
      /\ p.decoded = None => p.encrypted \in {None} \union (Strings \ {Nothing})
      /\ p.decoded # None => p.decoded \in Datas /\ p.encrypted = None
  BY DEF Packets0, PacketOf
<1>2. p.want_ack \in BOOLEAN
  BY Zenon DEF Packets0, PacketOf
<1>3. /\ IsMessage(msg)
      /\ Carries(msg, 1, "32bit", p.source % WORD32)
      /\ Carries(msg, 2, "32bit", p.destination % WORD32)
      /\ p.channel # 0 => Carries(msg, 3, "varint", Unsigned(p.channel))
      /\ p.decoded = None \/ EncodeData(p.decoded) = Nothing => Lacks(msg, 4)
      /\ p.decoded # None /\ EncodeData(p.decoded) # Nothing =>
           Carries(msg, 4, "bytes", EncodeData(p.decoded))
      /\ p.decoded # None \/ p.encrypted = Nothing => Lacks(msg, 5)
      /\ p.decoded = None /\ p.encrypted # Nothing => Carries(msg, 5, "bytes", p.encrypted)
      /\ Carries(msg, 6, "32bit", p.id % WORD32)
      /\ p.hop_limit = 0 => Lacks(msg, 9)
      /\ p.hop_limit # 0 => Carries(msg, 9, "varint", Unsigned(p.hop_limit))
      /\ ~p.want_ack => Lacks(msg, 10)
      /\ p.want_ack => Carries(msg, 10, "varint", 1)
      /\ p.rssi = 0 \/ (p.rssi % WORD32) = 0 => Lacks(msg, 12)
      /\ p.rssi # 0 /\ (p.rssi % WORD32) # 0 =>
           Carries(msg, 12, "varint", Unsigned(p.rssi % WORD32))
  BY PacketFields
<1> HIDE DEF msg
<1>4. /\ (p.source % WORD32) = p.source /\ (p.destination % WORD32) = p.destination
      /\ (p.id % WORD32) = p.id
  <2>1. WORD32 \in Nat \ {0, 1}
    BY PacketsAssumption
  <2>2. /\ p.source \in 0 .. WORD32 - 1 /\ p.destination \in 0 .. WORD32 - 1
        /\ p.id \in 0 .. WORD32 - 1
    BY <1>1, <2>1
  <2> QED
    BY <2>1, <2>2, ModSmall
<1>5. /\ Last(msg, 1, "32bit", 0) = p.source
      /\ Last(msg, 2, "32bit", WORD32 - 1) = p.destination
      /\ Last(msg, 6, "32bit", 0) = p.id
  BY <1>3, <1>4, ReadsValue
<1>6. Last(msg, 3, "varint", 0) = p.channel
  <2>1. Unsigned(p.channel) = p.channel /\ p.channel # 0
    BY <1>1 DEF Unsigned
  <2> QED
    BY <1>3, <2>1, ReadsValue
<1>7. DecodedIn(msg) = IF p.decoded = None THEN None
                       ELSE IF EncodeData(p.decoded) = Nothing THEN None
                       ELSE DecodeData(EncodeData(p.decoded))
  <2>1. CASE p.decoded = None \/ EncodeData(p.decoded) = Nothing
    <3>1. Last(msg, 4, "bytes", None) = None
      BY <1>3, <2>1, ReadsNothing
    <3> QED
      BY <2>1, <3>1 DEF DecodedIn
  <2>2. CASE p.decoded # None /\ EncodeData(p.decoded) # Nothing
    <3>1. Last(msg, 4, "bytes", None) = EncodeData(p.decoded)
      BY <1>3, <2>2, ReadsValue
    <3>2. EncodeData(p.decoded) # None
      BY <1>1, <2>2, DataAssumption
    <3> QED
      BY <2>2, <3>1, <3>2 DEF DecodedIn
  <2> QED
    BY <2>1, <2>2
<1>8. Last(msg, 5, "bytes", None) = p.encrypted
  <2>1. CASE p.decoded = None /\ p.encrypted # Nothing
    BY <1>3, <2>1, ReadsValue
  <2>2. CASE p.decoded # None \/ p.encrypted = Nothing
    <3>1. p.encrypted = None
      BY <1>1, <2>2
    <3> QED
      BY <1>3, <2>2, <3>1, ReadsNothing
  <2> QED
    BY <2>1, <2>2
<1>9. Last(msg, 9, "varint", 3) = IF p.hop_limit = 0 THEN 3 ELSE p.hop_limit
  <2>1. Unsigned(p.hop_limit) = p.hop_limit
    BY <1>1 DEF Unsigned
  <2> QED
    BY <1>3, <2>1, ReadsNothing, ReadsValue
<1>10. LastBool(msg, 10) = p.want_ack
  <2>1. CASE p.want_ack
    <3>1. Last(msg, 10, "varint", 0) = 1 /\ 1 # 0
      BY <1>3, <2>1, ReadsValue
    <3> QED
      BY <1>2, <2>1, <3>1 DEF LastBool
  <2>2. CASE ~p.want_ack
    <3>1. Last(msg, 10, "varint", 0) = 0
      BY <1>3, <2>2, ReadsNothing
    <3> QED
      BY <1>2, <2>2, <3>1 DEF LastBool
  <2> QED
    BY <2>1, <2>2
<1>11. Last(msg, 12, "varint", 0) = p.rssi % WORD32
  <2>0. p.rssi \in Signed
    BY <1>1
  <2>1. p.rssi \in Int /\ 2 * p.rssi \in (-WORD32) .. WORD32 - 1
    BY <2>0, SignedRange
  <2>2. (p.rssi % WORD32) \in 0 .. WORD32 - 1 /\ (p.rssi # 0 => (p.rssi % WORD32) # 0)
    BY <2>1, SignedRoundTrip
  <2>3. Unsigned(p.rssi % WORD32) = p.rssi % WORD32
    BY <2>2 DEF Unsigned
  <2>4. CASE p.rssi = 0
    <3>1. (p.rssi % WORD32) = 0
      BY <2>4, PacketsAssumption
    <3> QED
      BY <1>3, <2>4, <3>1, ReadsNothing
  <2>5. CASE p.rssi # 0
    BY <1>3, <2>2, <2>3, <2>5, ReadsValue
  <2> QED
    BY <2>4, <2>5
<1> QED
  BY <1>5, <1>6, <1>7, <1>8, <1>9, <1>10, <1>11, Zenon DEF FromProtobuf, msg

LEMMA PacketSurvives ==
  ASSUME NEW p \in Packets0
  PROVE  FromProtobuf(ToProtobuf(p)) =
           [p EXCEPT
              !.hop_limit = IF @ = 0 THEN 3 ELSE @,
              !.rssi = @ % WORD32,
              !.decoded = IF @ = None THEN None
                          ELSE IF EncodeData(@) = Nothing THEN None
                          ELSE DecodeData(EncodeData(@))]
<1> DEFINE hops == IF p.hop_limit = 0 THEN 3 ELSE p.hop_limit
           signal == p.rssi % WORD32
           data == IF p.decoded = None THEN None
                   ELSE IF EncodeData(p.decoded) = Nothing THEN None
                   ELSE DecodeData(EncodeData(p.decoded))
           one == [p EXCEPT !.hop_limit = hops]
           two == [one EXCEPT !.rssi = signal]
<1>1. PICK a, b, c, d, e, i, h, w, r :
        p = [source |-> a, destination |-> b, channel |-> c, decoded |-> d, encrypted |-> e,
             id |-> i, hop_limit |-> h, want_ack |-> w, rssi |-> r]
  <2>1. p = [source |-> p.source, destination |-> p.destination, channel |-> p.channel,
             decoded |-> p.decoded, encrypted |-> p.encrypted, id |-> p.id,
             hop_limit |-> p.hop_limit, want_ack |-> p.want_ack, rssi |-> p.rssi]
    BY Zenon DEF Packets0, PacketOf
  <2> QED
    BY <2>1, Zenon
<1>2. /\ p.source = a /\ p.destination = b /\ p.channel = c /\ p.encrypted = e
      /\ p.id = i /\ p.want_ack = w
  BY <1>1, Zenon
<1>3. [p EXCEPT
         !.hop_limit = IF @ = 0 THEN 3 ELSE @,
         !.rssi = @ % WORD32,
         !.decoded = IF @ = None THEN None
                     ELSE IF EncodeData(@) = Nothing THEN None
                     ELSE DecodeData(EncodeData(@))]
        = [two EXCEPT !.decoded = data]
  OBVIOUS
<1>4. FromProtobuf(ToProtobuf(p)) =
        [source |-> a, destination |-> b, channel |-> c, decoded |-> data, encrypted |-> e,
         id |-> i, hop_limit |-> hops, want_ack |-> w, rssi |-> signal]
  BY <1>2, PacketRead, Zenon
<1> HIDE DEF hops, signal, data
<1>5. one = [source |-> a, destination |-> b, channel |-> c, decoded |-> d, encrypted |-> e,
             id |-> i, hop_limit |-> hops, want_ack |-> w, rssi |-> r]
  BY <1>1, SMT
<1> HIDE DEF one
<1>6. two = [source |-> a, destination |-> b, channel |-> c, decoded |-> d, encrypted |-> e,
             id |-> i, hop_limit |-> hops, want_ack |-> w, rssi |-> signal]
  BY <1>5, SMT
<1> HIDE DEF two
<1>7. [two EXCEPT !.decoded = data] =
        [source |-> a, destination |-> b, channel |-> c, decoded |-> data, encrypted |-> e,
         id |-> i, hop_limit |-> hops, want_ack |-> w, rssi |-> signal]
  BY <1>6, SMT
<1> QED
  BY <1>3, <1>4, <1>7, Zenon

-----------------------------------------------------------------------------
(* Frames.                                                                 *)
LEMMA Sealed ==
  ASSUME NEW key, NEW id, NEW src, NEW data
  PROVE  /\ Seal(key, id, src, data) # Nothing
         /\ Seal(key, id, src, data).data = data
         /\ \A k : Opens(k, id, src, Seal(key, id, src, data)) <=> k = key
<1> DEFINE s == Seal(key, id, src, data)
<1>1. DOMAIN s = {"key", "nonce", "data"}
  BY DEF Seal
<1>2. DOMAIN Nothing = {}
  BY DEF Nothing
<1>3. s.key = key /\ s.nonce = <<id, src>> /\ s.data = data
  BY DEF Seal
<1>4. s # Nothing
  BY <1>1, <1>2
<1> HIDE DEF s
<1> QED
  BY <1>3, <1>4 DEF Opens, s

LEMMA DecodedFields ==
  ASSUME NEW frame, NEW key, frame.body # Nothing
  PROVE  LET d == DecodePacket(frame, key)
         IN  /\ d.dst = frame.dst /\ d.src = frame.src /\ d.id = frame.id
             /\ d.hop_limit = frame.flags % 8
             /\ d.want_ack = (((frame.flags \div 8) % 2) = 1)
             /\ d.hop_start = (frame.flags \div 32) % 8
             /\ d.contents =
                  IF Opens(key, frame.id, frame.src, frame.body)
                  THEN Contents(FieldOf(frame.body.data, 1, 0),
                                FieldOf(frame.body.data, 2, Nothing))
                  ELSE Noise
  BY Zenon DEF DecodePacket

(* What the two fields of a body say.                                      *)
LEMMA BodyFields ==
  ASSUME NEW port, NEW payload
  PROVE  LET data == Field(1, "varint", port) \o Field(2, "bytes", payload)
         IN  FieldOf(data, 1, 0) = port /\ FieldOf(data, 2, Nothing) = payload
<1> DEFINE A == Field(1, "varint", port)
           B == Field(2, "bytes", payload)
<1>1. IsMessage(A) /\ Carries(A, 1, "varint", port) /\ Lacks(A, 2)
  BY OneField
<1>2. IsMessage(B) /\ Carries(B, 2, "bytes", payload) /\ Lacks(B, 1)
  BY OneField
<1> HIDE DEF A, B
<1>3. IsMessage(A \o B) /\ Carries(A \o B, 1, "varint", port) /\ Carries(A \o B, 2, "bytes", payload)
  BY <1>1, <1>2, Join
<1>4. FieldOf(A \o B, 1, 0) = port /\ FieldOf(A \o B, 2, Nothing) = payload
  BY <1>3, ReadsValue
<1> QED
  BY <1>4 DEF A, B

LEMMA TextContents ==
  ASSUME NEW payload PROVE Contents(1, payload) = [text |-> payload]
<1>1. ASSUME NEW port, port = 1, port # 3, port # 4
      PROVE  Contents(port, payload) = [text |-> payload]
  BY <1>1, Zenon DEF Contents
<1>2. 1 # 3 /\ 1 # 4
  OBVIOUS
<1> QED
  BY <1>1, <1>2

LEMMA PositionContents ==
  ASSUME NEW payload PROVE Contents(3, payload) = [position |-> PositionIn(payload)]
<1>1. ASSUME NEW port, port = 3, port # 1, port # 4
      PROVE  Contents(port, payload) = [position |-> PositionIn(payload)]
  BY <1>1, Zenon DEF Contents
<1>2. 3 # 1 /\ 3 # 4
  OBVIOUS
<1> QED
  BY <1>1, <1>2

(* A frame of p was read as d.                                             *)
FrameRead(p, d) ==
  IF p.bare THEN d = TooShort
  ELSE /\ <<d.dst, d.src, d.id>> = <<p.dst, p.src, p.id>>
       /\ d.hop_limit = p.hop_limit
       /\ d.hop_start = IF p.own THEN 0 ELSE p.hop_start
       /\ d.want_ack = (~p.own /\ p.want_ack)
       /\ d.contents =
            IF p.key # p.under THEN Noise
            ELSE IF p.own THEN [text |-> p.text]
            ELSE [position |-> [lat |-> p.latitude, alt |-> Unsigned(p.altitude)]]

LEMMA TextRead ==
  ASSUME NEW p \in Texts, BuildPacket(p, p.key) # None
  PROVE  FrameRead(p, DecodePacket(BuildPacket(p, p.key), p.under))
<1> DEFINE frame == BuildPacket(p, p.key)
           d == DecodePacket(frame, p.under)
           data == DataPayload(p.text)
<1>1. p.own /\ ~p.bare /\ p.own = TRUE
  BY Zenon DEF Texts
<1>2. p.hop_limit \in 0 .. 7
  BY DEF BuildPacket, Fits
<1>3. frame = [dst |-> p.dst, src |-> p.src, id |-> p.id, flags |-> BuildFlags(p),
               body |-> Seal(p.key, p.id, p.src, data)]
  BY <1>2 DEF BuildPacket, Fits
<1>4. /\ frame.dst = p.dst /\ frame.src = p.src /\ frame.id = p.id
      /\ frame.flags = p.hop_limit
      /\ frame.body = Seal(p.key, p.id, p.src, data)
  BY <1>2, <1>3 DEF BuildFlags
<1>5. FieldOf(data, 1, 0) = 1 /\ FieldOf(data, 2, Nothing) = p.text
  BY BodyFields DEF DataPayload
<1> HIDE DEF frame, data
<1>6. /\ frame.body # Nothing /\ frame.body.data = data
      /\ Opens(p.under, frame.id, frame.src, frame.body) <=> p.under = p.key
  BY <1>4, Sealed
<1>7. /\ d.dst = p.dst /\ d.src = p.src /\ d.id = p.id
      /\ d.hop_limit = p.hop_limit % 8
      /\ d.want_ack = (((p.hop_limit \div 8) % 2) = 1)
      /\ d.hop_start = (p.hop_limit \div 32) % 8
      /\ d.contents = IF Opens(p.under, frame.id, frame.src, frame.body)
                      THEN Contents(FieldOf(data, 1, 0), FieldOf(data, 2, Nothing))
                      ELSE Noise
  <2>1. /\ d.dst = frame.dst /\ d.src = frame.src /\ d.id = frame.id
        /\ d.hop_limit = frame.flags % 8
        /\ d.hop_start = (frame.flags \div 32) % 8
        /\ d.contents = IF Opens(p.under, frame.id, frame.src, frame.body)
                        THEN Contents(FieldOf(frame.body.data, 1, 0),
                                      FieldOf(frame.body.data, 2, Nothing))
                        ELSE Noise
    BY <1>6, DecodedFields
  <2>2. d.want_ack = (((frame.flags \div 8) % 2) = 1)
    BY <1>6, DecodedFields, Zenon
  <2> HIDE DEF d
  <2>3. d.want_ack = (((p.hop_limit \div 8) % 2) = 1)
    BY <1>4, <2>2, Zenon
  <2> QED
    BY <1>4, <1>6, <2>1, <2>3
<1>8. /\ (p.hop_limit % 8) = p.hop_limit /\ ((p.hop_limit \div 32) % 8) = 0
      /\ ((p.hop_limit \div 8) % 2) # 1
  BY <1>2
<1> HIDE DEF d
<1>9. d.contents = IF p.key # p.under THEN Noise ELSE [text |-> p.text]
  <2>1. CASE p.key = p.under
    <3>1. d.contents = Contents(1, p.text)
      BY <1>5, <1>6, <1>7, <2>1
    <3>2. Contents(1, p.text) = [text |-> p.text]
      BY TextContents
    <3> QED
      BY <2>1, <3>1, <3>2
  <2>2. CASE p.key # p.under
    BY <1>6, <1>7, <2>2
  <2> QED
    BY <2>1, <2>2
<1>10. d.hop_limit = p.hop_limit /\ d.hop_start = 0
  BY <1>7, <1>8
<1>11. d.want_ack = FALSE
  BY <1>7, <1>8, Zenon
<1> QED
  BY <1>1, <1>7, <1>9, <1>10, <1>11, Zenon DEF FrameRead, d, frame

LEMMA FlagsRead ==
  ASSUME NEW hops \in 0 .. 7, NEW ack \in {0, 8}, NEW start \in {3, 7}
  PROVE  LET f == hops + ack + (32 * start)
         IN  /\ (f % 8) = hops /\ ((f \div 32) % 8) = start
             /\ ((f \div 8) % 2) = 1 <=> ack = 8
  OBVIOUS

(* A position as decode_packet reports it.                                 *)
LEMMA PositionReported ==
  ASSUME NEW lat \in Signed, NEW alt \in Numbers
  PROVE  PositionIn(EncodePosition([latitude |-> lat, altitude |-> alt, time |-> 0]))
           = [lat |-> lat, alt |-> Unsigned(alt)]
<1> DEFINE p == [latitude |-> lat, altitude |-> alt, time |-> 0]
           msg == EncodePosition(p)
<1>1. p.latitude = lat /\ p.altitude = alt
  OBVIOUS
<1>2. lat \in Int /\ 2 * lat \in (-WORD32) .. WORD32 - 1 /\ lat # None /\ alt # None
  <2>1. lat \in Numbers
    BY DEF Signed
  <2> QED
    BY <2>1, SignedRange, CodecsAssumption
<1> HIDE DEF p
<1>3. /\ IsMessage(msg) /\ Carries(msg, 1, "32bit", lat % WORD32)
      /\ alt = 0 => Lacks(msg, 3)
      /\ alt # 0 => Carries(msg, 3, "varint", Unsigned(alt))
  BY <1>1, <1>2, PositionFields DEF Packs
<1> HIDE DEF msg
<1>4. Signed32(FieldOf(msg, 1, 0)) = lat
  <2>1. FieldOf(msg, 1, 0) = lat % WORD32
    BY <1>3, ReadsValue
  <2> QED
    BY <1>2, <2>1, SignedRoundTrip
<1>5. FieldOf(msg, 3, 0) = Unsigned(alt)
  <2>1. CASE alt = 0
    <3>1. FieldOf(msg, 3, 0) = 0
      BY <1>3, <2>1, ReadsNothing
    <3> QED
      BY <2>1, <3>1 DEF Unsigned
  <2>2. CASE alt # 0
    BY <1>3, <2>2, ReadsValue
  <2> QED
    BY <2>1, <2>2
<1> QED
  BY <1>4, <1>5 DEF PositionIn, msg, p

HeardFrame(p) ==
  FirmwarePacket(p, p.key, p.port,
                 EncodePosition([latitude |-> p.latitude, altitude |-> p.altitude, time |-> 0]))

LEMMA HeardRead ==
  ASSUME NEW p \in Heard
  PROVE  FrameRead(p, DecodePacket(HeardFrame(p), p.under))
<1> DEFINE frame == HeardFrame(p)
           d == DecodePacket(frame, p.under)
           payload == EncodePosition([latitude |-> p.latitude, altitude |-> p.altitude, time |-> 0])
           data == Field(1, "varint", p.port) \o Field(2, "bytes", payload)
           ack == IF p.want_ack THEN 8 ELSE 0
           flags == p.hop_limit + ack + (32 * p.hop_start)
<1>1. /\ p.port = 3 /\ p.hop_limit \in 0 .. 7 /\ p.hop_start \in {3, 7}
      /\ p.latitude \in Signed /\ p.altitude \in Numbers
  BY DEF Heard
<1>2. ~p.own /\ p.own = FALSE /\ p.bare \in BOOLEAN /\ p.want_ack \in BOOLEAN
  BY Zenon DEF Heard
<1>3. frame = [dst |-> p.dst, src |-> p.src, id |-> p.id, flags |-> flags,
               body |-> IF p.bare THEN Nothing ELSE Seal(p.key, p.id, p.src, data)]
  BY Zenon DEF HeardFrame, FirmwarePacket
<1>4. /\ (flags % 8) = p.hop_limit /\ ((flags \div 32) % 8) = p.hop_start
      /\ ((flags \div 8) % 2) = 1 <=> p.want_ack
  <2>1. ack \in {0, 8} /\ (ack = 8 <=> p.want_ack)
    OBVIOUS
  <2> HIDE DEF ack
  <2> QED
    BY <1>1, <2>1, FlagsRead
<1>5. FieldOf(data, 1, 0) = 3 /\ FieldOf(data, 2, Nothing) = payload
  BY <1>1, BodyFields
<1>6. PositionIn(payload) = [lat |-> p.latitude, alt |-> Unsigned(p.altitude)]
  BY <1>1, PositionReported
<1> HIDE DEF flags, data, payload, ack, frame
<1>7. /\ frame.dst = p.dst /\ frame.src = p.src /\ frame.id = p.id /\ frame.flags = flags
      /\ frame.body = IF p.bare THEN Nothing ELSE Seal(p.key, p.id, p.src, data)
  BY <1>3, Zenon
<1>8. CASE p.bare
  <2>1. frame.body = Nothing
    BY <1>7, <1>8, Zenon
  <2>2. d = TooShort
    BY <2>1 DEF DecodePacket
  <2> QED
    BY <1>8, <2>2, Zenon DEF FrameRead, frame
<1>9. CASE ~p.bare
  <2>1. frame.body = Seal(p.key, p.id, p.src, data)
    BY <1>7, <1>9, Zenon
  <2>2. /\ frame.body # Nothing /\ frame.body.data = data
        /\ Opens(p.under, frame.id, frame.src, frame.body) <=> p.under = p.key
    BY <1>7, <2>1, Sealed
  <2>3. /\ d.dst = p.dst /\ d.src = p.src /\ d.id = p.id
        /\ d.hop_limit = flags % 8
        /\ d.want_ack = (((flags \div 8) % 2) = 1)
        /\ d.hop_start = (flags \div 32) % 8
        /\ d.contents = IF Opens(p.under, frame.id, frame.src, frame.body)
                        THEN Contents(FieldOf(data, 1, 0), FieldOf(data, 2, Nothing))
                        ELSE Noise
    <3>1. /\ d.dst = frame.dst /\ d.src = frame.src /\ d.id = frame.id
          /\ d.hop_limit = frame.flags % 8
          /\ d.hop_start = (frame.flags \div 32) % 8
          /\ d.contents = IF Opens(p.under, frame.id, frame.src, frame.body)
                          THEN Contents(FieldOf(frame.body.data, 1, 0),
                                        FieldOf(frame.body.data, 2, Nothing))
                          ELSE Noise
      BY <2>2, DecodedFields
    <3>2. d.want_ack = (((frame.flags \div 8) % 2) = 1)
      BY <2>2, DecodedFields, Zenon
    <3> HIDE DEF d
    <3>3. d.want_ack = (((flags \div 8) % 2) = 1)
      BY <1>7, <3>2, Zenon
    <3> QED
      BY <1>7, <2>2, <3>1, <3>3
  <2> HIDE DEF d
  <2>4. d.contents = IF p.key # p.under THEN Noise
                     ELSE [position |-> [lat |-> p.latitude, alt |-> Unsigned(p.altitude)]]
    <3>1. CASE p.key = p.under
      <4>1. d.contents = Contents(3, payload)
        BY <1>5, <2>2, <2>3, <3>1
      <4>2. Contents(3, payload) = [position |-> PositionIn(payload)]
        BY PositionContents
      <4> QED
        BY <1>6, <3>1, <4>1, <4>2
    <3>2. CASE p.key # p.under
      BY <2>2, <2>3, <3>2
    <3> QED
      BY <3>1, <3>2
  <2>5. d.hop_limit = p.hop_limit /\ d.hop_start = p.hop_start
    BY <1>4, <2>3
  <2>6. d.want_ack = p.want_ack
    BY <1>2, <1>4, <2>3, Zenon
  <2> QED
    BY <1>2, <1>9, <2>3, <2>4, <2>5, <2>6, Zenon DEF FrameRead, d, frame
<1> QED
  BY <1>8, <1>9

-----------------------------------------------------------------------------
(* Events.                                                                 *)
(* A float that is not negative comes through its bits; the sign bit of    *)
(* any other makes the integer they are read as negative.                  *)
LEMMA FloatRead ==
  ASSUME NEW x \in Int, 2 * x \in (-WORD32) .. WORD32 - 1, 2 * (-x) \in (-WORD32) .. WORD32 - 1
  PROVE  /\ x < 0 => Signed32(FloatBits(x)) < 0
         /\ x >= 0 => Signed32(FloatBits(x)) = x /\ FloatOf(x) = x
<1> DEFINE h == WORD32 \div 2
<1>1. WORD32 \in Nat \ {0, 1}
  BY PacketsAssumption
<1>2. h \in Int /\ 2 * h \in {WORD32 - 1, WORD32}
  BY <1>1
<1> HIDE DEF h
<1>3. CASE x < 0
  <2>1. FloatBits(x) = h - x
    BY <1>3 DEF FloatBits, h
  <2>2. 2 * (h - x) >= WORD32
    BY <1>1, <1>2, <1>3
  <2>3. Signed32(h - x) = h - x - WORD32
    BY <2>2 DEF Signed32
  <2> QED
    BY <1>1, <1>2, <1>3, <2>1, <2>3
<1>4. CASE x >= 0
  BY <1>1, <1>4 DEF FloatBits, Signed32, FloatOf
<1> QED
  BY <1>3, <1>4

(* The two messages nested in an UplinkFrame.                              *)
TxInfo(f) == VarintField(1, f.frequency)

RxInfo(f) ==
  VarintField(6, f.rssi) \o (IF f.snr = 0 THEN <<>> ELSE Field(7, "32bit", FloatBits(f.snr)))

LEMMA RxFields ==
  ASSUME NEW f
  PROVE  /\ IsMessage(RxInfo(f))
         /\ f.rssi = 0 => Lacks(RxInfo(f), 6)
         /\ f.rssi # 0 => Carries(RxInfo(f), 6, "varint", Unsigned(f.rssi))
         /\ f.snr = 0 => Lacks(RxInfo(f), 7)
         /\ f.snr # 0 => Carries(RxInfo(f), 7, "32bit", FloatBits(f.snr))
<1> DEFINE A == VarintField(6, f.rssi)
           B == IF f.snr = 0 THEN <<>> ELSE Field(7, "32bit", FloatBits(f.snr))
<1>1. /\ IsMessage(A) /\ Lacks(A, 7)
      /\ f.rssi = 0 => Lacks(A, 6)
      /\ f.rssi # 0 => Carries(A, 6, "varint", Unsigned(f.rssi))
  BY VarintPart
<1>2. /\ IsMessage(B) /\ Lacks(B, 6)
      /\ f.snr = 0 => Lacks(B, 7)
      /\ f.snr # 0 => Carries(B, 7, "32bit", FloatBits(f.snr))
  BY EmptyMessage, OneField
<1>3. RxInfo(f) = A \o B
  BY DEF RxInfo
<1> HIDE DEF A, B
<1> QED
  BY <1>1, <1>2, <1>3, Join

(* The nested messages are read as they were, sent or not.                 *)
LEMMA UplinkFields ==
  ASSUME NEW f
  PROVE  /\ ReadField(UplinkFrame(f), 1, None) =
              IF f.payload = Nothing THEN None ELSE f.payload
         /\ ReadField(UplinkFrame(f), 4, <<>>) = TxInfo(f)
         /\ ReadField(UplinkFrame(f), 5, <<>>) = RxInfo(f)
<1> DEFINE A == BytesField(1, f.payload)
           B == BytesField(4, TxInfo(f))
           C == BytesField(5, RxInfo(f))
           msg == (A \o B) \o C
<1>1. /\ IsMessage(A) /\ Lacks(A, 4) /\ Lacks(A, 5)
      /\ f.payload = Nothing => Lacks(A, 1)
      /\ f.payload # Nothing => Carries(A, 1, "bytes", f.payload)
  BY BytesPart
<1>2. /\ IsMessage(B) /\ Lacks(B, 1) /\ Lacks(B, 5)
      /\ TxInfo(f) = Nothing => Lacks(B, 4)
      /\ TxInfo(f) # Nothing => Carries(B, 4, "bytes", TxInfo(f))
  BY BytesPart
<1>3. /\ IsMessage(C) /\ Lacks(C, 1) /\ Lacks(C, 4)
      /\ RxInfo(f) = Nothing => Lacks(C, 5)
      /\ RxInfo(f) # Nothing => Carries(C, 5, "bytes", RxInfo(f))
  BY BytesPart
<1>4. UplinkFrame(f) = msg
  BY DEF UplinkFrame, TxInfo, RxInfo
<1> HIDE DEF A, B, C
<1>5. /\ IsMessage(msg)
      /\ f.payload = Nothing => Lacks(msg, 1)
      /\ f.payload # Nothing => Carries(msg, 1, "bytes", f.payload)
      /\ TxInfo(f) = Nothing => Lacks(msg, 4)
      /\ TxInfo(f) # Nothing => Carries(msg, 4, "bytes", TxInfo(f))
      /\ RxInfo(f) = Nothing => Lacks(msg, 5)
      /\ RxInfo(f) # Nothing => Carries(msg, 5, "bytes", RxInfo(f))
  BY <1>1, <1>2, <1>3, Join
<1> HIDE DEF msg
<1>6. ReadField(msg, 1, None) = IF f.payload = Nothing THEN None ELSE f.payload
  BY <1>5, ReadsNothing, ReadsValue
<1>7. ReadField(msg, 4, <<>>) = TxInfo(f)
  <2>1. CASE TxInfo(f) = Nothing
    <3>1. ReadField(msg, 4, <<>>) = <<>>
      BY <1>5, <2>1, ReadsNothing
    <3> QED
      BY <2>1, <3>1 DEF Nothing
  <2>2. CASE TxInfo(f) # Nothing
    BY <1>5, <2>2, ReadsValue
  <2> QED
    BY <2>1, <2>2
<1>8. ReadField(msg, 5, <<>>) = RxInfo(f)
  <2>1. CASE RxInfo(f) = Nothing
    <3>1. ReadField(msg, 5, <<>>) = <<>>
      BY <1>5, <2>1, ReadsNothing
    <3> QED
      BY <2>1, <3>1 DEF Nothing
  <2>2. CASE RxInfo(f) # Nothing
    BY <1>5, <2>2, ReadsValue
  <2> QED
    BY <2>1, <2>2
<1> QED
  BY <1>4, <1>6, <1>7, <1>8

(* An event e was received as r.                                           *)
EventRead(e, r) ==
  LET f == e.frame
  IN  r = IF e.stats \/ f.payload = Nothing \/ f.snr < 0 THEN None
          ELSE [f EXCEPT
                  !.frequency = IF @ = 0 THEN DEFAULT_FREQUENCY ELSE @,
                  !.rssi = IF @ = 0 THEN DEFAULT_RSSI ELSE @]

LEMMA UplinkRead == ASSUME NEW e \in Events PROVE EventRead(e, ReceiveEvent(GwEvent(e)))
<1> DEFINE f == e.frame
           n == IF e.stats THEN 2 ELSE 1
           msg == GwEvent(e)
           frame == UplinkFrame(f)
           frequency == IF f.frequency = 0 THEN DEFAULT_FREQUENCY ELSE f.frequency
           rssi == IF f.rssi = 0 THEN DEFAULT_RSSI ELSE f.rssi
           one == [f EXCEPT !.frequency = frequency]
<1>1. /\ f.payload \in Strings /\ f.frequency \in Words /\ f.rssi \in Signed
      /\ f.snr \in Signed /\ -f.snr \in Signed
  BY DEF Events
<1>2. e.stats \in BOOLEAN
  BY Zenon DEF Events
<1>3. f = [payload |-> f.payload, frequency |-> f.frequency, rssi |-> f.rssi, snr |-> f.snr]
  BY DEF Events
<1>4. msg[1].num = n /\ msg[1].value = frame
  BY DEF GwEvent, Field
<1>5. CASE e.stats
  <2>1. ReceiveEvent(msg) = None
    BY <1>4, <1>5 DEF ReceiveEvent
  <2> QED
    BY <1>5, <2>1, Zenon DEF EventRead
<1>6. CASE ~e.stats
  <2>1. ReceiveEvent(msg) = ParseUplink(frame)
    BY <1>4, <1>6 DEF ReceiveEvent
  <2> HIDE DEF msg, frame
  <2>2. /\ ReadField(frame, 1, None) = IF f.payload = Nothing THEN None ELSE f.payload
        /\ ReadField(frame, 4, <<>>) = TxInfo(f)
        /\ ReadField(frame, 5, <<>>) = RxInfo(f)
    BY UplinkFields DEF frame
  <2>3. f.payload # None
    BY <1>1, CodecsAssumption
  <2>4. /\ f.snr \in Int /\ 2 * f.snr \in (-WORD32) .. WORD32 - 1
        /\ 2 * (-f.snr) \in (-WORD32) .. WORD32 - 1
    BY <1>1, SignedRange
  <2>5. /\ f.snr < 0 => ReadField(RxInfo(f), 7, 0) < 0
        /\ f.snr >= 0 => ReadField(RxInfo(f), 7, 0) = f.snr
    <3>1. CASE f.snr = 0
      <4>1. ReadField(RxInfo(f), 7, 0) = 0
        BY <3>1, RxFields, ReadsNothing
      <4> QED
        BY <3>1, <4>1
    <3>2. CASE f.snr # 0
      <4>1. ReadField(RxInfo(f), 7, 0) = Signed32(FloatBits(f.snr))
        BY <3>2, RxFields, ReadsValue
      <4> QED
        BY <2>4, <4>1, FloatRead
    <3> QED
      BY <3>1, <3>2
  <2>6. CASE f.payload = Nothing \/ f.snr < 0
    <3>1. ParseUplink(frame) = None
      <4>1. CASE f.payload = Nothing
        BY <2>2, <4>1 DEF ParseUplink
      <4>2. CASE f.snr < 0
        BY <2>2, <2>5, <4>2 DEF ParseUplink, SnrRefused
      <4> QED
        BY <2>6, <4>1, <4>2
    <3> QED
      BY <2>1, <2>6, <3>1 DEF EventRead, msg
  <2>7. CASE f.payload # Nothing /\ f.snr >= 0
    <3>1. ReadField(TxInfo(f), 1, DEFAULT_FREQUENCY) = frequency
      <4>1. Unsigned(f.frequency) = f.frequency
        BY <1>1, WordsFit DEF Unsigned
      <4>2. /\ IsMessage(TxInfo(f))
            /\ f.frequency = 0 => Lacks(TxInfo(f), 1)
            /\ f.frequency # 0 => Carries(TxInfo(f), 1, "varint", f.frequency)
        BY <4>1, VarintPart DEF TxInfo
      <4> QED
        BY <4>2, ReadsNothing, ReadsValue
    <3>2. LET r == ReadField(RxInfo(f), 6, None)
          IN  (IF r = None THEN DEFAULT_RSSI ELSE Int32(r)) = rssi
      <4>1. CASE f.rssi = 0
        BY <4>1, RxFields, ReadsNothing
      <4>2. CASE f.rssi # 0
        <5>1. ReadField(RxInfo(f), 6, None) = Unsigned(f.rssi)
          BY <4>2, RxFields, ReadsValue
        <5>2. Unsigned(f.rssi) # None /\ Int32(Unsigned(f.rssi)) = f.rssi
          <6>1. f.rssi \in Numbers /\ f.rssi \in Int /\ 2 * f.rssi \in (-WORD32) .. WORD32 - 1
            BY <1>1, SignedRange DEF Signed
          <6> QED
            BY <6>1, UnsignedRange, Int32RoundTrip
        <5> QED
          BY <4>2, <5>1, <5>2
      <4> QED
        BY <4>1, <4>2
    <3>3. FloatOf(ReadField(RxInfo(f), 7, 0)) = f.snr
      BY <2>4, <2>5, <2>7, FloatRead
    <3>4. ~SnrRefused(RxInfo(f))
      BY <2>4, <2>5, <2>7 DEF SnrRefused
    <3>5. ParseUplink(frame) =
            [payload |-> f.payload, frequency |-> frequency, rssi |-> rssi, snr |-> f.snr]
      BY <2>2, <2>3, <2>7, <3>1, <3>2, <3>3, <3>4 DEF ParseUplink
    <3> HIDE DEF frequency, rssi
    <3>6. one = [payload |-> f.payload, frequency |-> frequency, rssi |-> f.rssi, snr |-> f.snr]
      <4> HIDE DEF f
      <4> QED
        BY <1>3, SMT
    <3>7. [one EXCEPT !.rssi = rssi] =
            [payload |-> f.payload, frequency |-> frequency, rssi |-> rssi, snr |-> f.snr]
      <4> HIDE DEF one
      <4> QED
        BY <3>6, SMT
    <3>8. [f EXCEPT !.frequency = IF @ = 0 THEN DEFAULT_FREQUENCY ELSE @,
                    !.rssi = IF @ = 0 THEN DEFAULT_RSSI ELSE @]
            = [one EXCEPT !.rssi = rssi]
      BY DEF frequency, rssi
    <3>9. ~(f.payload = Nothing \/ f.snr < 0)
      BY <2>4, <2>7
    <3> QED
      BY <1>6, <2>1, <3>5, <3>7, <3>8, <3>9, Zenon DEF EventRead, msg
  <2> QED
    BY <2>4, <2>6, <2>7
<1> QED
  BY <1>5, <1>6

-----------------------------------------------------------------------------
(* Channels.                                                               *)
LEMMA Bandwidths ==
  ASSUME NEW preset \in Presets PROVE Bandwidth[preset] \in {125000, 250000, 500000}
  BY DEF Presets, Bandwidth

LEMMA SlotsApart ==
  ASSUME NEW bw \in {125000, 250000, 500000}, NEW s \in 0 .. NumSlots(bw) - 1,
         NEW t \in 0 .. NumSlots(bw) - 1
  PROVE  /\ 2 * SlotFrequency(bw, s) - bw >= 2 * US915_BASE_FREQ_HZ
         /\ 2 * SlotFrequency(bw, s) + bw <= 2 * US915_END_FREQ_HZ
         /\ SlotFrequency(bw, s) # SlotFrequency(bw, t) =>
              \/ SlotFrequency(bw, s) - SlotFrequency(bw, t) >= bw
              \/ SlotFrequency(bw, t) - SlotFrequency(bw, s) >= bw
<1>1. CASE bw = 125000
  BY <1>1 DEF SlotFrequency, NumSlots, US915_BASE_FREQ_HZ, US915_END_FREQ_HZ
<1>2. CASE bw = 250000
  BY <1>2 DEF SlotFrequency, NumSlots, US915_BASE_FREQ_HZ, US915_END_FREQ_HZ
<1>3. CASE bw = 500000
  BY <1>3 DEF SlotFrequency, NumSlots, US915_BASE_FREQ_HZ, US915_END_FREQ_HZ
<1> QED
  BY <1>1, <1>2, <1>3

(* The frequency f lies well among the slots of a channel's preset.        *)
ChannelRead(c, f, slots) ==
  LET bw == Bandwidth[c.preset]
  IN  /\ f \in slots
      /\ 2 * f - bw >= 2 * US915_BASE_FREQ_HZ
      /\ 2 * f + bw <= 2 * US915_END_FREQ_HZ
      /\ \A g \in slots : g # f => (g - f >= bw \/ f - g >= bw)

LEMMA Tuned ==
  ASSUME NEW c, c.preset \in Presets, c.choice \in Slots
  PROVE  ChannelRead(c, GetFrequency(c.preset, c.choice), AllSlotFrequencies(c.preset))
<1> DEFINE bw == Bandwidth[c.preset]
           s == c.choice % NumSlots(bw)
<1>1. bw \in {125000, 250000, 500000}
  BY Bandwidths
<1>2. NumSlots(bw) \in Nat \ {0}
  <2>1. \A b \in {125000, 250000, 500000} : NumSlots(b) \in Nat \ {0}
    BY DEF NumSlots, US915_BASE_FREQ_HZ, US915_END_FREQ_HZ
  <2> QED
    BY <1>1, <2>1
<1>3. c.choice \in Nat
  BY CodecsAssumption
<1>4. s \in 0 .. NumSlots(bw) - 1
  BY <1>2, <1>3
<1>5. GetFrequency(c.preset, c.choice) = SlotFrequency(bw, s)
  BY DEF GetFrequency
<1>6. AllSlotFrequencies(c.preset) = {SlotFrequency(bw, t) : t \in 0 .. NumSlots(bw) - 1}
  BY DEF AllSlotFrequencies
<1> HIDE DEF s, bw
<1>7. \A t \in 0 .. NumSlots(bw) - 1 :
        /\ 2 * SlotFrequency(bw, s) - bw >= 2 * US915_BASE_FREQ_HZ
        /\ 2 * SlotFrequency(bw, s) + bw <= 2 * US915_END_FREQ_HZ
        /\ SlotFrequency(bw, t) # SlotFrequency(bw, s) =>
             \/ SlotFrequency(bw, t) - SlotFrequency(bw, s) >= bw
             \/ SlotFrequency(bw, s) - SlotFrequency(bw, t) >= bw
  BY <1>1, <1>4, SlotsApart
<1> QED
  BY <1>4, <1>5, <1>6, <1>7 DEF ChannelRead, bw

-----------------------------------------------------------------------------
(* The invariant: what is on the wire is what the value is written as, and *)
(* what was read is what that is read as.                                  *)
Wrote(f, v, w) ==
  \/ f = "none"
  \/ f = "varint" /\ v \in Numbers /\ BeginsLike(w, v)
  \/ f = "position" /\ v \in Positions /\ EncodePosition(v) # None /\ w = EncodePosition(v)
  \/ f = "user" /\ v \in Users /\ w = EncodeUser(v)
  \/ f = "data" /\ v \in Datas /\ w = EncodeData(v)
  \/ f = "packet" /\ v \in Packets0 /\ w = ToProtobuf(v)
  \/ f = "frame" /\ v \in Texts /\ BuildPacket(v, v.key) # None /\ w = BuildPacket(v, v.key)
  \/ f = "frame" /\ v \in Heard /\ w = HeardFrame(v)
  \/ f = "event" /\ v \in Events /\ w = GwEvent(v)
  \/ /\ f = "channel" /\ v.preset \in Presets /\ v.choice \in Slots
     /\ w = <<GetFrequency(v.preset, v.choice)>>

ReadOf(f, v, w, g) ==
  \/ f = "varint" /\ g = DecodeVarint(w)
  \/ f = "position" /\ g = DecodePosition(w)
  \/ f = "user" /\ g = DecodeUser(w)
  \/ f = "data" /\ g = DecodeData(w)
  \/ f = "packet" /\ g = FromProtobuf(w)
  \/ f = "frame" /\ g = DecodePacket(w, v.under)
  \/ f = "event" /\ g = ReceiveEvent(w)
  \/ f = "channel" /\ g = AllSlotFrequencies(v.preset)

CInv ==
  /\ Wrote(form, sent, wire)
  /\ form = "none" => got = Unread
  /\ got = Unread \/ ReadOf(form, sent, wire, got)

LEMMA WriteKeeps ==
  ASSUME NEW f, NEW v, NEW w, CInv, form = "none", Write(f, v, w), f # "none", Wrote(f, v, w)
  PROVE  CInv'
  BY DEF CInv, Write

LEMMA NextKeeps == ASSUME CInv, [Next]_vars PROVE CInv'
<1>1. CASE form = "none" /\ WriteVarint
  <2>1. PICK v \in Numbers, next \in Numbers :
          Write("varint", v, EncodeVarint(v) \o EncodeVarint(next))
    BY <1>1 DEF WriteVarint
  <2>2. Wrote("varint", v, EncodeVarint(v) \o EncodeVarint(next))
    BY VarintWritten DEF Wrote
  <2> QED
    BY <1>1, <2>1, <2>2, WriteKeeps
<1>2. CASE form = "none" /\ WritePosition
  BY <1>2, WriteKeeps DEF WritePosition, Wrote
<1>3. CASE form = "none" /\ WriteUser
  BY <1>3, WriteKeeps DEF WriteUser, Wrote
<1>4. CASE form = "none" /\ WriteData
  BY <1>4, WriteKeeps DEF WriteData, Wrote
<1>5. CASE form = "none" /\ WritePacket
  BY <1>5, WriteKeeps DEF WritePacket, Wrote
<1>6. CASE form = "none" /\ WriteText
  BY <1>6, WriteKeeps DEF WriteText, Wrote
<1>7. CASE form = "none" /\ WriteHeard
  BY <1>7, WriteKeeps DEF WriteHeard, HeardFrame, Wrote
<1>8. CASE form = "none" /\ WriteEvent
  BY <1>8, WriteKeeps DEF WriteEvent, Wrote
<1>9. CASE form = "none" /\ Tune
  <2>1. PICK p \in Presets, choice \in Slots :
          Write("channel", [preset |-> p, choice |-> choice], <<GetFrequency(p, choice)>>)
    BY <1>9 DEF Tune
  <2>2. Wrote("channel", [preset |-> p, choice |-> choice], <<GetFrequency(p, choice)>>)
    BY DEF Wrote
  <2> QED
    BY <1>9, <2>1, <2>2, WriteKeeps
<1>10. CASE CutShort
  <2>1. /\ form = "varint" /\ got = Unread
        /\ form' = form /\ sent' = sent /\ got' = got
    BY <1>10 DEF CutShort
  <2>2. sent \in Numbers /\ BeginsLike(wire, sent)
    BY <2>1 DEF CInv, Wrote
  <2>3. PICK n \in 0 .. Len(EncodeVarint(sent)) - 1 :
          n < Len(wire) /\ wire' = SubSeq(wire, 1, n)
    BY <1>10 DEF CutShort
  <2>4. BeginsLike(wire', sent)
    BY <2>2, <2>3, VarintCut
  <2> QED
    BY <2>1, <2>2, <2>4 DEF CInv, Wrote
<1>11. CASE Read
  <2>1. form' = form /\ sent' = sent /\ wire' = wire
    BY <1>11 DEF Read
  <2>2. form # "none" /\ ReadOf(form, sent, wire, got')
    BY <1>11 DEF Read, ReadAs, ReadOf
  <2> QED
    BY <2>1, <2>2 DEF CInv
<1>12. CASE UNCHANGED vars
  BY <1>12 DEF CInv, vars
<1> QED
  BY <1>1, <1>2, <1>3, <1>4, <1>5, <1>6, <1>7, <1>8, <1>9, <1>10, <1>11, <1>12 DEF Next

THEOREM EncodingsStand == Spec => []CInv
<1>1. Init => CInv
  BY DEF Init, CInv, Wrote
<1>2. CInv /\ [Next]_vars => CInv'
  BY NextKeeps
<1> QED
  BY <1>1, <1>2, PTL DEF Spec

(* A varint is read back, whatever follows it, as the number or its two's  *)
(* complement; cut short, it is refused; and no byte is spare, whatever    *)
(* the width of a word and of a byte (packets.py 30-58).                   *)
THEOREM VarintsSurvive == Spec => []VarintRoundTrip
<1>1. CInv => VarintRoundTrip
  <2> SUFFICES ASSUME CInv, IsRead("varint") PROVE VarintRoundTrip
    BY DEF VarintRoundTrip
  <2> DEFINE code == EncodeVarint(sent)
  <2>1. sent \in Numbers /\ BeginsLike(wire, sent) /\ got = DecodeVarint(wire)
    BY DEF CInv, Wrote, ReadOf, IsRead
  <2>2. got = IF Len(wire) < Len(code) THEN Malformed
              ELSE [size |-> Len(code), value |-> Unsigned(sent)]
    BY <2>1, VarintRead
  <2>3. Len(code) > 1 => code[Len(code)].low # 0
    <3>1. Unsigned(sent) \in Nat
      BY <2>1, UnsignedRange, PacketsAssumption
    <3>2. Spells(code, Unsigned(sent))
      BY <3>1, DigitsSpell DEF EncodeVarint
    <3> HIDE DEF code
    <3> QED
      BY <3>2 DEF Spells
  <2> QED
    BY <2>2, <2>3, Zenon DEF VarintRoundTrip
<1> QED
  BY <1>1, EncodingsStand, PTL

(* What a position, a user and a Data say is read back, but for an         *)
(* altitude or a bitfield of 0, a negative altitude and an unnamed port,   *)
(* whatever the width of a word (packets.py 247-413).                      *)
THEOREM MessagesSurvive == Spec => []MessagesRoundTrip
<1>1. CInv => MessagesRoundTrip
  <2> SUFFICES ASSUME CInv PROVE MessagesRoundTrip
    OBVIOUS
  <2>1. ASSUME IsRead("position")
        PROVE  got = [sent EXCEPT !.altitude = IF @ \in {None, 0} THEN None ELSE Unsigned(@)]
    <3>1. /\ sent \in Positions /\ EncodePosition(sent) # None
          /\ got = DecodePosition(EncodePosition(sent))
      BY <2>1 DEF CInv, Wrote, ReadOf, IsRead
    <3> QED
      BY <3>1, PositionRoundTrip
  <2>2. ASSUME IsRead("user") PROVE got = sent
    <3>1. sent \in Users /\ got = DecodeUser(EncodeUser(sent))
      BY <2>2 DEF CInv, Wrote, ReadOf, IsRead
    <3> QED
      BY <3>1, UserRoundTrip
  <2>3. ASSUME IsRead("data")
        PROVE  got = [sent EXCEPT !.portnum = IF @ \in KnownPorts THEN @ ELSE 0,
                                  !.bitfield = IF @ = 0 THEN None ELSE @]
    <3>1. sent \in Datas /\ got = DecodeData(EncodeData(sent))
      BY <2>3 DEF CInv, Wrote, ReadOf, IsRead
    <3> QED
      BY <3>1, DataRoundTrip
  <2> QED
    BY <2>1, <2>2, <2>3 DEF MessagesRoundTrip
<1> QED
  BY <1>1, EncodingsStand, PTL

(* A packet survives the protobuf form, but for a hop limit of 0, which    *)
(* comes back as 3, a negative RSSI and an empty Data (packets.py          *)
(* 517-571).                                                               *)
THEOREM PacketsSurvive == Spec => []PacketRoundTrip
<1>1. CInv => PacketRoundTrip
  <2> SUFFICES ASSUME CInv, IsRead("packet") PROVE PacketRoundTrip
    BY DEF PacketRoundTrip
  <2>1. sent \in Packets0 /\ got = FromProtobuf(ToProtobuf(sent))
    BY DEF CInv, Wrote, ReadOf, IsRead
  <2> QED
    BY <2>1, PacketSurvives DEF PacketRoundTrip
<1> QED
  BY <1>1, EncodingsStand, PTL

(* A frame, the bridge's own or the firmware's, is read as it was sent by  *)
(* whoever has its key and as noise by anyone else (meshtastic_proto.py    *)
(* 141-234, 310-396).                                                      *)
THEOREM FramesAreRead == Spec => []FrameRoundTrip
<1>1. CInv => FrameRoundTrip
  <2> SUFFICES ASSUME CInv, IsRead("frame") PROVE FrameRoundTrip
    BY DEF FrameRoundTrip
  <2>1. /\ got = DecodePacket(wire, sent.under)
        /\ \/ sent \in Texts /\ BuildPacket(sent, sent.key) # None /\ wire = BuildPacket(sent, sent.key)
           \/ sent \in Heard /\ wire = HeardFrame(sent)
    BY DEF CInv, Wrote, ReadOf, IsRead
  <2>2. FrameRead(sent, got)
    BY <2>1, TextRead, HeardRead
  <2> QED
    BY <2>2, Zenon DEF FrameRead, FrameRoundTrip
<1> QED
  BY <1>1, EncodingsStand, PTL

(* A frame the Concentratord received reaches the bridge with its signal   *)
(* unless its SNR is negative, whatever the width of a word (bridge.py     *)
(* 171-213, 251-372).                                                      *)
THEOREM UplinksAreRead == Spec => []UplinkRoundTrip
<1>1. CInv => UplinkRoundTrip
  <2> SUFFICES ASSUME CInv, IsRead("event") PROVE UplinkRoundTrip
    BY DEF UplinkRoundTrip
  <2>1. sent \in Events /\ got = ReceiveEvent(GwEvent(sent))
    BY DEF CInv, Wrote, ReadOf, IsRead
  <2>2. EventRead(sent, got)
    BY <2>1, UplinkRead
  <2> QED
    BY <2>2, Zenon DEF EventRead, UplinkRoundTrip
<1> QED
  BY <1>1, EncodingsStand, PTL

(* Any slot number, and any hash of a channel name, is tuned to one of the *)
(* slots of its preset, in the band and clear of the others (channels.py   *)
(* 195-253).                                                               *)
THEOREM ChannelsInBand == Spec => []TunedInBand
<1>1. CInv => TunedInBand
  <2> SUFFICES ASSUME CInv, IsRead("channel") PROVE TunedInBand
    BY DEF TunedInBand
  <2>1. /\ sent.preset \in Presets /\ sent.choice \in Slots
        /\ wire = <<GetFrequency(sent.preset, sent.choice)>>
        /\ got = AllSlotFrequencies(sent.preset)
    BY DEF CInv, Wrote, ReadOf, IsRead
  <2>2. wire[1] = GetFrequency(sent.preset, sent.choice)
    BY <2>1
  <2>3. ChannelRead(sent, wire[1], got)
    BY <2>1, <2>2, Tuned
  <2> QED
    BY <2>3, Zenon DEF ChannelRead, TunedInBand
<1> QED
  BY <1>1, EncodingsStand, PTL
===============================================================================
