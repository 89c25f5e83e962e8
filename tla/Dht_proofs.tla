----------------------------- MODULE Dht_proofs -----------------------------
(***************************************************************************)
(* Proofs about both readers of the sensor, for every width of a byte,     *)
(* every set of payloads and any number of edges that nobody sent.         *)
(*                                                                         *)
(* The invariant of the reader with a callback counts: the edges that are  *)
(* counted, and those still to come, are as many as there are bits, too    *)
(* few if some are missing and too many if some were added; and while      *)
(* nothing went wrong every byte holds the upper bits of the one that was  *)
(* sent.                                                                   *)
(*                                                                         *)
(* Of the reader that polls: a frame that broke off or lost a bit differs  *)
(* in one byte, by less than the modulus of the sum, which tells them      *)
(* apart.                                                                  *)
(***************************************************************************)
EXTENDS DhtPigpio, DHT22, FiniteSetTheorems, WellFoundedInduction, TLAPS

-----------------------------------------------------------------------------
(* Arithmetic. *)

\* A set that holds 0, and with a number the next one, holds every number.
LEMMA Induction ==
    ASSUME NEW S, 0 \in S, \A n \in Nat : n \in S => n + 1 \in S
    PROVE  \A n \in Nat : n \in S
<1> DEFINE Less == {ss \in Nat \X Nat : ss[1] < ss[2]}
<1>1. IsWellFoundedOn(Less, Nat)
    BY NatLessThanWellFounded, Zenon DEF OpToRel
<1>2. SUFFICES ASSUME Nat \ S # {}  PROVE FALSE
    OBVIOUS
<1>3. PICK x \in Nat \ S : \A y \in Nat \ S : <<y, x>> \notin Less
    <2> HIDE DEF Less
    <2> QED BY <1>1, <1>2, WFMin
<1>4. x # 0 /\ x - 1 \in Nat /\ x - 1 \notin S
    BY <1>3
<1>5. <<x - 1, x>> \in Less
    BY <1>3, <1>4
<1> QED BY <1>3, <1>4, <1>5

\* g holds the first powers of two, up to the n-th.
Powers(n, g) == g = [k \in 0 .. n |-> IF k = 0 THEN 1 ELSE 2 * g[k - 1]]

\* There are such powers, and they do not depend on n.
LEMMA PowersExist == \A n \in Nat : \E g : Powers(n, g)
<1> DEFINE Done == {n \in Nat : \E g : Powers(n, g)}
<1>1. 0 \in Done
    <2>1. Powers(0, [k \in 0 .. 0 |-> 1])
        BY DEF Powers
    <2> QED BY <2>1
<1>2. ASSUME NEW n \in Nat, n \in Done
      PROVE  n + 1 \in Done
    <2>1. PICK g : Powers(n, g)
        BY <1>2
    <2> DEFINE h == [k \in 0 .. n + 1 |-> IF k = 0 THEN 1 ELSE 2 * g[k - 1]]
    <2>2. \A k \in 0 .. n : h[k] = g[k]
        <3>1. \A k \in 0 .. n : g[k] = IF k = 0 THEN 1 ELSE 2 * g[k - 1]
            BY <2>1 DEF Powers
        <3> QED BY <3>1
    <2>3. \A k \in 0 .. n + 1 : k # 0 => k - 1 \in 0 .. n
        OBVIOUS
    <2>4. h = [k \in 0 .. n + 1 |-> h[k]]
        OBVIOUS
    <2>5. \A k \in 0 .. n + 1 : h[k] = IF k = 0 THEN 1 ELSE 2 * g[k - 1]
        OBVIOUS
    <2> HIDE DEF h
    <2>6. \A k \in 0 .. n + 1 : h[k] = IF k = 0 THEN 1 ELSE 2 * h[k - 1]
        BY <2>2, <2>3, <2>5
    <2>7. Powers(n + 1, h)
        BY <2>4, <2>6 DEF Powers
    <2> QED BY <2>7
<1>3. \A n \in Nat : n \in Done
    <2> HIDE DEF Done
    <2> QED BY <1>1, <1>2, Induction
<1> QED BY <1>3

LEMMA PowersAgree ==
    ASSUME NEW m \in Nat, NEW n \in Nat, m =< n, NEW g, NEW h, Powers(m, g), Powers(n, h)
    PROVE  g[m] = h[m]
<1> DEFINE Same == {k \in Nat : k =< m => g[k] = h[k]}
<1>1. /\ \A k \in 0 .. m : g[k] = IF k = 0 THEN 1 ELSE 2 * g[k - 1]
      /\ \A k \in 0 .. n : h[k] = IF k = 0 THEN 1 ELSE 2 * h[k - 1]
    BY DEF Powers
<1>2. 0 \in Same
    BY <1>1
<1>3. ASSUME NEW k \in Nat, k \in Same
      PROVE  k + 1 \in Same
    <2>1. SUFFICES ASSUME k + 1 =< m  PROVE g[k + 1] = h[k + 1]
        OBVIOUS
    <2>2. g[k] = h[k] /\ k + 1 \in 0 .. m /\ k + 1 \in 0 .. n /\ (k + 1) - 1 = k /\ k + 1 # 0
        BY <1>3, <2>1
    <2> QED BY <1>1, <2>2
<1>4. \A k \in Nat : k \in Same
    <2> HIDE DEF Same
    <2> QED BY <1>2, <1>3, Induction
<1> QED BY <1>4

\* TwoTo, which is defined by recursion, has the values of its definition.
LEMMA PowersOfTwo ==
    /\ TwoTo[0] = 1
    /\ \A n \in Nat : TwoTo[n] \in Nat \ {0} /\ TwoTo[n + 1] = 2 * TwoTo[n]
<1> DEFINE f == [n \in Nat |-> (CHOOSE g : Powers(n, g))[n]]
<1>1. \A n \in Nat : \E g : Powers(n, g) /\ f[n] = g[n]
    <2> TAKE n \in Nat
    <2>1. Powers(n, CHOOSE g : Powers(n, g))
        BY PowersExist
    <2> QED BY <2>1
<1>2. f = [n \in Nat |-> f[n]]
    OBVIOUS
<1> HIDE DEF f
<1>3. ASSUME NEW n \in Nat
      PROVE  f[n] = IF n = 0 THEN 1 ELSE 2 * f[n - 1]
    <2>1. PICK g : Powers(n, g) /\ f[n] = g[n]
        BY <1>1
    <2>2. g[n] = IF n = 0 THEN 1 ELSE 2 * g[n - 1]
        BY <2>1 DEF Powers
    <2>3. ASSUME n # 0
          PROVE  f[n - 1] = g[n - 1]
        <3>1. n - 1 \in Nat /\ n - 1 =< n
            BY <2>3
        <3>2. PICK h : Powers(n - 1, h) /\ f[n - 1] = h[n - 1]
            BY <1>1, <3>1
        <3> QED BY <2>1, <3>1, <3>2, PowersAgree
    <2> QED BY <2>1, <2>2, <2>3
<1>4. f = [n \in Nat |-> IF n = 0 THEN 1 ELSE 2 * f[n - 1]]
    BY <1>2, <1>3
<1>5. TwoTo = [n \in Nat |-> IF n = 0 THEN 1 ELSE 2 * TwoTo[n - 1]]
    BY <1>4, Zenon DEF TwoTo
<1> DEFINE S == {n \in Nat : TwoTo[n] \in Nat \ {0}}
<1>6. 0 \in S
    BY <1>5
<1>7. ASSUME NEW n \in Nat, n \in S
      PROVE  n + 1 \in S
    <2>1. TwoTo[n + 1] = 2 * TwoTo[n]
        BY <1>5
    <2> QED BY <1>7, <2>1
<1>8. \A n \in Nat : n \in S
    <2> HIDE DEF S
    <2> QED BY <1>6, <1>7, Induction
<1>9. \A n \in Nat : TwoTo[n + 1] = 2 * TwoTo[n]
    BY <1>5
<1> QED BY <1>5, <1>8, <1>9

\* The quotient and the remainder.
LEMMA DivFacts ==
    ASSUME NEW x \in Nat, NEW d \in Nat \ {0}
    PROVE  /\ x \div d \in Nat
         /\ d * (x \div d) <= x
         /\ x < d * (x \div d) + d
    OBVIOUS

\* Products grow with their factors.
LEMMA Distributes ==
    ASSUME NEW d \in Nat, NEW a \in Nat, NEW b \in Nat
    PROVE  d * (a + b) = d * a + d * b /\ d * a \in Nat /\ d * b \in Nat
    OBVIOUS

LEMMA Grows ==
    ASSUME NEW d \in Nat, NEW a \in Nat, NEW b \in Nat, a < b
    PROVE  d * a + d <= d * b
<1> DEFINE c == b - a - 1
<1>1. c \in Nat /\ b = a + 1 + c
    OBVIOUS
<1> HIDE DEF c
<1>2. d * b = d * (a + 1) + d * c /\ d * c \in Nat
    BY <1>1, Distributes
<1>3. d * (a + 1) = d * a + d
    OBVIOUS
<1>4. d * a \in Nat
    OBVIOUS
<1> QED BY <1>2, <1>3, <1>4

\* A number that fits is the quotient.
LEMMA DivUnique ==
    ASSUME NEW x \in Nat, NEW d \in Nat \ {0}, NEW q \in Nat, d * q <= x, x < d * q + d
    PROVE  x \div d = q
<1> DEFINE p == x \div d
<1>1. p \in Nat /\ d * p <= x /\ x < d * p + d
    BY DivFacts
<1> HIDE DEF p
<1>2. p < q => d * p + d <= d * q
    BY <1>1, Grows
<1>3. q < p => d * q + d <= d * p
    BY <1>1, Grows
<1>4. d * p \in Nat /\ d * q \in Nat
    BY <1>1
<1>5. p = q
    BY <1>1, <1>2, <1>3, <1>4
<1> QED BY <1>5 DEF p

\* The quotient by the half, from the quotient and one more bit.
LEMMA Halves ==
    ASSUME NEW x \in Nat, NEW d \in Nat \ {0}
    PROVE  x \div d = 2 * (x \div (2 * d)) + ((x \div d) % 2)
<1>1. PICK p \in Nat : p = x \div d /\ d * p <= x /\ x < d * p + d
    BY DivFacts
<1>2. PICK h \in Nat, r \in {0, 1} : r = p % 2 /\ p = 2 * h + r
    BY <1>1
<1>3. d * (2 * h) = 2 * d * h /\ d * (2 * h) \in Nat
    BY <1>2
<1>4. d * p = d * (2 * h) + d * r
    BY <1>2
<1>5. d * r \in {0, d}
    BY <1>2
<1>6. 2 * d * h <= x /\ x < 2 * d * h + 2 * d
    BY <1>1, <1>3, <1>4, <1>5
<1>7. x \div (2 * d) = h
    BY <1>2, <1>6, DivUnique
<1>8. p = 2 * (x \div (2 * d)) + r
    BY <1>2, <1>7
<1> QED BY <1>1, <1>2, <1>8

\* Quotients by one, and of small numbers.
LEMMA One ==
    ASSUME NEW x \in Nat
    PROVE  x \div 1 = x
    BY DivUnique

LEMMA Small ==
    ASSUME NEW x \in Nat, NEW d \in Nat, x < d
    PROVE  x \div d = 0 /\ x % d = x
    OBVIOUS

\* Powers of two grow with their exponents.
LEMMA PowersGrow ==
    ASSUME NEW w \in Nat, NEW k \in Nat
    PROVE  TwoTo[w] <= TwoTo[w + k]
<1> DEFINE S == {i \in Nat : TwoTo[w] <= TwoTo[w + i]}
<1>1. 0 \in S
    BY PowersOfTwo
<1>2. ASSUME NEW i \in Nat, i \in S
      PROVE  i + 1 \in S
    <2>1. w + i \in Nat /\ w + (i + 1) = (w + i) + 1
        OBVIOUS
    <2>2. /\ TwoTo[w + i] \in Nat /\ TwoTo[(w + i) + 1] = 2 * TwoTo[w + i]
          /\ TwoTo[w] \in Nat
        BY <2>1, PowersOfTwo
    <2> QED BY <1>2, <2>1, <2>2
<1>3. \A i \in Nat : i \in S
    <2> HIDE DEF S
    <2> QED BY <1>1, <1>2, Induction
<1> QED BY <1>3

\* The product of two powers.
LEMMA PowersMultiply ==
    ASSUME NEW w \in Nat, NEW k \in Nat
    PROVE  TwoTo[w + k] = TwoTo[w] * TwoTo[k]
<1> DEFINE S == {i \in Nat : TwoTo[w + i] = TwoTo[w] * TwoTo[i]}
<1>1. 0 \in S
    BY PowersOfTwo
<1>2. ASSUME NEW i \in Nat, i \in S
      PROVE  i + 1 \in S
    <2>1. w + i \in Nat /\ w + (i + 1) = (w + i) + 1
        OBVIOUS
    <2>2. /\ TwoTo[w + i] \in Nat /\ TwoTo[(w + i) + 1] = 2 * TwoTo[w + i]
          /\ TwoTo[i] \in Nat /\ TwoTo[i + 1] = 2 * TwoTo[i]
          /\ TwoTo[w] \in Nat
        BY <2>1, PowersOfTwo
    <2>3. TwoTo[w] * (2 * TwoTo[i]) = 2 * (TwoTo[w] * TwoTo[i])
        BY <2>2
    <2> QED BY <1>2, <2>1, <2>2, <2>3
<1>3. \A i \in Nat : i \in S
    <2> HIDE DEF S
    <2> QED BY <1>1, <1>2, Induction
<1> QED BY <1>3

\* What is less than m is the remainder.
LEMMA RemainderIs ==
    ASSUME NEW m \in Nat \ {0}, NEW q \in {0, 1}, NEW r \in 0 .. m - 1
    PROVE  (m * q + r) % m = r
<1>1. CASE q = 0
    BY <1>1, Small
<1>2. CASE q = 1
    <2> DEFINE x == m + r
    <2>1. x \in Nat /\ m * 1 <= x /\ x < m * 1 + m /\ m * q + r = x
        BY <1>2
    <2> HIDE DEF x
    <2>2. x \div m = 1
        BY <2>1, DivUnique
    <2>3. x = m * (x \div m) + (x % m)
        BY <2>1
    <2>4. x = m + (x % m) /\ x % m \in Int
        BY <2>1, <2>2, <2>3
    <2> QED BY <2>1, <2>4 DEF x
<1> QED BY <1>1, <1>2

\* Two numbers that differ by less than m have different remainders.
LEMMA SameRemainder ==
    ASSUME NEW m \in Nat \ {0}, NEW s \in Int, NEW d \in Int, -m < d, d < m, s % m = (s + d) % m
    PROVE  d = 0
<1>1. PICK q \in Int, r \in 0 .. m - 1 : r = s % m /\ s = m * q + r
    <2>1. s \div m \in Int /\ s % m \in 0 .. m - 1 /\ s = m * (s \div m) + (s % m)
        OBVIOUS
    <2> QED BY <2>1
<1>2. PICK h \in Int : s + d = m * h + r
    <2>1. s + d \in Int
        OBVIOUS
    <2>2. (s + d) \div m \in Int /\ s + d = m * ((s + d) \div m) + ((s + d) % m)
        BY <2>1
    <2>3. (s + d) % m = r
        BY <1>1
    <2> QED BY <2>2, <2>3
<1>3. PICK k \in Int : h = q + k
    <2>1. h - q \in Int /\ h = q + (h - q)
        OBVIOUS
    <2> QED BY <2>1
<1>4. m * h = m * q + m * k
    BY <1>3
<1> DEFINE t == m * k
<1>5. k >= 1 => t >= m
    <2>1. ASSUME k >= 1
          PROVE  m * 0 + m <= m * k
        <3>1. k \in Nat /\ 0 < k
            BY <2>1
        <3> QED BY <3>1, Grows
    <2> QED BY <2>1
<1>6. k <= -1 => t <= -m
    <2>1. ASSUME k <= -1
          PROVE  m * 0 + m <= m * (-k)
        <3>1. -k \in Nat /\ 0 < -k
            BY <2>1
        <3> QED BY <3>1, Grows
    <2>2. m * (-k) = -t
        OBVIOUS
    <2> HIDE DEF t
    <2>3. t \in Int
        BY DEF t
    <2> QED BY <2>1, <2>2, <2>3
<1>7. d = t /\ (k = 0 => t = 0)
    BY <1>1, <1>2, <1>4
<1> HIDE DEF t
<1> QED BY <1>3, <1>5, <1>6, <1>7

-----------------------------------------------------------------------------
(* The invariant.  It speaks of attempts that no callback disturbed while they *)
(* were set up; of the others only the types are known.                        *)

\* Callbacks that have counted their edge, but not stored the count.
Counting == IF cb # Idle /\ cb.step = "store" THEN 1 ELSE 0

\* What bitCount will be when no more edges come.
Total == bitCount + Counting + Len(edges)

\* The bits that are in data: the callback that shifts one has it counted.
Shifted == IF cb # Idle /\ cb.step = "shift" THEN bitCount - 1 ELSE bitCount

\* How many bits byte i has when n are shifted.
Width(n, i) == IF n <= i * Bits THEN 0
               ELSE IF n >= (i + 1) * Bits THEN Bits ELSE n - i * Bits

TypeInv ==
    /\ pc \in {"reset", "zero", "signal", "wait", "sum", "print", "sleep", "done"}
    /\ device \in {"DHT11", "DHT22"}
    /\ loopFlag \in BOOLEAN
    /\ tries \in 0 .. 3
    /\ pc \notin {"sleep", "done"} /\ ~loopFlag => tries # 0
    /\ bitCount \in Int
    /\ data \in [0 .. 4 -> Nat]
    /\ raced \in BOOLEAN
    /\ edges \in Seq({0, 1})
    /\ cb = Idle \/ cb \in [step : {"store", "shift"}, count : Int, bit : {0, 1}]
    /\ trouble \subseteq Troubles
    /\ sent = None \/ sent \in {Frame(payload) : payload \in Measured}
    /\ noise \in 0 .. MaxNoise
    /\ lost \in 0 .. MaxLost
    /\ printed = None \/ printed \in Int \X Int

\* No byte has more bits than were shifted into it.
CountInv ==
    /\ bitCount >= -3
    /\ cb # Idle => cb.count = bitCount + Counting
    /\ cb # Idle /\ cb.step = "shift" => bitCount > 0
    /\ pc # "zero" => \A i \in 0 .. 4 : data[i] < TwoTo[Width(Shifted, i)]

\* The edges to come are the bits that are missing, and data holds the others.
Faithful ==
    /\ \A k \in 1 .. Len(edges) :
         bitCount + Counting + k > 0 => edges[k] = BitOf(sent, bitCount + Counting + k - 1)
    /\ cb # Idle /\ cb.count > 0 => cb.bit = BitOf(sent, cb.count - 1)
    /\ \A i \in 0 .. 4 : data[i] = sent[i] \div TwoTo[Bits - Width(Shifted, i)]

\* An edge that is missing makes the count too low, and one that was added too high.
AttemptInv ==
    /\ pc \in {"zero", "signal"} =>
         /\ "late" \notin trouble
         /\ "added" \notin trouble => "missing" \notin trouble /\ Total = -3
         /\ "added" \in trouble /\ "missing" \notin trouble => Total > -3
    /\ pc = "wait" =>
         /\ "late" \notin trouble
         /\ "added" \notin trouble /\ "missing" \notin trouble => Total = FrameBits /\ Faithful
         /\ "added" \notin trouble /\ "missing" \in trouble => Total < FrameBits
         /\ "added" \in trouble /\ "missing" \notin trouble => Total > FrameBits
    /\ pc \in {"sum", "print"} =>
         /\ ~Mixed => bitCount >= FrameBits /\ \A i \in 0 .. 3 : data[i] = sent[i]
         /\ trouble = {} => Shifted >= FrameBits /\ data[4] = sent[4]
    /\ pc \in {"wait", "sum", "print"} => sent \in {Frame(payload) : payload \in Measured}
    /\ PrintsWhatWasSent
    /\ CleanReadingIsPrinted

IInv ==
    /\ TypeInv
    /\ pc \in {"zero", "signal", "wait", "sum", "print"} => printed = None
    /\ ~raced => CountInv /\ AttemptInv

-----------------------------------------------------------------------------
(* Bits and bytes. *)

\* A place in a frame: its byte, and the bit of that byte.
LEMMA Place ==
    ASSUME NEW n \in Nat
    PROVE  /\ n \div Bits \in Nat
           /\ n % Bits \in 0 .. Bits - 1
           /\ n = (n \div Bits) * Bits + (n % Bits)
<1>1. Bits \in Nat \ {0}
    BY FrameAssumption
<1> QED BY <1>1, DivFacts

\* The width of a byte is at most Bits.
LEMMA WidthIsBounded ==
    ASSUME NEW n \in Int, NEW i \in 0 .. 4
    PROVE  /\ Width(n, i) \in 0 .. Bits
           /\ n <= 0 => Width(n, i) = 0
           /\ n >= 5 * Bits => Width(n, i) = Bits
<1>1. Bits \in Nat \ {0}
    BY FrameAssumption
<1>2. i \in {0, 1, 2, 3, 4}
    OBVIOUS
<1> QED BY <1>1, <1>2 DEF Width

\* One more bit widens the byte it belongs to, and no other.
LEMMA WidthGrows ==
    ASSUME NEW n \in Nat, NEW i \in 0 .. 4
    PROVE  /\ i = n \div Bits => /\ Width(n, i) = n % Bits
                                /\ Width(n + 1, i) = Width(n, i) + 1
           /\ i # n \div Bits => Width(n + 1, i) = Width(n, i)
<1> DEFINE j == n \div Bits
           r == n % Bits
<1>1. Bits \in Nat \ {0} /\ j \in Nat /\ r \in 0 .. Bits - 1 /\ n = j * Bits + r
    BY FrameAssumption, Place
<1> HIDE DEF j, r
<1>2. i \in {0, 1, 2, 3, 4}
    OBVIOUS
<1>3. CASE i = j
    BY <1>1, <1>2, <1>3 DEF Width
<1>4. CASE i < j
    <2>1. i * Bits + Bits <= j * Bits
        BY <1>1, <1>4, Grows
    <2> QED BY <1>1, <1>2, <1>4, <2>1 DEF Width
<1>5. CASE j < i
    <2>1. j * Bits + Bits <= i * Bits
        BY <1>1, <1>5, Grows
    <2> QED BY <1>1, <1>2, <1>5, <2>1 DEF Width
<1> QED BY <1>1, <1>3, <1>4, <1>5 DEF j, r

\* Beyond the frame there is no byte.
LEMMA BeyondTheFrame ==
    ASSUME NEW n \in Nat
    PROVE  /\ n \div Bits \in 0 .. 4 <=> n < FrameBits
           /\ n >= FrameBits - 1 => n \div Bits \notin 0 .. 3
<1> DEFINE j == n \div Bits
           r == n % Bits
<1>1. Bits \in Nat \ {0} /\ j \in Nat /\ r \in 0 .. Bits - 1 /\ n = j * Bits + r
    BY FrameAssumption, Place
<1> HIDE DEF j, r
<1>2. CASE j \in 0 .. 3
    <2>1. j \in {0, 1, 2, 3}
        BY <1>2
    <2> QED BY <1>1, <2>1 DEF FrameBits, j
<1>3. CASE j = 4
    BY <1>1, <1>3 DEF FrameBits, j
<1>4. CASE 4 < j
    <2>1. 4 * Bits + Bits <= j * Bits
        BY <1>1, <1>4, Grows
    <2> QED BY <1>1, <1>4, <2>1 DEF FrameBits, j
<1> QED BY <1>1, <1>2, <1>3, <1>4

\* A byte that is shifted to the left has one bit more.
LEMMA ShiftedIsWider ==
    ASSUME NEW w \in Nat, NEW byte \in Nat, byte < TwoTo[w], NEW bit \in {0, 1}
    PROVE  ShiftIn(byte, bit) \in Nat /\ ShiftIn(byte, bit) < TwoTo[w + 1]
<1>1. TwoTo[w] \in Nat /\ TwoTo[w + 1] = 2 * TwoTo[w]
    BY PowersOfTwo
<1> QED BY <1>1 DEF ShiftIn

\* If it held the upper bits of x, and the next bit of x is shifted in, it does again.
LEMMA ShiftedIsFaithful ==
    ASSUME NEW x \in Nat, NEW w \in 0 .. Bits - 1
    PROVE  ShiftIn(x \div TwoTo[Bits - w], (x \div TwoTo[Bits - 1 - w]) % 2)
             = x \div TwoTo[Bits - (w + 1)]
<1> DEFINE k == Bits - 1 - w
           d == TwoTo[k]
<1>1. k \in Nat /\ Bits - w = k + 1 /\ Bits - (w + 1) = k
    BY FrameAssumption
<1> HIDE DEF k
<1>2. d \in Nat \ {0} /\ TwoTo[k + 1] = 2 * d
    BY <1>1, PowersOfTwo
<1> HIDE DEF d
<1>3. x \div d = 2 * (x \div (2 * d)) + ((x \div d) % 2)
    BY <1>2, Halves
<1>4. ShiftIn(x \div TwoTo[k + 1], (x \div d) % 2) = x \div d
    BY <1>2, <1>3 DEF ShiftIn
<1> QED BY <1>1, <1>4 DEF d, k

-----------------------------------------------------------------------------
(* Frames and the edges they make. *)

\* A frame is five bytes, the last the sum of the others.
LEMMA FrameIsBytes ==
    ASSUME NEW payload \in Payloads
    PROVE  /\ Frame(payload) \in [0 .. 4 -> Byte]
           /\ Frame(payload)[4] = Checksum(Frame(payload))
           /\ \A i \in 0 .. 4 : Frame(payload)[i] \in Nat /\ Frame(payload)[i] < TwoTo[Bits]
<1> DEFINE f == Frame(payload)
<1>1. payload \in [0 .. 3 -> Byte]
    BY DEF Payloads
<1>2. TwoTo[Bits] \in Nat \ {0}
    BY FrameAssumption, PowersOfTwo
<1>3. \A b \in Byte : b \in Nat /\ b < TwoTo[Bits]
    BY <1>2 DEF Byte
<1>4. Checksum(payload) \in Byte
    <2>1. payload[0] + payload[1] + payload[2] + payload[3] \in Nat
        <3>1. /\ payload[0] \in Byte /\ payload[1] \in Byte
              /\ payload[2] \in Byte /\ payload[3] \in Byte
            BY <1>1
        <3> QED BY <1>3, <3>1
    <2> QED BY <1>2, <2>1 DEF Checksum, Byte
<1>5. f \in [0 .. 4 -> Byte]
    BY <1>1, <1>4 DEF Frame
<1>6. /\ f[0] = payload[0] /\ f[1] = payload[1] /\ f[2] = payload[2] /\ f[3] = payload[3]
      /\ f[4] = Checksum(payload)
    BY DEF Frame
<1>7. f[4] = Checksum(f)
    BY <1>6 DEF Checksum
<1> HIDE DEF f
<1>8. \A i \in 0 .. 4 : f[i] \in Nat /\ f[i] < TwoTo[Bits]
    BY <1>3, <1>5
<1> QED BY <1>5, <1>7, <1>8 DEF f

\* A bit is 0 or 1.
LEMMA BitIsBit ==
    ASSUME NEW payload \in Payloads, NEW k \in 0 .. FrameBits - 1
    PROVE  BitOf(Frame(payload), k) \in {0, 1}
<1> DEFINE f == Frame(payload)
           i == k \div Bits
           d == TwoTo[Bits - 1 - (k % Bits)]
<1>1. i \in 0 .. 4
    BY FrameAssumption, BeyondTheFrame DEF FrameBits
<1>2. f[i] \in Nat
    <2> HIDE DEF i
    <2> QED BY <1>1, FrameIsBytes
<1>3. d \in Nat \ {0}
    <2>1. k \in Nat /\ Bits - 1 - (k % Bits) \in Nat
        BY FrameAssumption, Place DEF FrameBits
    <2> QED BY <2>1, PowersOfTwo
<1> HIDE DEF f, i, d
<1>4. f[i] \div d \in Nat
    BY <1>2, <1>3, DivFacts
<1>5. (f[i] \div d) % 2 \in {0, 1}
    BY <1>4
<1> QED BY <1>5 DEF BitOf, f, i, d

\* The sign is the first bit of the third byte.
LEMMA SignBit ==
    ASSUME NEW f
    PROVE  BitOf(f, 2 * Bits) = (f[2] \div TwoTo[Bits - 1]) % 2
<1>0. Bits \in Nat \ {0}
    BY FrameAssumption
<1>1. (2 * Bits) \div Bits = 2
    BY <1>0, DivUnique
<1>2. (2 * Bits) % Bits = 0
    <2> DEFINE n == 2 * Bits
    <2>1. n \in Nat /\ n = (n \div Bits) * Bits + (n % Bits) /\ n % Bits \in 0 .. Bits - 1
        BY <1>0, Place
    <2>2. n = 2 * Bits + (n % Bits)
        BY <1>1, <2>1
    <2> QED BY <1>0, <2>1, <2>2
<1>3. Bits - 1 - 0 = Bits - 1
    BY <1>0
<1> QED BY <1>1, <1>2, <1>3 DEF BitOf

\* The payloads of an instance are payloads.
LEMMA FrameFacts ==
    ASSUME NEW payload \in Measured
    PROVE  /\ Frame(payload)[4] = Checksum(Frame(payload))
           /\ \A i \in 0 .. 4 : Frame(payload)[i] \in Nat /\ Frame(payload)[i] < TwoTo[Bits]
           /\ \A k \in 0 .. FrameBits - 1 : BitOf(Frame(payload), k) \in {0, 1}
    BY PigpioAssumption, FrameIsBytes, BitIsBit

\* Two sequences, one after the other.
LEMMA Joined ==
    ASSUME NEW S, NEW s \in Seq(S), NEW t \in Seq(S)
    PROVE  /\ s \o t \in Seq(S)
           /\ Len(s \o t) = Len(s) + Len(t)
           /\ \A k \in 1 .. Len(s) : (s \o t)[k] = s[k]
           /\ \A k \in 1 .. Len(t) : (s \o t)[Len(s) + k] = t[k]
    OBVIOUS

\* Three edges and a frame.
LEMMA EdgesFacts ==
    ASSUME NEW payload \in Measured, NEW s, s = EdgesOf(Frame(payload))
    PROVE  /\ s \in Seq({0, 1})
           /\ Len(s) = FrameBits + 3
           /\ \A k \in 1 .. FrameBits : s[k + 3] = BitOf(Frame(payload), k - 1)
<1> DEFINE f   == Frame(payload)
           fe  == FrameEdges(f)
           all == Lead \o fe
<1>1. FrameBits \in Nat \ {0}
    BY FrameAssumption DEF FrameBits
<1>2. fe \in Seq({0, 1}) /\ Len(fe) = FrameBits /\ \A k \in 1 .. FrameBits : fe[k] = BitOf(f, k - 1)
    <2>1. \A k \in 1 .. FrameBits : BitOf(f, k - 1) \in {0, 1}
        <3> TAKE k \in 1 .. FrameBits
        <3>1. k - 1 \in 0 .. FrameBits - 1
            BY <1>1
        <3> QED BY <3>1, FrameFacts
    <2> HIDE DEF f
    <2> QED BY <1>1, <2>1 DEF FrameEdges
<1>3. Lead \in Seq({0, 1}) /\ Len(Lead) = 3
    BY DEF Lead
<1> HIDE DEF f, fe
<1>4. /\ all \in Seq({0, 1})
      /\ Len(all) = FrameBits + 3
      /\ \A k \in 1 .. FrameBits : all[k + 3] = BitOf(f, k - 1)
    <2> DEFINE B == {0, 1}
    <2>1. Lead \in Seq(B) /\ fe \in Seq(B)
        BY <1>2, <1>3
    <2> HIDE DEF B
    <2>2. /\ all \in Seq(B)
          /\ Len(all) = 3 + FrameBits
          /\ \A k \in 1 .. FrameBits : all[3 + k] = fe[k]
        <3>1. /\ all \in Seq(B)
              /\ Len(all) = Len(Lead) + Len(fe)
              /\ \A k \in 1 .. Len(fe) : all[Len(Lead) + k] = fe[k]
            BY <2>1, Joined
        <3> HIDE DEF all
        <3> QED BY <1>2, <1>3, <3>1
    <2> HIDE DEF all
    <2>3. all \in Seq({0, 1})
        BY <2>2 DEF B
    <2>4. Len(all) = FrameBits + 3
        BY <1>1, <2>2
    <2>5. ASSUME NEW k \in 1 .. FrameBits
          PROVE  all[k + 3] = BitOf(f, k - 1)
        <3>1. 3 + k = k + 3
            BY <1>1
        <3>2. all[3 + k] = fe[k] /\ fe[k] = BitOf(f, k - 1)
            BY <1>2, <2>2
        <3> QED BY <3>1, <3>2
    <2> QED BY <2>3, <2>4, <2>5
<1> HIDE DEF all
<1>5. s = all
    BY DEF EdgesOf, all, fe, f
<1> QED BY <1>4, <1>5 DEF f

-----------------------------------------------------------------------------
(* Types. *)

\* A short pulse makes one edge more, and an edge that is not seen one less.
LEMMA WireFacts ==
    ASSUME TypeInv, Wire
    PROVE  /\ edges' \in Seq({0, 1})
           /\ \/ Noise /\ Len(edges') = Len(edges) + 1
              \/ (Lose \/ BreakOff) /\ Len(edges') < Len(edges)
           /\ noise' \in 0 .. MaxNoise /\ lost' \in 0 .. MaxLost
           /\ trouble' \subseteq Troubles
<1> DEFINE B == {0, 1}
<1>0. edges \in Seq(B) /\ noise \in 0 .. MaxNoise /\ lost \in 0 .. MaxLost /\ trouble \subseteq Troubles
      /\ MaxNoise \in Nat /\ MaxLost \in Nat
    BY PigpioAssumption DEF TypeInv
<1>1. CASE Noise
    <2>1. edges' \in Seq(B) /\ Len(edges') = Len(edges) + 1
        <3>1. CASE \E bit \in {0, 1} : edges' = Append(edges, bit)
            BY <1>0, <3>1
        <3>2. ASSUME edges # <<>>, NEW x \in {0, 1}, NEW y \in {0, 1}, edges' = <<x, y>> \o Tail(edges)
              PROVE  edges' \in Seq(B) /\ Len(edges') = Len(edges) + 1
            <4> DEFINE m == <<x, y>>
                       r == Tail(edges)
            <4>1. m \in Seq(B) /\ Len(m) = 2 /\ r \in Seq(B) /\ Len(r) = Len(edges) - 1
                  /\ Len(edges) \in Nat
                BY <1>0, <3>2
            <4>2. edges' = m \o r
                BY <3>2
            <4> HIDE DEF B, m, r
            <4>3. m \o r \in Seq(B) /\ Len(m \o r) = Len(m) + Len(r)
                BY <4>1, Joined
            <4> QED BY <4>1, <4>2, <4>3
        <3> QED BY <1>1, <3>1, <3>2 DEF Noise
    <2>2. noise' \in 0 .. MaxNoise /\ lost' = lost
        BY <1>0, <1>1 DEF Noise
    <2>3. trouble' \subseteq Troubles
        BY <1>0, <1>1 DEF Noise, GoesWrong, Troubles
    <2> QED BY <1>0, <1>1, <2>1, <2>2, <2>3
<1>2. CASE Lose
    <2>1. edges' \in Seq(B) /\ Len(edges') < Len(edges)
        <3>1. CASE Len(edges) = 1
            BY <1>0, <1>2, <3>1 DEF Lose
        <3>2. CASE Len(edges) # 1
            <4> DEFINE m == <<1>>
                       q == Tail(edges)
                       r == Tail(q)
            <4>1. m \in Seq(B) /\ Len(m) = 1
                OBVIOUS
            <4>2. edges' = m \o r
                BY <1>2, <3>2 DEF Lose
            <4>3. Len(edges) \in Nat /\ Len(edges) >= 2 /\ edges # <<>>
                BY <1>0, <1>2, <3>2 DEF Lose
            <4>4. q \in Seq(B) /\ Len(q) = Len(edges) - 1
                BY <1>0, <4>3
            <4> HIDE DEF B, m, q
            <4>5. q # <<>>
                BY <4>3, <4>4
            <4>6. r \in Seq(B) /\ Len(r) = Len(q) - 1
                BY <4>4, <4>5
            <4> HIDE DEF r
            <4>7. m \o r \in Seq(B) /\ Len(m \o r) = Len(m) + Len(r)
                BY <4>1, <4>6, Joined
            <4> QED BY <4>1, <4>2, <4>3, <4>4, <4>6, <4>7
        <3> QED BY <3>1, <3>2
    <2>2. lost' \in 0 .. MaxLost /\ noise' = noise
        BY <1>0, <1>2 DEF Lose
    <2>3. trouble' \subseteq Troubles
        BY <1>0, <1>2 DEF Lose, GoesWrong, Troubles
    <2> QED BY <1>0, <1>2, <2>1, <2>2, <2>3
<1>3. CASE BreakOff
    <2>1. edges' \in Seq(B) /\ Len(edges') < Len(edges)
        BY <1>0, <1>3 DEF BreakOff
    <2>2. trouble' \subseteq Troubles /\ lost' = lost /\ noise' = noise
        BY <1>0, <1>3 DEF BreakOff, GoesWrong, Troubles
    <2> QED BY <1>0, <1>3, <2>1, <2>2
<1> QED BY <1>1, <1>2, <1>3 DEF Wire

\* The values of five bytes are numbers.
LEMMA ValuesAreNumbers ==
    ASSUME NEW bytes \in [0 .. 4 -> Nat]
    PROVE  Values(bytes) \in Int \X Int
<1> DEFINE h == TwoTo[Bits - 1]
           m == TwoTo[Bits]
<1>1. h \in Nat \ {0} /\ m \in Nat
    <2>1. Bits \in Nat /\ Bits - 1 \in Nat
        BY FrameAssumption
    <2> QED BY <2>1, PowersOfTwo
<1>2. bytes[0] \in Nat /\ bytes[1] \in Nat /\ bytes[2] \in Nat /\ bytes[3] \in Nat
    <2>1. 0 \in 0 .. 4 /\ 1 \in 0 .. 4 /\ 2 \in 0 .. 4 /\ 3 \in 0 .. 4
        OBVIOUS
    <2> QED BY <2>1
<1> HIDE DEF h, m
<1>3. bytes[2] % h \in Nat
    BY <1>1, <1>2
<1>4. \A a, b \in Nat : a * m + b \in Int
    BY <1>1
<1>5. (bytes[2] % h) * m + bytes[3] \in Int /\ bytes[0] * m + bytes[1] \in Int
    BY <1>2, <1>3, <1>4
<1> DEFINE c == (bytes[2] % h) * m + bytes[3]
           d == bytes[0] * m + bytes[1]
<1>6. Values(bytes) = IF device = "DHT11"
                        THEN <<10 * bytes[0] + bytes[1], 10 * bytes[2] + bytes[3]>>
                        ELSE <<d, IF (bytes[2] \div h) % 2 = 1 THEN -c ELSE c>>
    BY DEF Values, h, m
<1> HIDE DEF c, d
<1> QED BY <1>2, <1>5, <1>6 DEF c, d

\* A record is not Idle.
LEMMA BusyIsNotIdle ==
    \A step, count, bit : [step |-> step, count |-> count, bit |-> bit] # Idle
    BY DEF Idle

\* Every step keeps the types.
LEMMA TypeStep ==
    ASSUME TypeInv, [Next]_vars
    PROVE  TypeInv'
<1> USE DEF TypeInv
<1>1. CASE UNCHANGED vars
    BY <1>1 DEF vars
<1>2. CASE ResetCount /\ UNCHANGED device
    BY <1>2 DEF ResetCount, Quiet, Troubles
<1>3. CASE ZeroData /\ UNCHANGED device
    BY <1>3 DEF ZeroData, Quiet
<1>4. CASE SendSignal /\ UNCHANGED device
    <2>0. PICK payload \in Measured :
            sent' = Frame(payload) /\ edges' = edges \o EdgesOf(sent')
        BY <1>4 DEF SendSignal
    <2> DEFINE s == EdgesOf(Frame(payload))
    <2>1. s \in Seq({0, 1})
        BY EdgesFacts
    <2>2. edges' = edges \o s
        BY <2>0
    <2> HIDE DEF s
    <2>3. edges' \in Seq({0, 1})
        BY <2>1, <2>2
    <2> QED BY <1>4, <2>0, <2>3 DEF SendSignal
<1>5. CASE (CheckCount \/ CheckSum \/ PrintValues \/ NextAttempt) /\ UNCHANGED device
    <2>1. printed' \in {printed, Values(data)}
        BY <1>5 DEF CheckCount, CheckSum, PrintValues, NextAttempt, DataInvalid
    <2>2. Values(data) \in Int \X Int
        BY ValuesAreNumbers
    <2>3. trouble' \subseteq Troubles
        BY <1>5 DEF CheckCount, CheckSum, PrintValues, NextAttempt, Troubles
    <2>4. UNCHANGED <<device, loopFlag, bitCount, data, cb, edges, sent, noise, lost, raced>>
        BY <1>5 DEF CheckCount, CheckSum, PrintValues, NextAttempt, world
    <2>5. /\ pc' \in {"sum", "print", "sleep", "reset", "done"}
          /\ tries' \in 0 .. 3
          /\ pc' \notin {"sleep", "done"} /\ ~loopFlag => tries' # 0
        <3>1. CASE CheckCount
            BY <3>1 DEF CheckCount, DataInvalid
        <3>2. CASE CheckSum
            BY <3>2 DEF CheckSum, DataInvalid
        <3>3. CASE PrintValues
            BY <3>3 DEF PrintValues
        <3>4. CASE NextAttempt
            BY <3>4 DEF NextAttempt
        <3> QED BY <1>5, <3>1, <3>2, <3>3, <3>4
    <2>6. printed' = None \/ printed' \in Int \X Int
        BY <2>1, <2>2
    <2> HIDE DEF Troubles
    <2> QED BY <2>3, <2>4, <2>5, <2>6
<1>6. CASE LoadCount /\ UNCHANGED device
    <2>1. Head(edges) \in {0, 1} /\ Tail(edges) \in Seq({0, 1})
        BY <1>6 DEF LoadCount
    <2> QED BY <1>6, <2>1 DEF LoadCount
<1>7. CASE StoreCount /\ UNCHANGED device
    BY <1>7 DEF StoreCount, world
<1>8. CASE ShiftData /\ UNCHANGED device
    <2>1. cb.bit \in {0, 1}
        BY <1>8 DEF ShiftData
    <2>2. PICK count \in {cb.count, bitCount} :
            \/ /\ Index(count) \in DOMAIN data
               /\ data' = [data EXCEPT ![Index(count)] = ShiftIn(@, cb.bit)] /\ UNCHANGED bitCount
            \/ bitCount' \in {bitCount, ShiftIn(bitCount, cb.bit)} /\ UNCHANGED data
        BY <1>8 DEF ShiftData
    <2>3. \A n \in Nat : ShiftIn(n, cb.bit) \in Nat
        BY <2>1 DEF ShiftIn
    <2>4. \A n \in Int : ShiftIn(n, cb.bit) \in Int
        BY <2>1 DEF ShiftIn
    <2>5. data' \in [0 .. 4 -> Nat]
        <3>1. CASE UNCHANGED data
            BY <3>1
        <3>2. ASSUME NEW i \in 0 .. 4, data' = [data EXCEPT ![i] = ShiftIn(@, cb.bit)]
              PROVE  data' \in [0 .. 4 -> Nat]
            <4>1. data \in [0 .. 4 -> Nat] /\ ShiftIn(data[i], cb.bit) \in Nat
                BY <2>3
            <4> QED BY <3>2, <4>1
        <3>3. DOMAIN data = 0 .. 4
            OBVIOUS
        <3> QED BY <2>2, <3>1, <3>2, <3>3
    <2>6. bitCount' \in Int
        BY <2>2, <2>4
    <2> QED BY <1>8, <2>5, <2>6 DEF ShiftData, world
<1>9. CASE Wire /\ UNCHANGED device
    <2>1. UNCHANGED <<pc, device, loopFlag, tries, bitCount, data, cb, sent, raced, printed>>
        BY <1>9 DEF Wire, Noise, Lose, BreakOff
    <2> QED BY <1>9, <2>1, WireFacts
<1> QED BY <1>1, <1>2, <1>3, <1>4, <1>5, <1>6, <1>7, <1>8, <1>9 DEF Next, Main, Callback

-----------------------------------------------------------------------------
(* The callback, in an attempt that was set up undisturbed. *)

\* A bit is shifted into the byte it belongs to, or beyond the frame.
LEMMA ShiftFacts ==
    ASSUME TypeInv, CountInv, ShiftData, NEW n, n = bitCount - 1
    PROVE  /\ n \in Nat /\ bitCount = n + 1 /\ cb # Idle /\ cb.step = "shift" /\ cb' = Idle
           /\ cb.count = bitCount /\ cb.bit \in {0, 1}
           /\ \/ /\ n \div Bits \in 0 .. 4
                 /\ data' = [data EXCEPT ![n \div Bits] = ShiftIn(data[n \div Bits], cb.bit)]
                 /\ bitCount' = bitCount
              \/ /\ n >= FrameBits
                 /\ data' = data
                 /\ bitCount' >= bitCount /\ bitCount' \in Int
<1>1. /\ n \in Nat /\ bitCount = n + 1 /\ cb # Idle /\ cb.step = "shift" /\ cb' = Idle
      /\ cb.count = bitCount /\ cb.bit \in {0, 1}
    BY DEF TypeInv, CountInv, Counting, ShiftData
<1>2. Index(bitCount) = n \div Bits
    BY <1>1 DEF Index
<1>4. DOMAIN data = 0 .. 4
    BY DEF TypeInv
<1>3. IF n \div Bits \in DOMAIN data
        THEN data' = [data EXCEPT ![n \div Bits] = ShiftIn(@, cb.bit)] /\ UNCHANGED bitCount
        ELSE bitCount' \in {bitCount, ShiftIn(bitCount, cb.bit)} /\ UNCHANGED data
    BY <1>1, <1>2, <1>4 DEF ShiftData
<1>5. n \div Bits \notin 0 .. 4 => n >= FrameBits
    BY <1>1, BeyondTheFrame, FrameAssumption DEF FrameBits
<1>6. ShiftIn(bitCount, cb.bit) \in Int /\ ShiftIn(bitCount, cb.bit) >= bitCount
    BY <1>1 DEF ShiftIn
<1> QED BY <1>1, <1>3, <1>4, <1>5, <1>6

\* The callback keeps the count.
LEMMA CountStep ==
    ASSUME TypeInv, CountInv, Callback, UNCHANGED pc
    PROVE  /\ CountInv'
           /\ bitCount' >= bitCount /\ Shifted' >= Shifted
           /\ \/ Total' = Total
              \/ bitCount > FrameBits /\ Total' >= Total
<1> USE DEF TypeInv
<1>1. CASE LoadCount
    <2>1. /\ cb = Idle /\ cb' # Idle /\ cb'.step = "store" /\ cb'.count = bitCount + 1
          /\ UNCHANGED <<bitCount, data>>
          /\ Len(edges') = Len(edges) - 1 /\ Len(edges) \in Nat
        BY <1>1, BusyIsNotIdle DEF LoadCount
    <2>2. Counting = 0 /\ Counting' = 1 /\ Shifted' = Shifted
        BY <2>1 DEF Counting, Shifted
    <2>3. Total' = Total
        BY <2>1, <2>2 DEF Total
    <2>4. CountInv'
        BY <2>1, <2>2 DEF CountInv
    <2>5. Shifted' >= Shifted
        BY <2>2 DEF Shifted
    <2> QED BY <2>1, <2>3, <2>4, <2>5
<1>2. CASE StoreCount
    <2>1. /\ cb # Idle /\ cb.step = "store" /\ bitCount' = bitCount + 1 /\ Counting = 1
          /\ UNCHANGED <<data, edges>> /\ Shifted = bitCount
        BY <1>2 DEF StoreCount, CountInv, Counting, Shifted, world
    <2>2. CASE bitCount + 1 > 0
        <3>1. cb' = [cb EXCEPT !.step = "shift"] /\ cb.count = bitCount + 1
            BY <1>2, <2>1, <2>2 DEF StoreCount, IsData, CountInv
        <3>2. cb' # Idle /\ cb'.step = "shift" /\ cb'.count = bitCount + 1
            <4>1. cb \in [step : {"store", "shift"}, count : Int, bit : {0, 1}]
                BY <2>1
            <4>2. cb' = [step |-> "shift", count |-> cb.count, bit |-> cb.bit]
                BY <3>1, <4>1
            <4> QED BY <3>1, <4>2, BusyIsNotIdle
        <3>3. Counting' = 0 /\ Shifted' = Shifted
            BY <2>1, <3>2 DEF Counting, Shifted
        <3>4. CountInv'
            BY <2>1, <2>2, <3>2, <3>3 DEF CountInv
        <3>5. Shifted' >= Shifted
            BY <2>1, <3>3
        <3> QED BY <2>1, <3>3, <3>4, <3>5 DEF Total
    <2>3. CASE ~ (bitCount + 1 > 0)
        <3>1. cb' = Idle
            BY <1>2, <2>1, <2>3 DEF StoreCount, IsData, CountInv
        <3>2. Counting' = 0 /\ Shifted' = bitCount + 1
            BY <2>1, <3>1 DEF Counting, Shifted
        <3>3. \A i \in 0 .. 4 : Width(Shifted, i) = 0 /\ Width(Shifted', i) = 0
            <4>1. bitCount \in Int /\ bitCount + 1 \in Int /\ bitCount <= 0 /\ bitCount + 1 <= 0
                BY <2>3
            <4>2. \A i \in 0 .. 4 : Width(bitCount, i) = 0 /\ Width(bitCount + 1, i) = 0
                BY <4>1, WidthIsBounded
            <4> QED BY <2>1, <3>2, <4>2
        <3>4. CountInv'
            BY <2>1, <3>1, <3>2, <3>3 DEF CountInv
        <3> QED BY <2>1, <3>2, <3>4 DEF Total
    <2> QED BY <2>2, <2>3
<1>3. CASE ShiftData
    <2> DEFINE n == bitCount - 1
               j == n \div Bits
    <2>1. /\ n \in Nat /\ bitCount = n + 1 /\ cb # Idle /\ cb.step = "shift" /\ cb' = Idle
          /\ cb.bit \in {0, 1}
          /\ \/ /\ j \in 0 .. 4
                /\ data' = [data EXCEPT ![j] = ShiftIn(data[j], cb.bit)]
                /\ bitCount' = bitCount
             \/ /\ n >= FrameBits
                /\ data' = data
                /\ bitCount' >= bitCount /\ bitCount' \in Int
        BY <1>3, ShiftFacts
    <2> HIDE DEF n
    <2>2. /\ Shifted = n /\ Counting = 0 /\ Shifted' = bitCount' /\ Counting' = 0
          /\ UNCHANGED edges /\ Len(edges) \in Nat
        BY <1>3, <2>1 DEF Shifted, Counting, ShiftData, world
    <2>3. CASE j \in 0 .. 4 /\ bitCount' = bitCount /\ data' = [data EXCEPT ![j] = ShiftIn(data[j], cb.bit)]
        <3>1. Shifted' = n + 1
            BY <2>1, <2>2, <2>3
        <3> HIDE DEF j
        <3>2. ASSUME NEW i \in 0 .. 4, pc # "zero"
              PROVE  data'[i] < TwoTo[Width(n + 1, i)]
            <4>1. data[i] < TwoTo[Width(n, i)] /\ data[i] \in Nat
                BY <2>2, <3>2 DEF CountInv
            <4>2. CASE i = j
                <5>1. Width(n + 1, i) = Width(n, i) + 1 /\ Width(n, i) \in Nat
                    <6>1. Width(n, i) \in 0 .. Bits
                        <7>1. n \in Int
                            BY <2>1
                        <7> QED BY <7>1, WidthIsBounded
                    <6>2. Width(n + 1, i) = Width(n, i) + 1
                        BY <2>1, <4>2, WidthGrows DEF j
                    <6> QED BY <6>1, <6>2, FrameAssumption
                <5>2. data'[i] = ShiftIn(data[i], cb.bit)
                    BY <2>3, <4>2
                <5> QED BY <2>1, <4>1, <5>1, <5>2, ShiftedIsWider
            <4>3. CASE i # j
                <5>1. Width(n + 1, i) = Width(n, i)
                    BY <2>1, <4>3, WidthGrows DEF j
                <5>2. data'[i] = data[i]
                    BY <2>3, <4>3
                <5> QED BY <4>1, <5>1, <5>2
            <4> QED BY <4>2, <4>3
        <3>3. CountInv'
            BY <2>1, <2>3, <3>1, <3>2 DEF CountInv
        <3>4. Shifted' >= Shifted
            BY <2>1, <2>2, <3>1
        <3> QED BY <2>2, <2>3, <3>3, <3>4 DEF Total
    <2>4. CASE n >= FrameBits /\ data' = data /\ bitCount' >= bitCount /\ bitCount' \in Int
        <3>1. \A i \in 0 .. 4 : Width(Shifted, i) = Bits /\ Width(Shifted', i) = Bits
            <4>1. n \in Int /\ n >= 5 * Bits /\ bitCount' \in Int /\ bitCount' >= 5 * Bits
                BY <2>1, <2>4, FrameAssumption DEF FrameBits
            <4>2. \A i \in 0 .. 4 : Width(n, i) = Bits /\ Width(bitCount', i) = Bits
                BY <4>1, WidthIsBounded
            <4> QED BY <2>2, <4>2
        <3>2. CountInv'
            BY <2>1, <2>2, <2>4, <3>1 DEF CountInv
        <3>3. bitCount > FrameBits /\ Total' >= Total
            BY <2>1, <2>2, <2>4, FrameAssumption DEF Total, FrameBits
        <3>4. Shifted' >= Shifted
            BY <2>1, <2>2, <2>4
        <3> QED BY <2>4, <3>2, <3>3, <3>4
    <2> QED BY <2>1, <2>3, <2>4
<1> QED BY <1>1, <1>2, <1>3 DEF Callback

\* What is still to come, and what is in data, stay the bits of the frame.
LEMMA FaithfulStep ==
    ASSUME TypeInv, CountInv, Callback, UNCHANGED sent, NEW payload \in Measured,
           sent = Frame(payload), Total = FrameBits, Faithful
    PROVE  Faithful'
<1> USE DEF TypeInv
<1>0. FrameBits \in Nat /\ Bits \in Nat \ {0} /\ Len(edges) \in Nat
    BY FrameAssumption DEF FrameBits
<1>1. CASE LoadCount
    <2>1. /\ cb = Idle /\ cb' = [step |-> "store", count |-> bitCount + 1, bit |-> Head(edges)]
          /\ cb' # Idle /\ UNCHANGED <<bitCount, data>>
          /\ edges # <<>> /\ edges' = Tail(edges)
        BY <1>1, BusyIsNotIdle DEF LoadCount
    <2>2. Counting = 0 /\ Counting' = 1 /\ Shifted = bitCount /\ Shifted' = bitCount
        BY <2>1 DEF Counting, Shifted
    <2>3. /\ edges \in Seq({0, 1}) /\ Len(edges') = Len(edges) - 1 /\ Head(edges) = edges[1]
          /\ \A k \in 1 .. Len(edges) - 1 : edges'[k] = edges[k + 1]
        <3>1. edges \in Seq({0, 1})
            OBVIOUS
        <3> HIDE DEF TypeInv
        <3> QED BY <2>1, <3>1
    <2>4. ASSUME NEW k \in 1 .. Len(edges'), bitCount + 1 + k > 0
          PROVE  edges'[k] = BitOf(sent, bitCount + 1 + k - 1)
        <3>1. k + 1 \in 1 .. Len(edges) /\ edges'[k] = edges[k + 1]
            <4> HIDE DEF TypeInv
            <4>1. k \in 1 .. Len(edges) - 1
                BY <2>3
            <4>2. k + 1 \in 1 .. Len(edges)
                BY <1>0, <4>1
            <4> QED BY <2>3, <4>1, <4>2
        <3>2. edges[k + 1] = BitOf(sent, bitCount + 0 + (k + 1) - 1)
            BY <2>2, <2>4, <3>1 DEF Faithful
        <3>3. bitCount + 0 + (k + 1) - 1 = bitCount + 1 + k - 1
            <4>1. k \in Int /\ bitCount \in Int
                BY <3>1
            <4> QED BY <4>1, SMT
        <3> QED BY <3>1, <3>2, <3>3
    <2>5. bitCount + 1 > 0 => edges[1] = BitOf(sent, bitCount)
        <3>1. 1 \in 1 .. Len(edges)
            BY <2>1, <2>3
        <3>2. bitCount + 0 + 1 > 0 => edges[1] = BitOf(sent, bitCount + 0 + 1 - 1)
            BY <2>2, <3>1 DEF Faithful
        <3>3. bitCount + 0 + 1 - 1 = bitCount /\ bitCount + 0 + 1 = bitCount + 1
            OBVIOUS
        <3> QED BY <3>2, <3>3
    <2>6. cb'.count = bitCount + 1 /\ cb'.bit = edges[1] /\ bitCount + 1 - 1 = bitCount
        BY <2>1, <2>3
    <2> QED BY <2>1, <2>2, <2>4, <2>5, <2>6 DEF Faithful
<1>2. CASE StoreCount
    <2>1. /\ cb # Idle /\ cb.step = "store" /\ bitCount' = bitCount + 1 /\ Counting = 1
          /\ cb.count = bitCount + 1
          /\ UNCHANGED <<data, edges>> /\ Shifted = bitCount
        BY <1>2 DEF StoreCount, CountInv, Counting, Shifted, world
    <2>2. CASE bitCount + 1 > 0
        <3>1. cb' = [cb EXCEPT !.step = "shift"] /\ cb \in [step : {"store", "shift"}, count : Int, bit : {0, 1}]
            BY <1>2, <2>1, <2>2 DEF StoreCount, IsData
        <3>2. cb' # Idle /\ cb'.step = "shift" /\ cb'.count = cb.count /\ cb'.bit = cb.bit
            <4>1. cb' = [step |-> "shift", count |-> cb.count, bit |-> cb.bit]
                BY <3>1
            <4> QED BY <3>1, <4>1, BusyIsNotIdle
        <3>3. Counting' = 0 /\ Shifted' = Shifted
            BY <2>1, <3>2 DEF Counting, Shifted
        <3>4. bitCount' + Counting' = bitCount + Counting
            BY <2>1, <3>3
        <3> QED BY <2>1, <3>2, <3>3, <3>4 DEF Faithful
    <2>3. CASE ~ (bitCount + 1 > 0)
        <3>1. cb' = Idle
            BY <1>2, <2>1, <2>3 DEF StoreCount, IsData
        <3>2. Counting' = 0 /\ Shifted' = bitCount + 1
            BY <2>1, <3>1 DEF Counting, Shifted
        <3>3. \A i \in 0 .. 4 : Width(Shifted, i) = 0 /\ Width(Shifted', i) = 0
            <4>1. bitCount \in Int /\ bitCount + 1 \in Int /\ bitCount <= 0 /\ bitCount + 1 <= 0
                BY <2>3
            <4>2. \A i \in 0 .. 4 : Width(bitCount, i) = 0 /\ Width(bitCount + 1, i) = 0
                BY <4>1, WidthIsBounded
            <4> QED BY <2>1, <3>2, <4>2
        <3>4. bitCount' + Counting' = bitCount + Counting
            BY <2>1, <3>2
        <3> QED BY <2>1, <3>1, <3>3, <3>4 DEF Faithful
    <2> QED BY <2>2, <2>3
<1>3. CASE ShiftData
    <2> DEFINE n == bitCount - 1
               j == n \div Bits
    <2>1. /\ n \in Nat /\ bitCount = n + 1 /\ cb # Idle /\ cb.step = "shift" /\ cb' = Idle
          /\ cb.count = bitCount /\ cb.bit \in {0, 1}
          /\ \/ /\ j \in 0 .. 4
                /\ data' = [data EXCEPT ![j] = ShiftIn(data[j], cb.bit)]
                /\ bitCount' = bitCount
             \/ n >= FrameBits
        BY <1>3, ShiftFacts
    <2>2. Shifted = n /\ Counting = 0 /\ Counting' = 0 /\ UNCHANGED edges
        BY <1>3, <2>1 DEF Shifted, Counting, ShiftData, world
    <2> HIDE DEF n
    <2>3. n + 1 <= FrameBits
        BY <1>0, <2>1, <2>2 DEF Total
    <2>4. /\ j \in 0 .. 4 /\ bitCount' = bitCount
          /\ data' = [data EXCEPT ![j] = ShiftIn(data[j], cb.bit)]
        BY <1>0, <2>1, <2>3
    <2>5. Shifted' = n + 1
        BY <2>1, <2>4 DEF Shifted
    <2>6. cb.bit = BitOf(sent, n)
        BY <2>1 DEF Faithful
    <2> HIDE DEF j
    <2>7. ASSUME NEW i \in 0 .. 4
          PROVE  data'[i] = sent[i] \div TwoTo[Bits - Width(n + 1, i)]
        <3>1. data[i] = sent[i] \div TwoTo[Bits - Width(n, i)]
            BY <2>2 DEF Faithful
        <3>2. CASE i = j
            <4>1. /\ Width(n, i) = n % Bits
                  /\ Width(n + 1, i) = (n % Bits) + 1
                BY <2>1, <3>2, WidthGrows DEF j
            <4>2. n % Bits \in 0 .. Bits - 1
                BY <2>1, Place
            <4>3. cb.bit = (sent[i] \div TwoTo[Bits - 1 - (n % Bits)]) % 2
                BY <2>6, <3>2 DEF BitOf, j
            <4>4. sent[i] \in Nat
                BY FrameFacts
            <4>5. data'[i] = ShiftIn(data[i], cb.bit)
                BY <2>4, <3>2
            <4> QED BY <3>1, <4>1, <4>2, <4>3, <4>4, <4>5, ShiftedIsFaithful
        <3>3. CASE i # j
            <4>1. Width(n + 1, i) = Width(n, i)
                BY <2>1, <3>3, WidthGrows DEF j
            <4>2. data'[i] = data[i]
                BY <2>4, <3>3
            <4> QED BY <3>1, <4>1, <4>2
        <3> QED BY <3>2, <3>3
    <2>8. bitCount' + Counting' = bitCount + Counting
        BY <2>2, <2>4
    <2> QED BY <2>1, <2>2, <2>5, <2>7, <2>8 DEF Faithful
<1> QED BY <1>1, <1>2, <1>3 DEF Callback

\* Beside an attempt under way, and after it, the callback keeps what is known of it.
LEMMA CallbackStep ==
    ASSUME IInv, Callback, UNCHANGED device, ~raced'
    PROVE  CountInv' /\ AttemptInv'
<1>0. /\ FrameBits \in Nat /\ Bits \in Nat \ {0} /\ FrameBits = 5 * Bits
      /\ UNCHANGED <<pc, device, trouble, sent, raced, printed>>
    BY FrameAssumption DEF FrameBits, Callback, LoadCount, StoreCount, ShiftData, world
<1>1. TypeInv /\ CountInv /\ AttemptInv
    BY <1>0 DEF IInv
<1>2. /\ CountInv'
      /\ bitCount' >= bitCount /\ Shifted' >= Shifted
      /\ \/ Total' = Total
         \/ bitCount > FrameBits /\ Total' >= Total
    BY <1>0, <1>1, CountStep
<1>3. bitCount <= Total /\ bitCount \in Int /\ Total \in Int /\ Total' \in Int
    <2>1. [Next]_vars
        BY DEF Next
    <2>2. TypeInv'
        BY <1>1, <2>1, TypeStep
    <2>3. /\ bitCount \in Int /\ Len(edges) \in Nat
          /\ bitCount' \in Int /\ Len(edges') \in Nat
        <3>1. bitCount \in Int /\ edges \in Seq({0, 1})
            BY <1>1 DEF TypeInv
        <3>2. bitCount' \in Int /\ edges' \in Seq({0, 1})
            BY <2>2 DEF TypeInv
        <3> QED BY <3>1, <3>2
    <2>4. Counting \in {0, 1} /\ Counting' \in {0, 1}
        BY DEF Counting
    <2> QED BY <2>3, <2>4 DEF Total
<1>4. (pc \in {"zero", "signal"} =>
         /\ "late" \notin trouble
         /\ "added" \notin trouble => "missing" \notin trouble /\ Total = -3
         /\ "added" \in trouble /\ "missing" \notin trouble => Total > -3)'
    <2>1. Total = -3 => Total' = Total
        BY <1>0, <1>2, <1>3
    <2> QED BY <1>0, <1>1, <1>2, <1>3, <2>1 DEF AttemptInv
<1>5. (pc \in {"wait", "sum", "print"} => sent \in {Frame(payload) : payload \in Measured})'
    BY <1>0, <1>1 DEF AttemptInv
<1>6. ASSUME pc = "wait"
      PROVE  (/\ "late" \notin trouble
              /\ "added" \notin trouble /\ "missing" \notin trouble => Total = FrameBits /\ Faithful
              /\ "added" \notin trouble /\ "missing" \in trouble => Total < FrameBits
              /\ "added" \in trouble /\ "missing" \notin trouble => Total > FrameBits)'
    <2>1. /\ "late" \notin trouble
          /\ "added" \notin trouble /\ "missing" \notin trouble => Total = FrameBits /\ Faithful
          /\ "added" \notin trouble /\ "missing" \in trouble => Total < FrameBits
          /\ "added" \in trouble /\ "missing" \notin trouble => Total > FrameBits
        BY <1>1, <1>6 DEF AttemptInv
    <2>2. Total <= FrameBits => Total' = Total
        BY <1>0, <1>2, <1>3
    <2>3. Total > FrameBits => Total' > FrameBits
        BY <1>0, <1>2, <1>3
    <2>4. ASSUME Total = FrameBits, Faithful
          PROVE  Faithful'
        <3>1. PICK payload \in Measured : sent = Frame(payload)
            BY <1>1, <1>6 DEF AttemptInv
        <3> QED BY <1>0, <1>1, <2>4, <3>1, FaithfulStep
    <2>5. ("added" \notin trouble /\ "missing" \notin trouble => Total = FrameBits /\ Faithful)'
        BY <1>0, <2>1, <2>2, <2>4
    <2>6. ("added" \notin trouble /\ "missing" \in trouble => Total < FrameBits)'
        BY <1>0, <1>3, <2>1, <2>2
    <2>7. ("added" \in trouble /\ "missing" \notin trouble => Total > FrameBits)'
        BY <1>0, <2>1, <2>3
    <2> QED BY <1>0, <2>1, <2>5, <2>6, <2>7
<1>7. ASSUME pc \in {"sum", "print"}
      PROVE  (/\ ~Mixed => bitCount >= FrameBits /\ \A i \in 0 .. 3 : data[i] = sent[i]
              /\ trouble = {} => Shifted >= FrameBits /\ data[4] = sent[4])'
    <2>1. /\ ~Mixed => bitCount >= FrameBits /\ \A i \in 0 .. 3 : data[i] = sent[i]
          /\ trouble = {} => Shifted >= FrameBits /\ data[4] = sent[4]
        BY <1>1, <1>7 DEF AttemptInv
    <2>2. bitCount' \in Int
        BY <1>1, <1>2, ShiftFacts DEF Callback, LoadCount, StoreCount, TypeInv
    <2>3. /\ bitCount >= FrameBits => \A i \in 0 .. 3 : data'[i] = data[i]
          /\ Shifted >= FrameBits => data'[4] = data[4]
        <3>1. CASE LoadCount \/ StoreCount
            BY <3>1 DEF LoadCount, StoreCount
        <3>2. CASE ShiftData
            <4> DEFINE n == bitCount - 1
                       j == n \div Bits
            <4>1. /\ n \in Nat /\ cb # Idle /\ cb.step = "shift"
                  /\ \/ /\ j \in 0 .. 4
                        /\ data' = [data EXCEPT ![j] = ShiftIn(data[j], cb.bit)]
                     \/ data' = data
                BY <1>1, <3>2, ShiftFacts
            <4>2. /\ bitCount >= FrameBits => n >= FrameBits - 1
                  /\ Shifted >= FrameBits => n >= FrameBits
                BY <1>0, <1>3, <4>1 DEF Shifted
            <4> HIDE DEF n
            <4>3. /\ n >= FrameBits - 1 => j \notin 0 .. 3
                  /\ n >= FrameBits => j \notin 0 .. 4
                BY <1>0, <4>1, BeyondTheFrame
            <4> HIDE DEF j
            <4> QED BY <1>1, <4>1, <4>2, <4>3 DEF TypeInv
        <3> QED BY <3>1, <3>2 DEF Callback
    <2>4. (~Mixed => bitCount >= FrameBits /\ \A i \in 0 .. 3 : data[i] = sent[i])'
        <3>1. Mixed' <=> Mixed
            BY <1>0 DEF Mixed
        <3>2. ~Mixed => bitCount' >= FrameBits /\ \A i \in 0 .. 3 : data'[i] = sent[i]
            BY <1>0, <1>2, <1>3, <2>1, <2>2, <2>3
        <3> QED BY <1>0, <3>1, <3>2
    <2>5. (trouble = {} => Shifted >= FrameBits /\ data[4] = sent[4])'
        <3>1. Shifted \in Int /\ Shifted' \in Int
            BY <1>3, <2>2 DEF Shifted
        <3>2. trouble = {} => Shifted' >= FrameBits /\ data'[4] = sent[4]
            BY <1>0, <1>2, <2>1, <2>3, <3>1
        <3> QED BY <1>0, <3>2
    <2> QED BY <2>4, <2>5
<1>8. PrintsWhatWasSent' /\ CleanReadingIsPrinted'
    BY <1>0, <1>1 DEF AttemptInv, PrintsWhatWasSent, CleanReadingIsPrinted, Mixed
<1>9. AttemptInv'
    BY <1>0, <1>4, <1>5, <1>6, <1>7, <1>8 DEF AttemptInv
<1> QED BY <1>2, <1>9

\* What goes wrong on the wire changes the number of edges, and is remembered until main
\* has looked.
LEMMA WireStep ==
    ASSUME IInv, Wire, UNCHANGED device, ~raced'
    PROVE  CountInv' /\ AttemptInv'
<1>0. /\ FrameBits \in Nat
      /\ UNCHANGED <<pc, device, bitCount, data, cb, sent, raced, printed>>
    BY FrameAssumption DEF FrameBits, Wire, Noise, Lose, BreakOff
<1>1. TypeInv /\ CountInv /\ AttemptInv
    BY <1>0 DEF IInv
<1>2. UNCHANGED <<Counting, Shifted>>
    BY <1>0 DEF Counting, Shifted
<1>3. CountInv'
    BY <1>0, <1>1, <1>2 DEF CountInv
<1>4. /\ Total \in Int /\ Total' \in Int
      /\ \/ GoesWrong("added") /\ Total' = Total + 1
         \/ GoesWrong("missing") /\ Total' < Total /\ Total' >= -3
    <2>1. /\ Len(edges) \in Nat /\ Len(edges') \in Nat /\ bitCount \in Int /\ bitCount >= -3
          /\ Counting \in {0, 1}
        BY <1>1, WireFacts DEF TypeInv, CountInv, Counting
    <2>2. Total = bitCount + Counting + Len(edges) /\ Total' = bitCount + Counting + Len(edges')
        BY <1>0, <1>2 DEF Total
    <2>3. \/ GoesWrong("added") /\ Len(edges') = Len(edges) + 1
          \/ GoesWrong("missing") /\ Len(edges') < Len(edges)
        BY <1>1, WireFacts DEF Noise, Lose, BreakOff
    <2> QED BY <2>1, <2>2, <2>3
<1>5. (pc \in {"zero", "signal"} =>
         /\ "late" \notin trouble
         /\ "added" \notin trouble => "missing" \notin trouble /\ Total = -3
         /\ "added" \in trouble /\ "missing" \notin trouble => Total > -3)'
    BY <1>0, <1>1, <1>4 DEF AttemptInv, GoesWrong
<1>6. (pc = "wait" =>
         /\ "late" \notin trouble
         /\ "added" \notin trouble /\ "missing" \notin trouble => Total = FrameBits /\ Faithful
         /\ "added" \notin trouble /\ "missing" \in trouble => Total < FrameBits
         /\ "added" \in trouble /\ "missing" \notin trouble => Total > FrameBits)'
    BY <1>0, <1>1, <1>4 DEF AttemptInv, GoesWrong
<1>7. pc \notin {"zero", "signal", "wait"} => UNCHANGED trouble
    BY <1>4 DEF GoesWrong
<1>8. (/\ pc \in {"sum", "print"} =>
            /\ ~Mixed => bitCount >= FrameBits /\ \A i \in 0 .. 3 : data[i] = sent[i]
            /\ trouble = {} => Shifted >= FrameBits /\ data[4] = sent[4]
       /\ pc \in {"wait", "sum", "print"} => sent \in {Frame(payload) : payload \in Measured})'
    BY <1>0, <1>1, <1>2, <1>7 DEF AttemptInv, Mixed
<1>9. PrintsWhatWasSent' /\ CleanReadingIsPrinted'
    <2>1. pc \in {"zero", "signal", "wait"} => printed' = None
        BY <1>0 DEF IInv
    <2>2. CASE pc \in {"zero", "signal", "wait"}
        BY <1>0, <2>1, <2>2 DEF PrintsWhatWasSent, CleanReadingIsPrinted
    <2>3. CASE pc \notin {"zero", "signal", "wait"}
        BY <1>0, <1>1, <1>7, <2>3 DEF AttemptInv, PrintsWhatWasSent, CleanReadingIsPrinted, Mixed
    <2> QED BY <2>2, <2>3
<1>10. AttemptInv'
    BY <1>5, <1>6, <1>8, <1>9 DEF AttemptInv
<1> QED BY <1>3, <1>10

-----------------------------------------------------------------------------
(* Main, step by step. *)

\* An attempt that no callback disturbs begins without edges.
LEMMA ResetStep ==
    ASSUME TypeInv, ResetCount, UNCHANGED device, ~raced'
    PROVE  CountInv' /\ AttemptInv'
<1>1. /\ pc' = "zero" /\ bitCount' = -3 /\ printed' = None /\ trouble' = {}
      /\ edges = <<>> /\ cb = Idle /\ edges' = <<>> /\ cb' = Idle
    BY DEF ResetCount, Quiet
<1>2. Counting' = 0 /\ Total' = -3
    BY <1>1 DEF Counting, Total
<1>3. CountInv'
    BY <1>1, <1>2 DEF CountInv
<1>4. AttemptInv'
    BY <1>1, <1>2 DEF AttemptInv, PrintsWhatWasSent, CleanReadingIsPrinted
<1> QED BY <1>3, <1>4

\* There is no bit in a byte that is zero.
LEMMA ZeroStep ==
    ASSUME IInv, ZeroData, UNCHANGED device, ~raced'
    PROVE  CountInv' /\ AttemptInv'
<1>1. /\ pc = "zero" /\ pc' = "signal" /\ UNCHANGED <<bitCount, edges, cb, trouble, printed>>
      /\ data' = [i \in 0 .. 4 |-> 0] /\ ~raced
    BY DEF ZeroData
<1>2. TypeInv /\ CountInv /\ AttemptInv /\ printed = None
    BY <1>1 DEF IInv
<1>3. UNCHANGED <<Counting, Shifted, Total>>
    BY <1>1 DEF Counting, Shifted, Total
<1>4. Shifted \in Int
    BY <1>2 DEF Shifted, TypeInv
<1>5. ASSUME NEW i \in 0 .. 4
      PROVE  data'[i] < TwoTo[Width(Shifted, i)]
    <2>1. Width(Shifted, i) \in Nat
        BY <1>4, WidthIsBounded, FrameAssumption
    <2>2. TwoTo[Width(Shifted, i)] \in Nat \ {0}
        BY <2>1, PowersOfTwo
    <2> QED BY <1>1, <2>2
<1>6. CountInv'
    BY <1>1, <1>2, <1>3, <1>5 DEF CountInv
<1>7. AttemptInv'
    BY <1>1, <1>2, <1>3 DEF AttemptInv, PrintsWhatWasSent, CleanReadingIsPrinted
<1> QED BY <1>6, <1>7

\* The edges of a whole frame are as many as are missing.
LEMMA SignalStep ==
    ASSUME IInv, SendSignal, UNCHANGED device, ~raced'
    PROVE  CountInv' /\ AttemptInv'
<1>0. /\ pc = "signal" /\ pc' = "wait" /\ ~raced
      /\ UNCHANGED <<bitCount, data, cb, trouble, printed>>
      /\ FrameBits \in Nat /\ Bits \in Nat \ {0}
    BY FrameAssumption DEF SendSignal, FrameBits
<1>1. TypeInv /\ CountInv /\ AttemptInv /\ printed = None
    BY <1>0 DEF IInv
<1>2. PICK payload \in Measured :
        sent' = Frame(payload) /\ edges' = edges \o EdgesOf(sent')
    BY DEF SendSignal
<1> DEFINE s == EdgesOf(Frame(payload))
<1>3. edges' = edges \o s
    BY <1>2
<1>4. trouble \subseteq Troubles /\ edges \in Seq({0, 1})
    BY <1>1 DEF TypeInv
<1>5. /\ s \in Seq({0, 1})
      /\ Len(s) = FrameBits + 3
      /\ \A k \in 1 .. FrameBits : s[k + 3] = BitOf(Frame(payload), k - 1)
    BY EdgesFacts
<1> HIDE DEF s
<1> DEFINE e == Len(edges)
           c == bitCount + Counting
<1>6. /\ e \in Nat /\ Len(s) \in Nat /\ Len(edges') = e + Len(s)
      /\ \A k \in 1 .. Len(s) : edges'[e + k] = s[k]
    <2> DEFINE B == {0, 1}
    <2>1. edges \in Seq(B) /\ s \in Seq(B)
        BY <1>4, <1>5
    <2> HIDE DEF B
    <2>2. /\ Len(edges \o s) = Len(edges) + Len(s)
          /\ \A k \in 1 .. Len(s) : (edges \o s)[Len(edges) + k] = s[k]
        BY <2>1, Joined
    <2>3. Len(edges) \in Nat /\ Len(s) \in Nat
        BY <2>1
    <2> QED BY <1>3, <2>2, <2>3
<1>7. c \in Int /\ Total = c + e /\ bitCount \in Int /\ bitCount <= c
    BY <1>1, <1>6 DEF Counting, Total, TypeInv
<1>8. UNCHANGED <<Counting, Shifted>>
    BY <1>0 DEF Counting, Shifted
<1>9. Total' = c + (e + Len(s))
    BY <1>0, <1>6, <1>7, <1>8 DEF Total
<1>10. CountInv'
    BY <1>0, <1>1, <1>8 DEF CountInv
<1>11. /\ "late" \notin trouble
       /\ "added" \notin trouble => "missing" \notin trouble /\ Total = -3
       /\ "added" \in trouble /\ "missing" \notin trouble => Total > -3
    BY <1>0, <1>1 DEF AttemptInv
<1> HIDE DEF e, c
<1>12. Total' = Total + FrameBits + 3
    BY <1>0, <1>5, <1>6, <1>7, <1>9
<1>13. Total \in Int
    BY <1>6, <1>7
<1>14. ASSUME Total' = FrameBits
       PROVE  Faithful'
    <2>1. Len(s) = FrameBits + 3 /\ c + e = -3
        BY <1>0, <1>5, <1>6, <1>7, <1>9, <1>14
    <2>2. \A k \in 1 .. FrameBits : s[k + 3] = BitOf(sent', k - 1)
        BY <1>2, <1>5, <2>1
    <2>3. ASSUME NEW k \in 1 .. Len(edges'), c + k > 0
          PROVE  edges'[k] = BitOf(sent', c + k - 1)
        <3> DEFINE m == c + k
        <3>1. m \in 1 .. FrameBits /\ e + (m + 3) = k /\ m + 3 \in 1 .. Len(s)
            BY <1>0, <1>6, <1>7, <2>1, <2>3
        <3> HIDE DEF m
        <3>2. edges'[k] = s[m + 3]
            BY <1>6, <3>1
        <3>3. s[m + 3] = BitOf(sent', m - 1)
            BY <2>2, <3>1
        <3>4. m = c + k /\ m - 1 = c + k - 1
            BY <1>7 DEF m
        <3> QED BY <3>2, <3>3, <3>4
    <2>4. cb # Idle => cb.count = c
        BY <1>1 DEF CountInv, c
    <2>5. c <= -3
        BY <1>6, <1>7, <2>1
    <2>6. Shifted \in Int /\ Shifted <= 0
        BY <1>7, <2>5 DEF Shifted
    <2>7. ASSUME NEW i \in 0 .. 4
          PROVE  data[i] = sent'[i] \div TwoTo[Bits - Width(Shifted, i)]
        <3>1. Width(Shifted, i) = 0
            BY <2>6, WidthIsBounded
        <3>2. data[i] < TwoTo[0] /\ data[i] \in Nat
            BY <1>0, <1>1, <3>1 DEF CountInv, TypeInv
        <3>3. data[i] = 0
            BY <3>2, PowersOfTwo
        <3>4. sent'[i] \in Nat /\ sent'[i] < TwoTo[Bits]
            BY <1>2, FrameFacts
        <3>5. TwoTo[Bits] \in Nat
            BY <1>0, PowersOfTwo
        <3>6. sent'[i] \div TwoTo[Bits] = 0
            BY <3>4, <3>5, Small
        <3>7. Bits - 0 = Bits
            BY <1>0
        <3> QED BY <3>1, <3>3, <3>6, <3>7
    <2>8. bitCount' + Counting' = c
        BY <1>0, <1>8 DEF c
    <2>9. ~(cb # Idle /\ cb.count > 0)
        BY <1>7, <2>4, <2>5
    <2> QED BY <1>0, <1>8, <2>3, <2>7, <2>8, <2>9 DEF Faithful
<1>15. sent' \in {Frame(p) : p \in Measured}
    BY <1>2
<1>16. PrintsWhatWasSent' /\ CleanReadingIsPrinted'
    BY <1>0, <1>1 DEF PrintsWhatWasSent, CleanReadingIsPrinted
<1>17. (/\ "late" \notin trouble
        /\ "added" \notin trouble /\ "missing" \notin trouble => Total = FrameBits /\ Faithful
        /\ "added" \notin trouble /\ "missing" \in trouble => Total < FrameBits
        /\ "added" \in trouble /\ "missing" \notin trouble => Total > FrameBits)'
    <2>1. Total = -3 => Total' = FrameBits
        BY <1>0, <1>12
    <2>2. Total > -3 => Total' > FrameBits
        BY <1>0, <1>12, <1>13
    <2> QED BY <1>0, <1>11, <1>14, <2>1, <2>2
<1>18. AttemptInv'
    BY <1>0, <1>15, <1>16, <1>17 DEF AttemptInv
<1> QED BY <1>10, <1>18

\* The right count is that of the bits that were sent.
LEMMA CheckCountStep ==
    ASSUME IInv, CheckCount, UNCHANGED device, ~raced'
    PROVE  CountInv' /\ AttemptInv'
<1>0. /\ pc = "wait" /\ ~raced
      /\ UNCHANGED <<bitCount, data, edges, cb, sent, printed, raced>>
      /\ trouble' = IF Quiet THEN trouble ELSE trouble \cup {"late"}
      /\ FrameBits \in Nat /\ Bits \in Nat \ {0} /\ FrameBits = 5 * Bits
      /\ (bitCount = FrameBits /\ pc' = "sum") \/ (bitCount # FrameBits /\ pc' = "sleep")
    BY FrameAssumption DEF CheckCount, DataInvalid, RightCount, FrameBits, world
<1>1. TypeInv /\ CountInv /\ AttemptInv /\ printed = None
    BY <1>0 DEF IInv
<1>2. UNCHANGED <<Counting, Shifted>>
    BY <1>0 DEF Counting, Shifted
<1>3. CountInv'
    BY <1>0, <1>1, <1>2 DEF CountInv
<1>4. /\ "late" \notin trouble
      /\ "added" \notin trouble /\ "missing" \notin trouble => Total = FrameBits /\ Faithful
      /\ "added" \notin trouble /\ "missing" \in trouble => Total < FrameBits
      /\ "added" \in trouble /\ "missing" \notin trouble => Total > FrameBits
      /\ sent \in {Frame(payload) : payload \in Measured}
    BY <1>0, <1>1 DEF AttemptInv
<1>5. /\ Quiet => Total = bitCount /\ Shifted = bitCount
      /\ bitCount <= Total /\ bitCount \in Int /\ Total \in Int
    BY <1>1 DEF Quiet, Total, Counting, Shifted, TypeInv
<1>6. CASE bitCount = FrameBits /\ pc' = "sum"
    <2>0. SUFFICES ASSUME ~Mixed'
                   PROVE  CountInv' /\ AttemptInv'
        <3>1. trouble' = {} => ~Mixed'
            BY DEF Mixed
        <3>2. Mixed' => AttemptInv'
            BY <1>0, <1>4, <1>6, <3>1 DEF AttemptInv, PrintsWhatWasSent, CleanReadingIsPrinted
        <3> QED BY <1>3, <3>2
    <2>1. Faithful
        <3>1. "missing" \in trouble => "added" \in trouble
            BY <1>0, <1>4, <1>5, <1>6
        <3>2. "added" \notin trouble
            <4>1. SUFFICES ASSUME "added" \in trouble PROVE FALSE
                OBVIOUS
            <4>2. "late" \notin trouble' /\ "missing" \notin trouble'
                BY <1>0, <2>0, <4>1 DEF Mixed
            <4>3. Quiet /\ "missing" \notin trouble
                BY <1>0, <4>2
            <4> QED BY <1>0, <1>4, <1>5, <1>6, <4>1, <4>3
        <3> QED BY <1>4, <3>1, <3>2
    <2>2. \A i \in 0 .. 4 : data[i] = sent[i] \div TwoTo[Bits - Width(Shifted, i)]
        BY <2>1 DEF Faithful
    <2>3. \A i \in 0 .. 4 : sent[i] \div TwoTo[Bits - Bits] = sent[i]
        <3>1. Bits - Bits = 0 /\ TwoTo[0] = 1
            BY <1>0, PowersOfTwo
        <3>2. \A i \in 0 .. 4 : sent[i] \in Nat
            BY <1>4, FrameFacts
        <3> QED BY <3>1, <3>2, One
    <2>4. Shifted \in Int /\ Shifted >= FrameBits - 1
        BY <1>0, <1>1, <1>6 DEF Shifted, TypeInv
    <2>5. ASSUME NEW i \in 0 .. 3
          PROVE  data[i] = sent[i]
        <3>1. Width(Shifted, i) = Bits
            <4>1. i \in {0, 1, 2, 3}
                OBVIOUS
            <4> QED BY <1>0, <2>4, <4>1 DEF Width
        <3> QED BY <2>2, <2>3, <3>1
    <2>6. ASSUME trouble' = {}
          PROVE  Shifted >= FrameBits /\ data[4] = sent[4]
        <3>1. Quiet
            BY <1>0, <2>6
        <3>2. Width(Shifted, 4) = Bits
            BY <1>0, <1>5, <1>6, <3>1, WidthIsBounded
        <3> QED BY <1>0, <1>5, <1>6, <2>2, <2>3, <3>1, <3>2
    <2>7. (/\ ~Mixed => bitCount >= FrameBits /\ \A i \in 0 .. 3 : data[i] = sent[i]
           /\ trouble = {} => Shifted >= FrameBits /\ data[4] = sent[4])'
        BY <1>0, <1>2, <1>6, <2>5, <2>6
    <2>8. PrintsWhatWasSent' /\ CleanReadingIsPrinted'
        BY <1>0, <1>1, <1>6 DEF PrintsWhatWasSent, CleanReadingIsPrinted
    <2>9. AttemptInv'
        BY <1>0, <1>4, <1>6, <2>7, <2>8 DEF AttemptInv
    <2> QED BY <1>3, <2>9
<1>7. CASE bitCount # FrameBits /\ pc' = "sleep"
    <2>1. trouble' # {}
        <3>1. SUFFICES ASSUME trouble' = {} PROVE FALSE
            OBVIOUS
        <3>2. Quiet /\ trouble = {}
            BY <1>0, <3>1
        <3> QED BY <1>4, <1>5, <1>7, <3>2
    <2>2. AttemptInv'
        BY <1>0, <1>1, <1>7, <2>1 DEF AttemptInv, PrintsWhatWasSent, CleanReadingIsPrinted
    <2> QED BY <1>3, <2>2
<1> QED BY <1>0, <1>6, <1>7

\* The checksum of a clean reading is right.
LEMMA CheckSumStep ==
    ASSUME IInv, CheckSum, UNCHANGED device, ~raced'
    PROVE  CountInv' /\ AttemptInv'
<1>0. /\ pc = "sum" /\ ~raced
      /\ UNCHANGED <<bitCount, data, edges, cb, trouble, sent, printed, raced>>
      /\ pc' = "print" \/ (data[4] # Checksum(data) /\ pc' = "sleep")
    BY DEF CheckSum, DataInvalid, world
<1>1. TypeInv /\ CountInv /\ AttemptInv /\ printed = None
    BY <1>0 DEF IInv
<1>2. UNCHANGED <<Counting, Shifted>>
    BY <1>0 DEF Counting, Shifted
<1>3. CountInv'
    BY <1>0, <1>1, <1>2 DEF CountInv
<1>4. /\ ~Mixed => bitCount >= FrameBits /\ \A i \in 0 .. 3 : data[i] = sent[i]
      /\ trouble = {} => Shifted >= FrameBits /\ data[4] = sent[4]
      /\ sent \in {Frame(payload) : payload \in Measured}
    BY <1>0, <1>1 DEF AttemptInv
<1>5. CASE pc' = "print"
    <2>1. (/\ ~Mixed => bitCount >= FrameBits /\ \A i \in 0 .. 3 : data[i] = sent[i]
           /\ trouble = {} => Shifted >= FrameBits /\ data[4] = sent[4])'
        BY <1>0, <1>2, <1>4 DEF Mixed
    <2>2. PrintsWhatWasSent' /\ CleanReadingIsPrinted'
        BY <1>0, <1>1, <1>5 DEF PrintsWhatWasSent, CleanReadingIsPrinted
    <2>3. AttemptInv'
        BY <1>0, <1>4, <1>5, <2>1, <2>2 DEF AttemptInv
    <2> QED BY <1>3, <2>3
<1>6. CASE data[4] # Checksum(data) /\ pc' = "sleep"
    <2>1. ~Mixed => Checksum(data) = Checksum(sent)
        <3>1. 0 \in 0 .. 3 /\ 1 \in 0 .. 3 /\ 2 \in 0 .. 3 /\ 3 \in 0 .. 3
            OBVIOUS
        <3>2. ~Mixed => /\ data[0] = sent[0] /\ data[1] = sent[1]
                        /\ data[2] = sent[2] /\ data[3] = sent[3]
            BY <1>4, <3>1
        <3> QED BY <3>2 DEF Checksum
    <2>2. sent[4] = Checksum(sent)
        BY <1>4, FrameFacts
    <2>3. trouble # {}
        BY <1>4, <1>6, <2>1, <2>2 DEF Mixed
    <2>4. AttemptInv'
        BY <1>0, <1>1, <1>6, <2>3 DEF AttemptInv, PrintsWhatWasSent, CleanReadingIsPrinted
    <2> QED BY <1>3, <2>4
<1> QED BY <1>0, <1>5, <1>6

\* The values of the bytes that were sent are the measurement.
LEMMA PrintStep ==
    ASSUME IInv, PrintValues, UNCHANGED device, ~raced'
    PROVE  CountInv' /\ AttemptInv'
<1>0. /\ pc = "print" /\ pc' = "sleep" /\ printed' = Values(data) /\ ~raced
      /\ UNCHANGED <<device, bitCount, data, edges, cb, trouble, sent, raced>>
      /\ Bits \in Nat \ {0}
    BY FrameAssumption DEF PrintValues, world
<1>1. TypeInv /\ CountInv /\ AttemptInv
    BY <1>0 DEF IInv
<1>2. UNCHANGED <<Counting, Shifted>>
    BY <1>0 DEF Counting, Shifted
<1>3. CountInv'
    BY <1>0, <1>1, <1>2 DEF CountInv
<1>4. ~Mixed => \A i \in 0 .. 3 : data[i] = sent[i]
    BY <1>0, <1>1 DEF AttemptInv
<1>5. ~Mixed => /\ data[0] = sent[0] /\ data[1] = sent[1]
                /\ data[2] = sent[2] /\ data[3] = sent[3]
    <2>1. 0 \in 0 .. 3 /\ 1 \in 0 .. 3 /\ 2 \in 0 .. 3 /\ 3 \in 0 .. 3
        OBVIOUS
    <2> QED BY <1>4, <2>1
<1>6. BitOf(sent, 2 * Bits) = (sent[2] \div TwoTo[Bits - 1]) % 2
    BY SignBit
<1>7. ~Mixed => Values(data) = Measurement(device, sent)
    BY <1>5, <1>6 DEF Values, Measurement, Humidity, Temperature, Magnitude
<1>8. Values(data) # None
    BY DEF Values, None
<1>9. AttemptInv'
    BY <1>0, <1>7, <1>8 DEF AttemptInv, PrintsWhatWasSent, CleanReadingIsPrinted, Mixed
<1> QED BY <1>3, <1>9

\* Between two attempts nothing is expected.
LEMMA SleepStep ==
    ASSUME IInv, NextAttempt, UNCHANGED device, ~raced'
    PROVE  CountInv' /\ AttemptInv'
<1>0. /\ pc = "sleep" /\ pc' \in {"reset", "done"} /\ ~raced
      /\ UNCHANGED <<device, bitCount, data, edges, cb, trouble, sent, raced, printed>>
    BY DEF NextAttempt, world
<1>1. CountInv /\ AttemptInv
    BY <1>0 DEF IInv
<1>2. UNCHANGED <<Counting, Shifted>>
    BY <1>0 DEF Counting, Shifted
<1>3. CountInv'
    BY <1>0, <1>1, <1>2 DEF CountInv
<1>4. AttemptInv'
    BY <1>0, <1>1 DEF AttemptInv, PrintsWhatWasSent, CleanReadingIsPrinted, Mixed
<1> QED BY <1>3, <1>4

-----------------------------------------------------------------------------
(* The theorems. *)

\* main begins with nothing counted and nothing sent.
LEMMA InitInv == Init => IInv
<1> SUFFICES ASSUME Init PROVE IInv
    OBVIOUS
<1>1. TypeInv
    <2>1. trouble \subseteq Troubles /\ edges \in Seq({0, 1})
        BY DEF Init
    <2>2. data \in [0 .. 4 -> Nat]
        BY DEF Init
    <2>3. noise \in 0 .. MaxNoise /\ lost \in 0 .. MaxLost
        BY PigpioAssumption DEF Init
    <2>4. /\ pc = "reset" /\ device \in {"DHT11", "DHT22"} /\ loopFlag \in BOOLEAN
          /\ tries = 3 /\ bitCount = 0 /\ raced = FALSE /\ cb = Idle
          /\ sent = None /\ printed = None
        BY DEF Init
    <2>5. tries \in 0 .. 3 /\ bitCount \in Int /\ (pc \notin {"sleep", "done"} /\ ~loopFlag => tries # 0)
        BY <2>4
    <2> QED BY <2>1, <2>2, <2>3, <2>4, <2>5, Zenon DEF TypeInv
<1>2. /\ pc = "reset" /\ bitCount = 0 /\ cb = Idle /\ edges = <<>> /\ printed = None
      /\ data = [i \in 0 .. 4 |-> 0]
    BY DEF Init
<1>3. \A i \in 0 .. 4 : data[i] < TwoTo[Width(Shifted, i)]
    <2>1. \A i \in 0 .. 4 : Width(0, i) = 0
        BY WidthIsBounded
    <2>2. Shifted = 0
        BY <1>2 DEF Shifted
    <2>3. TwoTo[0] = 1
        BY PowersOfTwo
    <2> QED BY <1>2, <2>1, <2>2, <2>3
<1>4. CountInv
    BY <1>2, <1>3 DEF CountInv, Counting
<1>5. AttemptInv
    BY <1>2 DEF AttemptInv, PrintsWhatWasSent, CleanReadingIsPrinted
<1> QED BY <1>1, <1>2, <1>4, <1>5 DEF IInv

\* No step of main, of the callback or of the wire breaks the invariant.
LEMMA StepInv == IInv /\ [Next]_vars => IInv'
<1> SUFFICES ASSUME IInv, [Next]_vars PROVE IInv'
    OBVIOUS
<1>1. TypeInv'
    BY TypeStep DEF IInv
<1>2. (pc \in {"zero", "signal", "wait", "sum", "print"} => printed = None)'
    <2>1. CASE UNCHANGED vars
        BY <2>1 DEF vars, IInv
    <2>2. CASE Main
        BY <2>2 DEF IInv, Main, ResetCount, ZeroData, SendSignal, CheckCount, CheckSum,
            PrintValues, NextAttempt, DataInvalid
    <2>3. CASE Callback \/ Wire
        BY <2>3 DEF IInv, Callback, LoadCount, StoreCount, ShiftData, Wire, Noise, Lose, BreakOff
    <2> QED BY <2>1, <2>2, <2>3 DEF Next
<1>3. ASSUME ~raced'
      PROVE  CountInv' /\ AttemptInv'
    <2>1. CASE UNCHANGED vars
        <3>1. UNCHANGED <<pc, device, bitCount, data, edges, cb, trouble, sent, raced, printed>>
            BY <2>1 DEF vars
        <3>2. CountInv /\ AttemptInv
            BY <1>3, <3>1 DEF IInv
        <3>3. UNCHANGED <<Counting, Shifted, Total>>
            BY <3>1 DEF Counting, Shifted, Total
        <3>4. CountInv'
            BY <3>1, <3>2, <3>3 DEF CountInv
        <3>5. Faithful => Faithful'
            BY <3>1, <3>3 DEF Faithful
        <3>6. PrintsWhatWasSent' /\ CleanReadingIsPrinted'
            BY <3>1, <3>2 DEF AttemptInv, PrintsWhatWasSent, CleanReadingIsPrinted, Mixed
        <3>7. AttemptInv'
            BY <3>1, <3>2, <3>3, <3>5, <3>6 DEF AttemptInv, Mixed
        <3> QED BY <3>4, <3>7
    <2>2. CASE Main /\ UNCHANGED device
        BY <1>3, <2>2, ResetStep, ZeroStep, SignalStep, CheckCountStep, CheckSumStep,
           PrintStep, SleepStep DEF Main, IInv
    <2>3. CASE Callback /\ UNCHANGED device
        BY <1>3, <2>3, CallbackStep
    <2>4. CASE Wire /\ UNCHANGED device
        BY <1>3, <2>4, WireStep
    <2> QED BY <2>1, <2>2, <2>3, <2>4 DEF Next
<1> QED BY <1>1, <1>2, <1>3 DEF IInv

\* It holds in every state the program reaches.
LEMMA AlwaysInv == Spec => []IInv
    BY InitInv, StepInv, PTL DEF Spec

\* Every variable has its type: callback shifts no more bits into a byte than it has,
\* in an attempt that was set up with no callback beside it.
THEOREM PigpioIsTyped == Spec => []PigpioTypeOK
<1>1. IInv => PigpioTypeOK
    <2> SUFFICES ASSUME IInv PROVE PigpioTypeOK
        OBVIOUS
    <2>1. TypeInv
        BY DEF IInv
    <2>2. ASSUME ~raced, pc # "zero"
          PROVE  data \in [0 .. 4 -> Byte]
        <3>1. CountInv
            BY <2>2 DEF IInv
        <3>2. Shifted \in Int
            BY <2>1 DEF Shifted, TypeInv
        <3>3. ASSUME NEW i \in 0 .. 4
              PROVE  data[i] \in Byte
            <4> DEFINE w == Width(Shifted, i)
            <4>1. w \in 0 .. Bits /\ Bits \in Nat
                BY <3>2, WidthIsBounded, FrameAssumption
            <4>2. data[i] < TwoTo[w] /\ data[i] \in Nat
                BY <2>1, <2>2, <3>1 DEF CountInv, TypeInv
            <4> HIDE DEF w
            <4>3. TwoTo[w] <= TwoTo[w + (Bits - w)]
                BY <4>1, PowersGrow
            <4>4. w + (Bits - w) = Bits /\ TwoTo[w] \in Nat /\ TwoTo[Bits] \in Nat
                BY <4>1, PowersOfTwo
            <4> QED BY <4>2, <4>3, <4>4 DEF Byte
        <3> QED BY <2>1, <3>3 DEF TypeInv
    <2> QED BY <2>1, <2>2 DEF PigpioTypeOK, TypeInv
<1> QED BY <1>1, AlwaysInv, PTL

\* "if we received 40 data bits and the checksum is valid" main prints what the sensor
\* sent in this attempt, whatever an attempt before has left, if edges are missing or
\* late, or are added, but not both in one attempt, and no callback ran beside the
\* set-up of the attempt.
THEOREM PrintsOnlyWhatWasSent == Spec => []PrintsWhatWasSent
<1>1. IInv => PrintsWhatWasSent
    BY DEF IInv, AttemptInv, PrintsWhatWasSent
<1> QED BY <1>1, AlwaysInv, PTL

\* An attempt in which nothing goes wrong prints: main rejects no good frame.
THEOREM CleanReadingsArePrinted == Spec => []CleanReadingIsPrinted
<1>1. IInv => CleanReadingIsPrinted
    BY DEF IInv, AttemptInv, CleanReadingIsPrinted
<1> QED BY <1>1, AlwaysInv, PTL

-----------------------------------------------------------------------------
(* The reader that polls: what a call can read. *)

\* Of no more even changes than before the 40th bit, fewer than 40 bits are read.
LEMMA FewChanges ==
    ASSUME NEW n \in Nat, n < 2 * FrameBits + 2
    PROVE  Cardinality({i \in 3 .. n : i % 2 = 0}) < FrameBits
<1> DEFINE S == {i \in 3 .. n : i % 2 = 0}
           m == FrameBits - 1
           T == {i \in 3 .. 2 * FrameBits + 1 : i % 2 = 0}
<1>1. FrameBits \in Nat \ {0} /\ m \in Nat
    BY FrameAssumption DEF FrameBits
<1>2. IsFiniteSet(T)
    <2>1. IsFiniteSet(3 .. 2 * FrameBits + 1)
        BY <1>1, FS_Interval
    <2>2. T \in SUBSET (3 .. 2 * FrameBits + 1)
        OBVIOUS
    <2> HIDE DEF T
    <2> QED BY <2>1, <2>2, FS_Subset
<1>3. Cardinality(T) <= m
    <2> DEFINE f == [j \in 1 .. m |-> 2 * j + 2]
    <2>1. f \in [1 .. m -> T]
        BY <1>1
    <2>2. ASSUME NEW t \in T
          PROVE  \E j \in 1 .. m : f[j] = t
        <3>1. PICK h \in Nat : t = 2 * h
            <4>1. t \in Nat /\ t % 2 = 0
                BY <1>1
            <4>2. t = 2 * (t \div 2) /\ t \div 2 \in Nat
                BY <4>1
            <4> QED BY <4>2
        <3>2. h - 1 \in 1 .. m
            BY <1>1, <3>1
        <3> QED BY <3>1, <3>2
    <2>3. f \in Surjection(1 .. m, T)
        <3> HIDE DEF f, T
        <3> QED BY <2>1, <2>2 DEF Surjection
    <2> HIDE DEF f, T, m
    <2>4. ExistsSurjection(1 .. m, T)
        BY <2>3 DEF ExistsSurjection
    <2> QED BY <1>1, <2>4, FS_SurjCardinalityBound
<1>4. S \in SUBSET T
    BY <1>1
<1>5. Cardinality(S) <= Cardinality(T) /\ Cardinality(S) \in Nat /\ Cardinality(T) \in Nat
    <2> HIDE DEF S, T
    <2>1. IsFiniteSet(S) /\ Cardinality(S) <= Cardinality(T)
        BY <1>2, <1>4, FS_Subset
    <2> QED BY <1>2, <2>1, FS_CardinalityType
<1> HIDE DEF S, T
<1>6. Cardinality(S) < FrameBits
    BY <1>1, <1>3, <1>5
<1> QED BY <1>6 DEF S

\* Of 40 bits or more, as many belong to a byte as it has.
LEMMA BitsOfByte ==
    ASSUME NEW count, count \in Nat, count >= FrameBits, NEW i \in 0 .. 4
    PROVE  Cardinality({k \in 0 .. count - 1 : k \div Bits = i}) = Bits
<1> DEFINE S == {k \in 0 .. count - 1 : k \div Bits = i}
           a == i * Bits
<1>1. Bits \in Nat \ {0} /\ FrameBits = 5 * Bits
    BY FrameAssumption DEF FrameBits
<1>2. a \in Nat /\ a + Bits <= FrameBits
    <2>1. i \in {0, 1, 2, 3, 4}
        OBVIOUS
    <2> QED BY <1>1, <2>1
<1>3. Bits * i = a
    BY <1>1
<1> HIDE DEF a
<1>4. S = a .. a + Bits - 1
    <2>1. ASSUME NEW k \in Nat
          PROVE  k \div Bits = i <=> k \in a .. a + Bits - 1
        <3>1. k \in a .. a + Bits - 1 => k \div Bits = i
            <4>1. SUFFICES ASSUME a <= k, k < a + Bits  PROVE k \div Bits = i
                BY <1>1, <1>2
            <4>2. i \in Nat /\ Bits \in Nat \ {0} /\ Bits * i <= k /\ k < Bits * i + Bits
                BY <1>1, <1>3, <4>1
            <4> QED BY <4>2, DivUnique
        <3>2. k \div Bits = i => k \in a .. a + Bits - 1
            <4>1. Bits * (k \div Bits) <= k /\ k < Bits * (k \div Bits) + Bits
                BY <1>1, DivFacts
            <4> QED BY <1>1, <1>2, <1>3, <4>1
        <3> QED BY <3>1, <3>2
    <2>2. \A k \in a .. a + Bits - 1 : k \in 0 .. count - 1 /\ k \in Nat
        BY <1>1, <1>2
    <2> QED BY <2>1, <2>2
<1>5. Cardinality(a .. a + Bits - 1) = Bits
    <2>1. a \in Int /\ a + Bits - 1 \in Int /\ ~(a > a + Bits - 1) /\ (a + Bits - 1) - a + 1 = Bits
        BY <1>1, <1>2
    <2> QED BY <2>1, FS_Interval
<1> QED BY <1>4, <1>5

-----------------------------------------------------------------------------
(* Reading a byte: what FoldLeft makes of its bits. *)

\* The greatest number up to n is n.
LEMMA MaxOfInterval ==
    ASSUME NEW n \in Nat \ {0}
    PROVE  Max(1 .. n) = n /\ (1 .. n) \ {Max(1 .. n)} = 1 .. n - 1
<1>1. \E x \in 1 .. n : \A y \in 1 .. n : x >= y
    <2>1. n \in 1 .. n /\ \A y \in 1 .. n : n >= y
        OBVIOUS
    <2> QED BY <2>1
<1> DEFINE m == Max(1 .. n)
<1>2. m \in 1 .. n /\ \A y \in 1 .. n : m >= y
    BY <1>1 DEF Max
<1> HIDE DEF m
<1>3. m = n
    BY <1>2
<1>4. (1 .. n) \ {n} = 1 .. n - 1
    OBVIOUS
<1> QED BY <1>3, <1>4 DEF m

\* A set of numbers up to n has a greatest one.
LEMMA GreatestExists == \A n \in Nat : \A s \in SUBSET (1 .. n) :
                           s # {} => \E x \in s : \A y \in s : x >= y
<1> DEFINE Done == {n \in Nat : \A s \in SUBSET (1 .. n) :
                                  s # {} => \E x \in s : \A y \in s : x >= y}
<1>1. 0 \in Done
    <2>1. \A s \in SUBSET (1 .. 0) : s = {}
        OBVIOUS
    <2> QED BY <2>1
<1>2. ASSUME NEW n \in Nat, n \in Done
      PROVE  n + 1 \in Done
    <2>1. ASSUME NEW s \in SUBSET (1 .. n + 1), s # {}
          PROVE  \E x \in s : \A y \in s : x >= y
        <3>1. CASE n + 1 \in s
            <4>1. \A y \in s : n + 1 >= y
                OBVIOUS
            <4> QED BY <3>1, <4>1
        <3>2. CASE n + 1 \notin s
            <4>1. s \in SUBSET (1 .. n)
                BY <3>2
            <4> QED BY <1>2, <2>1, <4>1
        <3> QED BY <3>1, <3>2
    <2> QED BY <2>1
<1>3. \A n \in Nat : n \in Done
    <2> HIDE DEF Done
    <2> QED BY <1>1, <1>2, Induction
<1> QED BY <1>3

\* What is left without the greatest of some numbers up to n + 1 are numbers up to n.
LEMMA WithoutMax ==
    ASSUME NEW n \in Nat, NEW s \in SUBSET (1 .. n + 1), s # {}
    PROVE  Max(s) \in s /\ s \ {Max(s)} \in SUBSET (1 .. n)
<1>1. n + 1 \in Nat
    OBVIOUS
<1>2. \E x \in s : \A y \in s : x >= y
    BY <1>1, GreatestExists
<1> DEFINE m == Max(s)
<1>3. m \in s /\ \A y \in s : m >= y
    BY <1>2 DEF Max
<1> HIDE DEF m
<1>4. m \in 1 .. n + 1 /\ \A y \in s \ {m} : y \in 1 .. n
    BY <1>3
<1> QED BY <1>3, <1>4 DEF m

\* it folds ShiftIn over the bits at the positions of every set in D.
Folds(bits, D, it) ==
    it = [s \in D |-> IF s = {} THEN 0
                      ELSE ShiftIn(it[s \ {Max(s)}], bits[Max(s)])]

\* There are such folds: each set is its greatest position and a set that ends before it.
LEMMA FoldsExist ==
    ASSUME NEW bits
    PROVE  \A n \in Nat : \E it : Folds(bits, SUBSET (1 .. n), it)
<1> DEFINE Fold(s, it) == IF s = {} THEN 0
                          ELSE ShiftIn(it[s \ {Max(s)}], bits[Max(s)])
           Done == {n \in Nat : \E it : Folds(bits, SUBSET (1 .. n), it)}
<1>1. 0 \in Done
    <2>1. \A s \in SUBSET (1 .. 0) : s = {}
        OBVIOUS
    <2>2. Folds(bits, SUBSET (1 .. 0), [s \in SUBSET (1 .. 0) |-> 0])
        BY <2>1 DEF Folds
    <2> QED BY <2>2
<1>2. ASSUME NEW n \in Nat, n \in Done
      PROVE  n + 1 \in Done
    <2>1. PICK g : Folds(bits, SUBSET (1 .. n), g)
        BY <1>2
    <2> DEFINE h == [s \in SUBSET (1 .. n + 1) |-> Fold(s, g)]
    <2>2. \A s \in SUBSET (1 .. n) : h[s] = g[s]
        <3>1. \A s \in SUBSET (1 .. n) : g[s] = Fold(s, g)
            BY <2>1 DEF Folds
        <3>2. \A s \in SUBSET (1 .. n) : s \in SUBSET (1 .. n + 1)
            OBVIOUS
        <3> QED BY <3>1, <3>2
    <2>3. h = [s \in SUBSET (1 .. n + 1) |-> h[s]]
        OBVIOUS
    <2>4. \A s \in SUBSET (1 .. n + 1) : h[s] = Fold(s, g)
        OBVIOUS
    <2> HIDE DEF h
    <2>5. \A s \in SUBSET (1 .. n + 1) : h[s] = Fold(s, h)
        BY <2>2, <2>4, WithoutMax
    <2>6. Folds(bits, SUBSET (1 .. n + 1), h)
        BY <2>3, <2>5 DEF Folds
    <2> QED BY <2>6
<1>3. \A n \in Nat : n \in Done
    <2> HIDE DEF Done
    <2> QED BY <1>1, <1>2, Induction
<1> QED BY <1>3

\* The byte that the bits make, bit by bit.
LEMMA FoldSteps ==
    ASSUME NEW n \in Nat, NEW bits, DOMAIN bits = 1 .. n
    PROVE  \E g : /\ FoldLeft(ShiftIn, 0, bits) = g[n]
                  /\ g[0] = 0
                  /\ \A k \in 0 .. n - 1 : g[k + 1] = ShiftIn(g[k], bits[k + 1])
<1> DEFINE it == CHOOSE h : Folds(bits, SUBSET DOMAIN bits, h)
           g  == [k \in 0 .. n |-> it[1 .. k]]
<1>1. FoldLeft(ShiftIn, 0, bits) = it[DOMAIN bits]
    <2>1. \A h : Folds(bits, SUBSET DOMAIN bits, h) <=>
            h = [s \in SUBSET DOMAIN bits |->
                   IF s = {} THEN 0
                   ELSE ShiftIn(h[s \ {Max(s)}], bits[Max(s)])]
        BY DEF Folds, ShiftIn, ShiftIn
    <2> QED BY DEF FoldLeft, MapThenFoldSet, Folds, ShiftIn, ShiftIn
<1>2. Folds(bits, SUBSET (1 .. n), it)
    BY FoldsExist
<1> HIDE DEF it
<1>3. \A s \in SUBSET (1 .. n) :
        it[s] = IF s = {} THEN 0
                ELSE ShiftIn(it[s \ {Max(s)}], bits[Max(s)])
    BY <1>2 DEF Folds
<1>4. g[n] = it[1 .. n]
    OBVIOUS
<1>5. g[0] = 0
    <2>1. 1 .. 0 = {} /\ {} \in SUBSET (1 .. n)
        OBVIOUS
    <2>2. it[{}] = 0
        BY <1>3, <2>1
    <2> QED BY <2>1, <2>2
<1>6. ASSUME NEW k \in 0 .. n - 1
      PROVE  g[k + 1] = ShiftIn(g[k], bits[k + 1])
    <2> DEFINE s == 1 .. k + 1
    <2>1. k + 1 \in Nat \ {0} /\ k + 1 \in 0 .. n /\ k \in 0 .. n /\ (k + 1) - 1 = k
        OBVIOUS
    <2>2. Max(s) = k + 1 /\ s \ {Max(s)} = 1 .. k
        <3>1. Max(s) = k + 1 /\ s \ {Max(s)} = 1 .. (k + 1) - 1
            BY <2>1, MaxOfInterval
        <3> QED BY <2>1, <3>1
    <2>3. s \in SUBSET (1 .. n) /\ k + 1 \in s
        BY <2>1
    <2>4. g[k + 1] = it[s] /\ g[k] = it[1 .. k]
        BY <2>1
    <2> HIDE DEF s, g
    <2>5. it[s] = ShiftIn(it[s \ {Max(s)}], bits[Max(s)])
        BY <1>3, <2>3
    <2> QED BY <2>2, <2>4, <2>5
<1> HIDE DEF g
<1> QED BY <1>1, <1>4, <1>5, <1>6

\* The bits of x, of which one may be another, make x or a number that differs from
\* it by a power of two.
LEMMA OneBitDiffers ==
    ASSUME NEW x \in Nat, x < TwoTo[Bits], NEW p \in 1 .. Bits, NEW e \in {-1, 0, 1},
           NEW bits, DOMAIN bits = 1 .. Bits,
           \A j \in 1 .. Bits :
              bits[j] = ((x \div TwoTo[Bits - j]) % 2) + (IF j = p THEN e ELSE 0)
    PROVE  FoldLeft(ShiftIn, 0, bits) = x + e * TwoTo[Bits - p]
<1>0. Bits \in Nat \ {0} /\ TwoTo[Bits] \in Nat \ {0}
    BY FrameAssumption, PowersOfTwo
<1>1. PICK g : /\ FoldLeft(ShiftIn, 0, bits) = g[Bits]
               /\ g[0] = 0
               /\ \A k \in 0 .. Bits - 1 : g[k + 1] = ShiftIn(g[k], bits[k + 1])
    BY <1>0, FoldSteps
<1> DEFINE upper(k) == x \div TwoTo[Bits - k]
           power(k) == IF k < p THEN 0 ELSE TwoTo[k - p]
           diff(k)  == e * power(k)
           S == {k \in Nat : k <= Bits => g[k] = upper(k) + diff(k)}
<1>2. ASSUME NEW k \in 0 .. Bits
      PROVE  upper(k) \in Nat
    <2>1. Bits - k \in Nat
        BY <1>0
    <2>2. TwoTo[Bits - k] \in Nat \ {0}
        BY <2>1, PowersOfTwo
    <2> QED BY <2>2, DivFacts
<1>3. ASSUME NEW k \in 0 .. Bits
      PROVE  power(k) \in Nat
    <2>1. CASE k < p
        BY <2>1
    <2>2. CASE k >= p
        <3>1. k - p \in Nat /\ ~(k < p)
            BY <1>0, <2>2
        <3> QED BY <3>1, PowersOfTwo
    <2> QED BY <1>0, <2>1, <2>2
<1>4. ASSUME NEW k \in 0 .. Bits - 1
      PROVE  diff(k + 1) = 2 * diff(k) + (IF k + 1 = p THEN e ELSE 0)
    <2>1. CASE k + 1 < p
        <3>1. power(k) = 0 /\ power(k + 1) = 0 /\ k + 1 # p
            BY <1>0, <2>1
        <3> HIDE DEF power
        <3> QED BY <3>1
    <2>2. CASE k + 1 = p
        <3>1. power(k) = 0 /\ power(k + 1) = TwoTo[0]
            BY <1>0, <2>2
        <3>2. power(k) = 0 /\ power(k + 1) = 1
            BY <3>1, PowersOfTwo
        <3> HIDE DEF power
        <3> QED BY <2>2, <3>2
    <2>3. CASE k + 1 > p
        <3>1. /\ k - p \in Nat /\ (k - p) + 1 = (k + 1) - p
              /\ power(k) = TwoTo[k - p] /\ power(k + 1) = TwoTo[(k + 1) - p] /\ k + 1 # p
            BY <1>0, <2>3
        <3>2. power(k + 1) = 2 * power(k) /\ power(k) \in Nat
            BY <3>1, PowersOfTwo
        <3> HIDE DEF power
        <3> QED BY <3>1, <3>2
    <2> QED BY <1>0, <2>1, <2>2, <2>3
<1>5. \A k \in 0 .. Bits : diff(k) \in Int
    <2> TAKE k \in 0 .. Bits
    <2>1. power(k) \in Nat
        BY <1>3
    <2> HIDE DEF power
    <2> QED BY <2>1
<1>6. 0 \in S
    <2>1. upper(0) = 0
        <3>1. Bits - 0 = Bits
            BY <1>0
        <3> QED BY <1>0, <3>1, Small
    <2>2. diff(0) = 0
        BY <1>0
    <2> HIDE DEF upper, diff
    <2> QED BY <1>1, <2>1, <2>2
<1>7. ASSUME NEW k \in Nat, k \in S
      PROVE  k + 1 \in S
    <2>1. SUFFICES ASSUME k + 1 <= Bits  PROVE g[k + 1] = upper(k + 1) + diff(k + 1)
        OBVIOUS
    <2>2. k \in 0 .. Bits - 1 /\ k \in 0 .. Bits /\ k + 1 \in 1 .. Bits /\ k + 1 \in 0 .. Bits
        BY <1>0, <2>1
    <2>3. g[k] = upper(k) + diff(k)
        BY <1>7, <2>2
    <2> DEFINE b == (x \div TwoTo[Bits - (k + 1)]) % 2
               c == IF k + 1 = p THEN e ELSE 0
    <2>4. bits[k + 1] = b + c
        BY <2>2
    <2>5. ShiftIn(upper(k), b) = upper(k + 1)
        <3>1. Bits - 1 - k = Bits - (k + 1)
            BY <1>0, <2>2
        <3> QED BY <2>2, <3>1, ShiftedIsFaithful
    <2>6. diff(k + 1) = 2 * diff(k) + c
        BY <1>4, <2>2
    <2>7. upper(k) \in Nat /\ upper(k + 1) \in Nat /\ b \in Int /\ c \in Int
        <3>1. upper(k) \in Nat /\ upper(k + 1) \in Nat
            BY <1>2, <2>2
        <3>2. b \in Int
            <4> HIDE DEF S
            <4> QED BY <3>1
        <3> HIDE DEF upper, b
        <3> QED BY <3>1, <3>2
    <2>8. diff(k) \in Int /\ diff(k + 1) \in Int
        BY <1>5, <2>2
    <2>9. g[k + 1] = ShiftIn(g[k], bits[k + 1])
        BY <1>1, <2>2
    <2> HIDE DEF upper, diff, b, c, S
    <2> QED BY <2>3, <2>4, <2>5, <2>6, <2>7, <2>8, <2>9 DEF ShiftIn
<1>8. Bits \in S
    <2> HIDE DEF S
    <2> QED BY <1>0, <1>6, <1>7, Induction
<1>9. upper(Bits) = x
    <2>1. Bits - Bits = 0 /\ TwoTo[0] = 1
        BY <1>0, PowersOfTwo
    <2> QED BY <2>1, One
<1>10. power(Bits) = TwoTo[Bits - p]
    BY <1>0
<1>11. g[Bits] = upper(Bits) + diff(Bits)
    BY <1>0, <1>8
<1> QED BY <1>1, <1>9, <1>10, <1>11

\* The even changes can be counted.
LEMMA EvensAreFinite ==
    ASSUME NEW n \in Nat
    PROVE  Cardinality({i \in 3 .. n : i % 2 = 0}) \in Nat
<1> DEFINE S == {i \in 3 .. n : i % 2 = 0}
<1>1. S \in SUBSET (3 .. n) /\ IsFiniteSet(3 .. n)
    BY FS_Interval
<1> HIDE DEF S
<1>2. Cardinality(S) \in Nat
    BY <1>1, FS_Subset, FS_CardinalityType
<1> QED BY <1>2 DEF S

\* The number of the last change that is seen is one.
LEMMA LastChangeIsNat ==
    ASSUME NEW fault \in Faults
    PROVE  LastChange(fault) \in Nat
<1>1. IdleChange \in Nat
    BY FrameAssumption DEF IdleChange, MaxTimings, FrameBits
<1> QED BY <1>1 DEF Faults, LastChange

-----------------------------------------------------------------------------
(* A call of read_DHT_Data. *)

\* If there are enough, of the bits that are read at most one is not the one that was sent.
LEMMA OneBitAtMost ==
    ASSUME NEW payload \in Payloads, NEW fault \in Faults,
           ReadCount(fault) >= FrameBits
    PROVE  \E q \in 0 .. FrameBits - 1, e \in {-1, 0, 1} : \A k \in 0 .. FrameBits - 1 :
              ReadBit(Frame(payload), fault, k)
                = BitOf(Frame(payload), k) + (IF k = q THEN e ELSE 0)
<1> DEFINE f    == Frame(payload)
           last == LastChange(fault)
           read(k) == ReadBit(f, fault, k)
<1>0. FrameBits \in Nat \ {0}
    BY FrameAssumption DEF FrameBits
<1>1. IdleChange = 2 * FrameBits + 4
    BY <1>0 DEF IdleChange, MaxTimings
<1>2. \A k \in 0 .. FrameBits - 1 : BitOf(f, k) \in {0, 1}
    BY BitIsBit
<1>3. \A k : read(k) = IF 4 + 2 * k = last THEN 1
                       ELSE IF fault = <<"misread", k>> THEN 0 ELSE BitOf(f, k)
    BY DEF ReadBit
<1>4. \/ fault = <<"none", IdleChange>>
      \/ \E i \in 0 .. IdleChange - 1 : fault = <<"breaksOff", i>>
      \/ \E m \in 0 .. FrameBits - 1 : fault = <<"misread", m>>
    BY <1>1 DEF Faults
<1> HIDE DEF f, read
<1>5. CASE fault = <<"none", IdleChange>>
    <2>1. last = 2 * FrameBits + 4 /\ \A k : fault # <<"misread", k>>
        BY <1>1, <1>5 DEF LastChange
    <2> HIDE DEF last
    <2>2. \A k \in 0 .. FrameBits - 1 : read(k) = BitOf(f, k) + (IF k = 0 THEN 0 ELSE 0)
        BY <1>0, <1>2, <1>3, <2>1
    <2>3. 0 \in 0 .. FrameBits - 1
        BY <1>0
    <2> QED BY <2>2, <2>3 DEF read, f
<1>6. CASE \E m \in 0 .. FrameBits - 1 : fault = <<"misread", m>>
    <2>1. PICK m \in 0 .. FrameBits - 1 : fault = <<"misread", m>>
        BY <1>6
    <2>2. last = 2 * FrameBits + 4 /\ \A k : fault = <<"misread", k>> <=> k = m
        BY <1>1, <2>1 DEF LastChange
    <2> HIDE DEF last
    <2>3. \A k \in 0 .. FrameBits - 1 :
            read(k) = BitOf(f, k) + (IF k = m THEN -BitOf(f, m) ELSE 0)
        BY <1>0, <1>2, <1>3, <2>2
    <2>4. -BitOf(f, m) \in {-1, 0, 1}
        BY <1>2
    <2> QED BY <2>3, <2>4 DEF read, f
<1>7. CASE \E i \in 0 .. IdleChange - 1 : fault = <<"breaksOff", i>>
    <2>1. PICK i \in 0 .. 2 * FrameBits + 3 : fault = <<"breaksOff", i>>
        BY <1>0, <1>1, <1>7
    <2>2. last = i /\ \A k : fault # <<"misread", k>>
        BY <2>1 DEF LastChange
    <2>3. i >= 2 * FrameBits + 2
        <3>1. ReadCount(fault) = Cardinality({j \in 3 .. i : j % 2 = 0})
            BY <2>2 DEF ReadCount
        <3>2. i < 2 * FrameBits + 2 => ReadCount(fault) < FrameBits
            BY <1>0, <3>1, FewChanges
        <3>3. ReadCount(fault) \in Nat
            BY <3>1, EvensAreFinite
        <3> QED BY <1>0, <3>2, <3>3
    <2> HIDE DEF last
    <2> DEFINE q == FrameBits - 1
               e == IF i = 2 * FrameBits + 2 THEN 1 - BitOf(f, q) ELSE 0
    <2>4. q \in 0 .. FrameBits - 1
        BY <1>0
    <2>5. e \in {-1, 0, 1}
        BY <1>2, <2>4
    <2>6. \A k \in 0 .. FrameBits - 1 : 4 + 2 * k = i <=> k = q /\ i = 2 * FrameBits + 2
        BY <1>0, <2>3
    <2>7. \A k \in 0 .. FrameBits - 1 : read(k) = BitOf(f, k) + (IF k = q THEN e ELSE 0)
        <3> HIDE DEF q
        <3> QED BY <1>2, <1>3, <2>2, <2>4, <2>6
    <2> HIDE DEF q, e
    <2> QED BY <2>4, <2>5, <2>7 DEF read, f
<1> QED BY <1>4, <1>5, <1>6, <1>7

\* Then every byte is the one that was sent, but for at most one.
LEMMA OneByteDiffers ==
    ASSUME NEW payload \in Payloads, NEW fault \in Faults,
           ReadCount(fault) >= FrameBits
    PROVE  \E n \in 0 .. 4, d \in Int :
              /\ -TwoTo[Bits] < d /\ d < TwoTo[Bits]
              /\ \A i \in 0 .. 4 : ReadByte(Frame(payload), fault, i)
                                     = Frame(payload)[i] + (IF i = n THEN d ELSE 0)
<1> DEFINE f     == Frame(payload)
           count == ReadCount(fault)
<1>0. Bits \in Nat \ {0} /\ FrameBits = 5 * Bits /\ count \in Nat
    BY FrameAssumption, EvensAreFinite, LastChangeIsNat DEF FrameBits, ReadCount
<1>1. PICK q \in 0 .. FrameBits - 1, e \in {-1, 0, 1} : \A k \in 0 .. FrameBits - 1 :
        ReadBit(f, fault, k) = BitOf(f, k) + (IF k = q THEN e ELSE 0)
    BY OneBitAtMost
<1>2. \A i \in 0 .. 4 : f[i] \in Nat /\ f[i] < TwoTo[Bits]
    BY FrameIsBytes
<1> HIDE DEF f
<1>3. PICK n \in 0 .. 4, r \in 0 .. Bits - 1 : q = n * Bits + r /\ n = q \div Bits /\ r = q % Bits
    <2>1. q \in Nat /\ q < FrameBits
        BY <1>0
    <2> QED BY <2>1, Place, BeyondTheFrame
<1> DEFINE p == r + 1
           d == e * TwoTo[Bits - p]
<1>4. p \in 1 .. Bits
    BY <1>0
<1>5. d \in Int /\ -TwoTo[Bits] < d /\ d < TwoTo[Bits]
    <2>1. Bits - p \in Nat /\ (Bits - p) + p = Bits /\ p - 1 \in Nat /\ (Bits - p) + 1 \in Nat
          /\ ((Bits - p) + 1) + (p - 1) = Bits
        BY <1>0, <1>4
    <2>2. TwoTo[(Bits - p) + 1] <= TwoTo[Bits]
        BY <2>1, PowersGrow
    <2>3. /\ TwoTo[Bits - p] \in Nat \ {0} /\ TwoTo[(Bits - p) + 1] = 2 * TwoTo[Bits - p]
          /\ TwoTo[Bits] \in Nat
        BY <1>0, <2>1, PowersOfTwo
    <2> HIDE DEF p
    <2> QED BY <2>2, <2>3
<1>6. ASSUME NEW i \in 0 .. 4
      PROVE  ReadByte(f, fault, i) = f[i] + (IF i = n THEN d ELSE 0)
    <2> DEFINE bits == [j \in 1 .. Bits |-> ReadBit(f, fault, i * Bits + j - 1)]
               ei   == IF i = n THEN e ELSE 0
    <2>1. ReadByte(f, fault, i) = FoldLeft(ShiftIn, 0, bits)
        <3>1. Cardinality({k \in 0 .. count - 1 : k \div Bits = i}) = Bits
            BY <1>0, BitsOfByte
        <3> QED BY <3>1 DEF ReadByte
    <2>2. ASSUME NEW j \in 1 .. Bits
          PROVE  bits[j] = ((f[i] \div TwoTo[Bits - j]) % 2) + (IF j = p THEN ei ELSE 0)
        <3> DEFINE k == i * Bits + j - 1
        <3>1. k \in 0 .. FrameBits - 1 /\ k \in Nat /\ Bits * i <= k /\ k < Bits * i + Bits
              /\ k = i * Bits + (j - 1) /\ i * Bits \in Nat
            <4>1. i \in {0, 1, 2, 3, 4}
                OBVIOUS
            <4> QED BY <1>0, <4>1
        <3>2. k \div Bits = i
            BY <1>0, <3>1, DivUnique
        <3>3. k % Bits = j - 1
            <4>1. k = (k \div Bits) * Bits + (k % Bits) /\ k % Bits \in 0 .. Bits - 1
                BY <3>1, Place
            <4> HIDE DEF k
            <4> QED BY <1>0, <3>1, <3>2, <4>1
        <3>4. k = q <=> i = n /\ j = p
            <4>1. k = q => i = n /\ j - 1 = r
                BY <1>3, <3>2, <3>3
            <4>2. i = n /\ j - 1 = r => k = q
                BY <1>0, <1>3, <3>1
            <4> QED BY <1>0, <4>1, <4>2
        <3>5. bits[j] = BitOf(f, k) + (IF k = q THEN e ELSE 0)
            BY <1>1, <3>1
        <3>6. BitOf(f, k) = (f[i] \div TwoTo[Bits - j]) % 2
            <4>1. Bits - 1 - (j - 1) = Bits - j
                BY <1>0
            <4> HIDE DEF k
            <4> QED BY <3>2, <3>3, <4>1 DEF BitOf
        <3> HIDE DEF k, p, bits
        <3> QED BY <3>4, <3>5, <3>6
    <2>3. ei \in {-1, 0, 1} /\ f[i] \in Nat /\ f[i] < TwoTo[Bits] /\ DOMAIN bits = 1 .. Bits
        BY <1>2
    <2> HIDE DEF bits, ei, p
    <2>4. FoldLeft(ShiftIn, 0, bits) = f[i] + ei * TwoTo[Bits - p]
        BY <1>4, <2>2, <2>3, OneBitDiffers
    <2>5. ei * TwoTo[Bits - p] = IF i = n THEN d ELSE 0
        <3>1. Bits - p \in Nat
            BY <1>0, <1>4
        <3>2. TwoTo[Bits - p] \in Nat
            BY <3>1, PowersOfTwo
        <3> QED BY <3>2 DEF ei
    <2> QED BY <2>1, <2>4, <2>5
<1> HIDE DEF d
<1> QED BY <1>5, <1>6 DEF f

\* The sum tells a frame that arrived as it was sent from one that did not.
LEMMA SumTells ==
    ASSUME NEW payload \in Payloads, NEW fault \in Faults,
           ReadCount(fault) >= FrameBits,
           NEW bytes, bytes = [i \in 0 .. 4 |-> ReadByte(Frame(payload), fault, i)]
    PROVE  ChecksumHolds(bytes) <=> bytes = Frame(payload)
<1> DEFINE f == Frame(payload)
           m == TwoTo[Bits]
<1>1. PICK n \in 0 .. 4, d \in Int :
        /\ -m < d /\ d < m
        /\ \A i \in 0 .. 4 : ReadByte(f, fault, i) = f[i] + (IF i = n THEN d ELSE 0)
    BY OneByteDiffers
<1>2. /\ f \in [0 .. 4 -> Byte] /\ f[4] = Checksum(f)
      /\ \A i \in 0 .. 4 : f[i] \in Nat
    BY FrameIsBytes
<1>3. m \in Nat \ {0}
    BY FrameAssumption, PowersOfTwo
<1>4. ChecksumHolds(bytes) <=> bytes[4] = Checksum(bytes)
    BY DEF ChecksumHolds
<1> HIDE DEF f
<1>5. \A i \in 0 .. 4 : bytes[i] = f[i] + (IF i = n THEN d ELSE 0)
    BY <1>1 DEF f
<1>6. ASSUME d = 0
      PROVE  bytes = f
    <2>1. \A i \in 0 .. 4 : bytes[i] = f[i]
        BY <1>2, <1>5, <1>6
    <2>2. bytes = [i \in 0 .. 4 |-> bytes[i]]
        OBVIOUS
    <2> QED BY <1>2, <2>1, <2>2
<1>7. ASSUME bytes[4] = Checksum(bytes)
      PROVE  d = 0
    <2> DEFINE s == f[0] + f[1] + f[2] + f[3]
    <2>0. /\ 0 \in 0 .. 4 /\ 1 \in 0 .. 4 /\ 2 \in 0 .. 4 /\ 3 \in 0 .. 4 /\ 4 \in 0 .. 4
        OBVIOUS
    <2>1. /\ f[0] \in Nat /\ f[1] \in Nat /\ f[2] \in Nat /\ f[3] \in Nat /\ f[4] \in Nat
        BY <1>2, <2>0
    <2>2. /\ bytes[0] = f[0] + (IF 0 = n THEN d ELSE 0)
          /\ bytes[1] = f[1] + (IF 1 = n THEN d ELSE 0)
          /\ bytes[2] = f[2] + (IF 2 = n THEN d ELSE 0)
          /\ bytes[3] = f[3] + (IF 3 = n THEN d ELSE 0)
          /\ bytes[4] = f[4] + (IF 4 = n THEN d ELSE 0)
        BY <1>5, <2>0
    <2>3. f[4] = s % m
        BY <1>2 DEF Checksum
    <2>4. bytes[4] = (bytes[0] + bytes[1] + bytes[2] + bytes[3]) % m
        BY <1>7 DEF Checksum
    <2>5. bytes[0] + bytes[1] + bytes[2] + bytes[3] = IF n = 4 THEN s ELSE s + d
        <3>1. n \in {0, 1, 2, 3, 4}
            OBVIOUS
        <3> HIDE DEF m
        <3> QED BY <2>1, <2>2, <3>1
    <2>6. s \in Int
        BY <2>1
    <2> HIDE DEF s
    <2>7. CASE n = 4
        <3>1. f[4] + d = s % m
            BY <2>2, <2>4, <2>5, <2>7
        <3> HIDE DEF m
        <3> QED BY <2>1, <2>3, <3>1
    <2>8. CASE n # 4
        <3>1. s % m = (s + d) % m
            BY <2>1, <2>2, <2>3, <2>4, <2>5, <2>8
        <3> HIDE DEF m
        <3> QED BY <1>1, <1>3, <2>6, <3>1, SameRemainder
    <2> QED BY <2>7, <2>8
<1>8. bytes = f => bytes[4] = Checksum(bytes)
    BY <1>2
<1> QED BY <1>4, <1>6, <1>7, <1>8 DEF f

\* What is cached, and was shown, are the values of the last frame that arrived as sent.
LastGoodInv ==
    \/ lastGood = <<>> /\ cached = <<BadValue, BadValue>> /\ shown = Printed(cached)
    \/ /\ lastGood \in {Frame(payload) : payload \in Payloads}
       /\ cached = Readings(lastGood) /\ shown = Printed(cached)

\* A call that stores values has read a frame that the sum does not reject.
LEMMA LastGoodInvInductive ==
    /\ PollInit => LastGoodInv
    /\ LastGoodInv /\ [PollNext]_pollVars => LastGoodInv'
<1>1. PollInit => LastGoodInv
    BY DEF PollInit, Printed, LastGoodInv
<1>2. ASSUME LastGoodInv, UNCHANGED pollVars
      PROVE  LastGoodInv'
    BY <1>2 DEF pollVars, LastGoodInv, Readings, Printed
<1>3. ASSUME LastGoodInv, PollNext
      PROVE  LastGoodInv'
    <2>1. PICK payload \in Payloads, fault \in Faults :
            read_DHT_Data(Frame(payload), fault)
        BY <1>3 DEF PollNext
    <2> DEFINE f     == Frame(payload)
               bytes == [i \in 0 .. 4 |-> ReadByte(f, fault, i)]
               count == ReadCount(fault)
    <2>2. /\ cached' = IF count >= FrameBits /\ ChecksumHolds(bytes)
                         THEN Readings(bytes) ELSE cached
          /\ shown' = Printed(cached')
          /\ lastGood' = IF bytes = f /\ count >= FrameBits THEN f ELSE lastGood
        BY <2>1 DEF read_DHT_Data, Enough
    <2>3. count >= FrameBits => (ChecksumHolds(bytes) <=> bytes = f)
        BY SumTells
    <2> HIDE DEF f, bytes, count
    <2>4. CASE count >= FrameBits /\ bytes = f
        <3>1. cached' = Readings(f) /\ shown' = Printed(cached') /\ lastGood' = f
            BY <2>2, <2>3, <2>4
        <3>2. f \in {Frame(p) : p \in Payloads}
            BY DEF f
        <3> QED BY <3>1, <3>2 DEF LastGoodInv, Readings, Printed
    <2>5. CASE ~(count >= FrameBits /\ bytes = f)
        <3>1. cached' = cached /\ shown' = Printed(cached') /\ lastGood' = lastGood
            BY <2>2, <2>3, <2>5
        <3> QED BY <1>3, <3>1 DEF LastGoodInv, Readings, Printed
    <2> QED BY <2>4, <2>5
<1> QED BY <1>1, <1>2, <1>3

\* It holds in every state the program reaches.
LEMMA LastGoodAlways == PollSpec => []LastGoodInv
    BY LastGoodInvInductive, PTL DEF PollSpec

\* The sign, the magnitude and the range of the values.
LEMMA ValuesFacts ==
    ASSUME NEW payload \in Payloads, NEW f, f = Frame(payload),
           NEW v, v = Readings(f)
    PROVE  /\ v # <<>> /\ f # <<>>
           /\ v[1] = Humidity(f)
           /\ Abs(v[2]) % TwoTo[2 * Bits - 1] = Magnitude(f)
           /\ (v[2] < 0) <=> (BitOf(f, 2 * Bits) = 1)
           /\ v[1] \in 0 .. TwoTo[2 * Bits] - 1
           /\ v[2] \in -(TwoTo[2 * Bits]) + 1 .. TwoTo[2 * Bits] - 1
<1> DEFINE m == TwoTo[Bits]
           h == TwoTo[Bits - 1]
           c == f[2] * m + f[3]
<1>0. Bits \in Nat \ {0} /\ m \in Nat \ {0} /\ h \in Nat \ {0} /\ m = 2 * h
    <2>1. Bits \in Nat \ {0} /\ Bits - 1 \in Nat /\ (Bits - 1) + 1 = Bits
        BY FrameAssumption
    <2> QED BY <2>1, PowersOfTwo
<1>1. /\ f \in [0 .. 4 -> Byte]
      /\ \A i \in 0 .. 4 : f[i] \in Nat /\ f[i] < m
    BY FrameIsBytes
<1>2. /\ f[0] \in Nat /\ f[0] < m /\ f[1] \in Nat /\ f[1] < m
      /\ f[2] \in Nat /\ f[2] < m /\ f[3] \in Nat /\ f[3] < m
    <2>1. 0 \in 0 .. 4 /\ 1 \in 0 .. 4 /\ 2 \in 0 .. 4 /\ 3 \in 0 .. 4
        OBVIOUS
    <2> QED BY <1>1, <2>1
<1>3. BitOf(f, 2 * Bits) = (f[2] \div h) % 2
    BY SignBit
<1>4. v = <<f[0] * m + f[1], IF BitOf(f, 2 * Bits) = 1 THEN -c ELSE c>>
    BY DEF Readings
<1>5. v[1] = f[0] * m + f[1] /\ v[2] = IF BitOf(f, 2 * Bits) = 1 THEN -c ELSE c
    BY <1>4
<1>6. /\ TwoTo[2 * Bits] = m * m
      /\ TwoTo[2 * Bits - 1] = h * m
    <2>1. TwoTo[Bits + Bits] = m * m /\ TwoTo[(Bits - 1) + Bits] = h * m
        <3>1. Bits \in Nat /\ Bits - 1 \in Nat
            BY <1>0
        <3> QED BY <3>1, PowersMultiply
    <2>2. Bits + Bits = 2 * Bits /\ (Bits - 1) + Bits = 2 * Bits - 1
        BY <1>0
    <2> QED BY <2>1, <2>2
<1>7. \A b1, b2 \in Nat : b1 < m /\ b2 < m => b1 * m + b2 \in Nat /\ b1 * m + b2 < m * m
    <2> TAKE b1, b2 \in Nat
    <2>1. b1 < m => b1 * m + m <= m * m
        <3>1. b1 < m => m * b1 + m <= m * m
            BY <1>0, Grows
        <3> HIDE DEF m
        <3> QED BY <1>0, <3>1
    <2>2. b1 * m \in Nat /\ m * m \in Nat
        BY <1>0
    <2> HIDE DEF m
    <2> QED BY <1>0, <2>1, <2>2
<1> DEFINE w == TwoTo[2 * Bits]
<1>8. v[1] \in 0 .. w - 1 /\ c \in Nat /\ c < w
    <2>1. f[0] * m + f[1] \in Nat /\ f[0] * m + f[1] < m * m
        BY <1>2, <1>7
    <2>2. c \in Nat /\ c < m * m
        BY <1>2, <1>7
    <2>3. m * m \in Nat
        BY <1>0
    <2>4. w = m * m
        BY <1>6
    <2> HIDE DEF w, m, c
    <2> QED BY <1>5, <2>1, <2>2, <2>3, <2>4
<1>9. w \in Nat
    <2>1. 2 * Bits \in Nat
        BY <1>0
    <2> QED BY <2>1, PowersOfTwo
<1>10. v[2] \in -w + 1 .. w - 1
    <2> HIDE DEF w, c
    <2> QED BY <1>5, <1>8, <1>9
<1>11. Abs(v[2]) = c
    <2> HIDE DEF c
    <2> QED BY <1>5, <1>8 DEF Abs
<1>12. PICK q \in {0, 1}, r \in 0 .. h - 1 :
         /\ f[2] = h * q + r /\ r = f[2] % h /\ q = (f[2] \div h) % 2
    <2> DEFINE x == f[2]
               y == x \div h
    <2>1. x \in Nat /\ x < 2 * h
        BY <1>0, <1>2
    <2>2. /\ y \in Nat /\ h * y <= x /\ x < h * y + h
          /\ x = h * y + (x % h) /\ x % h \in 0 .. h - 1
        <3> HIDE DEF h, x
        <3> QED BY <1>0, <2>1, DivFacts
    <2> HIDE DEF x, y, h
    <2>3. ~(1 < y)
        <3>1. 1 < y => h * 1 + h <= h * y
            BY <1>0, <2>2, Grows
        <3> QED BY <1>0, <2>1, <2>2, <3>1
    <2>4. y \in {0, 1} /\ y % 2 = y
        BY <2>2, <2>3
    <2> QED BY <2>2, <2>4 DEF x, y
<1>13. c % (h * m) = r * m + f[3]
    <2> DEFINE k == h * m
    <2>1. k \in Nat \ {0}
        BY <1>0
    <2>2. c = k * q + (r * m + f[3])
        <3>1. f[2] * m = (h * q) * m + r * m
            BY <1>0, <1>12
        <3>2. (h * q) * m = k * q
            BY <1>0, <1>12
        <3> QED BY <1>0, <1>2, <1>12, <3>1, <3>2
    <2>3. r * m + f[3] \in 0 .. k - 1
        <3>0. m \in Nat /\ h \in Nat /\ r \in Nat /\ r < h /\ f[3] \in Nat /\ f[3] < m
            BY <1>0, <1>2, <1>12
        <3> HIDE DEF m, h
        <3>1. m * r + m <= m * h
            BY <3>0, Grows
        <3>2. m * r = r * m /\ m * h = h * m /\ r * m \in Nat
            BY <3>0
        <3>3. h * m \in Nat
            BY <3>0
        <3> QED BY <3>0, <3>1, <3>2, <3>3
    <2> DEFINE z == r * m + f[3]
    <2>4. k * q \in {0, k}
        <3> HIDE DEF k
        <3> QED BY <1>12, <2>1
    <2> HIDE DEF z, k, c
    <2>5. (k * q + z) % k = z
        BY <1>12, <2>1, <2>3, RemainderIs DEF z
    <2> QED BY <2>2, <2>5 DEF z, k
<1>14. Abs(v[2]) % TwoTo[2 * Bits - 1] = Magnitude(f)
    BY <1>6, <1>11, <1>12, <1>13 DEF Magnitude
<1>15. (v[2] < 0) <=> (BitOf(f, 2 * Bits) = 1)
    <2>1. BitOf(f, 2 * Bits) = 1 => c > 0
        <3>1. BitOf(f, 2 * Bits) = 1 => f[2] >= 1
            BY <1>0, <1>3, <1>12
        <3>2. f[2] >= 1 => f[2] * m >= m
            BY <1>0, <1>2
        <3>3. f[2] * m \in Nat
            BY <1>0, <1>2
        <3> HIDE DEF m
        <3> QED BY <1>0, <1>2, <3>1, <3>2, <3>3
    <2> HIDE DEF c
    <2> QED BY <1>5, <1>8, <2>1
<1>16. v # <<>> /\ f # <<>>
    <2>1. f # <<>>
        <3>1. DOMAIN f = 0 .. 4 /\ DOMAIN <<>> = 1 .. 0
            BY <1>1
        <3> QED BY <3>1
    <2> QED BY <1>4, <2>1
<1>17. v[1] = Humidity(f)
    BY <1>5 DEF Humidity
<1> QED BY <1>8, <1>10, <1>14, <1>15, <1>16, <1>17

\* What read_DHT_Data shows comes from the last frame that arrived as it was sent: none
\* that broke off, and none of which a bit was misread, gets through the count and the
\* sum, and it is skipped only when there is none or when it has the bad value.
THEOREM PolledShowsTheLastGoodFrame == PollSpec => []ShowsTheLastGoodFrame
<1>1. LastGoodInv => ShowsTheLastGoodFrame
    <2>1. ASSUME NEW payload \in Payloads, lastGood = Frame(payload),
                 NEW v, v = Readings(lastGood), shown = Printed(v)
          PROVE  ShowsTheLastGoodFrame
        <3>1. /\ v # <<>> /\ lastGood # <<>>
              /\ v[1] = Humidity(lastGood) /\ IsTemperatureOf(v[2], lastGood)
            BY <2>1, ValuesFacts DEF IsTemperatureOf
        <3>2. CASE v[1] = BadValue \/ v[2] = BadValue
            <4>1. shown = Skipped
                BY <2>1, <3>2 DEF Printed
            <4> QED BY <3>1, <3>2, <4>1 DEF ShowsTheLastGoodFrame
        <3>3. CASE ~(v[1] = BadValue \/ v[2] = BadValue)
            <4>1. shown = v
                BY <2>1, <3>3 DEF Printed
            <4> QED BY <3>1, <3>3, <4>1 DEF ShowsTheLastGoodFrame, Skipped
        <3> QED BY <3>2, <3>3
    <2>2. lastGood = <<>> /\ shown = Printed(<<BadValue, BadValue>>) => ShowsTheLastGoodFrame
        BY DEF ShowsTheLastGoodFrame, Printed
    <2> QED BY <2>1, <2>2 DEF LastGoodInv
<1> QED BY <1>1, LastGoodAlways, PTL

\* read_DHT_Data shows and caches values of two bytes, the temperature with a sign, and
\* counts as good only what is a frame.
THEOREM PolledIsTyped == PollSpec => []DHT22TypeOK
<1>1. LastGoodInv => DHT22TypeOK
    <2> DEFINE w == TwoTo[2 * Bits]
               Fits(v) == v[1] \in 0 .. w - 1 /\ v[2] \in -w + 1 .. w - 1
    <2>1. ASSUME NEW payload \in Payloads, lastGood = Frame(payload),
                 cached = Readings(lastGood)
          PROVE  Fits(cached) /\ cached # Skipped /\ lastGood \in [0 .. 4 -> Byte]
        BY <2>1, ValuesFacts, FrameIsBytes DEF Skipped
    <2>2. ASSUME cached = <<BadValue, BadValue>>
          PROVE  Fits(cached) /\ cached # Skipped
        <3>1. Bits \in Nat \ {0} /\ 2 * Bits - 1 \in Nat /\ (2 * Bits - 1) + 1 = 2 * Bits
            BY FrameAssumption
        <3>2. w \in Nat /\ TwoTo[2 * Bits - 1] \in Nat /\ w = 2 * TwoTo[2 * Bits - 1]
            BY <3>1, PowersOfTwo
        <3>3. BadValue \in 0 .. w - 1
            BY <3>2, BadValueAssumption
        <3> HIDE DEF w
        <3>4. cached[1] = BadValue /\ cached[2] = BadValue /\ cached # Skipped
            BY <2>2 DEF Skipped
        <3> QED BY <3>2, <3>3, <3>4
    <2>3. shown = Printed(cached) => shown \in {cached, Skipped}
        BY DEF Printed
    <2>4. (lastGood = <<>> \/ lastGood \in [0 .. 4 -> Byte]) /\ Fits(cached) /\ cached # Skipped
            /\ shown \in {cached, Skipped} => DHT22TypeOK
        BY Zenon DEF DHT22TypeOK
    <2> HIDE DEF Fits
    <2> QED BY <2>1, <2>2, <2>3, <2>4 DEF LastGoodInv
<1> QED BY <1>1, LastGoodAlways, PTL

=============================================================================
