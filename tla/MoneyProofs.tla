---------------------------- MODULE MoneyProofs -----------------------------
(***************************************************************************)
(* Proofs about amounts, for any word size, alphabet and length of text.   *)
(***************************************************************************)
EXTENDS Money, FoldTheorems

-----------------------------------------------------------------------------
(* Characters *)

LEMMA CharIs ==
    /\ Char(0) = "0" /\ Char(1) = "1" /\ Char(2) = "2" /\ Char(3) = "3" /\ Char(4) = "4"
    /\ Char(5) = "5" /\ Char(6) = "6" /\ Char(7) = "7" /\ Char(8) = "8" /\ Char(9) = "9"
BY DEF Char, Digits

LEMMA DigitFacts ==
    /\ DOMAIN Digit = {"0", "1", "2", "3", "4", "5", "6", "7", "8", "9"}
    /\ \A d \in 0..9 : Char(d) \in DOMAIN Digit /\ Digit[Char(d)] = d
    /\ \A c \in DOMAIN Digit : Digit[c] \in 0..9
    /\ \A c \in {".", "+", "-", " ", "e", "E"} : c \notin DOMAIN Digit
<1>1. \A d \in 0..9 : d \in {0, 1, 2, 3, 4, 5, 6, 7, 8, 9}
    OBVIOUS
<1>2. \A c, d \in 0..9 : Char(c) = Char(d) => c = d
    BY <1>1, CharIs
<1>3. DOMAIN Digit = {Char(d) : d \in 0..9}
    BY DEF Digit
<1>4. DOMAIN Digit = {"0", "1", "2", "3", "4", "5", "6", "7", "8", "9"}
  <2>1. ASSUME NEW c \in DOMAIN Digit
        PROVE  c \in {"0", "1", "2", "3", "4", "5", "6", "7", "8", "9"}
    BY <1>1, <1>3, CharIs
  <2>2. ASSUME NEW c \in {"0", "1", "2", "3", "4", "5", "6", "7", "8", "9"}
        PROVE  c \in DOMAIN Digit
    <3>1. \E d \in {0, 1, 2, 3, 4, 5, 6, 7, 8, 9} : c = Char(d)
      BY CharIs
    <3>. QED
      BY <1>3, <3>1
  <2>. QED
    BY <2>1, <2>2
<1>5. ASSUME NEW d \in 0..9 PROVE Char(d) \in DOMAIN Digit /\ Digit[Char(d)] = d
  <2>1. Char(d) \in DOMAIN Digit
    BY <1>3
  <2>2. Digit[Char(d)] = CHOOSE x \in 0..9 : Char(x) = Char(d)
    BY <1>3, <2>1 DEF Digit
  <2>. QED
    BY <1>2, <2>1, <2>2
<1>6. \A c \in DOMAIN Digit : Digit[c] \in 0..9
    BY <1>3, <1>5
<1>. QED
    BY <1>4, <1>5, <1>6

-----------------------------------------------------------------------------
(* The word *)

LEMMA Division ==
    ASSUME NEW n \in Int, NEW d \in Nat, d > 0
    PROVE  /\ n \div d \in Int /\ n % d \in 0..(d - 1)
           /\ d * (n \div d) <= n /\ n < d * (n \div d) + d
           /\ n >= 0 => n \div d \in Nat
OBVIOUS

LEMMA WrapIsWord ==
    ASSUME NEW n \in Int
    PROVE  Wrap(n) \in Words
<1>1. MaxInt \in Nat /\ 2 * (MaxInt + 1) \in Nat /\ 2 * (MaxInt + 1) > 0 /\ n - MinInt \in Int
    BY MoneyAssumption DEF MinInt
<1>2. (n - MinInt) % (2 * (MaxInt + 1)) \in 0..(2 * (MaxInt + 1) - 1)
    BY <1>1, Division
<1>. QED
    BY <1>1, <1>2 DEF Wrap, Words, MinInt

LEMMA SmallRemainder ==
    ASSUME NEW k \in Nat, NEW m \in Nat, k < m
    PROVE  k % m = k /\ (k + m) % m = k
OBVIOUS

LEMMA WrapKeeps ==
    ASSUME NEW n \in Words
    PROVE  Wrap(n) = n
<1>1. /\ MaxInt \in Nat /\ MinInt \in Int /\ n \in Int
      /\ n - MinInt \in Nat /\ 2 * (MaxInt + 1) \in Nat /\ n - MinInt < 2 * (MaxInt + 1)
    BY MoneyAssumption DEF MinInt, Words
<1>2. (n - MinInt) % (2 * (MaxInt + 1)) = n - MinInt
    BY <1>1, SmallRemainder
<1>. QED
    BY <1>1, <1>2 DEF Wrap

(* A little above the word it goes on from its other end. *)
LEMMA WrapAround ==
    ASSUME NEW n \in Words
    PROVE  Wrap(n + 2 * (MaxInt + 1)) = n
<1> DEFINE m == 2 * (MaxInt + 1)
<1>1. /\ MaxInt \in Nat /\ MinInt \in Int /\ n \in Int
      /\ n - MinInt \in Nat /\ m \in Nat /\ n - MinInt < m
    BY MoneyAssumption DEF MinInt, Words
<1>. HIDE DEF m
<1>2. ((n - MinInt) + m) % m = n - MinInt
    BY <1>1, SmallRemainder
<1>3. (n + m) - MinInt = (n - MinInt) + m
    BY <1>1
<1>4. Wrap(n + m) = (((n + m) - MinInt) % m) + MinInt
    BY DEF Wrap, m
<1>. QED
    BY <1>1, <1>2, <1>3, <1>4 DEF m

-----------------------------------------------------------------------------
(* Fees *)

(* Rounding half up, in whole numbers: product is amount times points. *)
LEMMA Rounding ==
    ASSUME NEW product \in Nat, NEW q \in Int,
           Unit * q <= product + Unit \div 2, product + Unit \div 2 < Unit * q + Unit
    PROVE  /\ Unit * (2 * q - 1) <= 2 * product
           /\ 2 * product < Unit * (2 * q + 1)
<1>1. Unit \in Nat /\ 2 * (Unit \div 2) = Unit /\ Unit \div 2 \in Int
    BY MoneyAssumption
<1> DEFINE Q == Unit * q
<1>2. Q \in Int /\ Unit * (2 * q - 1) = 2 * Q - Unit /\ Unit * (2 * q + 1) = 2 * Q + Unit
    BY <1>1
<1>. HIDE DEF Q
<1>. QED
    BY <1>1, <1>2 DEF Q

LEMMA FeeIsQuotient ==
    ASSUME NEW m \in Nat, NEW points \in Nat, m * points + Unit \div 2 <= MaxInt
    PROVE  /\ VariableFee(m, points) \in Nat
           /\ Unit * VariableFee(m, points) <= m * points + Unit \div 2
           /\ m * points + Unit \div 2 < Unit * VariableFee(m, points) + Unit
<1> DEFINE x == m * points + Unit \div 2
<1>1. Unit \in Nat /\ Unit > 0 /\ Unit \div 2 \in Nat /\ MaxInt \in Nat
    BY MoneyAssumption
<1>2. m * points \in Nat
    OBVIOUS
<1>3. x \in Nat /\ x \in Words
    BY <1>1, <1>2 DEF Words, MinInt
<1>. HIDE DEF x
<1>4. VariableFee(m, points) = x \div Unit
    BY <1>3, WrapKeeps DEF VariableFee, Quo, x
<1>5. x \div Unit \in Nat /\ Unit * (x \div Unit) <= x /\ x < Unit * (x \div Unit) + Unit
    BY <1>1, <1>3, Division
<1>. QED
    BY <1>4, <1>5 DEF x

(* A quotient is known by its multiples. *)
LEMMA QuotientBelow ==
    ASSUME NEW d \in Nat, NEW p \in Int, NEW q \in Int, d * p < d * q + d
    PROVE  p <= q
<1>1. SUFFICES ASSUME p >= q + 1 PROVE FALSE
    OBVIOUS
<1>2. d * p >= d * (q + 1)
    BY <1>1
<1>3. d * (q + 1) = d * q + d
    OBVIOUS
<1>. QED
    BY <1>2, <1>3

LEMMA FeesRound ==
    ASSUME NEW m \in Nat, NEW points \in 0..Unit, m * points + Unit \div 2 <= MaxInt
    PROVE  LET fee == VariableFee(m, points)
           IN  /\ Unit * (2 * fee - 1) <= 2 * m * points
               /\ 2 * m * points < Unit * (2 * fee + 1)
               /\ fee \in 0..m
               /\ m > 0 => VariableFee(m - 1, points) <= fee
<1> DEFINE fee == VariableFee(m, points)
           half == Unit \div 2
<1>1. /\ Unit \in Nat /\ Unit > 0 /\ half \in Nat /\ half < Unit /\ points \in Nat
      /\ points <= Unit /\ m * points \in Nat /\ MaxInt \in Nat
    BY MoneyAssumption
<1>2. fee \in Nat /\ Unit * fee <= m * points + half /\ m * points + half < Unit * fee + Unit
    BY <1>1, FeeIsQuotient
<1>3. Unit * (2 * fee - 1) <= 2 * (m * points) /\ 2 * (m * points) < Unit * (2 * fee + 1)
  <2>. HIDE DEF fee
  <2>. QED
    BY <1>1, <1>2, Rounding
<1>4. 2 * m * points = 2 * (m * points)
    BY <1>1
<1>5. fee <= m
  <2>1. m * points <= m * Unit
    BY <1>1
  <2>2. m * Unit = Unit * m /\ Unit * m \in Int /\ Unit * fee \in Int
    BY <1>1, <1>2
  <2>3. Unit * fee < Unit * m + Unit
    BY <1>1, <1>2, <2>1, <2>2
  <2>. HIDE DEF fee
  <2>. QED
    BY <1>1, <1>2, <2>3, QuotientBelow
<1>6. ASSUME m > 0 PROVE VariableFee(m - 1, points) <= fee
  <2> DEFINE less == VariableFee(m - 1, points)
  <2>1. m - 1 \in Nat /\ (m - 1) * points \in Nat /\ (m - 1) * points = m * points - points
    BY <1>1, <1>6
  <2>2. (m - 1) * points + half <= MaxInt
    BY <1>1, <2>1
  <2>3. less \in Nat /\ Unit * less <= (m - 1) * points + half
    BY <1>1, <2>1, <2>2, FeeIsQuotient
  <2>4. Unit * less \in Int /\ Unit * fee \in Int
    BY <1>1, <1>2, <2>3
  <2>. HIDE DEF less, fee
  <2>5. Unit * less < Unit * fee + Unit
    BY <1>1, <1>2, <2>1, <2>3, <2>4
  <2>. QED
    BY <1>1, <1>2, <2>3, <2>5, QuotientBelow DEF less
<1>7. fee \in 0..m
    BY <1>2, <1>5
<1>. HIDE DEF fee
<1>. QED
    BY <1>3, <1>4, <1>6, <1>7 DEF fee

-----------------------------------------------------------------------------
(* Writing a number *)

DecimalUpTo(f, k) ==
    [n \in 0..k |-> IF n < 10 THEN <<Char(n)>> ELSE Append(f[n \div 10], Char(n % 10))]

(* The recursion that Decimal is defined by has a solution. *)
LEMMA DecimalExists ==
    \A k \in Nat : \E f : f = DecimalUpTo(f, k)
<1> DEFINE Good == {k \in Nat : \E f : f = DecimalUpTo(f, k)}
<1>1. 0 \in Good
  <2> DEFINE f == [n \in 0..0 |-> <<Char(n)>>]
  <2>1. f = DecimalUpTo(f, 0)
    BY DEF DecimalUpTo
  <2>. QED
    BY <2>1
<1>2. ASSUME NEW k \in Nat, k \in Good PROVE k + 1 \in Good
  <2>1. PICK f : f = DecimalUpTo(f, k)
    BY <1>2
  <2> DEFINE g == [n \in 0..(k + 1) |->
                     IF n < 10 THEN <<Char(n)>> ELSE Append(f[n \div 10], Char(n % 10))]
  <2>2. ASSUME NEW n \in 0..(k + 1), ~(n < 10) PROVE n \div 10 \in 0..k
    BY <2>2
  <2>3. ASSUME NEW n \in 0..k PROVE g[n] = f[n]
    <3> DEFINE v == IF n < 10 THEN <<Char(n)>> ELSE Append(f[n \div 10], Char(n % 10))
    <3>1. f[n] = v
      BY <2>1 DEF DecimalUpTo
    <3>2. n \in 0..(k + 1)
      OBVIOUS
    <3>3. g[n] = v
      BY <3>2
    <3>. QED
      BY <3>1, <3>3
  <2>4. g = DecimalUpTo(g, k + 1)
    <3>1. \A n \in 0..(k + 1) : ~(n < 10) => f[n \div 10] = g[n \div 10]
      <4>. HIDE DEF g
      <4>. QED
        BY <2>2, <2>3
    <3>2. g = [n \in 0..(k + 1) |->
                 IF n < 10 THEN <<Char(n)>> ELSE Append(f[n \div 10], Char(n % 10))]
      OBVIOUS
    <3>. HIDE DEF g
    <3>. QED
      BY <3>1, <3>2 DEF DecimalUpTo
  <2>. QED
    BY <2>4
<1>3. \A k \in Nat : k \in Good
  <2>. HIDE DEF Good
  <2>. QED
    BY <1>1, <1>2, NumberInduction
<1>. QED
    BY <1>3

LEMMA DecimalIs ==
    ASSUME NEW n \in 0..(MaxInt + 1)
    PROVE  Decimal[n] = IF n < 10 THEN <<Char(n)>> ELSE Append(Decimal[n \div 10], Char(n % 10))
<1>1. MaxInt + 1 \in Nat
    BY MoneyAssumption
<1>2. Decimal = CHOOSE f : f = DecimalUpTo(f, MaxInt + 1)
    BY DEF Decimal, DecimalUpTo
<1>3. Decimal = DecimalUpTo(Decimal, MaxInt + 1)
    BY <1>1, <1>2, DecimalExists
<1>. QED
    BY <1>3 DEF DecimalUpTo

-----------------------------------------------------------------------------
(* Reading a number: a recursion that takes out the last digit. *)

NumberBody(s, S, g) ==
    [t \in SUBSET S |-> IF t = {} THEN 0 ELSE 10 * g[t \ {Max(t)}] + Digit[s[Max(t)]]]

LEMMA NumberChosen ==
    ASSUME NEW s
    PROVE  Number(s) = (CHOOSE g : g = NumberBody(s, DOMAIN s, g))[DOMAIN s]
BY DEF Number, FoldLeft, MapThenFoldSet, NumberBody

DigitStep(s, S) == [i \in S |-> [v \in Int |-> 10 * v + Digit[s[i]]]]

DigitsOn(s, S) == \A i \in S : Digit[s[i]] \in Int

TakesDigits(g, s, T) ==
    \A t \in SUBSET T : t # {} /\ g[t \ {Max(t)}] \in Int
                          => g[t] = 10 * g[t \ {Max(t)}] + Digit[s[Max(t)]]

LEMMA NumberValues ==
    ASSUME NEW S, IsFiniteSet(S), S \subseteq Nat, NEW s, DigitsOn(s, S),
           NEW T, T \subseteq S, NEW g, g[{}] = 0, TakesDigits(g, s, T)
    PROVE  \A t \in SUBSET T : g[t] \in Int
<1> DEFINE Good == {t \in SUBSET T : g[t] \in Int}
<1>1. {} \in Good
    OBVIOUS
<1>2. ASSUME NEW t \in SUBSET T, t # {}, \A x \in t : t \ {x} \in Good
      PROVE  t \in Good
  <2>1. Max(t) \in t /\ Max(t) \in S
    BY <1>2, MaxFacts
  <2>2. g[t \ {Max(t)}] \in Int /\ Digit[s[Max(t)]] \in Int
    BY <1>2, <2>1 DEF DigitsOn
  <2>3. g[t] = 10 * g[t \ {Max(t)}] + Digit[s[Max(t)]]
    BY <1>2, <2>2 DEF TakesDigits
  <2>. QED
    BY <2>2, <2>3
<1>3. IsFiniteSet(T)
    BY FS_Subset
<1>4. \A t \in SUBSET T : t \in Good
  <2>. HIDE DEF Good
  <2>. QED
    BY <1>1, <1>2, <1>3, SetInduction
<1>. QED
    BY <1>4

LEMMA SolutionIsNumber ==
    ASSUME NEW S, IsFiniteSet(S), S \subseteq Nat, NEW s, DigitsOn(s, S),
           NEW T, T \subseteq S, NEW g,
           Solves(g, MaxOf(S), DigitStep(s, S), 0, T)
    PROVE  g = NumberBody(s, T, g)
<1>1. g[{}] = 0
    BY DEF Solves
<1>2. ASSUME NEW t \in SUBSET T, t # {}, g[t \ {Max(t)}] \in Int
      PROVE  g[t] = 10 * g[t \ {Max(t)}] + Digit[s[Max(t)]]
  <2>1. Max(t) \in S /\ MaxOf(S)[t] = Max(t)
    BY <1>2, MaxFacts
  <2>2. DigitStep(s, S)[Max(t)][g[t \ {Max(t)}]] = 10 * g[t \ {Max(t)}] + Digit[s[Max(t)]]
    BY <1>2, <2>1 DEF DigitStep
  <2>. QED
    BY <1>2, <2>1, <2>2 DEF Solves
<1>3. \A t \in SUBSET T : g[t] \in Int
  <2>1. TakesDigits(g, s, T)
    BY <1>2 DEF TakesDigits
  <2>. QED
    BY <1>1, <2>1, NumberValues
<1>4. \A t \in SUBSET T :
        g[t] = IF t = {} THEN 0 ELSE 10 * g[t \ {Max(t)}] + Digit[s[Max(t)]]
  <2>1. ASSUME NEW t \in SUBSET T, t # {} PROVE g[t \ {Max(t)}] \in Int
    BY <1>3, <2>1
  <2>. QED
    BY <1>1, <1>2, <2>1
<1>5. g = [t \in SUBSET T |-> g[t]]
    BY DEF Solves
<1>. QED
    BY <1>4, <1>5 DEF NumberBody

LEMMA NumberIsSolution ==
    ASSUME NEW S, IsFiniteSet(S), S \subseteq Nat, NEW s, DigitsOn(s, S),
           NEW T, T \subseteq S, NEW g, g = NumberBody(s, T, g)
    PROVE  /\ Solves(g, MaxOf(S), DigitStep(s, S), 0, T)
           /\ \A t \in SUBSET T : g[t] \in Int
<1>1. g[{}] = 0
    BY DEF NumberBody
<1>2. ASSUME NEW t \in SUBSET T, t # {}
      PROVE  g[t] = 10 * g[t \ {Max(t)}] + Digit[s[Max(t)]]
    BY <1>2 DEF NumberBody
<1>3. \A t \in SUBSET T : g[t] \in Int
  <2>1. TakesDigits(g, s, T)
    BY <1>2 DEF TakesDigits
  <2>. QED
    BY <1>1, <2>1, NumberValues
<1>4. ASSUME NEW t \in SUBSET T, t # {}
      PROVE  g[t] = DigitStep(s, S)[MaxOf(S)[t]][g[t \ {MaxOf(S)[t]}]]
  <2>1. Max(t) \in S /\ MaxOf(S)[t] = Max(t)
    BY <1>4, MaxFacts
  <2>2. g[t \ {Max(t)}] \in Int
    BY <1>3, <1>4
  <2>3. DigitStep(s, S)[Max(t)][g[t \ {Max(t)}]] = 10 * g[t \ {Max(t)}] + Digit[s[Max(t)]]
    BY <2>1, <2>2 DEF DigitStep
  <2>. QED
    BY <1>2, <1>4, <2>1, <2>3
<1>5. g = [t \in SUBSET T |-> g[t]]
    BY DEF NumberBody
<1>. QED
    BY <1>1, <1>3, <1>4, <1>5 DEF Solves

(* One function holds the numbers at the beginnings of a text. *)
HoldsNumbers(g, s, n) ==
    /\ g = NumberBody(s, 1..n, g)
    /\ \A t \in SUBSET (1..n) : g[t] \in Int
    /\ \A k \in 0..n : \A part :
          DOMAIN part = 1..k /\ (\A i \in 1..k : part[i] = s[i]) => Number(part) = g[1..k]

LEMMA NumbersOfPrefixes ==
    ASSUME NEW n \in Nat, NEW s, DigitsOn(s, 1..n)
    PROVE  \E g : HoldsNumbers(g, s, n)
<1> DEFINE S == 1..n
<1>1. IsFiniteSet(S) /\ S \subseteq Nat /\ DigitsOn(s, S)
    BY SegmentFinite
<1>2. ASSUME NEW T \in SUBSET S
      PROVE  \E g : g = NumberBody(s, T, g)
  <2>1. IsFiniteSet(T) /\ Picks(MaxOf(S), T)
    <3>. HIDE DEF S
    <3>. QED
      BY <1>1, MaxPicks, FS_Subset DEF Picks
  <2>2. PICK g : Solves(g, MaxOf(S), DigitStep(s, S), 0, T)
    <3>. HIDE DEF S
    <3>. QED
      BY <2>1, SolutionExists
  <2>3. g = NumberBody(s, T, g)
    <3>. HIDE DEF S
    <3>. QED
      BY <1>1, <2>2, SolutionIsNumber
  <2>. QED
    BY <2>3
<1>3. PICK g : g = NumberBody(s, S, g)
    BY <1>2
<1>4. /\ Solves(g, MaxOf(S), DigitStep(s, S), 0, S)
      /\ \A t \in SUBSET S : g[t] \in Int
  <2>. HIDE DEF S
  <2>1. S \subseteq S
    OBVIOUS
  <2>. QED
    BY <1>1, <1>3, <2>1, NumberIsSolution
<1>5. ASSUME NEW k \in 0..n, NEW part, DOMAIN part = 1..k, \A i \in 1..k : part[i] = s[i]
      PROVE  Number(part) = g[1..k]
  <2> DEFINE T == 1..k
             h == CHOOSE h : h = NumberBody(part, T, h)
  <2>1. T \in SUBSET S
    OBVIOUS
  <2>2. ASSUME NEW f PROVE NumberBody(part, T, f) = NumberBody(s, T, f)
    <3>1. \A t \in SUBSET T : t # {} => Max(t) \in T
      <4>1. IsFiniteSet(T) /\ T \subseteq Nat
        BY SegmentFinite
      <4>. HIDE DEF T
      <4>. QED
        BY <4>1, MaxExists
    <3>2. \A i \in T : part[i] = s[i]
      BY <1>5
    <3>. HIDE DEF T
    <3>. QED
      BY <3>1, <3>2 DEF NumberBody
  <2>3. h = NumberBody(s, T, h)
    <3>1. PICK f : f = NumberBody(s, T, f)
      BY <1>2, <2>1
    <3>2. f = NumberBody(part, T, f)
      BY <2>2, <3>1
    <3>. HIDE DEF T
    <3>3. h = NumberBody(part, T, h)
      BY <3>2
    <3>. HIDE DEF h
    <3>. QED
      BY <2>2, <3>3
  <2>4. Number(part) = h[T]
    BY <1>5, NumberChosen
  <2>. HIDE DEF h, S, T
  <2>5. Solves(h, MaxOf(S), DigitStep(s, S), 0, T)
    BY <1>1, <2>1, <2>3, NumberIsSolution
  <2>6. g[T] = h[T]
    <3> DEFINE pick == MaxOf(S)
               step == DigitStep(s, S)
    <3>1. /\ IsFiniteSet(S) /\ Picks(pick, S) /\ T \subseteq S /\ T \subseteq T
          /\ Solves(g, pick, step, 0, S) /\ Solves(h, pick, step, 0, T)
      BY <1>1, <1>4, <2>1, <2>5, MaxPicks
    <3>. HIDE DEF pick, step
    <3>. QED
      BY ONLY <3>1, SolutionsAgree
  <2>. QED
    BY <2>4, <2>6 DEF T
<1>6. HoldsNumbers(g, s, n)
    BY <1>3, <1>4, <1>5 DEF HoldsNumbers
<1>. QED
    BY <1>6

LEMMA NumberOfPrefix ==
    ASSUME NEW E, NEW s \in Seq(E), DigitsOn(s, 1..Len(s)), NEW k \in 0..Len(s)
    PROVE  /\ Number(SubSeq(s, 1, k)) \in Int
           /\ k = 0 => Number(SubSeq(s, 1, k)) = 0
           /\ k < Len(s) =>
                Number(SubSeq(s, 1, k + 1)) = 10 * Number(SubSeq(s, 1, k)) + Digit[s[k + 1]]
<1> DEFINE n == Len(s)
<1>1. n \in Nat
    OBVIOUS
<1>2. PICK g : HoldsNumbers(g, s, n)
    BY <1>1, NumbersOfPrefixes
<1>3. ASSUME NEW j \in 0..n
      PROVE  Number(SubSeq(s, 1, j)) = g[1..j] /\ g[1..j] \in Int
  <2>1. DOMAIN SubSeq(s, 1, j) = 1..j /\ \A i \in 1..j : SubSeq(s, 1, j)[i] = s[i]
    <3>1. SubSeq(s, 1, j) \in Seq(E) /\ Len(SubSeq(s, 1, j)) = j
      BY <1>3
    <3>. QED
      BY <1>3, <3>1
  <2>2. 1..j \in SUBSET (1..n)
    BY <1>1, <1>3
  <2>. QED
    BY <1>2, <1>3, <2>1, <2>2 DEF HoldsNumbers
<1>4. ASSUME k < n PROVE g[1..(k + 1)] = 10 * g[1..k] + Digit[s[k + 1]]
  <2>1. 1..(k + 1) \in SUBSET (1..n) /\ 1..(k + 1) # {} /\ k \in Nat
    <3>1. k \in Nat /\ k + 1 <= n /\ 1 \in 1..(k + 1)
      BY <1>1, <1>4
    <3>2. 1..(k + 1) # {}
      BY <3>1
    <3>3. 1..(k + 1) \in SUBSET (1..n)
      BY <1>1, <3>1
    <3>. QED
      BY <3>1, <3>2, <3>3
  <2>2. Max(1..(k + 1)) = k + 1 /\ (1..(k + 1)) \ {k + 1} = 1..k
    BY <2>1, MaxOfSegment
  <2> DEFINE t == 1..(k + 1)
  <2>3. g[t] = 10 * g[t \ {Max(t)}] + Digit[s[Max(t)]]
    <3>1. t \in SUBSET (1..n) /\ t # {}
      BY <2>1
    <3>. HIDE DEF t, n
    <3>. QED
      BY <1>2, <3>1 DEF HoldsNumbers, NumberBody
  <2>. QED
    BY <2>2, <2>3
<1>5. ASSUME k = 0 PROVE g[1..k] = 0
  <2>1. 1..k = {} /\ {} \in SUBSET (1..n)
    BY <1>5
  <2>. QED
    BY <1>2, <2>1 DEF HoldsNumbers, NumberBody
<1>6. Number(SubSeq(s, 1, k)) = g[1..k] /\ g[1..k] \in Int
    BY <1>3
<1>7. ASSUME k < n PROVE Number(SubSeq(s, 1, k + 1)) = g[1..(k + 1)]
  <2>1. k + 1 \in 0..n
    BY <1>1, <1>7
  <2>. QED
    BY <1>3, <2>1
<1>. QED
    BY <1>4, <1>5, <1>6, <1>7

(* What is written with digits only. *)
Numerals == Seq(DOMAIN Digit)

LEMMA NumeralDigits ==
    ASSUME NEW s \in Numerals
    PROVE  /\ DigitsOn(s, 1..Len(s)) /\ AllDigits(s)
           /\ \A i \in 1..Len(s) : s[i] \in DOMAIN Digit /\ Digit[s[i]] \in 0..9
<1>1. DOMAIN s = 1..Len(s) /\ \A i \in 1..Len(s) : s[i] \in DOMAIN Digit
    BY DEF Numerals
<1>2. \A i \in 1..Len(s) : Digit[s[i]] \in 0..9
    BY <1>1, DigitFacts
<1>3. \A n \in 0..9 : n \in Int
    OBVIOUS
<1>. QED
    BY <1>1, <1>2, <1>3 DEF DigitsOn, AllDigits

LEMMA NumberOfNothing == Number(<<>>) = 0
<1> DEFINE s == <<>>
<1>1. s \in Seq(DOMAIN Digit) /\ Len(s) = 0 /\ SubSeq(s, 1, 0) = s
    OBVIOUS
<1>2. DigitsOn(s, 1..Len(s)) /\ 0 \in 0..Len(s)
    BY DEF DigitsOn
<1>. HIDE DEF s
<1>3. Number(SubSeq(s, 1, 0)) = 0
    BY <1>1, <1>2, NumberOfPrefix
<1>. QED
    BY <1>1, <1>3 DEF s

LEMMA NumberOfAppend ==
    ASSUME NEW s \in Numerals, NEW c \in DOMAIN Digit
    PROVE  /\ Append(s, c) \in Numerals
           /\ Number(Append(s, c)) = 10 * Number(s) + Digit[c]
<1> DEFINE t == Append(s, c)
           n == Len(s)
<1>1. t \in Numerals /\ Len(t) = n + 1 /\ n \in Nat /\ t[n + 1] = c
    BY DEF Numerals
<1>2. SubSeq(t, 1, n) = s /\ SubSeq(t, 1, n + 1) = t
    BY DEF Numerals
<1>3. DigitsOn(t, 1..Len(t))
  <2>. HIDE DEF t
  <2>. QED
    BY <1>1, NumeralDigits
<1>. HIDE DEF t, n
<1>4. n \in 0..Len(t) /\ n < Len(t)
    BY <1>1
<1>5. Number(SubSeq(t, 1, n + 1)) = 10 * Number(SubSeq(t, 1, n)) + Digit[t[n + 1]]
    BY <1>1, <1>3, <1>4, NumberOfPrefix DEF Numerals
<1>. QED
    BY <1>1, <1>2, <1>5 DEF t

LEMMA NumberIsNat ==
    ASSUME NEW s \in Numerals
    PROVE  Number(s) \in Nat
<1> DEFINE Good == {k \in Nat : k <= Len(s) => Number(SubSeq(s, 1, k)) \in Nat}
<1>1. Len(s) \in Nat /\ DigitsOn(s, 1..Len(s)) /\ \A i \in 1..Len(s) : Digit[s[i]] \in Nat
    BY NumeralDigits DEF Numerals
<1>2. 0 \in Good
    BY <1>1, NumberOfPrefix DEF Numerals
<1>3. ASSUME NEW k \in Nat, k \in Good PROVE k + 1 \in Good
  <2>1. SUFFICES ASSUME k + 1 <= Len(s) PROVE Number(SubSeq(s, 1, k + 1)) \in Nat
    OBVIOUS
  <2>2. k \in 0..Len(s) /\ k < Len(s) /\ k + 1 \in 1..Len(s)
    BY <1>1, <2>1
  <2>3. Number(SubSeq(s, 1, k + 1)) = 10 * Number(SubSeq(s, 1, k)) + Digit[s[k + 1]]
    BY <1>1, <2>2, NumberOfPrefix DEF Numerals
  <2>4. Number(SubSeq(s, 1, k)) \in Nat /\ Digit[s[k + 1]] \in Nat
    BY <1>1, <1>3, <2>2
  <2>. QED
    BY <2>3, <2>4
<1>4. \A k \in Nat : k \in Good
  <2>. HIDE DEF Good
  <2>. QED
    BY <1>2, <1>3, NumberInduction
<1>5. SubSeq(s, 1, Len(s)) = s
    BY WholePrefix DEF Numerals
<1>6. Len(s) <= Len(s) /\ Len(s) \in Good
    BY <1>1, <1>4
<1>. QED
    BY <1>5, <1>6

Reads(n) == Decimal[n] \in Numerals /\ Decimal[n] # <<>> /\ Number(Decimal[n]) = n

(* What is written is read. *)
LEMMA DecimalReads ==
    \A n \in 0..(MaxInt + 1) : Reads(n)
<1> DEFINE Good == {k \in Nat : \A n \in 0..(MaxInt + 1) : n <= k => Reads(n)}
<1>1. ASSUME NEW n \in 0..(MaxInt + 1), n < 10 PROVE Reads(n)
  <2>1. n \in 0..9
    BY <1>1, MoneyAssumption
  <2>2. Decimal[n] = <<Char(n)>>
    BY <1>1, DecimalIs
  <2>3. Char(n) \in DOMAIN Digit /\ Digit[Char(n)] = n
    BY <2>1, DigitFacts
  <2>4. <<>> \in Numerals /\ <<Char(n)>> = Append(<<>>, Char(n)) /\ <<Char(n)>> # <<>>
    BY DEF Numerals
  <2>5. Number(<<Char(n)>>) = 10 * 0 + n /\ <<Char(n)>> \in Numerals
    BY <2>3, <2>4, NumberOfAppend, NumberOfNothing
  <2>. QED
    BY <2>1, <2>2, <2>4, <2>5 DEF Reads
<1>2. ASSUME NEW n \in 0..(MaxInt + 1), ~(n < 10), Reads(n \div 10) PROVE Reads(n)
  <2>1. n = 10 * (n \div 10) + (n % 10) /\ n % 10 \in 0..9 /\ n \in Nat
    BY <1>2, MoneyAssumption
  <2>2. Decimal[n] = Append(Decimal[n \div 10], Char(n % 10))
    BY <1>2, DecimalIs
  <2>3. Char(n % 10) \in DOMAIN Digit /\ Digit[Char(n % 10)] = n % 10
    BY <2>1, DigitFacts
  <2>4. /\ Decimal[n] \in Numerals
        /\ Number(Decimal[n]) = 10 * Number(Decimal[n \div 10]) + Digit[Char(n % 10)]
    BY <1>2, <2>2, <2>3, NumberOfAppend DEF Reads
  <2>5. Decimal[n] # <<>>
    BY <1>2, <2>2 DEF Reads, Numerals
  <2>. QED
    BY <1>2, <2>1, <2>3, <2>4, <2>5 DEF Reads
<1>3. 0 \in Good
    BY <1>1, MoneyAssumption
<1>4. ASSUME NEW k \in Nat, k \in Good PROVE k + 1 \in Good
  <2>1. SUFFICES ASSUME NEW n \in 0..(MaxInt + 1), n <= k + 1 PROVE Reads(n)
    OBVIOUS
  <2>2. CASE n < 10
    BY <1>1, <2>2
  <2>3. CASE ~(n < 10)
    <3>1. n \div 10 \in 0..(MaxInt + 1) /\ n \div 10 <= k
      BY <2>1, <2>3, MoneyAssumption
    <3>. QED
      BY <1>2, <1>4, <2>3, <3>1
  <2>. QED
    BY <2>2, <2>3
<1>5. \A k \in Nat : k \in Good
  <2>. HIDE DEF Good
  <2>. QED
    BY <1>3, <1>4, NumberInduction
<1>6. \A n \in 0..(MaxInt + 1) : n \in Nat /\ n <= n
    BY MoneyAssumption
<1>. QED
    BY <1>5, <1>6

-----------------------------------------------------------------------------
(* Reading one part *)

LEMMA ParseNumeral ==
    ASSUME NEW s \in Numerals, s # <<>>
    PROVE  ParseInt(s) = IF Number(s) \in Words THEN Ok(Number(s)) ELSE Invalid
<1>1. Head(s) \in DOMAIN Digit
    BY DEF Numerals
<1>2. Head(s) \notin Signs
    BY <1>1, DigitFacts DEF Signs
<1>3. AllDigits(s)
    BY NumeralDigits
<1>. QED
    BY <1>2, <1>3 DEF ParseInt

LEMMA ParseNegative ==
    ASSUME NEW s \in Numerals, s # <<>>
    PROVE  ParseInt(<<"-">> \o s) = IF -Number(s) \in Words THEN Ok(-Number(s)) ELSE Invalid
<1> DEFINE t == <<"-">> \o s
<1>1. t # <<>> /\ Head(t) = "-" /\ Tail(t) = s
    BY DEF Numerals
<1>2. AllDigits(s)
    BY NumeralDigits
<1>. HIDE DEF t
<1>3. ParseInt(t) = IF -Number(s) \in Words THEN Ok(-Number(s)) ELSE Invalid
    BY <1>1, <1>2 DEF ParseInt, Signs
<1>. QED
    BY <1>3 DEF t

LEMMA ParseGivesWord ==
    ASSUME NEW s, ParseInt(s).ok
    PROVE  ParseInt(s).value \in Words
BY DEF ParseInt, Ok, Invalid

-----------------------------------------------------------------------------
(* Blanks *)

LEMMA MinExists ==
    ASSUME NEW S, IsFiniteSet(S), S \subseteq Nat, NEW T \in SUBSET S, T # {}
    PROVE  Min(T) \in T /\ \A y \in T : Min(T) <= y
<1> DEFINE Good == {U \in SUBSET S : U # {} => \E x \in U : \A y \in U : x <= y}
<1>1. {} \in Good
    OBVIOUS
<1>2. ASSUME NEW U \in SUBSET S, U # {}, \A x \in U : U \ {x} \in Good
      PROVE  U \in Good
  <2>1. PICK x \in U : x \in Nat
    BY <1>2
  <2>2. CASE U = {x}
    BY <2>1, <2>2
  <2>3. CASE U # {x}
    <3>1. PICK m \in U \ {x} : \A y \in U \ {x} : m <= y
      BY <1>2, <2>3
    <3>2. m \in Nat /\ \A y \in U : y \in Nat
      BY <1>2
    <3>. QED
      BY <2>1, <3>1, <3>2
  <2>. QED
    BY <2>2, <2>3
<1>3. \A U \in SUBSET S : U \in Good
  <2>. HIDE DEF Good
  <2>. QED
    BY <1>1, <1>2, SetInduction
<1>4. \E x \in T : \A y \in T : x <= y
    BY <1>3
<1>. QED
    BY <1>4 DEF Min

LEMMA Ends ==
    ASSUME NEW n \in Nat, NEW low \in 1..n, NEW high \in 1..n, low <= 1, high >= n
    PROVE  low = 1 /\ high = n
OBVIOUS

(* A trimmed text is a part of the text. *)
LEMMA Trimmed ==
    ASSUME NEW A, NEW s \in Seq(A)
    PROVE  /\ TrimSpace(s) \in Seq(A) /\ Len(TrimSpace(s)) <= Len(s)
           /\ (\A i \in DOMAIN s : s[i] # " ") => TrimSpace(s) = s
<1> DEFINE kept == {i \in DOMAIN s : s[i] # " "}
           t == TrimSpace(s)
<1>1. DOMAIN s = 1..Len(s) /\ Len(s) \in Nat
    OBVIOUS
<1>2. t = IF kept = {} THEN <<>> ELSE SubSeq(s, Min(kept), Max(kept))
  <2>. HIDE DEF kept
  <2>. QED
    BY DEF TrimSpace, kept
<1>3. kept \in SUBSET (1..Len(s)) /\ ((\A i \in DOMAIN s : s[i] # " ") => kept = 1..Len(s))
    BY <1>1
<1>. HIDE DEF kept, t
<1>4. CASE kept = {}
  <2>1. t = <<>>
    BY <1>2, <1>4
  <2>2. ASSUME \A i \in DOMAIN s : s[i] # " " PROVE s = <<>>
    <3>1. 1..Len(s) = {}
      BY <1>3, <1>4, <2>2
    <3>2. 1 \notin 1..Len(s)
      BY <3>1
    <3>. QED
      BY <1>1, <3>2
  <2>3. t \in Seq(A) /\ Len(t) = 0
    BY <2>1
  <2>4. Len(t) <= Len(s)
    BY <1>1, <2>3
  <2>. QED
    BY <2>1, <2>2, <2>3, <2>4 DEF t
<1>5. CASE kept # {}
  <2>1. IsFiniteSet(1..Len(s)) /\ 1..Len(s) \subseteq Nat
    BY <1>1, SegmentFinite
  <2>2. Min(kept) \in kept /\ Max(kept) \in kept
        /\ \A y \in kept : Min(kept) <= y /\ Max(kept) >= y
    BY <1>3, <1>5, <2>1, MinExists, MaxExists
  <2>3. Min(kept) \in 1..Len(s) /\ Max(kept) \in 1..Len(s)
    BY <1>3, <2>2
  <2>4. t = SubSeq(s, Min(kept), Max(kept))
    BY <1>2, <1>5
  <2>5. t \in Seq(A) /\ Len(t) <= Len(s)
    BY <1>1, <2>3, <2>4
  <2>6. ASSUME \A i \in DOMAIN s : s[i] # " " PROVE t = s
    <3>1. 1 \in kept /\ Len(s) \in kept
      <4>1. kept = 1..Len(s)
        BY <1>3, <2>6
      <4>2. 1 \in 1..Len(s) /\ Len(s) \in 1..Len(s)
        BY <1>1, <2>3
      <4>. QED
        BY <4>1, <4>2
    <3>2. Min(kept) <= 1 /\ Max(kept) >= Len(s)
      BY <2>2, <3>1
    <3>3. Min(kept) = 1 /\ Max(kept) = Len(s)
      BY <1>1, <2>3, <3>2, Ends
    <3>. QED
      BY <2>4, <3>3, WholePrefix
  <2>. QED
    BY <2>5, <2>6 DEF t
<1>. QED
    BY <1>4, <1>5

-----------------------------------------------------------------------------
(* Reading an amount *)

Negative(t) == t # <<>> /\ Head(t) = "-"

(* What becomes of the two parts. *)
Joined(whole, cents, negative) ==
    IF ~whole.ok \/ ~cents.ok \/ TooLarge(whole.value, cents.value) THEN Invalid
    ELSE LET result == Wrap(whole.value * 100 + cents.value)
         IN  Ok(IF negative THEN Wrap(-result) ELSE result)

LEMMA ParseParts ==
    ASSUME NEW value, NEW t, t = TrimSpace(value), t # <<>>,
           \A i \in DOMAIN t : t[i] \notin {"e", "E"},
           Cardinality(Dots(Unsigned(t))) <= 1, Cardinality(Dots(Unsigned(t))) \in Int,
           Whole(Unsigned(t)) # <<>>, FractionFits(Fraction(Unsigned(t)))
    PROVE  UnmarshalJSON(value) =
             Joined(ParseInt(Whole(Unsigned(t))), ParseInt(Pad(Fraction(Unsigned(t)))), Negative(t))
BY DEF UnmarshalJSON, ParseMoney, Joined, Unsigned, Negative

(* Every text that is accepted has such parts. *)
LEMMA AcceptedParts ==
    ASSUME NEW value, NEW t, t = TrimSpace(value), UnmarshalJSON(value).ok
    PROVE  /\ t # <<>> /\ ~(Cardinality(Dots(Unsigned(t))) > 1)
           /\ Whole(Unsigned(t)) # <<>> /\ FractionFits(Fraction(Unsigned(t)))
           /\ ParseInt(Whole(Unsigned(t))).ok /\ ParseInt(Pad(Fraction(Unsigned(t)))).ok
           /\ UnmarshalJSON(value) =
               Joined(ParseInt(Whole(Unsigned(t))), ParseInt(Pad(Fraction(Unsigned(t)))), Negative(t))
BY DEF UnmarshalJSON, ParseMoney, Joined, Unsigned, Negative, Invalid

LEMMA AcceptedIsWord ==
    ASSUME NEW value, UnmarshalJSON(value).ok
    PROVE  UnmarshalJSON(value).value \in Words
<1> DEFINE t == TrimSpace(value)
           whole == ParseInt(Whole(Unsigned(t)))
           cents == ParseInt(Pad(Fraction(Unsigned(t))))
<1>1. whole.ok /\ cents.ok /\ UnmarshalJSON(value) = Joined(whole, cents, Negative(t))
    BY AcceptedParts
<1>2. whole.value \in Words /\ cents.value \in Words
    BY <1>1, ParseGivesWord
<1>. HIDE DEF whole, cents, t
<1>3. whole.value * 100 + cents.value \in Int
    BY <1>2, MoneyAssumption DEF Words, MinInt
<1> DEFINE result == Wrap(whole.value * 100 + cents.value)
<1>4. result \in Words /\ result \in Int
    BY <1>3, WrapIsWord, MoneyAssumption DEF Words, MinInt
<1>. HIDE DEF result
<1>5. Wrap(-result) \in Words
    BY <1>4, WrapIsWord
<1>6. UnmarshalJSON(value) = Ok(IF Negative(t) THEN Wrap(-result) ELSE result)
    BY <1>1 DEF Joined, Invalid, result
<1>. QED
    BY <1>4, <1>5, <1>6 DEF Ok

-----------------------------------------------------------------------------
(* Amounts that were written *)

Plain == DOMAIN Digit \cup {"-"}

LEMMA PlainFacts ==
    \A c \in Plain : c \notin {".", " ", "e", "E"}
BY DigitFacts DEF Plain

LEMMA SameText ==
    ASSUME NEW A, NEW B, NEW s \in Seq(A), NEW t \in Seq(B), Len(s) = Len(t),
           \A i \in 1..Len(s) : s[i] = t[i]
    PROVE  s = t
OBVIOUS

(* A text of two parts and a point comes apart again. *)
LEMMA PointSplits ==
    ASSUME NEW w \in Seq(Plain), NEW f \in Seq(Plain), NEW b, b = (w \o <<".">>) \o f
    PROVE  /\ b \in Seq(Plain \cup {"."}) /\ Len(b) = Len(w) + 1 + Len(f)
           /\ Dots(b) = {Len(w) + 1} /\ Whole(b) = w /\ Fraction(b) = f
<1> DEFINE p == Len(w) + 1
<1>1. /\ b \in Seq(Plain \cup {"."}) /\ Len(b) = Len(w) + 1 + Len(f)
      /\ Len(w) \in Nat /\ Len(f) \in Nat
  <2>1. w \in Seq(Plain \cup {"."}) /\ f \in Seq(Plain \cup {"."}) /\ <<".">> \in Seq(Plain \cup {"."})
    OBVIOUS
  <2>. QED
    BY <2>1
<1>2. /\ \A i \in 1..Len(w) : b[i] = w[i]
      /\ b[p] = "."
      /\ \A i \in 1..Len(f) : b[p + i] = f[i]
    BY <1>1
<1>3. \A i \in 1..Len(b) : i # p => b[i] # "."
  <2>1. ASSUME NEW i \in 1..Len(b), i < p PROVE b[i] # "."
    <3>1. i \in 1..Len(w)
      BY <1>1, <2>1
    <3>2. w[i] \in Plain
      BY <3>1
    <3>. QED
      BY <1>2, <3>1, <3>2, PlainFacts
  <2>2. ASSUME NEW i \in 1..Len(b), i > p PROVE b[i] # "."
    <3>1. i - p \in 1..Len(f) /\ p + (i - p) = i
      BY <1>1, <2>2
    <3>2. f[i - p] \in Plain
      BY <3>1
    <3>. QED
      BY <1>2, <3>1, <3>2, PlainFacts
  <2>. QED
    BY <1>1, <2>1, <2>2
<1>4. DOMAIN b = 1..Len(b) /\ p \in 1..Len(b)
    BY <1>1
<1>5. Dots(b) = {p}
    BY <1>2, <1>3, <1>4 DEF Dots
<1>6. Min({p}) = p
    BY <1>1 DEF Min
<1>7. Whole(b) = w
  <2>1. Whole(b) = SubSeq(b, 1, p - 1)
    BY <1>5, <1>6 DEF Whole
  <2>2. p - 1 = Len(w)
    BY <1>1
  <2>3. SubSeq(b, 1, Len(w)) \in Seq(Plain \cup {"."}) /\ Len(SubSeq(b, 1, Len(w))) = Len(w)
    BY <1>1
  <2>4. \A i \in 1..Len(w) : SubSeq(b, 1, Len(w))[i] = w[i]
    BY <1>1, <1>2
  <2>5. SubSeq(b, 1, Len(w)) = w
    BY <2>3, <2>4, SameText
  <2>. QED
    BY <2>1, <2>2, <2>5
<1>8. Fraction(b) = f
  <2>1. Fraction(b) = SubSeq(b, p + 1, Len(b))
    BY <1>5, <1>6 DEF Fraction
  <2>2. Len(b) = p + Len(f)
    BY <1>1
  <2>3. SubSeq(b, p + 1, Len(b)) \in Seq(Plain \cup {"."}) /\ Len(SubSeq(b, p + 1, Len(b))) = Len(f)
    BY <1>1, <2>2
  <2>4. \A i \in 1..Len(f) : SubSeq(b, p + 1, Len(b))[i] = f[i]
    BY <1>1, <1>2, <2>2
  <2>5. SubSeq(b, p + 1, Len(b)) = f
    BY <2>3, <2>4, SameText
  <2>. QED
    BY <2>1, <2>5
<1>. QED
    BY <1>1, <1>5, <1>7, <1>8

Sign(negative) == IF negative THEN <<"-">> ELSE <<>>

LEMMA WrittenParts ==
    ASSUME NEW w \in Seq(Plain), NEW f \in Seq(Plain), NEW negative \in BOOLEAN,
           w # <<>>, negative \/ w[1] # "-", Len(f) = 2
    PROVE  UnmarshalJSON(((Sign(negative) \o w) \o <<".">>) \o f)
             = Joined(ParseInt(w), ParseInt(f), negative)
<1> DEFINE b == (w \o <<".">>) \o f
           t == ((Sign(negative) \o w) \o <<".">>) \o f
           C == Plain \cup {"."}
<1>1. /\ b \in Seq(C) /\ Len(b) = Len(w) + 1 + Len(f) /\ Dots(b) = {Len(w) + 1}
      /\ Whole(b) = w /\ Fraction(b) = f
    BY PointSplits
<1>2. Len(w) \in Nat /\ Len(w) > 0
    OBVIOUS
<1>3. t = IF negative THEN <<"-">> \o b ELSE b
    BY DEF Sign
<1>4. b # <<>> /\ Head(b) = w[1]
    BY <1>2
<1>. HIDE DEF b, t
<1>5. t # <<>> /\ Negative(t) = negative /\ Unsigned(t) = b
  <2>1. CASE negative
    <3>1. t = <<"-">> \o b
      BY <1>3, <2>1
    <3>2. t # <<>> /\ Head(t) = "-" /\ Tail(t) = b
      BY <1>1, <3>1
    <3>. QED
      BY <2>1, <3>2 DEF Negative, Unsigned
  <2>2. CASE ~negative
    <3>1. t = b
      BY <1>3, <2>2
    <3>. QED
      BY <1>4, <2>2, <3>1 DEF Negative, Unsigned
  <2>. QED
    BY <2>1, <2>2
<1>6. t \in Seq(C)
  <2>1. "-" \in C
    BY DEF Plain
  <2>. HIDE DEF C
  <2>2. <<"-">> \in Seq(C)
    BY <2>1
  <2>3. <<"-">> \o b \in Seq(C)
    BY <1>1, <2>2
  <2>. QED
    BY <1>1, <1>3, <2>3
<1>7. \A c \in C : c \notin {" ", "e", "E"}
    BY PlainFacts
<1>8. \A i \in DOMAIN t : t[i] \notin {" ", "e", "E"}
  <2>. HIDE DEF C
  <2>1. \A i \in DOMAIN t : t[i] \in C
    BY <1>6
  <2>. QED
    BY <1>7, <2>1
<1>9. TrimSpace(t) = t
    BY <1>6, <1>8, Trimmed
<1>10. Cardinality(Dots(b)) = 1
    BY <1>1, FS_Singleton
<1>11. FractionFits(f) /\ Pad(f) = f
  <2>1. 2 - Len(f) = 0 /\ 1..0 = {}
    OBVIOUS
  <2>2. [i \in 1..(2 - Len(f)) |-> "0"] = <<>>
    BY <2>1
  <2>. QED
    BY <2>2 DEF FractionFits, Pad
<1>12. /\ \A i \in DOMAIN t : t[i] \notin {"e", "E"}
       /\ Cardinality(Dots(Unsigned(t))) <= 1 /\ Cardinality(Dots(Unsigned(t))) \in Int
       /\ Whole(Unsigned(t)) # <<>> /\ FractionFits(Fraction(Unsigned(t)))
  <2>1. \A i \in DOMAIN t : t[i] \notin {"e", "E"}
    BY <1>8
  <2>2. Cardinality(Dots(Unsigned(t))) = 1
    BY <1>5, <1>10
  <2>3. Whole(Unsigned(t)) # <<>> /\ FractionFits(Fraction(Unsigned(t)))
    BY <1>1, <1>5, <1>11
  <2>. QED
    BY <2>1, <2>2, <2>3
<1>13. UnmarshalJSON(t)
         = Joined(ParseInt(Whole(Unsigned(t))), ParseInt(Pad(Fraction(Unsigned(t)))), Negative(t))
    BY <1>5, <1>9, <1>12, ParseParts
<1>. QED
    BY <1>1, <1>5, <1>11, <1>13 DEF t

LEMMA TwoDigitsRead ==
    ASSUME NEW r \in 0..99, r <= MaxInt + 1
    PROVE  TwoDigits(r) \in Numerals /\ Len(TwoDigits(r)) = 2 /\ Number(TwoDigits(r)) = r
<1>1. r \in 0..(MaxInt + 1) /\ MaxInt \in Nat /\ Signed(r) = Decimal[r]
    BY MoneyAssumption DEF Signed
<1>2. Reads(r)
    BY <1>1, DecimalReads
<1>3. CASE r \in 0..9
  <2>1. Decimal[r] = <<Char(r)>> /\ Char(r) \in DOMAIN Digit /\ Digit[Char(r)] = r
    <3>1. Char(r) \in DOMAIN Digit /\ Digit[Char(r)] = r
      BY <1>3, DigitFacts
    <3>2. r < 10
      BY <1>3
    <3>3. Decimal[r] = <<Char(r)>>
      BY <1>1, <3>2, DecimalIs
    <3>. QED
      BY <3>1, <3>3
  <2>2. "0" \in DOMAIN Digit /\ Digit["0"] = 0
    BY DigitFacts, CharIs
  <2>3. <<>> \in Numerals /\ <<"0">> = Append(<<>>, "0")
    BY DEF Numerals
  <2>4. <<"0">> \in Numerals /\ Number(<<"0">>) = 0
    <3>1. Append(<<>>, "0") \in Numerals /\ Number(Append(<<>>, "0")) = 10 * 0 + 0
      BY <2>2, <2>3, NumberOfAppend, NumberOfNothing
    <3>. QED
      BY <2>3, <3>1
  <2>5. TwoDigits(r) = <<"0">> \o <<Char(r)>>
    BY <1>1, <1>3, <2>1 DEF TwoDigits
  <2>6. <<"0">> \o <<Char(r)>> = Append(<<"0">>, Char(r)) /\ Len(<<"0">> \o <<Char(r)>>) = 2
    OBVIOUS
  <2>7. Append(<<"0">>, Char(r)) \in Numerals /\ Number(Append(<<"0">>, Char(r))) = r
    BY <1>3, <2>1, <2>4, NumberOfAppend
  <2>. QED
    BY <2>5, <2>6, <2>7
<1>4. CASE r \notin 0..9
  <2>1. r \div 10 \in 0..9 /\ r \div 10 \in 0..(MaxInt + 1) /\ ~(r < 10)
    BY <1>1, <1>4
  <2>2. Decimal[r] = Append(Decimal[r \div 10], Char(r % 10)) /\ Decimal[r \div 10] = <<Char(r \div 10)>>
    <3>1. Decimal[r] = Append(Decimal[r \div 10], Char(r % 10))
      BY <1>1, <2>1, DecimalIs
    <3>2. r \div 10 < 10
      BY <2>1
    <3>3. Decimal[r \div 10] = <<Char(r \div 10)>>
      BY <2>1, <3>2, DecimalIs
    <3>. QED
      BY <3>1, <3>3
  <2>3. Len(Decimal[r]) = 2
    BY <2>2
  <2>4. TwoDigits(r) = Decimal[r]
    BY <1>1, <1>4 DEF TwoDigits
  <2>. QED
    BY <1>2, <2>3, <2>4 DEF Reads
<1>. QED
    BY <1>3, <1>4

LEMMA NumeralsArePlain ==
    ASSUME NEW s \in Numerals
    PROVE  /\ s \in Seq(Plain) /\ <<"-">> \o s \in Seq(Plain)
           /\ s # <<>> => s[1] # "-"
<1>1. s \in Seq(DOMAIN Digit) /\ DOMAIN Digit \subseteq Plain /\ "-" \in Plain /\ "-" \notin DOMAIN Digit
    BY DigitFacts DEF Numerals, Plain
<1>. QED
    BY <1>1

LEMMA Hundreds ==
    ASSUME NEW n \in Nat
    PROVE  /\ n \div 100 \in Nat /\ n % 100 \in 0..99
           /\ (n \div 100) * 100 + (n % 100) = n /\ n - 100 * (n \div 100) = n % 100
<1>1. n \div 100 \in Nat /\ n % 100 \in 0..99
    OBVIOUS
<1>2. n = 100 * (n \div 100) + (n % 100)
    OBVIOUS
<1>. QED
    BY <1>1, <1>2

(* The parts of a number in the word, and their value. *)
LEMMA PartsOf ==
    ASSUME NEW n \in 0..MaxInt
    PROVE  /\ Quo(n, 100) = n \div 100 /\ Rem(n, 100) = n % 100
           /\ n \div 100 \in 0..MaxInt /\ n % 100 \in 0..99 /\ n % 100 <= MaxInt
           /\ (n \div 100) * 100 + (n % 100) = n
           /\ ~TooLarge(n \div 100, n % 100)
<1>1. /\ n \in Nat /\ MaxInt \in Nat /\ n \div 100 \in Nat /\ n % 100 \in 0..99
      /\ (n \div 100) * 100 + (n % 100) = n /\ n - 100 * (n \div 100) = n % 100
    BY MoneyAssumption, Hundreds
<1>2. n % 100 <= n /\ n \div 100 <= n
    BY <1>1
<1>3. MaxInt - (n % 100) \in Words /\ MaxInt - (n % 100) \in Nat
    BY <1>1, <1>2 DEF Words, MinInt
<1>4. Quo(Wrap(MaxInt - (n % 100)), 100) = (MaxInt - (n % 100)) \div 100
    BY <1>3, WrapKeeps DEF Quo
<1>5. n \div 100 <= (MaxInt - (n % 100)) \div 100
    BY <1>1, <1>3
<1>6. Quo(n, 100) = n \div 100
    BY <1>1 DEF Quo
<1>7. Rem(n, 100) = n % 100
    BY <1>1, <1>6 DEF Rem
<1>8. ~TooLarge(n \div 100, n % 100)
  <2>1. (MaxInt - (n % 100)) \div 100 \in Int
    BY <1>3
  <2>2. ~(n \div 100 > Quo(Wrap(MaxInt - (n % 100)), 100))
    BY <1>1, <1>4, <1>5, <2>1
  <2>. QED
    BY <2>2 DEF TooLarge
<1>. QED
    BY <1>1, <1>2, <1>6, <1>7, <1>8

LEMMA OrdinaryRoundTrip ==
    ASSUME NEW m \in -MaxInt..MaxInt
    PROVE  UnmarshalJSON(MarshalJSON(m)) = Ok(m)
<1> DEFINE negative == m < 0
           n == IF m < 0 THEN -m ELSE m
           k == n \div 100
           r == n % 100
<1>1. n \in 0..MaxInt /\ MaxInt \in Nat /\ m \in Int /\ n \in Words /\ m \in Words
      /\ m = IF negative THEN -n ELSE n
    BY MoneyAssumption DEF Words, MinInt
<1>2. /\ Quo(n, 100) = k /\ Rem(n, 100) = r /\ k \in 0..MaxInt /\ r \in 0..99 /\ r <= MaxInt
      /\ k * 100 + r = n /\ ~TooLarge(k, r)
  <2>. HIDE DEF n
  <2>. QED
    BY <1>1, PartsOf
<1>3. String(m) = ((Sign(negative) \o Decimal[k]) \o <<".">>) \o TwoDigits(r)
  <2>1. (IF m < 0 THEN Wrap(-m) ELSE m) = n
    <3>1. -m \in Words
      BY <1>1 DEF Words, MinInt
    <3>. QED
      BY <3>1, WrapKeeps
  <2>2. Signed(k) = Decimal[k]
    BY <1>1, <1>2 DEF Signed
  <2>. HIDE DEF n, k, r
  <2>. QED
    BY <1>2, <2>1, <2>2 DEF String, Sign
<1>. HIDE DEF n, k, r
<1>4. Decimal[k] \in Numerals /\ Decimal[k] # <<>> /\ Number(Decimal[k]) = k
  <2>1. k \in 0..(MaxInt + 1)
    BY <1>1, <1>2
  <2>. QED
    BY <2>1, DecimalReads DEF Reads
<1>5. TwoDigits(r) \in Numerals /\ Len(TwoDigits(r)) = 2 /\ Number(TwoDigits(r)) = r
  <2>1. r <= MaxInt + 1
    BY <1>1, <1>2
  <2>. QED
    BY <1>2, <2>1, TwoDigitsRead
<1>6. TwoDigits(r) # <<>>
  <2>1. Len(<<>>) # 2
    OBVIOUS
  <2>. QED
    BY <1>5, <2>1
<1>7. k \in Words /\ r \in Words
    BY <1>1, <1>2 DEF Words, MinInt
<1>8. ParseInt(Decimal[k]) = Ok(k) /\ ParseInt(TwoDigits(r)) = Ok(r)
    BY <1>4, <1>5, <1>6, <1>7, ParseNumeral
<1>9. UnmarshalJSON(String(m)) = Joined(Ok(k), Ok(r), negative)
  <2>1. /\ Decimal[k] \in Seq(Plain) /\ TwoDigits(r) \in Seq(Plain) /\ negative \in BOOLEAN
        /\ Decimal[k] # <<>> /\ Decimal[k][1] # "-"
    BY <1>4, <1>5, NumeralsArePlain
  <2>. HIDE DEF negative
  <2>2. UnmarshalJSON(((Sign(negative) \o Decimal[k]) \o <<".">>) \o TwoDigits(r))
          = Joined(ParseInt(Decimal[k]), ParseInt(TwoDigits(r)), negative)
    BY <1>5, <2>1, WrittenParts
  <2>. QED
    BY <1>3, <1>8, <2>2
<1>10. Wrap(k * 100 + r) = n
    BY <1>1, <1>2, WrapKeeps
<1>11. negative => Wrap(-n) = m
    BY <1>1, WrapKeeps
<1>12. Joined(Ok(k), Ok(r), negative) = Ok(m)
  <2>. HIDE DEF negative
  <2>. QED
    BY <1>1, <1>2, <1>10, <1>11 DEF Joined, Ok
<1>. QED
    BY <1>9, <1>12 DEF MarshalJSON

(* The least word is written with a sign in each part, and read all the    *)
(* same: its negation wraps both ways.                                     *)
LEMMA LeastRoundTrip == UnmarshalJSON(MarshalJSON(MinInt)) = Ok(MinInt)
<1> DEFINE M == MaxInt + 1
           k == M \div 100
           r == M % 100
           w == Signed(-k)
           f == TwoDigits(-r)
<1>1. MaxInt \in Nat /\ M \in Nat /\ M > 0 /\ MinInt = -M /\ MinInt \in Words /\ MinInt < 0
    BY MoneyAssumption DEF Words, MinInt
<1>2. k \in Nat /\ r \in 0..99 /\ k * 100 + r = M /\ M - 100 * k = r
  <2>. HIDE DEF M
  <2>. QED
    BY <1>1, Hundreds
<1>3. r \in 0..9
    BY <1>2, WordAssumption
<1>4. Wrap(-MinInt) = MinInt
  <2>1. -MinInt = MinInt + 2 * (MaxInt + 1)
    BY <1>1
  <2>. QED
    BY <1>1, <2>1, WrapAround
<1>5. Quo(MinInt, 100) = -k /\ Rem(MinInt, 100) = -r
  <2>1. -MinInt = M /\ ~(MinInt >= 0)
    BY <1>1
  <2>2. Quo(MinInt, 100) = -k
    BY <2>1 DEF Quo
  <2>3. MinInt - 100 * (-k) = -(M - 100 * k)
    BY <1>1, <1>2
  <2>. QED
    BY <1>2, <2>2, <2>3 DEF Rem
<1>6. String(MinInt) = ((Sign(TRUE) \o w) \o <<".">>) \o f
  <2>. HIDE DEF k, r
  <2>. QED
    BY <1>1, <1>4, <1>5 DEF String, Sign
<1>. HIDE DEF k, r
<1>7. k \in 0..(MaxInt + 1) /\ r \in 0..(MaxInt + 1) /\ k <= M /\ r <= M
    BY <1>1, <1>2
<1>8. Reads(k) /\ Reads(r)
    BY <1>7, DecimalReads
<1>9. -k \in Words /\ -r \in Words
    BY <1>1, <1>2, <1>7 DEF Words, MinInt
<1>10. w \in Seq(Plain) /\ w # <<>> /\ ParseInt(w) = Ok(-k)
  <2>1. CASE k = 0
    <3>1. w = Decimal[k] /\ Number(w) \in Words
      BY <1>8, <1>9, <2>1 DEF Signed, Reads
    <3>. QED
      BY <1>8, <2>1, <3>1, ParseNumeral, NumeralsArePlain DEF Reads
  <2>2. CASE k # 0
    <3>1. w = <<"-">> \o Decimal[k]
      BY <1>2, <2>2 DEF Signed
    <3>2. w # <<>>
      BY <1>8, <3>1 DEF Reads, Numerals
    <3>. QED
      BY <1>8, <1>9, <3>1, <3>2, ParseNegative, NumeralsArePlain DEF Reads
  <2>. QED
    BY <2>1, <2>2
<1>11. f \in Seq(Plain) /\ Len(f) = 2 /\ ParseInt(f) = Ok(-r)
  <2>1. CASE r = 0
    <3>1. f = TwoDigits(r) /\ r \in 0..99 /\ r <= MaxInt + 1
      BY <1>2, <1>7, <2>1
    <3>2. f \in Numerals /\ Len(f) = 2 /\ Number(f) = r
      <4>. HIDE DEF f
      <4>. QED
        BY <3>1, TwoDigitsRead
    <3>3. f # <<>> /\ Number(f) \in Words
      <4>1. Len(<<>>) # 2
        OBVIOUS
      <4>. HIDE DEF f
      <4>. QED
        BY <1>9, <2>1, <3>2, <4>1
    <3>. HIDE DEF f
    <3>. QED
      BY <2>1, <3>2, <3>3, ParseNumeral, NumeralsArePlain
  <2>2. CASE r # 0
    <3>1. f = <<"-">> \o Decimal[r]
      BY <1>3, <2>2 DEF TwoDigits, Signed
    <3>2. Decimal[r] = <<Char(r)>>
      <4>1. r < 10
        BY <1>3
      <4>. QED
        BY <1>7, <4>1, DecimalIs
    <3>3. Len(f) = 2
      BY <3>1, <3>2
    <3>. QED
      BY <1>8, <1>9, <3>1, <3>3, ParseNegative, NumeralsArePlain DEF Reads
  <2>. QED
    BY <2>1, <2>2
<1>. HIDE DEF w, f
<1>12. UnmarshalJSON(String(MinInt)) = Joined(Ok(-k), Ok(-r), TRUE)
    BY <1>6, <1>10, <1>11, WrittenParts
<1>13. ~TooLarge(-k, -r)
  <2>1. CASE r = 0
    <3>1. MaxInt - (-r) = MaxInt /\ MaxInt \in Words
      BY <1>1, <2>1 DEF Words
    <3>2. Wrap(MaxInt - (-r)) = MaxInt
      BY <3>1, WrapKeeps
    <3>3. MaxInt \div 100 \in Nat /\ Quo(MaxInt, 100) = MaxInt \div 100
      BY <1>1 DEF Quo
    <3>. QED
      BY <1>2, <3>2, <3>3 DEF TooLarge
  <2>2. CASE r # 0
    <3> DEFINE n == MinInt + r - 1
    <3>1. MaxInt - (-r) = n + 2 * (MaxInt + 1) /\ n \in Words /\ n < 0 /\ -n = 100 * k + 1
      BY <1>1, <1>2, <1>7, <2>2 DEF Words
    <3>2. Wrap(MaxInt - (-r)) = n
      <4>. HIDE DEF n
      <4>. QED
        BY <3>1, WrapAround
    <3>3. (100 * k + 1) \div 100 = k
      BY <1>2
    <3>4. Quo(n, 100) = -k
      <4>1. ~(n >= 0)
        BY <1>1, <1>2, <3>1
      <4>. HIDE DEF n
      <4>. QED
        BY <3>1, <3>3, <4>1 DEF Quo
    <3>. HIDE DEF n
    <3>. QED
      BY <1>2, <3>2, <3>4 DEF TooLarge
  <2>. QED
    BY <2>1, <2>2
<1>14. (-k) * 100 + (-r) = MinInt
    BY <1>1, <1>2
<1>15. Wrap((-k) * 100 + (-r)) = MinInt
    BY <1>1, <1>14, WrapKeeps
<1>16. Joined(Ok(-k), Ok(-r), TRUE) = Ok(MinInt)
    BY <1>4, <1>13, <1>15 DEF Joined, Ok
<1>. QED
    BY <1>12, <1>16 DEF MarshalJSON

-----------------------------------------------------------------------------
(* Amounts that were typed *)

LEMMA DotsFinite ==
    ASSUME NEW A, NEW b \in Seq(A)
    PROVE  IsFiniteSet(Dots(b)) /\ Cardinality(Dots(b)) \in Nat /\ Dots(b) \subseteq 1..Len(b)
<1>1. Dots(b) \subseteq 1..Len(b) /\ Len(b) \in Nat
    BY DEF Dots
<1>2. IsFiniteSet(1..Len(b))
    BY <1>1, SegmentFinite
<1>3. IsFiniteSet(Dots(b))
    BY <1>1, <1>2, FS_Subset
<1>. QED
    BY <1>1, <1>3, FS_CardinalityType

LEMMA OnePoint ==
    ASSUME NEW A, NEW b \in Seq(A)
    PROVE  Cardinality(Dots(b)) <= 1 <=> Dots(b) = {} \/ \E d \in 1..Len(b) : Dots(b) = {d}
<1>1. IsFiniteSet(Dots(b)) /\ Cardinality(Dots(b)) \in Nat /\ Dots(b) \subseteq 1..Len(b)
    BY DotsFinite
<1>2. Cardinality(Dots(b)) = 0 <=> Dots(b) = {}
    BY <1>1, FS_EmptySet
<1>3. Cardinality(Dots(b)) = 1 <=> \E d : Dots(b) = {d}
    BY <1>1, FS_Singleton
<1>4. ASSUME NEW d, Dots(b) = {d} PROVE d \in 1..Len(b)
    BY <1>1, <1>4
<1>5. Cardinality(Dots(b)) <= 1 <=> Cardinality(Dots(b)) = 0 \/ Cardinality(Dots(b)) = 1
    BY <1>1
<1>. QED
    BY <1>2, <1>3, <1>4, <1>5

LEMMA NoPointParts ==
    ASSUME NEW b, Dots(b) = {}
    PROVE  Whole(b) = b /\ Fraction(b) = <<>>
BY DEF Whole, Fraction

LEMMA PointParts ==
    ASSUME NEW A, NEW b \in Seq(A), NEW d \in 1..Len(b), Dots(b) = {d}
    PROVE  /\ Whole(b) \in Seq(A) /\ Len(Whole(b)) = d - 1
           /\ \A i \in 1..(d - 1) : Whole(b)[i] = b[i]
           /\ Fraction(b) \in Seq(A) /\ Len(Fraction(b)) = Len(b) - d
           /\ \A i \in 1..(Len(b) - d) : Fraction(b)[i] = b[d + i]
<1>1. Len(b) \in Nat /\ d \in Nat /\ 1 <= d /\ d <= Len(b)
    OBVIOUS
<1>2. Min({d}) = d
    BY <1>1 DEF Min
<1>3. Whole(b) = SubSeq(b, 1, d - 1) /\ Fraction(b) = SubSeq(b, d + 1, Len(b))
    BY <1>2 DEF Whole, Fraction
<1>4. /\ SubSeq(b, 1, d - 1) \in Seq(A) /\ Len(SubSeq(b, 1, d - 1)) = d - 1
      /\ \A i \in 1..(d - 1) : SubSeq(b, 1, d - 1)[i] = b[i]
    BY <1>1
<1>5. /\ SubSeq(b, d + 1, Len(b)) \in Seq(A) /\ Len(SubSeq(b, d + 1, Len(b))) = Len(b) - d
      /\ \A i \in 1..(Len(b) - d) : SubSeq(b, d + 1, Len(b))[i] = b[d + i]
    BY <1>1
<1>. QED
    BY <1>3, <1>4, <1>5

(* A part without a sign that ParseInt takes is made of digits. *)
LEMMA TakenWithoutSign ==
    ASSUME NEW s, ParseInt(s).ok, Head(s) \notin Signs
    PROVE  AllDigits(s) /\ s # <<>>
BY DEF ParseInt, Invalid

LEMMA Padded ==
    ASSUME NEW A, NEW f \in Seq(A), Len(f) <= 2
    PROVE  /\ Pad(f) \in Seq(A \cup {"0"}) /\ Len(Pad(f)) = 2
           /\ \A i \in 1..Len(f) : Pad(f)[i] = f[i]
           /\ \A i \in (Len(f) + 1)..2 : Pad(f)[i] = "0"
<1> DEFINE n == 2 - Len(f)
           z == [i \in 1..n |-> "0"]
<1>1. Len(f) \in Nat /\ n \in Nat
    OBVIOUS
<1>2. z \in Seq(A \cup {"0"}) /\ Len(z) = n /\ \A i \in 1..n : z[i] = "0"
    BY <1>1
<1>3. f \in Seq(A \cup {"0"})
    OBVIOUS
<1>. HIDE DEF z
<1>4. /\ f \o z \in Seq(A \cup {"0"}) /\ Len(f \o z) = 2
      /\ \A i \in 1..Len(f) : (f \o z)[i] = f[i]
      /\ \A i \in (Len(f) + 1)..2 : (f \o z)[i] = "0"
    BY <1>1, <1>2, <1>3
<1>. QED
    BY <1>4 DEF Pad, z

LEMMA UnsignedText ==
    ASSUME NEW A, NEW t \in Seq(A)
    PROVE  Unsigned(t) \in Seq(A) /\ Len(Unsigned(t)) <= Len(t)
BY DEF Unsigned

(* Accepted, and no sign but a leading minus: a decimal. *)
LEMMA AcceptedIsDecimal ==
    ASSUME NEW A, NEW t \in Seq(A), NEW b, b = Unsigned(t),
           ~(Cardinality(Dots(b)) > 1), Whole(b) # <<>>, FractionFits(Fraction(b)),
           ParseInt(Whole(b)).ok, ParseInt(Pad(Fraction(b))).ok,
           \A i \in DOMAIN b : b[i] \notin Signs
    PROVE  IsDecimal(t)
<1>1. b \in Seq(A) /\ DOMAIN b = 1..Len(b) /\ Len(b) \in Nat
    BY UnsignedText
<1>2. Cardinality(Dots(b)) <= 1
    BY <1>1, DotsFinite
<1>3. Dots(b) = {i \in DOMAIN b : b[i] = "."}
    BY DEF Dots
<1>4. "0" \notin Signs /\ "0" \in DOMAIN Digit
    BY DigitFacts DEF Signs
<1>5. CASE Dots(b) = {}
  <2>1. Whole(b) = b
    BY <1>5, NoPointParts
  <2>2. Head(b) \notin Signs
    BY <1>1, <2>1
  <2>3. AllDigits(b) /\ b # <<>>
    BY <2>1, <2>2, TakenWithoutSign
  <2>4. /\ \A i \in DOMAIN b \ Dots(b) : b[i] \in DOMAIN Digit
        /\ Dots(b) \subseteq {i \in 2..Len(b) : i >= Len(b) - 2}
    BY <1>5, <2>3 DEF AllDigits
  <2>. QED
    BY <1>2, <1>3, <2>3, <2>4 DEF IsDecimal
<1>6. ASSUME NEW d \in 1..Len(b), Dots(b) = {d} PROVE IsDecimal(t)
  <2> DEFINE w == Whole(b)
             f == Fraction(b)
  <2>1. /\ w \in Seq(A) /\ Len(w) = d - 1
        /\ \A i \in 1..(d - 1) : w[i] = b[i]
        /\ f \in Seq(A) /\ Len(f) = Len(b) - d
        /\ \A i \in 1..(Len(b) - d) : f[i] = b[d + i]
    BY ONLY <1>1, <1>6, PointParts
  <2>2. d \in Nat /\ Len(f) <= 2
    BY <1>1 DEF FractionFits
  <2>. HIDE DEF w, f
  <2>3. d >= 2 /\ d >= Len(b) - 2
    <3>1. Len(w) # 0
      BY <2>1 DEF w
    <3>. QED
      BY <1>1, <2>1, <2>2, <3>1
  <2>4. AllDigits(w)
    <3>1. Head(w) = w[1] /\ 1 \in 1..(d - 1) /\ 1 \in DOMAIN b
      BY <1>1, <2>1, <2>2, <2>3
    <3>2. Head(w) \notin Signs
      BY <2>1, <3>1
    <3>. QED
      BY <3>2, TakenWithoutSign DEF w
  <2> DEFINE p == Pad(f)
  <2>5. /\ p \in Seq(A \cup {"0"}) /\ Len(p) = 2
        /\ \A i \in 1..Len(f) : p[i] = f[i]
        /\ \A i \in (Len(f) + 1)..2 : p[i] = "0"
    BY <2>1, <2>2, Padded
  <2>. HIDE DEF p
  <2>6. AllDigits(p)
    <3>1. Head(p) = p[1]
      BY <2>5
    <3>2. CASE Len(f) = 0
      <4>1. p[1] = "0"
        BY <2>5, <3>2
      <4>. QED
        BY <1>4, <3>1, <4>1, TakenWithoutSign DEF p, f
    <3>3. CASE Len(f) # 0
      <4>1. Len(f) \in Nat /\ Len(f) = Len(b) - d
        BY <2>1
      <4>2. Len(f) >= 1
        BY ONLY <3>3, <4>1
      <4>3. Len(b) = d + Len(f)
        BY ONLY <1>1, <2>2, <4>1
      <4>4. 1 \in 1..Len(f) /\ 1 \in 1..(Len(b) - d) /\ d + 1 \in 1..Len(b)
        BY <2>2, <4>1, <4>2, <4>3
      <4>5. p[1] = b[d + 1]
        BY <2>1, <2>5, <4>4
      <4>6. b[d + 1] \notin Signs
        BY <1>1, <4>4
      <4>. QED
        BY <3>1, <4>5, <4>6, TakenWithoutSign DEF p, f
    <3>. QED
      BY <3>2, <3>3
  <2>7. ASSUME NEW i \in DOMAIN b \ Dots(b) PROVE b[i] \in DOMAIN Digit
    <3>1. i \in 1..Len(b) /\ i # d /\ i \in Nat
      BY <1>1, <1>6
    <3>2. CASE i < d
      <4>1. i \in 1..(d - 1) /\ i \in DOMAIN w
        BY <2>1, <2>2, <3>1, <3>2
      <4>. QED
        BY <2>1, <2>4, <4>1 DEF AllDigits
    <3>3. CASE i > d
      <4>1. i - d \in 1..Len(f) /\ d + (i - d) = i /\ i - d \in 1..2
        BY <1>1, <2>1, <2>2, <3>1, <3>3
      <4>2. p[i - d] = f[i - d] /\ i - d \in DOMAIN p
        BY <2>5, <4>1
      <4>3. f[i - d] = b[d + (i - d)]
        BY <2>1, <4>1
      <4>. QED
        BY <2>6, <4>1, <4>2, <4>3 DEF AllDigits
    <3>. QED
      BY <2>2, <3>1, <3>2, <3>3
  <2>8. Dots(b) \subseteq {i \in 2..Len(b) : i >= Len(b) - 2} /\ b # <<>>
    BY <1>1, <1>6, <2>2, <2>3
  <2>. QED
    BY <1>2, <1>3, <2>7, <2>8 DEF IsDecimal
<1>7. Dots(b) = {} \/ \E d \in 1..Len(b) : Dots(b) = {d}
    BY <1>1, <1>2, OnePoint
<1>. QED
    BY <1>5, <1>6, <1>7

-----------------------------------------------------------------------------
(* The value of a decimal *)

TenToUpTo(f, n) == [k \in 0..n |-> IF k = 0 THEN 1 ELSE 10 * f[k - 1]]

LEMMA TenToExists ==
    \A n \in Nat : \E f : f = TenToUpTo(f, n)
<1> DEFINE Good == {n \in Nat : \E f : f = TenToUpTo(f, n)}
<1>1. 0 \in Good
  <2> DEFINE f == [k \in 0..0 |-> 1]
  <2>1. f = TenToUpTo(f, 0)
    BY DEF TenToUpTo
  <2>. QED
    BY <2>1
<1>2. ASSUME NEW n \in Nat, n \in Good PROVE n + 1 \in Good
  <2>1. PICK f : f = TenToUpTo(f, n)
    BY <1>2
  <2> DEFINE g == [k \in 0..(n + 1) |-> IF k = 0 THEN 1 ELSE 10 * f[k - 1]]
  <2>2. ASSUME NEW k \in 0..(n + 1), k # 0 PROVE k - 1 \in 0..n
    BY <2>2
  <2>3. ASSUME NEW k \in 0..n PROVE g[k] = f[k]
    <3> DEFINE v == IF k = 0 THEN 1 ELSE 10 * f[k - 1]
    <3>1. f[k] = v
      BY <2>1 DEF TenToUpTo
    <3>2. k \in 0..(n + 1)
      OBVIOUS
    <3>3. g[k] = v
      BY <3>2
    <3>. QED
      BY <3>1, <3>3
  <2>4. g = TenToUpTo(g, n + 1)
    <3>1. \A k \in 0..(n + 1) : k # 0 => f[k - 1] = g[k - 1]
      <4>. HIDE DEF g
      <4>. QED
        BY <2>2, <2>3
    <3>2. g = [k \in 0..(n + 1) |-> IF k = 0 THEN 1 ELSE 10 * f[k - 1]]
      OBVIOUS
    <3>. HIDE DEF g
    <3>. QED
      BY <3>1, <3>2 DEF TenToUpTo
  <2>. QED
    BY <2>4
<1>3. \A n \in Nat : n \in Good
  <2>. HIDE DEF Good
  <2>. QED
    BY <1>1, <1>2, NumberInduction
<1>. QED
    BY <1>3

LEMMA TenToIs ==
    ASSUME NEW k \in 0..(MaxLen + 1)
    PROVE  TenTo[k] = IF k = 0 THEN 1 ELSE 10 * TenTo[k - 1]
<1>1. MaxLen + 1 \in Nat
    BY MoneyAssumption
<1>2. TenTo = CHOOSE f : f = TenToUpTo(f, MaxLen + 1)
    BY DEF TenTo, TenToUpTo
<1>3. TenTo = TenToUpTo(TenTo, MaxLen + 1)
    BY <1>1, <1>2, TenToExists
<1>. QED
    BY <1>3 DEF TenToUpTo

LEMMA TenToNat ==
    \A k \in 0..(MaxLen + 1) : TenTo[k] \in Nat
<1> DEFINE Good == {k \in Nat : k <= MaxLen + 1 => TenTo[k] \in Nat}
<1>1. MaxLen \in Nat
    BY MoneyAssumption
<1>2. 0 \in Good
  <2>1. 0 \in 0..(MaxLen + 1)
    BY <1>1
  <2>. QED
    BY <2>1, TenToIs
<1>3. ASSUME NEW k \in Nat, k \in Good PROVE k + 1 \in Good
  <2>1. SUFFICES ASSUME k + 1 <= MaxLen + 1 PROVE TenTo[k + 1] \in Nat
    OBVIOUS
  <2>2. k + 1 \in 0..(MaxLen + 1) /\ k + 1 # 0 /\ (k + 1) - 1 = k /\ k <= MaxLen + 1
    BY <1>1, <2>1
  <2>3. TenTo[k + 1] = 10 * TenTo[k]
    BY <2>2, TenToIs
  <2>4. TenTo[k] \in Nat
    BY <1>3, <2>2
  <2>. QED
    BY <2>3, <2>4
<1>4. \A k \in Nat : k \in Good
  <2>. HIDE DEF Good
  <2>. QED
    BY <1>2, <1>3, NumberInduction
<1>5. \A k \in 0..(MaxLen + 1) : k \in Nat /\ k <= MaxLen + 1
    BY <1>1
<1>. QED
    BY <1>4, <1>5

LEMMA SmallPowers == TenTo[0] = 1 /\ TenTo[1] = 10 /\ (MaxLen >= 1 => TenTo[2] = 100)
<1>1. MaxLen \in Nat
    BY MoneyAssumption
<1>2. TenTo[0] = 1
  <2>1. 0 \in 0..(MaxLen + 1)
    BY <1>1
  <2>. QED
    BY <2>1, TenToIs
<1>3. TenTo[1] = 10
  <2>1. 1 \in 0..(MaxLen + 1) /\ 1 # 0 /\ 1 - 1 = 0
    BY <1>1
  <2>2. TenTo[1] = 10 * TenTo[0]
    BY <2>1, TenToIs
  <2>. QED
    BY <1>2, <2>2
<1>4. ASSUME MaxLen >= 1 PROVE TenTo[2] = 100
  <2>1. 2 \in 0..(MaxLen + 1) /\ 2 # 0 /\ 2 - 1 = 1
    BY <1>1, <1>4
  <2>2. TenTo[2] = 10 * TenTo[1]
    BY <2>1, TenToIs
  <2>. QED
    BY <1>3, <2>2
<1>. QED
    BY <1>2, <1>3, <1>4

LEMMA NextPlace ==
    ASSUME NEW N \in Int, NEW D \in Int, NEW T \in Int
    PROVE  D * T + N * (10 * T) = (10 * N + D) * T
OBVIOUS

(* Digits by their places add up to the number, hundredfold. *)
LEMMA WholeSum ==
    ASSUME NEW w \in Numerals, w # <<>>, Len(w) <= MaxLen, NEW f,
           \A i \in 1..Len(w) : f[i] = Digit[w[i]] * TenTo[(Len(w) + 2) - i]
    PROVE  SumFunctionOnSet(f, 1..Len(w)) = 100 * Number(w)
<1> DEFINE n == Len(w)
           N(k) == Number(SubSeq(w, 1, k))
           D(k) == Digit[w[k]]
           T(k) == TenTo[(n + 2) - k]
           Sum(k) == SumFunctionOnSet(f, 1..k)
           Good == {k \in Nat : k + 1 <= n => Sum(k + 1) = N(k + 1) * T(k + 1)}
<1>1. n \in Nat /\ n >= 1 /\ MaxLen \in Nat /\ n <= MaxLen /\ w \in Seq(DOMAIN Digit)
    BY MoneyAssumption DEF Numerals
<1>2. DigitsOn(w, 1..n) /\ \A i \in 1..n : D(i) \in Int
    BY NumeralDigits DEF DigitsOn
<1>3. ASSUME NEW k \in 0..n
      PROVE  N(k) \in Int /\ (k = 0 => N(k) = 0) /\ (k < n => N(k + 1) = 10 * N(k) + D(k + 1))
    BY <1>1, <1>2, <1>3, NumberOfPrefix
<1>4. ASSUME NEW k \in 1..n PROVE T(k) \in Int /\ f[k] = D(k) * T(k) /\ f[k] \in Int
  <2>1. (n + 2) - k \in 0..(MaxLen + 1)
    BY <1>1, <1>4
  <2>2. T(k) \in Nat
    BY <2>1, TenToNat
  <2>3. f[k] = D(k) * T(k)
    BY <1>4
  <2>4. D(k) \in Int
    BY <1>2, <1>4
  <2>. HIDE DEF D, T
  <2>. QED
    BY <2>2, <2>3, <2>4
<1>5. ASSUME NEW k \in Nat, k + 1 <= n PROVE Sum(k + 1) = f[k + 1] + Sum(k)
  <2> DEFINE S == 1..(k + 1)
  <2>1. IsFiniteSet(S) /\ k + 1 \in S /\ S \ {k + 1} = 1..k
    BY SegmentFinite, MaxOfSegment
  <2>2. IntegerOn(f, S)
    <3>1. S \subseteq 1..n
      BY <1>1, <1>5
    <3>. QED
      BY <1>4, <3>1 DEF IntegerOn
  <2>. HIDE DEF S
  <2>3. SumFunctionOnSet(f, S) = f[k + 1] + SumFunctionOnSet(f, S \ {k + 1})
    BY ONLY <2>1, <2>2, SumWithout
  <2>. QED
    BY <2>1, <2>3 DEF S
<1>6. 0 \in Good
  <2>1. 1..0 = {} /\ 0 + 1 = 1 /\ 0 \in 0..n /\ 0 < n /\ 1 \in 1..n /\ 0 \in Nat /\ 0 + 1 <= n
    BY <1>1
  <2>2. Sum(0) = 0
    BY <2>1, SumEmpty
  <2>3. Sum(1) = f[1] + Sum(0) /\ f[1] = D(1) * T(1) /\ f[1] \in Int
    BY <1>4, <1>5, <2>1
  <2>4. N(0) = 0 /\ N(1) = 10 * N(0) + D(1) /\ D(1) \in Int
    BY <1>2, <1>3, <2>1
  <2>5. Sum(1) = N(1) * T(1)
    <3>. HIDE DEF N, D, T, Sum, n
    <3>. QED
      BY <2>2, <2>3, <2>4
  <2>. QED
    BY <2>1, <2>5
<1>7. ASSUME NEW k \in Nat, k \in Good PROVE k + 1 \in Good
  <2>1. SUFFICES ASSUME (k + 1) + 1 <= n PROVE Sum((k + 1) + 1) = N((k + 1) + 1) * T((k + 1) + 1)
    OBVIOUS
  <2> DEFINE j == k + 1
  <2>2. j \in Nat /\ j \in 0..n /\ j < n /\ j \in 1..n /\ j + 1 \in 1..n /\ j + 1 <= n
    BY <1>1, <2>1
  <2>3. Sum(j) = N(j) * T(j)
    BY <1>7, <2>2
  <2>4. T(j) = 10 * T(j + 1)
    <3>1. /\ (n + 2) - j \in 0..(MaxLen + 1) /\ (n + 2) - j # 0
          /\ ((n + 2) - j) - 1 = (n + 2) - (j + 1)
      BY <1>1, <2>2
    <3>. QED
      BY <3>1, TenToIs
  <2>5. N(j) \in Int /\ N(j + 1) = 10 * N(j) + D(j + 1) /\ D(j + 1) \in Int /\ T(j + 1) \in Int
    BY <1>2, <1>3, <1>4, <2>2
  <2>6. Sum(j + 1) = D(j + 1) * T(j + 1) + Sum(j)
    BY <1>4, <1>5, <2>2
  <2>. HIDE DEF N, D, T, Sum, n
  <2>. QED
    BY <2>3, <2>4, <2>5, <2>6, NextPlace
<1>8. \A k \in Nat : k \in Good
  <2>. HIDE DEF Good
  <2>. QED
    BY <1>6, <1>7, NumberInduction
<1>9. Sum(n) = N(n) * T(n)
  <2>1. n - 1 \in Nat /\ (n - 1) + 1 = n /\ n <= n
    BY <1>1
  <2>2. n - 1 \in Good
    BY <1>8, <2>1
  <2>. HIDE DEF n, N, T, Sum
  <2>. QED
    BY <2>1, <2>2
<1>10. T(n) = 100
  <2>1. (n + 2) - n = 2 /\ MaxLen >= 1
    BY <1>1
  <2>. QED
    BY <2>1, SmallPowers
<1>11. N(n) = Number(w) /\ N(n) \in Int
  <2>1. n \in 0..n
    BY <1>1
  <2>. QED
    BY <1>1, <1>3, <2>1, WholePrefix
<1>. HIDE DEF N, T
<1>. QED
    BY <1>9, <1>10, <1>11

LEMMA NumberOfTwo ==
    ASSUME NEW p \in Numerals, Len(p) = 2
    PROVE  Number(p) = 10 * Digit[p[1]] + Digit[p[2]] /\ Number(p) \in 0..99
<1>1. DigitsOn(p, 1..Len(p)) /\ p \in Seq(DOMAIN Digit) /\ Digit[p[1]] \in 0..9 /\ Digit[p[2]] \in 0..9
    BY NumeralDigits DEF Numerals
<1>2. 0 \in 0..Len(p) /\ 1 \in 0..Len(p) /\ 0 < Len(p) /\ 1 < Len(p) /\ 0 + 1 = 1 /\ 1 + 1 = 2
    OBVIOUS
<1>3. Number(SubSeq(p, 1, 0)) = 0 /\ Number(SubSeq(p, 1, 1)) = 10 * Number(SubSeq(p, 1, 0)) + Digit[p[1]]
    BY <1>1, <1>2, NumberOfPrefix
<1>4. Number(SubSeq(p, 1, 2)) = 10 * Number(SubSeq(p, 1, 1)) + Digit[p[2]]
    BY <1>1, <1>2, NumberOfPrefix
<1>5. SubSeq(p, 1, 2) = p
    BY <1>1, WholePrefix
<1> DEFINE x == Digit[p[1]]
           y == Digit[p[2]]
           one == Number(SubSeq(p, 1, 1))
<1>6. one = 10 * 0 + x /\ Number(p) = 10 * one + y /\ x \in 0..9 /\ y \in 0..9
    BY <1>1, <1>3, <1>4, <1>5
<1>. HIDE DEF x, y, one
<1>7. Number(p) = 10 * x + y /\ Number(p) \in 0..99
    BY ONLY <1>6
<1>. QED
    BY <1>7 DEF x, y

(* The sum around a gap with at most two terms after it. *)
LEMMA SumAroundPoint ==
    ASSUME NEW g, NEW n \in Nat, NEW d \in 1..n, n <= d + 2, IntegerOn(g, (1..n) \ {d})
    PROVE  /\ SumFunctionOnSet(g, 1..(d - 1)) \in Int
           /\ n = d => SumFunctionOnSet(g, (1..n) \ {d}) = SumFunctionOnSet(g, 1..(d - 1))
           /\ n = d + 1 => /\ g[d + 1] \in Int
                           /\ SumFunctionOnSet(g, (1..n) \ {d}) =
                                g[d + 1] + SumFunctionOnSet(g, 1..(d - 1))
           /\ n = d + 2 => /\ g[d + 1] \in Int /\ g[d + 2] \in Int
                           /\ SumFunctionOnSet(g, (1..n) \ {d}) =
                                g[d + 2] + (g[d + 1] + SumFunctionOnSet(g, 1..(d - 1)))
<1> DEFINE S0 == 1..(d - 1)
           S1 == S0 \cup {d + 1}
           S2 == S1 \cup {d + 2}
           Sum(S) == SumFunctionOnSet(g, S)
<1>1. d \in Nat /\ d >= 1 /\ d <= n
    OBVIOUS
<1>2. IsFiniteSet(S0) /\ IsFiniteSet(S1) /\ IsFiniteSet(S2)
  <2>1. IsFiniteSet(S0)
    BY <1>1, FS_Interval
  <2>2. IsFiniteSet(S1)
    BY <2>1, FS_AddElement
  <2>. QED
    BY <2>1, <2>2, FS_AddElement
<1>3. S1 \ {d + 1} = S0 /\ S2 \ {d + 2} = S1
    BY <1>1
<1>4. S0 \subseteq (1..n) \ {d}
    BY <1>1
<1>5. Sum(S0) \in Int
    BY <1>2, <1>4, SumInt DEF IntegerOn
<1>6. ASSUME n > d PROVE g[d + 1] \in Int /\ Sum(S1) = g[d + 1] + Sum(S0)
  <2>1. S1 \subseteq (1..n) \ {d} /\ d + 1 \in S1 /\ d + 1 \in (1..n) \ {d}
    BY <1>1, <1>6
  <2>2. IntegerOn(g, S1) /\ g[d + 1] \in Int
    BY <2>1 DEF IntegerOn
  <2>. HIDE DEF S0, S1
  <2>. QED
    BY <1>2, <1>3, <2>1, <2>2, SumWithout
<1>7. ASSUME n > d + 1 PROVE g[d + 2] \in Int /\ Sum(S2) = g[d + 2] + Sum(S1)
  <2>1. S2 \subseteq (1..n) \ {d} /\ d + 2 \in S2 /\ d + 2 \in (1..n) \ {d}
    BY <1>1, <1>7
  <2>2. IntegerOn(g, S2) /\ g[d + 2] \in Int
    BY <2>1 DEF IntegerOn
  <2>. HIDE DEF S1, S2
  <2>. QED
    BY <1>2, <1>3, <2>1, <2>2, SumWithout
<1>8. n = d => (1..n) \ {d} = S0
    BY <1>1
<1>9. n = d + 1 => (1..n) \ {d} = S1 /\ n > d
    BY <1>1
<1>10. n = d + 2 => (1..n) \ {d} = S2 /\ n > d /\ n > d + 1
    BY <1>1
<1> DEFINE R == (1..n) \ {d}
<1>11. /\ n = d => Sum(R) = Sum(S0)
       /\ n = d + 1 => g[d + 1] \in Int /\ Sum(R) = g[d + 1] + Sum(S0)
       /\ n = d + 2 => /\ g[d + 1] \in Int /\ g[d + 2] \in Int
                       /\ Sum(R) = g[d + 2] + (g[d + 1] + Sum(S0))
  <2>. HIDE DEF S0, S1, S2, R, Sum
  <2>. QED
    BY <1>6, <1>7, <1>8, <1>9, <1>10 DEF R
<1>. QED
    BY ONLY <1>5, <1>11 DEF S0, R, Sum

(* The two parts of a decimal are numerals. *)
LEMMA DecimalParts ==
    ASSUME NEW A, NEW t \in Seq(A), NEW b, b = Unsigned(t), IsDecimal(t)
    PROVE  /\ Dots(b) = {} \/ \E d \in 2..Len(b) : Dots(b) = {d} /\ Len(b) <= d + 2
           /\ Whole(b) \in Numerals /\ Whole(b) # <<>> /\ Len(Whole(b)) <= Len(b)
           /\ Fraction(b) \in Numerals /\ Len(Fraction(b)) <= 2
           /\ Pad(Fraction(b)) \in Numerals /\ Len(Pad(Fraction(b))) = 2
<1>1. b \in Seq(A) /\ DOMAIN b = 1..Len(b) /\ Len(b) \in Nat
    BY UnsignedText
<1>2. Dots(b) = {i \in DOMAIN b : b[i] = "."}
    BY DEF Dots
<1>3. /\ \A i \in DOMAIN b \ Dots(b) : b[i] \in DOMAIN Digit
      /\ Dots(b) \subseteq {i \in 2..Len(b) : i >= Len(b) - 2}
      /\ Cardinality(Dots(b)) <= 1 /\ b # <<>>
    BY <1>2 DEF IsDecimal
<1>4. "0" \in DOMAIN Digit
    BY DigitFacts
<1>5. ASSUME NEW f \in Numerals, Len(f) <= 2 PROVE Pad(f) \in Numerals /\ Len(Pad(f)) = 2
  <2>1. DOMAIN Digit \cup {"0"} = DOMAIN Digit
    BY <1>4
  <2>2. f \in Seq(DOMAIN Digit)
    BY DEF Numerals
  <2>3. Pad(f) \in Seq(DOMAIN Digit \cup {"0"}) /\ Len(Pad(f)) = 2
    BY ONLY <1>5, <2>2, Padded
  <2>. QED
    BY <2>1, <2>3 DEF Numerals
<1>6. CASE Dots(b) = {}
  <2>1. Whole(b) = b /\ Fraction(b) = <<>>
    BY <1>6, NoPointParts
  <2>2. \A i \in 1..Len(b) : b[i] \in DOMAIN Digit
    BY <1>1, <1>3, <1>6
  <2>3. b \in Numerals
    BY <1>1, <2>2 DEF Numerals
  <2>4. Fraction(b) \in Numerals /\ Len(Fraction(b)) <= 2
    BY <2>1 DEF Numerals
  <2>5. Pad(Fraction(b)) \in Numerals /\ Len(Pad(Fraction(b))) = 2
    BY ONLY <1>5, <2>4
  <2>6. Len(b) <= Len(b)
    BY <1>1
  <2>. QED
    BY <1>3, <1>6, <2>1, <2>3, <2>4, <2>5, <2>6
<1>7. ASSUME NEW d \in 1..Len(b), Dots(b) = {d}
      PROVE  /\ d \in 2..Len(b) /\ Len(b) <= d + 2
             /\ Whole(b) \in Numerals /\ Whole(b) # <<>> /\ Len(Whole(b)) <= Len(b)
             /\ Fraction(b) \in Numerals /\ Len(Fraction(b)) <= 2
  <2> DEFINE w == Whole(b)
             f == Fraction(b)
  <2>1. /\ w \in Seq(A) /\ Len(w) = d - 1
        /\ \A i \in 1..(d - 1) : w[i] = b[i]
        /\ f \in Seq(A) /\ Len(f) = Len(b) - d
        /\ \A i \in 1..(Len(b) - d) : f[i] = b[d + i]
    BY ONLY <1>1, <1>7, PointParts
  <2>2. d \in 2..Len(b) /\ d >= Len(b) - 2 /\ d \in Nat
    BY <1>3, <1>7
  <2>. HIDE DEF w, f
  <2>3. \A i \in 1..Len(w) : w[i] \in DOMAIN Digit
    <3>1. ASSUME NEW i \in 1..Len(w) PROVE w[i] \in DOMAIN Digit
      <4>1. i \in 1..(d - 1) /\ i \in 1..Len(b) /\ i # d
        BY <1>1, <2>1, <2>2
      <4>. QED
        BY <1>1, <1>3, <1>7, <2>1, <4>1
    <3>. QED
      BY <3>1
  <2>4. \A i \in 1..Len(f) : f[i] \in DOMAIN Digit
    <3>1. ASSUME NEW i \in 1..Len(f) PROVE f[i] \in DOMAIN Digit
      <4>1. i \in 1..(Len(b) - d) /\ d + i \in 1..Len(b) /\ d + i # d
        BY <1>1, <2>1, <2>2
      <4>. QED
        BY <1>1, <1>3, <1>7, <2>1, <4>1
    <3>. QED
      BY <3>1
  <2>5. w \in Numerals
    BY <2>1, <2>3 DEF Numerals
  <2>6. f \in Numerals
    BY <2>1, <2>4 DEF Numerals
  <2>7. Len(w) <= Len(b) /\ Len(f) <= 2 /\ Len(w) # 0 /\ Len(b) <= d + 2
    BY <1>1, <2>1, <2>2
  <2>8. w # <<>>
    BY <2>7
  <2>. QED
    BY <2>2, <2>5, <2>6, <2>7, <2>8 DEF w, f
<1>8. Dots(b) = {} \/ \E d \in 1..Len(b) : Dots(b) = {d}
    BY <1>1, <1>3, OnePoint
<1>. QED
    BY <1>5, <1>6, <1>7, <1>8


(* The digits of b by their places around the point. *)
Place(point, i) == IF i < point THEN point - i + 1 ELSE point + 2 - i

Terms(b, point) == [i \in DOMAIN b \ {point} |-> Digit[b[i]] * TenTo[Place(point, i)]]

LEMMA HundredthsOf ==
    ASSUME NEW t, NEW b, b = Unsigned(t), NEW point,
           (Dots(b) = {} /\ point = Len(b) + 1) \/ Dots(b) = {point}
    PROVE  Hundredths(t) = IF t = b THEN SumFunction(Terms(b, point))
                                    ELSE -SumFunction(Terms(b, point))
<1> DEFINE p == IF \E i \in DOMAIN b : b[i] = "."
                THEN CHOOSE i \in DOMAIN b : b[i] = "." ELSE Len(b) + 1
<1>1. p = point
  <2>1. CASE Dots(b) = {} /\ point = Len(b) + 1
    BY <2>1 DEF Dots
  <2>2. CASE Dots(b) = {point}
    <3>1. point \in DOMAIN b /\ b[point] = "." /\ \A i \in DOMAIN b : b[i] = "." => i = point
      BY <2>2 DEF Dots
    <3>. QED
      BY <3>1
  <2>. QED
    BY <2>1, <2>2
<1>. HIDE DEF p
<1>. QED
    BY <1>1 DEF Hundredths, Terms, Place, p

(* A decimal says its whole part hundredfold and its two decimals. *)
LEMMA HundredthsIs ==
    ASSUME NEW A, NEW t \in Seq(A), NEW b, b = Unsigned(t), IsDecimal(t), Len(b) <= MaxLen,
           NEW v, v = 100 * Number(Whole(b)) + Number(Pad(Fraction(b)))
    PROVE  Hundredths(t) = IF t = b THEN v ELSE -v
<1> DEFINE w == Whole(b)
           f == Fraction(b)
           p == Pad(f)
<1>1. b \in Seq(A) /\ DOMAIN b = 1..Len(b) /\ Len(b) \in Nat /\ MaxLen \in Nat
    BY UnsignedText, MoneyAssumption
<1>2. /\ Dots(b) = {} \/ \E d \in 2..Len(b) : Dots(b) = {d} /\ Len(b) <= d + 2
      /\ w \in Numerals /\ w # <<>> /\ Len(w) <= Len(b)
      /\ f \in Numerals /\ Len(f) <= 2
      /\ p \in Numerals /\ Len(p) = 2
    BY ONLY t \in Seq(A), b = Unsigned(t), IsDecimal(t), DecimalParts
<1>3. Number(w) \in Nat /\ Number(p) = 10 * Digit[p[1]] + Digit[p[2]]
      /\ \A i \in 1..Len(w) : Digit[w[i]] \in Int
    BY <1>2, NumberIsNat, NumberOfTwo, NumeralDigits DEF DigitsOn
<1>4. Digit["0"] = 0
    BY DigitFacts, CharIs
<1>5. \A i \in 1..Len(f) : p[i] = f[i] /\ Digit[f[i]] \in 0..9
    BY <1>2, NumeralDigits, Padded DEF Numerals
<1>6. \A i \in (Len(f) + 1)..2 : p[i] = "0"
    BY <1>2, Padded DEF Numerals
<1>7. Len(w) \in Nat /\ Len(f) \in Nat /\ Len(w) <= MaxLen
    BY <1>1, <1>2 DEF Numerals
<1>8. CASE Dots(b) = {}
  <2> DEFINE g == Terms(b, Len(b) + 1)
  <2>1. w = b /\ f = <<>> /\ Len(f) = 0
    BY <1>8, NoPointParts
  <2>2. DOMAIN g = 1..Len(b)
    BY <1>1 DEF Terms
  <2>3. \A i \in 1..Len(w) : g[i] = Digit[w[i]] * TenTo[(Len(w) + 2) - i]
    <3>1. ASSUME NEW i \in 1..Len(b) PROVE Place(Len(b) + 1, i) = (Len(b) + 2) - i /\ i # Len(b) + 1
      BY <1>1 DEF Place
    <3>. QED
      BY <1>1, <2>1, <3>1 DEF Terms
  <2>4. SumFunction(g) = SumFunctionOnSet(g, 1..Len(w))
    BY <2>1, <2>2 DEF SumFunction
  <2>. HIDE DEF g, w, p, f
  <2>5. SumFunctionOnSet(g, 1..Len(w)) = 100 * Number(w)
    BY ONLY <1>2, <1>7, <2>3, WholeSum
  <2>6. p[1] = "0" /\ p[2] = "0"
    BY <1>6, <2>1
  <2>7. SumFunction(g) = v
    BY <1>3, <1>4, <2>4, <2>5, <2>6 DEF w, p, f
  <2>. QED
    BY <1>8, <2>7, HundredthsOf DEF g
<1>9. ASSUME NEW d \in 2..Len(b), Dots(b) = {d}, Len(b) <= d + 2
      PROVE  Hundredths(t) = IF t = b THEN v ELSE -v
  <2> DEFINE g == Terms(b, d)
             n == Len(b)
             Sum == SumFunctionOnSet(g, 1..(d - 1))
  <2>1. d \in Nat /\ d \in 1..n /\ n \in Nat /\ d >= 2 /\ d <= n
    BY <1>1
  <2>2. /\ Len(w) = d - 1 /\ \A i \in 1..(d - 1) : w[i] = b[i]
        /\ Len(f) = n - d /\ \A i \in 1..(n - d) : f[i] = b[d + i]
    BY ONLY <1>1, <1>9, <2>1, PointParts
  <2>3. DOMAIN g = (1..n) \ {d} /\ \A i \in (1..n) \ {d} : g[i] = Digit[b[i]] * TenTo[Place(d, i)]
    BY <1>1 DEF Terms
  <2>. HIDE DEF w, f, p, g
  <2>4. \A i \in 1..Len(w) : g[i] = Digit[w[i]] * TenTo[(Len(w) + 2) - i]
    <3>1. ASSUME NEW i \in 1..(d - 1) PROVE Place(d, i) = ((d - 1) + 2) - i /\ i \in (1..n) \ {d}
      BY <2>1 DEF Place
    <3>. QED
      BY <2>2, <2>3, <3>1
  <2>5. SumFunctionOnSet(g, 1..Len(w)) = 100 * Number(w)
    BY ONLY <1>2, <1>7, <2>4, WholeSum
  <2>6. Sum = 100 * Number(w)
    BY <2>2, <2>5
  <2>7. ASSUME n > d PROVE g[d + 1] = 10 * Digit[p[1]] /\ Digit[p[1]] \in Int
    <3>1. Place(d, d + 1) = 1 /\ d + 1 \in (1..n) \ {d} /\ 1 \in 1..(n - d) /\ 1 \in 1..Len(f)
      BY <2>1, <2>2, <2>7 DEF Place
    <3>2. p[1] = b[d + 1] /\ Digit[p[1]] \in 0..9
      BY <1>5, <2>2, <3>1
    <3>3. g[d + 1] = Digit[p[1]] * 10
      BY <2>3, <3>1, <3>2, SmallPowers
    <3>. QED
      BY <3>2, <3>3
  <2>8. ASSUME n > d + 1 PROVE g[d + 2] = Digit[p[2]] /\ Digit[p[2]] \in Int
    <3>1. Place(d, d + 2) = 0 /\ d + 2 \in (1..n) \ {d} /\ 2 \in 1..(n - d) /\ 2 \in 1..Len(f)
      BY <2>1, <2>2, <2>8 DEF Place
    <3>2. p[2] = b[d + 2] /\ Digit[p[2]] \in 0..9
      BY <1>5, <2>2, <3>1
    <3>3. g[d + 2] = Digit[p[2]] * 1
      BY <2>3, <3>1, <3>2, SmallPowers
    <3>. QED
      BY <3>2, <3>3
  <2>9. IntegerOn(g, (1..n) \ {d})
    <3>1. ASSUME NEW i \in 1..(d - 1) PROVE g[i] \in Int
      <4>1. (Len(w) + 2) - i \in 0..(MaxLen + 1) /\ i \in 1..Len(w)
        BY <1>1, <1>7, <2>1, <2>2
      <4>2. TenTo[(Len(w) + 2) - i] \in Nat /\ Digit[w[i]] \in Int
        BY <1>3, <4>1, TenToNat
      <4>. QED
        BY <2>4, <4>1, <4>2
    <3>2. \A i \in (1..n) \ {d} : i \in 1..(d - 1) \/ (n > d /\ i = d + 1) \/ (n > d + 1 /\ i = d + 2)
      BY <1>9, <2>1
    <3>3. (n > d => g[d + 1] \in Int) /\ (n > d + 1 => g[d + 2] \in Int)
      BY <2>7, <2>8
    <3>. QED
      BY <3>1, <3>2, <3>3 DEF IntegerOn
  <2> DEFINE All == SumFunctionOnSet(g, (1..n) \ {d})
  <2>10. /\ Sum \in Int
         /\ n = d => All = Sum
         /\ n = d + 1 => All = g[d + 1] + Sum
         /\ n = d + 2 => All = g[d + 2] + (g[d + 1] + Sum)
    BY ONLY <1>9, <2>1, <2>9, SumAroundPoint
  <2>11. SumFunction(g) = All
    BY <2>3 DEF SumFunction
  <2>12. (n = d => p[1] = "0" /\ p[2] = "0") /\ (n = d + 1 => p[2] = "0")
    BY <1>6, <2>1, <2>2
  <2>13. v = 100 * Number(w) + (10 * Digit[p[1]] + Digit[p[2]])
    BY <1>3 DEF w, p, f
  <2>14. n = d \/ n = d + 1 \/ n = d + 2
    BY <1>9, <2>1
  <2>15. SumFunction(g) = v
    <3> DEFINE x == Digit[p[1]]
               y == Digit[p[2]]
    <3>1. CASE n = d
      <4>1. x = 0 /\ y = 0
        BY ONLY <1>4, <2>12, <3>1
      <4>2. v = 100 * Number(w) + (10 * x + y) /\ All = 100 * Number(w)
        BY ONLY <2>6, <2>10, <2>13, <3>1
      <4>. HIDE DEF x, y, All
      <4>. QED
        BY ONLY <1>3, <2>11, <4>1, <4>2
    <3>2. CASE n = d + 1
      <4>1. n > d
        BY <2>1, <3>2
      <4>. QED
        BY ONLY <1>3, <1>4, <2>6, <2>7, <2>10, <2>11, <2>12, <2>13, <3>2, <4>1
    <3>3. CASE n = d + 2
      <4>1. n > d /\ n > d + 1
        BY <2>1, <3>3
      <4>. QED
        BY ONLY <1>3, <2>6, <2>7, <2>8, <2>10, <2>11, <2>13, <3>3, <4>1
    <3>. QED
      BY <2>14, <3>1, <3>2, <3>3
  <2>. QED
    BY <1>9, <2>15, HundredthsOf DEF g
<1>. QED
    BY <1>2, <1>8, <1>9

(* Two parts without a sign are joined to their value, and refused when it *)
(* is beyond the word.                                                     *)
LEMMA JoinedIs ==
    ASSUME NEW w \in Numerals, w # <<>>, NEW p \in Numerals, Len(p) = 2, NEW negative \in BOOLEAN,
           NEW v, v = 100 * Number(w) + Number(p)
    PROVE  Joined(ParseInt(w), ParseInt(p), negative) =
             IF v <= MaxInt THEN Ok(IF negative THEN -v ELSE v) ELSE Invalid
<1> DEFINE W == Number(w)
           C == Number(p)
<1>1. W \in Nat /\ C \in 0..99 /\ MaxInt \in Nat /\ v \in Nat /\ v = W * 100 + C
    BY NumberIsNat, NumberOfTwo, MoneyAssumption
<1>2. p # <<>>
  <2>1. Len(<<>>) # 2
    OBVIOUS
  <2>. QED
    BY <2>1
<1>3. /\ ParseInt(w) = IF W \in Words THEN Ok(W) ELSE Invalid
      /\ ParseInt(p) = IF C \in Words THEN Ok(C) ELSE Invalid
    BY <1>2, ParseNumeral
<1>. HIDE DEF W, C
<1>4. CASE W > MaxInt \/ C > MaxInt
  <2>1. W \notin Words \/ C \notin Words
    BY <1>1, <1>4 DEF Words
  <2>2. ~(v <= MaxInt)
    BY <1>1, <1>4
  <2>3. ~ParseInt(w).ok \/ ~ParseInt(p).ok
    BY <1>3, <2>1 DEF Invalid
  <2>. QED
    BY <2>2, <2>3 DEF Joined
<1>5. CASE W <= MaxInt /\ C <= MaxInt
  <2>1. W \in Words /\ C \in Words
    BY <1>1, <1>5 DEF Words, MinInt
  <2>2. ParseInt(w) = Ok(W) /\ ParseInt(p) = Ok(C)
    BY <1>3, <2>1
  <2>3. MaxInt - C \in Words /\ MaxInt - C \in Nat
    BY <1>1, <1>5 DEF Words, MinInt
  <2>4. TooLarge(W, C) <=> W > (MaxInt - C) \div 100
    BY <2>3, WrapKeeps DEF TooLarge, Quo
  <2> DEFINE q == (MaxInt - C) \div 100
  <2>5. q \in Nat /\ 100 * q <= MaxInt - C /\ MaxInt - C < 100 * q + 100
    <3> DEFINE n == MaxInt - C
    <3>1. n \in Int /\ n >= 0
      BY <2>3
    <3>. HIDE DEF n
    <3>2. n \div 100 \in Nat /\ 100 * (n \div 100) <= n /\ n < 100 * (n \div 100) + 100
      BY <3>1, Division
    <3>. QED
      BY <3>2 DEF n
  <2>. HIDE DEF q
  <2>6. W > q <=> ~(v <= MaxInt)
    BY <1>1, <2>5
  <2>7. CASE v <= MaxInt
    <3>1. v \in Words /\ -v \in Words
      BY <1>1, <2>7 DEF Words, MinInt
    <3>2. Wrap(W * 100 + C) = v /\ Wrap(-v) = -v
      BY <1>1, <3>1, WrapKeeps
    <3>3. ~TooLarge(W, C)
      BY <2>4, <2>6, <2>7 DEF q
    <3>4. /\ Ok(W).ok /\ Ok(W).value = W /\ Ok(C).ok /\ Ok(C).value = C
      BY DEF Ok
    <3>5. Joined(Ok(W), Ok(C), negative) =
            Ok(IF negative THEN Wrap(-Wrap(W * 100 + C)) ELSE Wrap(W * 100 + C))
      BY <3>3, <3>4 DEF Joined
    <3>. QED
      BY <2>2, <2>7, <3>2, <3>5
  <2>8. CASE ~(v <= MaxInt)
    <3>1. TooLarge(W, C)
      BY <2>4, <2>6, <2>8 DEF q
    <3>. QED
      BY <2>2, <2>8, <3>1 DEF Joined, Ok
  <2>. QED
    BY <2>7, <2>8
<1>. QED
    BY <1>1, <1>4, <1>5

(* Every decimal that is short enough is read exactly, or refused. *)
LEMMA DecimalIsRead ==
    ASSUME NEW A, NEW value, NEW t \in Seq(A), t = TrimSpace(value), IsDecimal(t), Len(t) <= MaxLen
    PROVE  UnmarshalJSON(value) =
             IF Hundredths(t) \in -MaxInt..MaxInt THEN Ok(Hundredths(t)) ELSE Invalid
<1> DEFINE b == Unsigned(t)
           w == Whole(b)
           p == Pad(Fraction(b))
           v == 100 * Number(w) + Number(p)
<1>1. b \in Seq(A) /\ Len(b) <= Len(t) /\ Len(b) \in Nat /\ Len(t) \in Nat /\ MaxLen \in Nat
    BY UnsignedText, MoneyAssumption
<1>2. Len(b) <= MaxLen
    BY <1>1
<1>3. /\ w \in Numerals /\ w # <<>> /\ p \in Numerals /\ Len(p) = 2 /\ Len(Fraction(b)) <= 2
    BY DecimalParts
<1>4. Hundredths(t) = IF t = b THEN v ELSE -v
  <2>. HIDE DEF b
  <2>. QED
    BY ONLY t \in Seq(A), b = Unsigned(t), IsDecimal(t), <1>2, HundredthsIs DEF b
<1>5. Cardinality(Dots(b)) <= 1 /\ Cardinality(Dots(b)) \in Int
  <2>1. Cardinality({i \in DOMAIN b : b[i] = "."}) <= 1
    BY DEF IsDecimal
  <2>2. Dots(b) = {i \in DOMAIN b : b[i] = "."}
    BY DEF Dots
  <2>3. Cardinality(Dots(b)) \in Nat
    BY ONLY <1>1, DotsFinite
  <2>. QED
    BY ONLY <2>1, <2>2, <2>3
<1>6. t # <<>>
    BY DEF IsDecimal, Unsigned
<1>7. Negative(t) <=> t # b
  <2>1. Negative(t) => Len(b) # Len(t)
    BY <1>6 DEF Negative, Unsigned
  <2>2. ~Negative(t) => b = t
    BY DEF Negative, Unsigned
  <2>. QED
    BY <2>1, <2>2
<1>8. \A i \in DOMAIN t : t[i] \notin {"e", "E"}
  <2>1. \A i \in DOMAIN b : b[i] = "." \/ b[i] \in DOMAIN Digit
    BY DEF IsDecimal
  <2>2. \A i \in DOMAIN b : b[i] \notin {"e", "E"}
    BY <2>1, DigitFacts
  <2>3. ASSUME NEW i \in DOMAIN t, Negative(t) PROVE t[i] \notin {"e", "E"}
    <3>1. b = Tail(t) /\ t[1] = "-" /\ DOMAIN t = 1..Len(t)
      BY <2>3 DEF Negative, Unsigned
    <3>2. CASE i = 1
      BY <3>1, <3>2
    <3>3. CASE i # 1
      <4>1. i - 1 \in DOMAIN b /\ b[i - 1] = t[i]
        BY <3>1, <3>3
      <4>. HIDE DEF b
      <4>. QED
        BY <2>2, <4>1
    <3>. QED
      BY <3>2, <3>3
  <2>. QED
    BY <1>7, <2>2, <2>3
<1>9. UnmarshalJSON(value) = Joined(ParseInt(w), ParseInt(p), Negative(t))
    BY <1>3, <1>5, <1>6, <1>8, ParseParts DEF FractionFits
<1>10. Negative(t) \in BOOLEAN
    BY DEF Negative
<1>11. v \in Nat /\ MaxInt \in Nat
    BY <1>3, NumberIsNat, MoneyAssumption
<1>. HIDE DEF b, w, p, v
<1>12. Joined(ParseInt(w), ParseInt(p), Negative(t)) =
         IF v <= MaxInt THEN Ok(IF Negative(t) THEN -v ELSE v) ELSE Invalid
    BY ONLY <1>3, <1>10, JoinedIs DEF v
<1>13. v <= MaxInt <=> Hundredths(t) \in -MaxInt..MaxInt
    BY <1>4, <1>11
<1>. QED
    BY <1>4, <1>7, <1>9, <1>12, <1>13


-----------------------------------------------------------------------------
(* What holds of the texts and amounts under way *)

(* A client's text is short enough and of its alphabet; the server's is    *)
(* what an amount of the word is written as.                               *)
MoneyInv ==
    /\ from \in {"client", "server"}
    /\ from = "client" => text \in Seq(Alphabet) /\ Len(text) <= MaxLen
    /\ from = "server" => amount \in Words /\ text = MarshalJSON(amount)

LEMMA StartedOver == ASSUME StartOver PROVE MoneyInv'
<1>1. <<>> \in Seq(Alphabet) /\ Len(<<>>) = 0
    OBVIOUS
<1>2. MaxLen \in Nat /\ 0 <= MaxLen
    BY MoneyAssumption
<1>. QED
    BY <1>1, <1>2 DEF StartOver, MoneyInv

(* A request or an answer carries a text of the alphabet or a word and how *)
(* it is written, whatever was typed and posted before.                    *)
THEOREM MoneyInvariant == Spec => []MoneyInv
<1>1. ASSUME Init PROVE MoneyInv
  <2>1. <<>> \in Seq(Alphabet) /\ Len(<<>>) = 0 /\ MaxLen \in Nat /\ 0 <= MaxLen
    BY MoneyAssumption
  <2>. QED
    BY <1>1, <2>1 DEF Init, MoneyInv
<1>2. ASSUME MoneyInv, [Next]_vars PROVE MoneyInv'
  <2>1. ASSUME NEW c \in Alphabet, Type(c) PROVE MoneyInv'
    <3>1. from = "client" /\ from' = "client" /\ text' = Append(text, c) /\ Len(text) < MaxLen
      BY <2>1 DEF Type
    <3>2. text \in Seq(Alphabet) /\ MaxLen \in Nat
      BY <1>2, <3>1, MoneyAssumption DEF MoneyInv
    <3>3. text' \in Seq(Alphabet) /\ Len(text') <= MaxLen
      BY <3>1, <3>2
    <3>. QED
      BY <3>1, <3>3 DEF MoneyInv
  <2>2. CASE Post
    <3>1. CASE StartOver
      BY <3>1, StartedOver
    <3>2. CASE /\ UnmarshalJSON(text).ok /\ from' = "server"
               /\ amount' = UnmarshalJSON(text).value
               /\ text' = MarshalJSON(UnmarshalJSON(text).value)
      <4>1. UnmarshalJSON(text).value \in Words
        BY <3>2, AcceptedIsWord
      <4>. QED
        BY <3>2, <4>1 DEF MoneyInv
    <3>. QED
      BY <2>2, <3>1, <3>2 DEF Post
  <2>3. CASE from = "server" /\ StartOver
    BY <2>3, StartedOver
  <2>4. CASE UNCHANGED vars
    BY <1>2, <2>4 DEF vars, MoneyInv
  <2>. QED
    BY <1>2, <2>1, <2>2, <2>3, <2>4 DEF Next
<1>. QED
    BY <1>1, <1>2, PTL DEF Spec

(* Every amount the server writes, whatever the word, is read back as the  *)
(* same amount: the two decimals, the sign and the least word, whose       *)
(* negation wraps, included (String, MarshalJSON, UnmarshalJSON).          *)
THEOREM AmountsRoundTrip == Spec => []RoundTrip
<1>1. ASSUME MoneyInv PROVE RoundTrip
  <2>1. SUFFICES ASSUME from = "server" PROVE UnmarshalJSON(text) = Ok(amount)
    BY DEF RoundTrip
  <2>2. amount \in Words /\ text = MarshalJSON(amount)
    BY <1>1, <2>1 DEF MoneyInv
  <2>3. amount = MinInt \/ amount \in -MaxInt..MaxInt
    BY <2>2, MoneyAssumption DEF Words, MinInt
  <2>. QED
    BY <2>2, <2>3, OrdinaryRoundTrip, LeastRoundTrip
<1>. QED
    BY <1>1, MoneyInvariant, PTL

(* A percentage fee is rounded to the nearest minor unit, is at most the   *)
(* amount and grows with it, for every word and every fee the product fits *)
(* in (VariableFeePolicy).                                                 *)
THEOREM FeesAreRounded == Spec => []FeeRoundsHalfUp
<1>1. ASSUME MoneyInv PROVE FeeRoundsHalfUp
  <2>1. SUFFICES ASSUME from = "server", amount >= 0, NEW points \in 0..Unit,
                        amount * points + Unit \div 2 <= MaxInt
                 PROVE  LET fee == VariableFee(amount, points)
                        IN  /\ Unit * (2 * fee - 1) <= 2 * amount * points
                            /\ 2 * amount * points < Unit * (2 * fee + 1)
                            /\ fee \in 0..amount
                            /\ amount > 0 => VariableFee(amount - 1, points) <= fee
    BY DEF FeeRoundsHalfUp
  <2>2. amount \in Nat
    BY <1>1, <2>1, MoneyAssumption DEF MoneyInv, Words, MinInt
  <2>. QED
    BY <2>1, <2>2, FeesRound
<1>. QED
    BY <1>1, MoneyInvariant, PTL

(* A text that is accepted is a decimal but for a sign too many, whatever  *)
(* its length: a second point, a third decimal, an exponent or a missing   *)
(* whole part is always refused (ParseMoney).                              *)
THEOREM NothingElseIsRead == Spec => []OnlyExtraSigns
<1>1. ASSUME MoneyInv PROVE OnlyExtraSigns
  <2> DEFINE t == TrimSpace(text)
             b == Unsigned(t)
  <2>1. SUFFICES ASSUME from = "client", UnmarshalJSON(text).ok,
                        \A i \in DOMAIN b : b[i] \notin Signs
                 PROVE  IsDecimal(t)
    BY DEF OnlyExtraSigns
  <2>2. t \in Seq(Alphabet)
    BY <1>1, <2>1, Trimmed DEF MoneyInv
  <2>3. /\ ~(Cardinality(Dots(b)) > 1) /\ Whole(b) # <<>> /\ FractionFits(Fraction(b))
        /\ ParseInt(Whole(b)).ok /\ ParseInt(Pad(Fraction(b))).ok
    BY <2>1, AcceptedParts
  <2>. HIDE DEF t
  <2>. QED
    BY <2>1, <2>2, <2>3, AcceptedIsDecimal
<1>. QED
    BY <1>1, MoneyInvariant, PTL

(* A decimal of any length is read as the value its digits have, in any    *)
(* word, and refused exactly when its size is beyond the greatest word,    *)
(* the least word thus included: nothing is rounded, cut off or wrapped    *)
(* (ParseMoney).                                                           *)
THEOREM DecimalsAreExact == Spec => []DecimalsReadExactly
<1>1. ASSUME MoneyInv PROVE DecimalsReadExactly
  <2> DEFINE t == TrimSpace(text)
  <2>1. SUFFICES ASSUME from = "client", IsDecimal(t)
                 PROVE  UnmarshalJSON(text) =
                          IF Hundredths(t) \in -MaxInt..MaxInt THEN Ok(Hundredths(t)) ELSE Invalid
    BY DEF DecimalsReadExactly
  <2>2. text \in Seq(Alphabet) /\ Len(text) <= MaxLen
    BY <1>1, <2>1 DEF MoneyInv
  <2>3. t \in Seq(Alphabet) /\ Len(t) <= Len(text)
    BY <2>2, Trimmed
  <2>. HIDE DEF t
  <2>4. Len(t) <= MaxLen
    BY <2>2, <2>3, MoneyAssumption
  <2>. QED
    BY <2>1, <2>3, <2>4, DecimalIsRead DEF t
<1>. QED
    BY <1>1, MoneyInvariant, PTL
=============================================================================
