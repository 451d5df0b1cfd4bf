---------------------------- MODULE StringsProofs ----------------------------
(***************************************************************************)
(* What the string functions compute, for texts of any length over any     *)
(* alphabet: numbers and bytes read from a text, and the parts of a path.  *)
(*                                                                         *)
(* The functions go through a text with recursive functions.  A claim is   *)
(* proved of every position by the set of the positions it holds at        *)
(* (InductiveSet, UpTo), and that a recursive function is what its         *)
(* definition says follows from there being one (RecursionExists,          *)
(* LoopExists).                                                            *)
(*                                                                         *)
(* A path is its drive and what is behind that.  StripTrailingSeparators   *)
(* keeps KeptLength of it (StrippedIs), and DirName and BaseName cut there *)
(* and at the last separator but for roots (DirNameIs, BaseNameIs).  What  *)
(* that does to the names is said by two lemmas: separators add none       *)
(* (SeparatorsAddNothing), and a text behind a separator adds its own      *)
(* (NamesJoined).                                                          *)
(***************************************************************************)
EXTENDS Strings, WellFoundedInduction, TLAPS

LEMMA LeastNumber ==
  ASSUME NEW S, S \subseteq Nat, S # {}
  PROVE  \E n \in S : \A m \in S : n <= m
  <1> DEFINE R == OpToRel(<, Nat)
  <1>1. IsWellFoundedOn(R, Nat)
    BY NatLessThanWellFounded
  <1>2. \A m, k \in Nat : m < k => <<m, k>> \in R
    BY DEF OpToRel
  <1> HIDE DEF R
  <1>3. PICK n \in S : \A m \in S : ~ (<<m, n>> \in R)
    BY <1>1, WFMin
  <1>4. \A m \in S : m \in Nat /\ n \in Nat /\ ~ (m < n)
    BY <1>2, <1>3
  <1> QED
    BY <1>4

LEMMA InductiveSet ==
  ASSUME NEW S, 0 \in S, \A n \in Nat : n \in S => n + 1 \in S
  PROVE  Nat \subseteq S
  <1>1. SUFFICES ASSUME NEW k \in Nat, k \notin S
                 PROVE  FALSE
    OBVIOUS
  <1> DEFINE Missing == {n \in Nat : n \notin S}
  <1>2. PICK n \in Missing : \A m \in Missing : n <= m
    BY <1>1, LeastNumber
  <1>3. n \in Nat /\ n # 0
    OBVIOUS
  <1>4. n - 1 \in Nat /\ n = (n - 1) + 1 /\ ~ (n <= n - 1)
    BY <1>3
  <1>5. n - 1 \in S
    BY <1>2, <1>4
  <1> QED
    BY <1>2, <1>4, <1>5

(* A function that is defined from the one before is one. *)
Recursion(f, n, init, step) == f[0] = init /\ \A i \in 1 .. n : f[i] = step[<<i, f[i - 1]>>]

LEMMA RecursionExists ==
  ASSUME NEW n \in Nat, NEW S, NEW init \in S, NEW step \in [(1 .. n) \X S -> S]
  PROVE  \E f \in [0 .. n -> S] : Recursion(f, n, init, step)
  <1> DEFINE Upto(f, k) == f[0] = init /\ \A i \in 1 .. k : f[i] = step[<<i, f[i - 1]>>]
             P == {k \in Nat : k <= n => \E f \in [0 .. n -> S] : Upto(f, k)}
  <1>1. 0 \in P
    <2> DEFINE f == [i \in 0 .. n |-> init]
    <2>1. f \in [0 .. n -> S] /\ Upto(f, 0)
      OBVIOUS
    <2> HIDE DEF f, Upto
    <2> QED
      BY <2>1
  <1>2. ASSUME NEW k \in Nat, k \in P
        PROVE  k + 1 \in P
    <2>1. SUFFICES ASSUME k + 1 <= n
                   PROVE  \E f \in [0 .. n -> S] : Upto(f, k + 1)
      OBVIOUS
    <2>2. PICK f \in [0 .. n -> S] : Upto(f, k)
      BY <1>2, <2>1
    <2>3. k \in 0 .. n /\ k + 1 \in 1 .. n /\ k + 1 \in 0 .. n /\ (k + 1) - 1 = k /\ 0 \in 0 .. n
      BY <2>1
    <2> DEFINE next == step[<<k + 1, f[k]>>]
               g == [f EXCEPT ![k + 1] = next]
    <2>4. next \in S
      BY <2>2, <2>3
    <2>5. next = step[<<k + 1, f[k]>>]
      OBVIOUS
    <2> HIDE DEF next
    <2>6. g \in [0 .. n -> S] /\ g[k + 1] = next /\ \A i \in 0 .. k : g[i] = f[i]
      BY <2>2, <2>3, <2>4
    <2> HIDE DEF g
    <2>7. g[0] = init
      BY <2>2, <2>6
    <2>8. ASSUME NEW i \in 1 .. k + 1
          PROVE  g[i] = step[<<i, g[i - 1]>>]
      <3>1. CASE i = k + 1
        <4>1. i - 1 = k /\ k \in 0 .. k
          BY <3>1
        <4>2. g[i - 1] = f[k]
          BY <2>6, <4>1
        <4> QED
          BY <2>5, <2>6, <3>1, <4>2
      <3>2. CASE i \in 1 .. k
        <4>1. i \in 0 .. k /\ i - 1 \in 0 .. k
          BY <3>2
        <4> QED
          BY <2>2, <2>6, <3>2, <4>1
      <3> QED
        BY <3>1, <3>2
    <2>9. Upto(g, k + 1)
      BY <2>7, <2>8
    <2> HIDE DEF Upto
    <2> QED
      BY <2>6, <2>9
  <1> HIDE DEF P, Upto
  <1>3. n \in P
    BY <1>1, <1>2, InductiveSet
  <1>4. \E f \in [0 .. n -> S] : Upto(f, n)
    BY <1>3 DEF P
  <1> QED
    BY <1>4 DEF Upto, Recursion

-----------------------------------------------------------------------------
(* Numerals *)

Modulus == 2 ^ Width
Half == 2 ^ (Width - 1)

LEMMA PowersAre ==
  /\ Modulus \in Nat /\ Half \in Nat /\ Modulus = 2 * Half
  /\ \E k \in Nat \ {0} : Half = 16 * k
  <1> DEFINE S == {k \in Nat : k <= Width => 2 ^ k \in Nat \ {0}}
  <1>0. Width \in Nat /\ Width >= 5
    BY StringsAssumption
  <1>1. 0 \in S
    OBVIOUS
  <1>2. ASSUME NEW k \in Nat, k \in S
        PROVE  k + 1 \in S
    <2>1. SUFFICES ASSUME k + 1 <= Width
                   PROVE  2 ^ (k + 1) \in Nat \ {0}
      OBVIOUS
    <2>2. k \in 0 .. Width /\ k <= Width
      BY <1>0, <2>1
    <2>3. 2 ^ k \in Nat \ {0}
      BY <1>2, <2>2
    <2>4. 2 ^ (k + 1) = 2 * 2 ^ k
      BY <2>2, PowersAssumption
    <2> QED
      BY <2>3, <2>4
  <1>3. \A k \in 0 .. Width : 2 ^ k \in Nat \ {0}
    <2>1. Nat \subseteq S
      <3> HIDE DEF S
      <3> QED BY <1>1, <1>2, InductiveSet
    <2> QED
      BY <1>0, <2>1
  <1>4. \A n \in 1 .. Width : 2 ^ n = 2 * 2 ^ (n - 1)
    <2> TAKE n \in 1 .. Width
    <2>1. n - 1 \in 0 .. Width /\ (n - 1) + 1 = n
      BY <1>0
    <2>2. 2 ^ ((n - 1) + 1) = 2 * 2 ^ (n - 1)
      BY <2>1, PowersAssumption
    <2> QED
      BY <2>1, <2>2
  <1> DEFINE k == 2 ^ (Width - 5)
  <1>5. k \in Nat \ {0}
    BY <1>0, <1>3
  <1>6. /\ 2 ^ Width = 2 * 2 ^ (Width - 1)
        /\ 2 ^ (Width - 1) = 2 * 2 ^ (Width - 2)
        /\ 2 ^ (Width - 2) = 2 * 2 ^ (Width - 3)
        /\ 2 ^ (Width - 3) = 2 * 2 ^ (Width - 4)
        /\ 2 ^ (Width - 4) = 2 * 2 ^ (Width - 5)
    <2>1. /\ (Width - 1) - 1 = Width - 2 /\ (Width - 2) - 1 = Width - 3
          /\ (Width - 3) - 1 = Width - 4 /\ (Width - 4) - 1 = Width - 5
          /\ {Width, Width - 1, Width - 2, Width - 3, Width - 4} \subseteq 1 .. Width
      BY <1>0
    <2> QED
      BY <1>4, <2>1
  <1>7. Half = 16 * k /\ Modulus = 2 * Half
    BY <1>5, <1>6 DEF Half, Modulus
  <1> HIDE DEF k
  <1> QED
    BY <1>5, <1>7

Congruent(a, b) == \E k \in Int : a = b + k * Modulus

LEMMA RemainderFacts ==
  ASSUME NEW a \in Int, NEW m \in Nat \ {0}
  PROVE  /\ a % m \in 0 .. m - 1 /\ a \div m \in Int
         /\ a \in 0 .. m - 1 => a % m = a
         /\ -m <= a /\ a < 0 => a % m = a + m
  BY SMTT(20)

LEMMA DivisionFacts ==
  ASSUME NEW a \in Int, NEW m \in Nat \ {0}
  PROVE  a = m * (a \div m) + (a % m)
  <1> DEFINE q == a \div m
             r == a % m
  <1>1. q \in Int /\ r \in 0 .. m - 1 /\ a = m * q + r
    BY SMTT(20)
  <1> QED
    BY <1>1, Zenon

LEMMA CongruentFacts ==
  ASSUME NEW a \in Int, NEW b \in Int
  PROVE  /\ Congruent(a, a)
         /\ Congruent(a, b) => (a - b) % Modulus = 0
         /\ \A c \in Int : Congruent(a, b) /\ Congruent(b, c) => Congruent(a, c)
         /\ \A base, d \in Int : Congruent(a, b) => Congruent(a * base + d, b * base + d)
  <1> DEFINE m == Modulus
  <1>0. m \in Nat \ {0}
    BY PowersAre
  <1>1. Congruent(a, a)
    <2>1. a = a + 0 * m /\ 0 \in Int
      BY <1>0
    <2> QED
      BY <2>1 DEF Congruent
  <1>2. ASSUME Congruent(a, b)
        PROVE  (a - b) % m = 0
    <2>1. PICK k \in Int : a = b + k * m
      BY <1>2 DEF Congruent
    <2> HIDE DEF m
    <2> DEFINE p == k * m
               e == a - b
    <2>2. p \in Int /\ e = p
      BY <1>0, <2>1
    <2>3. e = m * (e \div m) + (e % m) /\ e % m \in 0 .. m - 1 /\ e \div m \in Int
      BY <1>0, DivisionFacts, RemainderFacts
    <2> DEFINE q == e \div m
               r == e % m
    <2>4. q \in Int /\ r \in 0 .. m - 1 /\ k * m = m * q + r
      BY <2>2, <2>3
    <2> HIDE DEF e, p, q, r
    <2>5. (k - q) * m = r
      BY <1>0, <2>4
    <2>6. k - q >= 1 => (k - q) * m >= m
      BY <1>0, <2>4
    <2>7. k - q <= -1 => (k - q) * m <= -m
      BY <1>0, <2>4
    <2>8. r = 0
      BY <1>0, <2>4, <2>5, <2>6, <2>7
    <2> QED
      BY <2>8 DEF r, e
  <1>3. ASSUME NEW c \in Int, Congruent(a, b), Congruent(b, c)
        PROVE  Congruent(a, c)
    <2>1. PICK k \in Int : a = b + k * m
      BY <1>3 DEF Congruent
    <2>2. PICK l \in Int : b = c + l * m
      BY <1>3 DEF Congruent
    <2> HIDE DEF m
    <2>3. a = c + (k + l) * m /\ k + l \in Int
      BY <1>0, <2>1, <2>2
    <2> QED
      BY <2>3 DEF Congruent, m
  <1>4. ASSUME NEW base \in Int, NEW d \in Int, Congruent(a, b)
        PROVE  Congruent(a * base + d, b * base + d)
    <2>1. PICK k \in Int : a = b + k * m
      BY <1>4 DEF Congruent
    <2> HIDE DEF m
    <2>2. a * base + d = (b * base + d) + (k * base) * m /\ k * base \in Int
      BY <1>0, <2>1
    <2> QED
      BY <2>2 DEF Congruent, m
  <1> QED
    BY <1>1, <1>2, <1>3, <1>4

-----------------------------------------------------------------------------
(* The integer types and their limits. *)
Traits == {Numbers!IntTraits, Numbers!UintTraits, Numbers!HexIntTraits}
Lowest(traits) == IF traits.signed THEN -Half ELSE 0
Highest(traits) == IF traits.signed THEN Half - 1 ELSE Modulus - 1

LEMMA TraitsFacts ==
  ASSUME NEW traits \in Traits
  PROVE  /\ traits.kBase \in {10, 16} /\ traits.signed \in BOOLEAN
         /\ traits.kBase = 16 => traits.signed
         /\ traits.min = Lowest(traits)
         /\ traits.max = IF traits.kBase = 16 THEN Modulus - 1 ELSE Highest(traits)
  <1>1. CASE traits = Numbers!IntTraits
    BY <1>1 DEF Numbers!IntTraits, Lowest, Highest, Half, Modulus
  <1>2. CASE traits = Numbers!UintTraits
    BY <1>2 DEF Numbers!UintTraits, Lowest, Highest, Half, Modulus
  <1>3. CASE traits = Numbers!HexIntTraits
    BY <1>3 DEF Numbers!IntTraits, Numbers!UintTraits, Numbers!HexIntTraits, Lowest, Half, Modulus
  <1> QED
    BY <1>1, <1>2, <1>3 DEF Traits

LEMMA WrappedFacts ==
  ASSUME NEW traits \in Traits, NEW n \in Int
  PROVE  /\ Numbers!Wrapped(traits, n) \in Lowest(traits) .. Highest(traits)
         /\ Congruent(Numbers!Wrapped(traits, n), n)
         /\ n \in Lowest(traits) .. Highest(traits) => Numbers!Wrapped(traits, n) = n
  <1> DEFINE m == Modulus
             bits == n % m
             q == n \div m
  <1>1. m \in Nat \ {0} /\ Half \in Nat /\ m = 2 * Half
    BY PowersAre
  <1>2. bits \in 0 .. m - 1 /\ q \in Int /\ n = m * q + bits
    <2> HIDE DEF m
    <2>1. m \in Nat \ {0}
      BY <1>1
    <2> QED BY <2>1, RemainderFacts, DivisionFacts, Zenon
  <1>3. /\ n \in 0 .. m - 1 => bits = n
        /\ -m <= n /\ n < 0 => bits = n + m
    <2> HIDE DEF m
    <2>1. m \in Nat \ {0}
      BY <1>1
    <2> QED BY <2>1, RemainderFacts, Zenon
  <1>4. Numbers!Wrapped(traits, n) = IF traits.signed /\ bits >= Half THEN bits - m ELSE bits
    BY DEF Numbers!Wrapped, Modulus, Half
  <1>5. traits.signed \in BOOLEAN
    BY TraitsFacts
  <1> HIDE DEF m, bits, q
  <1>6. bits = n + (-q) * m /\ bits - m = n + (-q - 1) * m /\ -q \in Int /\ -q - 1 \in Int
    BY <1>1, <1>2
  <1>7. Congruent(bits, n) /\ Congruent(bits - m, n)
    BY <1>6 DEF Congruent, m
  <1>8. m = Modulus
    BY DEF m
  <1> QED
    BY <1>1, <1>2, <1>3, <1>4, <1>5, <1>7, <1>8 DEF Lowest, Highest

-----------------------------------------------------------------------------
(* The bounds.  A number is of a sign, and at most so far from 0.          *)
Signs == {1, -1}
Reach(traits, sign) == sign * Numbers!Furthest(traits, sign)
InRange(traits, v) == v \in traits.min .. traits.max
Wraps(traits, v) == IF traits.signed THEN traits.kBase = 16 /\ v > Half - 1 ELSE v < 0

LEMMA ReachFacts ==
  ASSUME NEW traits \in Traits, NEW sign \in Signs
  PROVE  /\ Numbers!Furthest(traits, sign) \in Int /\ Reach(traits, sign) \in Nat
         /\ Reach(traits, sign) =
              IF sign = -1 THEN IF traits.signed THEN Half ELSE 0
              ELSE IF traits.signed /\ traits.kBase # 16 THEN Half - 1 ELSE Modulus - 1
  <1>1. /\ Half \in Nat /\ Modulus = 2 * Half /\ Half >= 16
    BY PowersAre
  <1> QED
    BY <1>1, TraitsFacts DEF Signs, Reach, Numbers!Furthest, Lowest, Highest

LEMMA RangesAre ==
  ASSUME NEW traits \in Traits, NEW sign \in Signs, NEW x \in Nat, ~Wraps(traits, sign * x)
  PROVE  /\ InRange(traits, sign * x) <=> x <= Reach(traits, sign)
         /\ InRange(traits, sign * x) => sign * x \in Lowest(traits) .. Highest(traits)
         /\ ~InRange(traits, sign * x) =>
              Numbers!Wrapped(traits, Numbers!Furthest(traits, sign)) = Numbers!Furthest(traits, sign)
  <1>1. /\ Half \in Nat /\ Modulus = 2 * Half /\ Half >= 16 /\ Modulus \in Nat
    BY PowersAre
  <1>2. (sign = 1 /\ sign * x = x) \/ (sign = -1 /\ sign * x = -x)
    BY DEF Signs
  <1>3. InRange(traits, sign * x) <=> x <= Reach(traits, sign)
    BY <1>1, <1>2, TraitsFacts, ReachFacts DEF InRange, Wraps, Lowest, Highest
  <1>4. InRange(traits, sign * x) => sign * x \in Lowest(traits) .. Highest(traits)
    BY <1>1, <1>2, TraitsFacts DEF InRange, Wraps, Lowest, Highest
  <1>5. ~InRange(traits, sign * x) =>
          Numbers!Furthest(traits, sign) \in Lowest(traits) .. Highest(traits)
    BY <1>1, <1>2, TraitsFacts, ReachFacts DEF InRange, Wraps, Lowest, Highest, Numbers!Furthest
  <1> QED
    BY <1>3, <1>4, <1>5, WrappedFacts, ReachFacts

(* A next digit is refused exactly if it carries the number past its limit. *)
LEMMA BoundsExact ==
  ASSUME NEW traits \in Traits, NEW sign \in Signs, NEW x \in Nat, NEW d \in 0 .. traits.kBase - 1
  PROVE  Numbers!CheckBounds(traits, sign, sign * x, d)
           <=> x * traits.kBase + d <= Reach(traits, sign)
  <1> DEFINE base == traits.kBase
             far == Reach(traits, sign)
             q == far \div base
             r == far % base
             F == Numbers!Furthest(traits, sign)
  <1>1. base \in {10, 16} /\ far \in Nat /\ F \in Int /\ far = sign * F
    BY TraitsFacts, ReachFacts DEF Reach
  <1>2. q \in Nat /\ r \in 0 .. base - 1 /\ far = base * q + r
    <2> HIDE DEF far, base
    <2> QED BY <1>1
  <1>3. sign = 1 \/ sign = -1
    BY DEF Signs
  <1>4. Numbers!Quotient(F, base) = sign * q
    <2>1. sign = 1 => F = far
      BY <1>1
    <2>2. sign = -1 => F = -far
      BY <1>1
    <2> HIDE DEF F, far, base
    <2>3. CASE sign = 1
      <3>1. ~(F < 0) /\ F \div base = q
        BY <1>1, <2>1, <2>3
      <3> HIDE DEF q
      <3> QED
        BY <1>2, <2>3, <3>1 DEF Numbers!Quotient
    <2>4. CASE sign = -1 /\ far # 0
      <3>1. F < 0 /\ (-F) \div base = q
        BY <1>1, <2>2, <2>4
      <3> HIDE DEF q
      <3> QED
        BY <1>2, <2>4, <3>1 DEF Numbers!Quotient
    <2>5. CASE sign = -1 /\ far = 0
      <3>1. ~(F < 0) /\ F \div base = q /\ q = 0
        BY <1>1, <2>2, <2>5
      <3> HIDE DEF q
      <3> QED
        BY <1>2, <2>5, <3>1 DEF Numbers!Quotient
    <2> QED
      BY <1>3, <2>3, <2>4, <2>5
  <1>5. sign * Numbers!Remainder(F, base) = r
    <2>1. Numbers!Remainder(F, base) = F - base * (sign * q)
      BY <1>4 DEF Numbers!Remainder
    <2> HIDE DEF F, far, base, q, r
    <2> QED
      BY <1>1, <1>2, <1>3, <2>1
  <1>6. Numbers!Wrapped(traits, sign * q) = sign * q
    <2>1. /\ Half \in Nat /\ Modulus = 2 * Half /\ Half >= 16 /\ Modulus \in Nat
      BY PowersAre
    <2>2. far = IF sign = -1 THEN IF traits.signed THEN Half ELSE 0
                ELSE IF traits.signed /\ base # 16 THEN Half - 1 ELSE Modulus - 1
      BY ReachFacts
    <2>3. traits.signed \in BOOLEAN /\ (base = 16 => traits.signed)
      BY TraitsFacts
    <2>4. sign * q \in Lowest(traits) .. Highest(traits)
      <3> HIDE DEF far, base, q, r
      <3>1. 10 * q <= far
        BY <1>1, <1>2
      <3>2. base = 16 => 16 * q <= far
        BY <1>1, <1>2
      <3> QED
        BY <1>2, <1>3, <2>1, <2>2, <2>3, <3>1, <3>2 DEF Lowest, Highest
    <2>5. sign * q \in Int
      <3> HIDE DEF q
      <3> QED BY <1>2, <1>3
    <2> QED
      BY <2>4, <2>5, WrappedFacts
  <1>7. Numbers!CheckBounds(traits, sign, sign * x, d) <=>
          /\ sign * (sign * x) <= sign * (sign * q)
          /\ sign * x = sign * q => d <= r
    BY <1>4, <1>5, <1>6 DEF Numbers!CheckBounds
  <1> HIDE DEF F, far, q, r
  <1>8. Numbers!CheckBounds(traits, sign, sign * x, d) <=> (x <= q /\ (x = q => d <= r))
    BY <1>2, <1>3, <1>7
  <1>9. (x <= q /\ (x = q => d <= r)) <=> x * base + d <= far
    <2>1. d \in Int /\ 0 <= d /\ d < base
      BY <1>1
    <2> HIDE DEF base
    <2> QED BY <1>1, <1>2, <2>1
  <1> QED
    BY <1>8, <1>9 DEF far

-----------------------------------------------------------------------------
(* The digits of a text, and the number they say. *)

LEMMA UpTo ==
  ASSUME NEW n \in Nat, NEW S, 0 \in S, \A i \in 1 .. n : i - 1 \in S => i \in S
  PROVE  \A i \in 0 .. n : i \in S
  <1> DEFINE P == {k \in Nat : k <= n => k \in S}
  <1>1. 0 \in P
    OBVIOUS
  <1>2. ASSUME NEW k \in Nat, k \in P
        PROVE  k + 1 \in P
    <2>1. CASE k + 1 <= n
      <3>1. k + 1 \in 1 .. n /\ (k + 1) - 1 = k /\ k \in S
        BY <1>2, <2>1
      <3>2. k + 1 \in S
        BY <3>1
      <3> QED
        BY <3>2
    <2> QED
      BY <2>1
  <1>3. Nat \subseteq P
    <2> HIDE DEF P
    <2> QED BY <1>1, <1>2, InductiveSet
  <1> QED
    BY <1>3

LEMMA DigitFacts ==
  ASSUME NEW traits \in Traits, NEW c
  PROVE  /\ Numbers!IsDigit(traits, c) \in BOOLEAN
         /\ Numbers!IsDigit(traits, c) => Digit[c] \in 0 .. traits.kBase - 1
         /\ 0 .. traits.kBase - 1 \subseteq 0 .. 15
  <1>1. Digit \in [DOMAIN Digit -> 0 .. 15]
    BY StringsAssumption
  <1>2. traits.kBase \in {10, 16}
    BY TraitsFacts
  <1> QED
    BY <1>1, <1>2 DEF Numbers!IsDigit

LEMMA EndIs ==
  ASSUME NEW C, NEW t \in Seq(C), NEW traits \in Traits, NEW first \in 1 .. Len(t) + 1
  PROVE  /\ Numbers!End(traits, t, first) \in first .. Len(t) + 1
         /\ \A j \in first .. Numbers!End(traits, t, first) - 1 : Numbers!IsDigit(traits, t[j])
         /\ Numbers!End(traits, t, first) <= Len(t) =>
              ~Numbers!IsDigit(traits, t[Numbers!End(traits, t, first)])
  <1> DEFINE n == Len(t)
             S == {e \in first .. n + 1 : e = n + 1 \/ ~Numbers!IsDigit(traits, t[e])}
  <1>1. n \in Nat /\ first \in 1 .. n + 1
    OBVIOUS
  <1>2. n + 1 \in S /\ S \subseteq Nat
    <2> HIDE DEF n
    <2> QED BY <1>1
  <1>3. PICK e \in S : \A m \in S : e <= m
    BY <1>2, LeastNumber
  <1>4. /\ e \in first .. n + 1
        /\ \A j \in first .. e - 1 : Numbers!IsDigit(traits, t[j])
        /\ e <= n => ~Numbers!IsDigit(traits, t[e])
    <2> HIDE DEF n
    <2>1. e \in first .. n + 1 /\ (e = n + 1 \/ ~Numbers!IsDigit(traits, t[e]))
      BY <1>3
    <2>2. ASSUME NEW j \in first .. e - 1
          PROVE  Numbers!IsDigit(traits, t[j])
      <3>1. j \in first .. n + 1 /\ ~(e <= j)
        BY <1>1, <2>1
      <3> QED
        BY <1>3, <3>1
    <2> QED
      BY <1>1, <2>1, <2>2
  <1> QED
    BY <1>4 DEF Numbers!End

IsValue(f, traits, t, first, end) ==
  f = [i \in 0 .. end - 1 |-> IF i < first THEN 0 ELSE f[i - 1] * traits.kBase + Digit[t[i]]]

LEMMA ValueExists ==
  ASSUME NEW t, NEW traits \in Traits, NEW first \in Nat \ {0}, NEW end \in Nat \ {0}, first <= end,
         \A j \in first .. end - 1 : Numbers!IsDigit(traits, t[j])
  PROVE  \E f : IsValue(f, traits, t, first, end)
  <1> DEFINE n == end - 1
             Next(i, before) == IF i < first THEN 0 ELSE before * traits.kBase + Digit[t[i]]
             step == [p \in (1 .. n) \X Nat |-> Next(p[1], p[2])]
  <1>1. n \in Nat
    OBVIOUS
  <1>2. \A i \in 1 .. n, before \in Nat : Next(i, before) \in Nat
    <2> TAKE i \in 1 .. n, before \in Nat
    <2>1. traits.kBase \in {10, 16}
      BY TraitsFacts
    <2>2. ~(i < first) => Numbers!IsDigit(traits, t[i])
      OBVIOUS
    <2>3. ~(i < first) => Digit[t[i]] \in 0 .. 15
      BY <2>2, DigitFacts
    <2> QED
      BY <2>1, <2>3
  <1>3. step \in [(1 .. n) \X Nat -> Nat] /\ \A i \in 1 .. n, before \in Nat : step[<<i, before>>] = Next(i, before)
    <2> HIDE DEF Next, n
    <2> QED BY <1>2
  <1> HIDE DEF step
  <1>4. PICK f \in [0 .. n -> Nat] : Recursion(f, n, 0, step)
    <2> HIDE DEF n, Next
    <2>1. 0 \in Nat
      OBVIOUS
    <2>2. step \in [(1 .. n) \X Nat -> Nat]
      BY <1>3
    <2> QED BY <1>1, <2>1, <2>2, RecursionExists
  <1>5. \A i \in 0 .. n : f[i] = Next(i, f[i - 1])
    <2> TAKE i \in 0 .. n
    <2>1. CASE i = 0
      BY <1>4, <2>1 DEF Recursion
    <2>2. CASE i \in 1 .. n
      <3>1. f[i - 1] \in Nat
        BY <1>4, <2>2
      <3> HIDE DEF Next, n
      <3> QED BY <1>3, <1>4, <2>2, <3>1 DEF Recursion
    <2> QED
      BY <2>1, <2>2
  <1>6. f = [i \in 0 .. n |-> Next(i, f[i - 1])]
    <2> HIDE DEF Next, n
    <2> QED BY <1>4, <1>5
  <1> QED
    BY <1>6 DEF IsValue

Counts(f, traits, t, first, end) ==
  /\ f \in [0 .. end - 1 -> Nat]
  /\ Numbers!Value(traits, t, first, end) = f[end - 1]
  /\ f[first - 1] = 0
  /\ \A i \in first .. end - 1 : f[i] = f[i - 1] * traits.kBase + Digit[t[i]]

LEMMA ValueIs ==
  ASSUME NEW t, NEW traits \in Traits, NEW first \in Nat \ {0}, NEW end \in Nat \ {0}, first <= end,
         \A j \in first .. end - 1 : Numbers!IsDigit(traits, t[j])
  PROVE  \E f : Counts(f, traits, t, first, end)
  <1> DEFINE value == CHOOSE f : f = [i \in 0 .. end - 1 |->
                        IF i < first THEN 0 ELSE f[i - 1] * traits.kBase + Digit[t[i]]]
             S == {i \in 0 .. end - 1 : value[i] \in Nat}
  <1>1. IsValue(value, traits, t, first, end)
    <2>1. \E f : IsValue(f, traits, t, first, end)
      BY ValueExists
    <2>2. \E f : f = [i \in 0 .. end - 1 |->
                     IF i < first THEN 0 ELSE f[i - 1] * traits.kBase + Digit[t[i]]]
      BY <2>1, Zenon DEF IsValue
    <2> QED
      BY <2>2, Zenon DEF IsValue
  <1>2. Numbers!Value(traits, t, first, end) = value[end - 1]
    BY DEF Numbers!Value
  <1> HIDE DEF value
  <1>3. \A i \in 0 .. end - 1 : value[i] = IF i < first THEN 0 ELSE value[i - 1] * traits.kBase + Digit[t[i]]
    BY <1>1, Zenon DEF IsValue
  <1>4. 0 \in S
    BY <1>3
  <1>5. ASSUME NEW i \in 1 .. end - 1, i - 1 \in S
        PROVE  i \in S
    <2>1. traits.kBase \in {10, 16} /\ value[i - 1] \in Nat
      BY <1>5, TraitsFacts
    <2>2. ~(i < first) => Numbers!IsDigit(traits, t[i])
      OBVIOUS
    <2>3. ~(i < first) => Digit[t[i]] \in 0 .. 15
      BY <2>2, DigitFacts
    <2>4. value[i] = IF i < first THEN 0 ELSE value[i - 1] * traits.kBase + Digit[t[i]]
      BY <1>3
    <2> QED
      BY <2>1, <2>3, <2>4
  <1>6. \A i \in 0 .. end - 1 : i \in S
    <2>1. end - 1 \in Nat
      OBVIOUS
    <2> HIDE DEF S
    <2> QED BY <1>4, <1>5, <2>1, UpTo
  <1>7. value \in [0 .. end - 1 -> Nat]
    <2>1. value = [i \in 0 .. end - 1 |-> value[i]]
      BY <1>1, Zenon DEF IsValue
    <2> QED
      BY <1>6, <2>1
  <1>8. /\ value[first - 1] = 0
        /\ \A i \in first .. end - 1 : value[i] = value[i - 1] * traits.kBase + Digit[t[i]]
    <2>1. first - 1 \in 0 .. end - 1 /\ first - 1 < first
      OBVIOUS
    <2>2. value[first - 1] = 0
      BY <1>3, <2>1
    <2>3. ASSUME NEW i \in first .. end - 1
          PROVE  value[i] = value[i - 1] * traits.kBase + Digit[t[i]]
      <3>1. i \in 0 .. end - 1 /\ ~(i < first)
        OBVIOUS
      <3> QED
        BY <1>3, <3>1
    <2> QED
      BY <2>2, <2>3
  <1> QED
    BY <1>2, <1>7, <1>8 DEF Counts

(* One round of the loop over the digits, on the result of those before. *)
NumberResults == [valid : BOOLEAN, output : Int]

Round(traits, sign, t, begin, i, before) ==
  IF i < begin THEN [valid |-> TRUE, output |-> 0]
  ELSE IF ~before.valid THEN before
  ELSE IF ~Numbers!IsDigit(traits, t[i]) THEN [valid |-> FALSE, output |-> before.output]
  ELSE IF i > begin /\ ~Numbers!CheckBounds(traits, sign, before.output, Digit[t[i]])
    THEN [valid |-> FALSE,
          output |-> Numbers!Wrapped(traits, Numbers!Furthest(traits, sign))]
  ELSE [valid |-> TRUE,
        output |-> Numbers!Wrapped(traits,
                     (IF i > begin THEN before.output * traits.kBase ELSE before.output)
                     + sign * Digit[t[i]])]

IsDigits(f, traits, sign, t, begin) ==
  f = [i \in 0 .. Len(t) |-> Round(traits, sign, t, begin, i, f[i - 1])]

LEMMA WrappedTyped ==
  ASSUME NEW traits \in Traits, NEW n \in Int
  PROVE  Numbers!Wrapped(traits, n) \in Int
  <1>1. Numbers!Wrapped(traits, n) \in Lowest(traits) .. Highest(traits)
    BY WrappedFacts
  <1>2. Lowest(traits) \in Int /\ Highest(traits) \in Int
    BY PowersAre DEF Lowest, Highest
  <1> QED
    BY <1>1, <1>2

LEMMA RoundTyped ==
  ASSUME NEW t, NEW traits \in Traits, NEW sign \in Signs, NEW begin \in Nat, NEW i \in Nat,
         NEW before \in NumberResults
  PROVE  Round(traits, sign, t, begin, i, before) \in NumberResults
  <1>1. before.output \in Int /\ before.valid \in BOOLEAN
    BY DEF NumberResults
  <1>2. Numbers!Wrapped(traits, Numbers!Furthest(traits, sign)) \in Int
    BY ReachFacts, WrappedTyped
  <1>3. ASSUME Numbers!IsDigit(traits, t[i])
        PROVE  Numbers!Wrapped(traits,
                 (IF i > begin THEN before.output * traits.kBase ELSE before.output)
                 + sign * Digit[t[i]]) \in Int
    <2> DEFINE n == (IF i > begin THEN before.output * traits.kBase ELSE before.output)
                    + sign * Digit[t[i]]
    <2>1. Digit[t[i]] \in 0 .. 15 /\ traits.kBase \in {10, 16}
      BY <1>3, DigitFacts, TraitsFacts
    <2>2. n \in Int
      BY <1>1, <2>1 DEF Signs
    <2> HIDE DEF n
    <2>3. Numbers!Wrapped(traits, n) \in Int
      BY <2>2, WrappedTyped
    <2> QED
      BY <2>3 DEF n
  <1> QED
    BY <1>1, <1>2, <1>3 DEF Round, NumberResults

LEMMA DigitsExist ==
  ASSUME NEW C, NEW t \in Seq(C), NEW traits \in Traits, NEW sign \in Signs, NEW begin \in Nat \ {0}
  PROVE  \E f : IsDigits(f, traits, sign, t, begin)
  <1> DEFINE n == Len(t)
             init == [valid |-> TRUE, output |-> 0]
             step == [p \in (1 .. n) \X NumberResults |-> Round(traits, sign, t, begin, p[1], p[2])]
  <1>1. n \in Nat /\ init \in NumberResults
    BY DEF NumberResults
  <1>2. /\ step \in [(1 .. n) \X NumberResults -> NumberResults]
        /\ \A i \in 1 .. n, before \in NumberResults :
             step[<<i, before>>] = Round(traits, sign, t, begin, i, before)
    <2>1. \A i \in 1 .. n, before \in NumberResults : Round(traits, sign, t, begin, i, before) \in NumberResults
      BY RoundTyped
    <2> HIDE DEF n
    <2> QED BY <2>1
  <1>3. \A before : Round(traits, sign, t, begin, 0, before) = init
    BY DEF Round
  <1> HIDE DEF step, init, n
  <1>4. PICK f \in [0 .. n -> NumberResults] : Recursion(f, n, init, step)
    <2>1. step \in [(1 .. n) \X NumberResults -> NumberResults]
      BY <1>2
    <2> QED BY <1>1, <2>1, RecursionExists
  <1>5. \A i \in 0 .. n : f[i] = Round(traits, sign, t, begin, i, f[i - 1])
    <2> TAKE i \in 0 .. n
    <2>1. CASE i = 0
      BY <1>3, <1>4, <2>1 DEF Recursion
    <2>2. CASE i \in 1 .. n
      <3>1. i - 1 \in 0 .. n
        BY <1>1, <2>2
      <3>2. f[i - 1] \in NumberResults
        BY <1>4, <3>1
      <3> QED BY <1>2, <1>4, <2>2, <3>2 DEF Recursion
    <2> QED
      BY <1>1, <2>1, <2>2
  <1>6. f = [i \in 0 .. n |-> Round(traits, sign, t, begin, i, f[i - 1])]
    BY <1>4, <1>5
  <1> QED
    BY <1>6 DEF IsDigits, n

LEMMA DigitsAre ==
  ASSUME NEW C, NEW t \in Seq(C), NEW traits \in Traits, NEW sign \in Signs,
         NEW begin \in 1 .. Len(t) + 1
  PROVE  \E f \in [0 .. Len(t) -> NumberResults] :
           /\ Numbers!Digits(traits, sign, t, begin) = f[Len(t)]
           /\ f[begin - 1] = [valid |-> TRUE, output |-> 0]
           /\ \A i \in begin .. Len(t) : f[i] = Round(traits, sign, t, begin, i, f[i - 1])
  <1> DEFINE after == CHOOSE f : IsDigits(f, traits, sign, t, begin)
             n == Len(t)
             S == {i \in 0 .. n : after[i] \in NumberResults}
  <1>0. begin \in Nat \ {0} /\ n \in Nat /\ begin \in 1 .. n + 1
    OBVIOUS
  <1>1. IsDigits(after, traits, sign, t, begin)
    <2>1. \E f : IsDigits(f, traits, sign, t, begin)
      BY <1>0, DigitsExist
    <2> QED
      BY <2>1, Zenon
  <1>2. Numbers!Digits(traits, sign, t, begin) = after[n]
    BY Zenon DEF Numbers!Digits, IsDigits, Round
  <1> HIDE DEF after, n
  <1>3. \A i \in 0 .. n : after[i] = Round(traits, sign, t, begin, i, after[i - 1])
    BY <1>1, Zenon DEF IsDigits, n
  <1>4. \A i \in 0 .. begin - 1 : i \in 0 .. n => after[i] = [valid |-> TRUE, output |-> 0]
    <2> TAKE i \in 0 .. begin - 1
    <2>1. i < begin
      BY <1>0
    <2> QED
      BY <1>3, <2>1 DEF Round
  <1>5. 0 \in S
    <2>1. 0 \in 0 .. begin - 1 /\ 0 \in 0 .. n
      BY <1>0
    <2>2. after[0] = [valid |-> TRUE, output |-> 0]
      BY <1>4, <2>1
    <2>3. [valid |-> TRUE, output |-> 0] \in NumberResults
      BY DEF NumberResults
    <2>4. after[0] \in NumberResults
      BY <2>2, <2>3, Zenon
    <2> QED
      BY <2>1, <2>4
  <1>6. ASSUME NEW i \in 1 .. n, i - 1 \in S
        PROVE  i \in S
    <2>1. i \in Nat /\ i \in 0 .. n /\ after[i - 1] \in NumberResults
      BY <1>0, <1>6
    <2>2. Round(traits, sign, t, begin, i, after[i - 1]) \in NumberResults
      BY <1>0, <2>1, RoundTyped
    <2> QED
      BY <1>3, <2>1, <2>2
  <1>7. \A i \in 0 .. n : i \in S
    <2> HIDE DEF S
    <2> QED BY <1>0, <1>5, <1>6, UpTo
  <1>8. after \in [0 .. n -> NumberResults]
    <2>1. after = [i \in 0 .. n |-> after[i]]
      BY <1>1, <1>3, Zenon DEF IsDigits, n
    <2> QED
      BY <1>7, <2>1
  <1>9. after[begin - 1] = [valid |-> TRUE, output |-> 0]
    <2>1. begin - 1 \in 0 .. begin - 1 /\ begin - 1 \in 0 .. n
      BY <1>0
    <2> QED
      BY <1>4, <2>1
  <1>10. \A i \in begin .. n : after[i] = Round(traits, sign, t, begin, i, after[i - 1])
    <2>1. begin .. n \subseteq 0 .. n
      BY <1>0
    <2> QED
      BY <1>3, <2>1
  <1> QED
    BY <1>2, <1>8, <1>9, <1>10 DEF n

(* What a result tells of the number x that the digits so far say.         *)
Exact(traits, sign, r, x) ==
  IF r.valid THEN InRange(traits, sign * x) /\ r.output = sign * x
  ELSE ~InRange(traits, sign * x) /\ r.output = Numbers!Furthest(traits, sign)

Tells(traits, sign, r, x) ==
  /\ r.valid => Congruent(r.output, sign * x)
  /\ ~Wraps(traits, sign * x) => Exact(traits, sign, r, x)

(* More digits do not bring a number back. *)
LEMMA LargerNumbers ==
  ASSUME NEW traits \in Traits, NEW sign \in Signs, NEW x \in Nat, NEW y \in Nat, x <= y,
         ~Wraps(traits, sign * y)
  PROVE  /\ ~Wraps(traits, sign * x)
         /\ InRange(traits, sign * y) => InRange(traits, sign * x)
  <1>1. traits.signed \in BOOLEAN /\ Half \in Nat
    BY PowersAre, TraitsFacts
  <1>2. (sign = 1 /\ sign * x = x /\ sign * y = y) \/ (sign = -1 /\ sign * x = -x /\ sign * y = -y)
    BY DEF Signs
  <1>3. ~Wraps(traits, sign * x)
    <2> DEFINE v == sign * x
               w == sign * y
    <2>1. v \in Int /\ w \in Int /\ (v > Half - 1 => w > Half - 1) /\ (v < 0 => w < 0)
      <3> DEFINE h == Half
      <3>1. h \in Nat /\ h >= 1
        BY PowersAre
      <3>2. (v = x /\ w = y) \/ (v = -x /\ w = -y)
        BY <1>2
      <3> HIDE DEF v, w, h
      <3>3. v \in Int /\ w \in Int /\ (v > h - 1 => w > h - 1) /\ (v < 0 => w < 0)
        BY <3>1, <3>2
      <3> QED
        BY <3>3 DEF h
    <2>2. ~Wraps(traits, w)
      OBVIOUS
    <2> HIDE DEF v, w
    <2>3. ~Wraps(traits, v)
      BY <1>1, <2>1, <2>2 DEF Wraps
    <2> QED
      BY <2>3 DEF v
  <1>4. /\ InRange(traits, sign * x) <=> x <= Reach(traits, sign)
        /\ InRange(traits, sign * y) <=> y <= Reach(traits, sign)
    BY <1>3, RangesAre
  <1>5. Reach(traits, sign) \in Nat
    BY ReachFacts
  <1> QED
    BY <1>3, <1>4, <1>5

(* A number of one digit is in the range of every type that has its sign.  *)
LEMMA OneDigit ==
  ASSUME NEW traits \in Traits, NEW sign \in Signs, NEW d \in 0 .. 15, ~Wraps(traits, sign * d)
  PROVE  InRange(traits, sign * d)
  <1>1. Half \in Nat /\ Modulus = 2 * Half /\ Half >= 16 /\ traits.signed \in BOOLEAN
    BY PowersAre, TraitsFacts
  <1>2. (sign = 1 /\ sign * d = d) \/ (sign = -1 /\ sign * d = -d)
    BY DEF Signs
  <1>3. d <= Reach(traits, sign)
    <2>1. Reach(traits, sign) =
            IF sign = -1 THEN IF traits.signed THEN Half ELSE 0
            ELSE IF traits.signed /\ traits.kBase # 16 THEN Half - 1 ELSE Modulus - 1
      BY ReachFacts
    <2> QED
      BY <1>1, <1>2, <2>1 DEF Wraps
  <1>4. d \in Nat
    OBVIOUS
  <1> QED
    BY <1>3, <1>4, RangesAre

(* What is assigned tells the number, if that is in range unless it wraps. *)
LEMMA WrappedTells ==
  ASSUME NEW traits \in Traits, NEW sign \in Signs, NEW y \in Nat, NEW n \in Int,
         Congruent(n, sign * y),
         ~Wraps(traits, sign * y) => InRange(traits, sign * y) /\ n = sign * y
  PROVE  Tells(traits, sign, [valid |-> TRUE, output |-> Numbers!Wrapped(traits, n)], y)
  <1> DEFINE r == [valid |-> TRUE, output |-> Numbers!Wrapped(traits, n)]
  <1>1. r.valid = TRUE /\ r.output = Numbers!Wrapped(traits, n)
    OBVIOUS
  <1>2. sign * y \in Int
    BY DEF Signs
  <1>3. Congruent(Numbers!Wrapped(traits, n), sign * y)
    <2>1. Congruent(Numbers!Wrapped(traits, n), n) /\ Numbers!Wrapped(traits, n) \in Int
      BY WrappedFacts, WrappedTyped
    <2> DEFINE w == Numbers!Wrapped(traits, n)
               v == sign * y
    <2>2. w \in Int /\ v \in Int /\ Congruent(w, n) /\ Congruent(n, v)
      BY <1>2, <2>1
    <2> HIDE DEF w, v
    <2>3. Congruent(w, v)
      BY <2>2, CongruentFacts
    <2> QED
      BY <2>3 DEF w, v
  <1>4. ~Wraps(traits, sign * y) => Numbers!Wrapped(traits, n) = sign * y
    <2>1. SUFFICES ASSUME ~Wraps(traits, sign * y)
                   PROVE  Numbers!Wrapped(traits, n) = sign * y
      OBVIOUS
    <2>2. n = sign * y /\ sign * y \in Lowest(traits) .. Highest(traits)
      BY <2>1, RangesAre
    <2>3. n \in Lowest(traits) .. Highest(traits)
      BY <2>2
    <2>4. Numbers!Wrapped(traits, n) = n
      BY <2>3, WrappedFacts
    <2> QED
      BY <2>2, <2>4
  <1> HIDE DEF r
  <1>5. Tells(traits, sign, r, y)
    BY <1>1, <1>3, <1>4 DEF Tells, Exact
  <1> QED
    BY <1>5 DEF r

LEMMA FirstRound ==
  ASSUME NEW traits \in Traits, NEW sign \in Signs, NEW t, NEW begin \in Nat, NEW before \in NumberResults,
         before = [valid |-> TRUE, output |-> 0], Numbers!IsDigit(traits, t[begin])
  PROVE  Tells(traits, sign, Round(traits, sign, t, begin, begin, before), Digit[t[begin]])
  <1> DEFINE d == Digit[t[begin]]
             n == sign * d
  <1>1. d \in 0 .. 15 /\ d \in Nat
    BY DigitFacts
  <1>2. Round(traits, sign, t, begin, begin, before) =
          [valid |-> TRUE, output |-> Numbers!Wrapped(traits, n)]
    <2>1. before.valid = TRUE /\ before.output = 0 /\ ~(begin < begin) /\ ~(begin > begin)
      OBVIOUS
    <2>2. 0 + n = n
      BY <1>1 DEF Signs
    <2> HIDE DEF n
    <2>3. Round(traits, sign, t, begin, begin, before) =
            [valid |-> TRUE, output |-> Numbers!Wrapped(traits, 0 + n)]
      BY <2>1 DEF Round, n
    <2> QED
      BY <2>2, <2>3
  <1> HIDE DEF d
  <1>3. n \in Int
    BY <1>1 DEF Signs
  <1>4. Congruent(n, sign * d)
    <2>1. n = sign * d
      OBVIOUS
    <2> HIDE DEF n
    <2> QED BY <1>3, <2>1, CongruentFacts
  <1>5. ~Wraps(traits, sign * d) => InRange(traits, sign * d) /\ n = sign * d
    BY <1>1, OneDigit
  <1> HIDE DEF n
  <1>6. Tells(traits, sign, [valid |-> TRUE, output |-> Numbers!Wrapped(traits, n)], d)
    BY <1>1, <1>3, <1>4, <1>5, WrappedTells
  <1> QED
    BY <1>2, <1>6 DEF d

LEMMA NextRound ==
  ASSUME NEW traits \in Traits, NEW sign \in Signs, NEW t, NEW begin \in Nat, NEW i \in Nat, begin < i,
         NEW before \in NumberResults, NEW x \in Nat, Tells(traits, sign, before, x),
         Numbers!IsDigit(traits, t[i])
  PROVE  Tells(traits, sign, Round(traits, sign, t, begin, i, before),
               x * traits.kBase + Digit[t[i]])
  <1> DEFINE d == Digit[t[i]]
             base == traits.kBase
             y == x * base + d
             output == before.output
             n == output * base + sign * d
             F == Numbers!Furthest(traits, sign)
  <1>1. /\ d \in 0 .. base - 1 /\ d \in Nat /\ base \in {10, 16}
        /\ output \in Int /\ before.valid \in BOOLEAN /\ F \in Int
    BY DigitFacts, TraitsFacts, ReachFacts DEF NumberResults
  <1>2. y \in Nat /\ x <= y
    <2> HIDE DEF d, base
    <2>1. x * base \in Nat /\ x <= x * base
      BY <1>1
    <2> QED BY <1>1, <2>1
  <1>3. /\ sign * x \in Int /\ sign * d \in Int /\ n \in Int
        /\ (sign * x) * base + sign * d = sign * y
    <2> HIDE DEF d, base, output
    <2> QED BY <1>1 DEF Signs
  <1> DEFINE v == sign * x
             w == sign * y
             e == sign * d
  <1>4. ~Wraps(traits, w) =>
          /\ ~Wraps(traits, v)
          /\ InRange(traits, w) => InRange(traits, v)
    <2> HIDE DEF y
    <2> QED BY <1>2, LargerNumbers
  <1>5. ~Wraps(traits, w) => (InRange(traits, w) <=> y <= Reach(traits, sign))
    <2> HIDE DEF y
    <2> QED BY <1>2, RangesAre
  <1>6. Numbers!CheckBounds(traits, sign, v, d) <=> y <= Reach(traits, sign)
    <2>1. d \in 0 .. traits.kBase - 1
      BY <1>1
    <2> HIDE DEF d
    <2> QED BY <2>1, BoundsExact DEF y, v
  <1>7. CASE ~before.valid
    <2>1. Round(traits, sign, t, begin, i, before) = before
      BY <1>7 DEF Round
    <2>2. ~Wraps(traits, w) => ~InRange(traits, w) /\ output = F
      <3>1. ~Wraps(traits, v) => ~InRange(traits, v) /\ output = F
        BY <1>7 DEF Tells, Exact
      <3> HIDE DEF v, w, output, F
      <3> QED BY <1>4, <3>1
    <2> HIDE DEF y
    <2>3. Tells(traits, sign, before, y)
      BY <1>7, <2>2 DEF Tells, Exact
    <2> QED
      BY <2>1, <2>3 DEF y
  <1>8. CASE before.valid /\ ~Numbers!CheckBounds(traits, sign, output, d)
    <2> DEFINE r == [valid |-> FALSE, output |-> Numbers!Wrapped(traits, F)]
    <2>1. Round(traits, sign, t, begin, i, before) = r
      BY <1>8 DEF Round
    <2>2. ~Wraps(traits, w) => ~InRange(traits, w) /\ Numbers!Wrapped(traits, F) = F
      <3>1. SUFFICES ASSUME ~Wraps(traits, w)
                     PROVE  ~InRange(traits, w) /\ Numbers!Wrapped(traits, F) = F
        OBVIOUS
      <3>2. (InRange(traits, v) /\ output = v) \/ ~InRange(traits, w)
        <4>1. ~Wraps(traits, v) => InRange(traits, v) /\ output = v
          BY <1>8 DEF Tells, Exact
        <4> HIDE DEF v, w, output
        <4> QED BY <1>4, <3>1, <4>1
      <3>3. ~InRange(traits, w)
        <4> HIDE DEF y, w, v, output, d
        <4> QED BY <1>5, <1>6, <1>8, <3>1, <3>2
      <3>4. Numbers!Wrapped(traits, F) = F
        <4> HIDE DEF y
        <4> QED BY <1>2, <3>1, <3>3, RangesAre
      <3> QED
        BY <3>3, <3>4
    <2>3. r.valid = FALSE /\ r.output = Numbers!Wrapped(traits, F)
      OBVIOUS
    <2> HIDE DEF y, r
    <2>4. Tells(traits, sign, r, y)
      BY <2>2, <2>3 DEF Tells, Exact
    <2> QED
      BY <2>1, <2>4 DEF y
  <1>9. CASE before.valid /\ Numbers!CheckBounds(traits, sign, output, d)
    <2>1. Round(traits, sign, t, begin, i, before) =
            [valid |-> TRUE, output |-> Numbers!Wrapped(traits, n)]
      BY <1>9 DEF Round
    <2>2. Congruent(n, w)
      <3>1. Congruent(output, v) /\ v \in Int /\ e \in Int /\ base \in Int
        BY <1>1, <1>3, <1>9 DEF Tells
      <3>2. w = v * base + e /\ n = output * base + e
        BY <1>3
      <3> HIDE DEF v, w, e, n, output, base
      <3>3. Congruent(output * base + e, v * base + e)
        BY <1>1, <3>1, CongruentFacts
      <3> QED
        BY <3>2, <3>3
    <2>3. ~Wraps(traits, w) => InRange(traits, w) /\ n = w
      <3>1. SUFFICES ASSUME ~Wraps(traits, w)
                     PROVE  InRange(traits, w) /\ n = w
        OBVIOUS
      <3>2. InRange(traits, v) /\ output = v
        <4>1. ~Wraps(traits, v) => InRange(traits, v) /\ output = v
          BY <1>9 DEF Tells, Exact
        <4> HIDE DEF v, w, output
        <4> QED BY <1>4, <3>1, <4>1
      <3>3. InRange(traits, w)
        <4> HIDE DEF y, w, v, output, d
        <4> QED BY <1>5, <1>6, <1>9, <3>1, <3>2
      <3>4. n = w
        BY <1>3, <3>2
      <3> QED
        BY <3>3, <3>4
    <2> HIDE DEF y, n
    <2>4. Tells(traits, sign, [valid |-> TRUE, output |-> Numbers!Wrapped(traits, n)], y)
      BY <1>2, <1>3, <2>2, <2>3, WrappedTells
    <2> QED
      BY <2>1, <2>4 DEF y
  <1> QED
    BY <1>1, <1>7, <1>8, <1>9

(* The digits from begin on, up to what is not one.                        *)
LEMMA DigitsRead ==
  ASSUME NEW C, NEW t \in Seq(C), NEW traits \in Traits, NEW sign \in Signs,
         NEW begin \in 1 .. Len(t) + 1
  PROVE  LET end == Numbers!End(traits, t, begin)
             x == Numbers!Value(traits, t, begin, end)
             r == Numbers!Digits(traits, sign, t, begin)
         IN  /\ x \in Nat /\ r \in NumberResults
             /\ r.valid => end > Len(t) /\ Congruent(r.output, sign * x)
             /\ ~Wraps(traits, sign * x) =>
                  /\ r.valid <=> end > Len(t) /\ InRange(traits, sign * x)
                  /\ r.output = IF InRange(traits, sign * x) THEN sign * x
                                ELSE Numbers!Furthest(traits, sign)
  <1> DEFINE n == Len(t)
             end == Numbers!End(traits, t, begin)
             x == Numbers!Value(traits, t, begin, end)
             r == Numbers!Digits(traits, sign, t, begin)
  <1>1. /\ n \in Nat /\ begin \in 1 .. n + 1 /\ end \in begin .. n + 1
        /\ \A j \in begin .. end - 1 : Numbers!IsDigit(traits, t[j])
        /\ end <= n => ~Numbers!IsDigit(traits, t[end])
    BY EndIs
  <1> HIDE DEF end
  <1>2. begin \in Nat \ {0} /\ end \in Nat \ {0} /\ begin <= end
    <2> HIDE DEF n
    <2> QED BY <1>1
  <1>3. PICK v \in [0 .. end - 1 -> Nat] :
          /\ x = v[end - 1]
          /\ v[begin - 1] = 0
          /\ \A i \in begin .. end - 1 : v[i] = v[i - 1] * traits.kBase + Digit[t[i]]
    <2>1. \A j \in begin .. end - 1 : Numbers!IsDigit(traits, t[j])
      BY <1>1
    <2>2. PICK f : Counts(f, traits, t, begin, end)
      BY <1>2, <2>1, ValueIs
    <2>3. /\ f \in [0 .. end - 1 -> Nat]
          /\ x = f[end - 1]
          /\ f[begin - 1] = 0
          /\ \A i \in begin .. end - 1 : f[i] = f[i - 1] * traits.kBase + Digit[t[i]]
      BY <2>2, Zenon DEF Counts
    <2> HIDE DEF x
    <2> QED
      BY <2>3, Zenon
  <1>4. PICK f \in [0 .. n -> NumberResults] :
          /\ r = f[n]
          /\ f[begin - 1] = [valid |-> TRUE, output |-> 0]
          /\ \A i \in begin .. n : f[i] = Round(traits, sign, t, begin, i, f[i - 1])
    BY DigitsAre
  <1> HIDE DEF n, x, r
  <1>5. end - 1 \in 0 .. end - 1 /\ end - 1 \in 0 .. n /\ n \in 0 .. n
    BY <1>1, <1>2
  <1>6. x \in Nat /\ r \in NumberResults
    BY <1>3, <1>4, <1>5
  <1>7. Tells(traits, sign, f[end - 1], x)
    <2> DEFINE S == {k \in 0 .. end - 1 : k >= begin - 1 => Tells(traits, sign, f[k], v[k])}
    <2>1. Tells(traits, sign, f[begin - 1], v[begin - 1])
      <3> DEFINE z == f[begin - 1]
      <3>1. z.valid = TRUE /\ z.output = 0 /\ v[begin - 1] = 0 /\ sign * 0 = 0
        BY <1>3, <1>4 DEF Signs
      <3>2. Congruent(0, 0)
        BY CongruentFacts
      <3>3. ~Wraps(traits, sign * 0) => InRange(traits, sign * 0)
        BY OneDigit
      <3> HIDE DEF z
      <3> QED
        BY <3>1, <3>2, <3>3 DEF Tells, Exact, z
    <2>2. 0 \in S
      <3>1. 0 >= begin - 1 => begin - 1 = 0
        BY <1>2
      <3>2. 0 >= begin - 1 => Tells(traits, sign, f[0], v[0])
        BY <2>1, <3>1
      <3> QED
        BY <1>2, <3>2
    <2>3. ASSUME NEW k \in 1 .. end - 1, k - 1 \in S
          PROVE  k \in S
      <3>1. CASE k < begin - 1
        BY <1>2, <3>1
      <3>2. CASE k = begin - 1
        BY <2>1, <3>2
      <3>3. CASE k >= begin
        <4>1. /\ k \in begin .. end - 1 /\ k \in begin .. n /\ k \in Nat
              /\ k - 1 \in 0 .. end - 1 /\ k - 1 \in 0 .. n
          BY <1>1, <1>2, <3>3
        <4>2. /\ f[k] = Round(traits, sign, t, begin, k, f[k - 1]) /\ f[k - 1] \in NumberResults
              /\ v[k] = v[k - 1] * traits.kBase + Digit[t[k]] /\ v[k - 1] \in Nat
              /\ Numbers!IsDigit(traits, t[k])
          BY <1>1, <1>3, <1>4, <4>1
        <4>3. CASE k = begin
          <5> DEFINE d == Digit[t[begin]]
          <5>1. /\ f[begin - 1] \in NumberResults /\ f[begin - 1] = [valid |-> TRUE, output |-> 0]
                /\ Numbers!IsDigit(traits, t[begin])
            BY <1>4, <4>2, <4>3
          <5>2. Tells(traits, sign, Round(traits, sign, t, begin, begin, f[begin - 1]), d)
            BY <1>2, <5>1, FirstRound
          <5>3. d \in Nat /\ traits.kBase \in {10, 16}
            BY <5>1, DigitFacts, TraitsFacts
          <5>4. v[k] = d
            <6>1. v[k] = 0 * traits.kBase + d
              BY <1>3, <4>2, <4>3
            <6> HIDE DEF d
            <6> QED BY <5>3, <6>1
          <5> HIDE DEF d
          <5>5. Tells(traits, sign, f[k], v[k])
            BY <4>2, <4>3, <5>2, <5>4
          <5> QED
            BY <5>5
        <4>4. CASE k # begin
          <5>1. begin \in Nat /\ begin < k
            BY <1>2, <3>3, <4>1, <4>4
          <5>2. Tells(traits, sign, f[k - 1], v[k - 1])
            BY <2>3, <1>2, <5>1
          <5>3. Tells(traits, sign, Round(traits, sign, t, begin, k, f[k - 1]),
                      v[k - 1] * traits.kBase + Digit[t[k]])
            BY <4>1, <4>2, <5>1, <5>2, NextRound
          <5>4. Tells(traits, sign, f[k], v[k])
            BY <4>2, <5>3
          <5> QED
            BY <5>4
        <4> QED
          BY <4>3, <4>4
      <3> QED
        BY <1>2, <3>1, <3>2, <3>3
    <2>4. \A k \in 0 .. end - 1 : k \in S
      <3>1. end - 1 \in Nat
        BY <1>2
      <3> HIDE DEF S
      <3> QED BY <2>2, <2>3, <3>1, UpTo
    <2>5. end - 1 >= begin - 1
      BY <1>2
    <2> QED
      BY <1>3, <1>5, <2>4, <2>5
  <1> DEFINE w == sign * x
             Right(s) == /\ ~s.valid
                         /\ ~Wraps(traits, w) =>
                              s.output = IF InRange(traits, w) THEN w
                                         ELSE Numbers!Furthest(traits, sign)
  <1>8. CASE end > n
    <2>1. r = f[end - 1]
      <3>1. end - 1 = n
        BY <1>1, <1>8
      <3> QED
        BY <1>4, <3>1
    <2> HIDE DEF w
    <2>2. Tells(traits, sign, r, x) /\ r.valid \in BOOLEAN
      BY <1>6, <1>7, <2>1 DEF NumberResults
    <2> QED
      BY <1>6, <1>8, <2>2 DEF Tells, Exact, w, r, x, end, n
  <1>9. CASE end <= n
    <2> DEFINE S == {k \in 0 .. n : k >= end => Right(f[k])}
    <2>1. 0 \in S
      BY <1>1, <1>2
    <2>2. ASSUME NEW k \in 1 .. n, k - 1 \in S
          PROVE  k \in S
      <3>1. CASE k < end
        BY <1>1, <1>2, <3>1
      <3>2. CASE k >= end
        <4>1. k \in begin .. n /\ ~(k < begin) /\ k - 1 \in 0 .. n
          BY <1>1, <1>2, <3>2
        <4>2. f[k] = Round(traits, sign, t, begin, k, f[k - 1]) /\ f[k - 1] \in NumberResults
          BY <1>4, <4>1
        <4>3. CASE k = end
          <5> DEFINE b == f[end - 1]
          <5>1. b \in NumberResults /\ Tells(traits, sign, b, x)
                /\ f[k] = IF ~b.valid THEN b ELSE [valid |-> FALSE, output |-> b.output]
            BY <1>1, <1>7, <1>9, <4>1, <4>2, <4>3 DEF Round
          <5> HIDE DEF b
          <5>2. f[k].valid = FALSE /\ f[k].output = b.output
            BY <5>1 DEF NumberResults
          <5>3. ~Wraps(traits, w) => b.output = IF InRange(traits, w) THEN w
                                                ELSE Numbers!Furthest(traits, sign)
            <6>1. ~Wraps(traits, w) => Exact(traits, sign, b, x)
              BY <5>1 DEF Tells
            <6> QED
              BY <5>1, <6>1 DEF Exact, NumberResults
          <5> QED
            BY <5>2, <5>3
        <4>4. CASE k # end
          <5>1. k - 1 >= end
            BY <1>2, <3>2, <4>4
          <5>2. Right(f[k - 1])
            BY <2>2, <5>1
          <5>3. f[k] = f[k - 1]
            BY <4>1, <4>2, <5>2 DEF Round
          <5> HIDE DEF Right
          <5> QED
            BY <5>2, <5>3
        <4> QED
          BY <4>3, <4>4
      <3> QED
        BY <1>2, <3>1, <3>2
    <2>3. \A k \in 0 .. n : k \in S
      <3> HIDE DEF S
      <3> QED BY <1>1, <2>1, <2>2, UpTo
    <2>4. Right(r)
      BY <1>4, <1>5, <1>9, <2>3
    <2>5. ~(end > n)
      BY <1>1, <1>2, <1>9
    <2> QED
      BY <1>6, <2>4, <2>5 DEF r, x, end, n
  <1> QED
    BY <1>1, <1>2, <1>8, <1>9

LEMMA StartIs ==
  ASSUME NEW C, NEW t \in Seq(C)
  PROVE  Numbers!Start(t) \in 1 .. Len(t) + 1
  <1> DEFINE n == Len(t)
             S == {i \in 1 .. n + 1 : i = n + 1 \/ t[i] \notin Whitespace}
  <1>1. n \in Nat
    OBVIOUS
  <1> HIDE DEF n
  <1>2. n + 1 \in S /\ S \subseteq Nat
    BY <1>1
  <1>3. PICK i \in S : \A m \in S : i <= m
    BY <1>2, LeastNumber
  <1>4. i \in 1 .. n + 1 /\ (i <= n => t[i] \notin Whitespace)
    BY <1>1, <1>3
  <1>5. ASSUME NEW j \in 1 .. i - 1
        PROVE  t[j] \in Whitespace
    <2>1. j \in 1 .. n + 1 /\ ~(i <= j) /\ j # n + 1
      BY <1>1, <1>4
    <2> QED
      BY <1>3, <2>1
  <1> QED
    BY <1>4, <1>5 DEF Numbers!Start, n

(* No digits say nothing. *)
LEMMA NoDigits ==
  ASSUME NEW C, NEW t \in Seq(C), NEW traits \in Traits
  PROVE  /\ Numbers!End(traits, t, Len(t) + 1) = Len(t) + 1
         /\ Numbers!Value(traits, t, Len(t) + 1, Len(t) + 1) = 0
  <1> DEFINE e == Len(t) + 1
  <1>1. e \in 1 .. e /\ e \in Nat \ {0} /\ e <= e
    OBVIOUS
  <1>2. Numbers!End(traits, t, e) \in e .. e
    BY <1>1, EndIs
  <1>3. \A j \in e .. e - 1 : Numbers!IsDigit(traits, t[j])
    <2> HIDE DEF e
    <2> QED BY <1>1
  <1>4. PICK f : Counts(f, traits, t, e, e)
    <2> HIDE DEF e
    <2> QED BY <1>1, <1>3, ValueIs
  <1>5. Numbers!Value(traits, t, e, e) = 0
    BY <1>4 DEF Counts
  <1>6. Numbers!End(traits, t, e) = e
    <2> HIDE DEF e
    <2> QED BY <1>1, <1>2
  <1> QED
    BY <1>5, <1>6

LEMMA NumeralRead ==
  ASSUME NEW C, NEW t \in Seq(C), NEW traits \in Traits
  PROVE  Numbers!ReadsNumeral(traits, t)
  <1> DEFINE n == Len(t)
             start == Numbers!Start(t)
             c == Numbers!CharacterAt(t, start)
             sign == IF c = "-" THEN -1 ELSE 1
             digits == IF c \in {"-", "+"} THEN start + 1 ELSE start
             prefixed == /\ traits.kBase = 16
                         /\ Numbers!CharacterAt(t, digits) = "0"
                         /\ Numbers!CharacterAt(t, digits + 1) = "x"
             first == IF prefixed THEN digits + 2 ELSE digits
             end == Numbers!End(traits, t, first)
             x == Numbers!Value(traits, t, first, end)
             v == sign * x
             number == IF digits > n THEN [valid |-> FALSE, output |-> 0]
                       ELSE Numbers!Digits(traits, sign, t, first)
             result == Numbers!Number(traits, t)
  <1>1. n \in Nat /\ start \in 1 .. n + 1
    BY StartIs
  <1>2. sign \in Signs
    BY DEF Signs
  <1>3. digits \in 1 .. n + 1
    <2>1. start = n + 1 => c = "end"
      BY <1>1 DEF Numbers!CharacterAt
    <2> HIDE DEF start, c, n
    <2> QED BY <1>1, <2>1
  <1>4. first \in 1 .. n + 1 /\ (digits = n + 1 => first = n + 1)
    <2>1. digits + 1 > n => Numbers!CharacterAt(t, digits + 1) = "end"
      BY <1>1, <1>3 DEF Numbers!CharacterAt
    <2>2. prefixed => digits + 1 <= n
      <3> HIDE DEF digits, n
      <3> QED BY <1>1, <1>3, <2>1
    <2> HIDE DEF digits, n, prefixed
    <2> QED BY <1>1, <1>3, <2>2
  <1>5. Numbers!SignedNumber(traits, sign, t, digits) = number
    BY DEF Numbers!SignedNumber
  <1>6. result = [number EXCEPT !.valid = number.valid /\ start = 1]
    <2>1. CASE c = "-"
      <3>1. sign = -1 /\ digits = start + 1
        BY <2>1
      <3>2. Numbers!SignedNumber(traits, -1, t, start + 1) = number
        BY <1>5, <3>1
      <3> HIDE DEF number
      <3> QED
        BY <2>1, <3>2 DEF Numbers!Number
    <2>2. CASE c = "+"
      <3>1. sign = 1 /\ digits = start + 1
        BY <2>2
      <3>2. Numbers!SignedNumber(traits, 1, t, start + 1) = number
        BY <1>5, <3>1
      <3> HIDE DEF number
      <3> QED
        BY <2>2, <3>2 DEF Numbers!Number
    <2>3. CASE c # "-" /\ c # "+"
      <3>1. sign = 1 /\ digits = start
        BY <2>3
      <3>2. Numbers!SignedNumber(traits, 1, t, start) = number
        BY <1>5, <3>1
      <3> HIDE DEF number
      <3> QED
        BY <2>3, <3>2 DEF Numbers!Number
    <2> QED
      BY <2>1, <2>2, <2>3
  <1> DEFINE wellFormed == start = 1 /\ end > n /\ digits <= n
  <1>7. Numbers!ReadsNumeral(traits, t) <=>
          IF Wraps(traits, v)
            THEN result.valid => wellFormed /\ (result.output - v) % Modulus = 0
            ELSE /\ result.valid <=> wellFormed /\ InRange(traits, v)
                 /\ result.output = IF InRange(traits, v) THEN v ELSE Numbers!Furthest(traits, sign)
    <2> DEFINE W == IF traits.signed THEN traits.kBase = 16 /\ v > Numbers!IntTraits.max ELSE v < 0
    <2>1. Numbers!IntTraits.max = Half - 1
      BY DEF Numbers!IntTraits, Half
    <2>2. Numbers!ReadsNumeral(traits, t) <=>
            IF W
              THEN result.valid => wellFormed /\ (result.output - v) % Modulus = 0
              ELSE /\ result.valid <=> wellFormed /\ InRange(traits, v)
                   /\ result.output = IF InRange(traits, v) THEN v
                                      ELSE Numbers!Furthest(traits, sign)
      BY Zenon DEF Numbers!ReadsNumeral, InRange, Modulus
    <2>3. W <=> Wraps(traits, v)
      BY <2>1, Zenon DEF Wraps
    <2> HIDE DEF W, v, result, wellFormed
    <2> QED
      BY <2>2, <2>3, Zenon
  <1> HIDE DEF start, c, digits, first, sign, prefixed
  <1>8. CASE digits > n
    <2>1. digits = n + 1 /\ first = n + 1 /\ ~(digits <= n)
      <3> HIDE DEF n
      <3> QED BY <1>1, <1>3, <1>4, <1>8
    <2>2. x = 0
      BY <2>1, NoDigits
    <2>3. v = 0 /\ sign * 0 = 0
      <3> HIDE DEF x
      <3> QED BY <1>2, <2>2 DEF Signs
    <2>4. result.valid = FALSE /\ result.output = 0
      <3>1. number = [valid |-> FALSE, output |-> 0]
        BY <1>8
      <3> HIDE DEF number, result
      <3> QED BY <1>6, <3>1
    <2>5. ~Wraps(traits, 0)
      BY PowersAre DEF Wraps
    <2>6. InRange(traits, 0)
      <3>1. 0 \in 0 .. 15 /\ ~Wraps(traits, sign * 0)
        BY <2>3, <2>5
      <3>2. InRange(traits, sign * 0)
        BY <1>2, <3>1, OneDigit
      <3> QED
        BY <2>3, <3>2
    <2> HIDE DEF v, result, end, n
    <2> QED
      BY <1>7, <2>1, <2>3, <2>4, <2>5, <2>6
  <1>9. CASE digits <= n
    <2>1. ~(digits > n)
      <3> HIDE DEF n
      <3> QED BY <1>1, <1>3, <1>9
    <2> DEFINE r == Numbers!Digits(traits, sign, t, first)
    <2>2. number = r
      BY <2>1
    <2>3. /\ x \in Nat /\ r \in NumberResults
          /\ r.valid => end > n /\ Congruent(r.output, v)
          /\ ~Wraps(traits, v) =>
               /\ r.valid <=> end > n /\ InRange(traits, v)
               /\ r.output = IF InRange(traits, v) THEN v ELSE Numbers!Furthest(traits, sign)
      BY <1>2, <1>4, DigitsRead
    <2> HIDE DEF r, number, result, x, n, end
    <2>4. (result.valid <=> r.valid /\ start = 1) /\ result.output = r.output
      <3> DEFINE valid == r.valid /\ start = 1
      <3>1. valid \in BOOLEAN
        OBVIOUS
      <3> HIDE DEF valid
      <3>2. result = [r EXCEPT !.valid = valid]
        BY <1>6, <2>2 DEF valid
      <3>3. result.valid = valid /\ result.output = r.output
        BY <2>3, <3>1, <3>2 DEF NumberResults
      <3> QED
        BY <3>3 DEF valid
    <2>5. Congruent(r.output, v) => (r.output - v) % Modulus = 0
      <3>1. r.output \in Int /\ v \in Int
        BY <1>2, <2>3 DEF Signs, NumberResults
      <3> HIDE DEF v
      <3> QED BY <3>1, CongruentFacts
    <2> HIDE DEF v
    <2>6. CASE Wraps(traits, v)
      BY <1>7, <1>9, <2>3, <2>4, <2>5, <2>6
    <2>7. CASE ~Wraps(traits, v)
      BY <1>7, <1>9, <2>3, <2>4, <2>7
    <2> QED
      BY <2>6, <2>7
  <1> QED
    <2> HIDE DEF n
    <2> QED BY <1>1, <1>3, <1>8, <1>9

GoodPairs(t, n) == \A i \in 1 .. 2 * n : Numbers!IsDigit(Numbers!HexIntTraits, t[i])
Pairs(t) == IF Len(t) % 2 = 0 THEN Len(t) \div 2 ELSE 0
GoodCount(t) == CHOOSE n \in 0 .. Pairs(t) : GoodPairs(t, n) /\ (n < Pairs(t) => ~GoodPairs(t, n + 1))

LEMMA PairsCounted ==
  ASSUME NEW C, NEW t \in Seq(C)
  PROVE  /\ Pairs(t) \in Nat /\ 2 * Pairs(t) <= Len(t)
         /\ GoodCount(t) \in 0 .. Pairs(t) /\ GoodPairs(t, GoodCount(t))
  <1> DEFINE p == Pairs(t)
             S == {n \in 0 .. p : n = p \/ ~GoodPairs(t, n + 1)}
  <1>1. p \in Nat /\ 2 * p <= Len(t)
    BY DEF Pairs
  <1> HIDE DEF p
  <1>2. p \in S /\ S \subseteq Nat
    BY <1>1
  <1>3. PICK n \in S : \A m \in S : n <= m
    BY <1>2, LeastNumber
  <1>4. n \in 0 .. p /\ (n < p => ~GoodPairs(t, n + 1))
    BY <1>1, <1>3
  <1>5. GoodPairs(t, n)
    <2>1. CASE n = 0
      BY <2>1 DEF GoodPairs
    <2>2. CASE n # 0
      <3>1. n - 1 \in 0 .. p /\ n - 1 # p /\ (n - 1) + 1 = n /\ ~(n <= n - 1)
        BY <1>1, <1>4, <2>2
      <3>2. n - 1 \notin S
        BY <1>3, <3>1
      <3>3. GoodPairs(t, (n - 1) + 1)
        BY <3>1, <3>2
      <3> QED
        BY <3>1, <3>3
    <2> QED
      BY <2>1, <2>2
  <1> QED
    BY <1>1, <1>4, <1>5 DEF GoodCount, p

LEMMA BytesRead ==
  ASSUME NEW C, NEW t \in Seq(C)
  PROVE  Numbers!ReadsBytes(t)
  <1> DEFINE count == GoodCount(t)
             p == Pairs(t)
             output == [n \in 1 .. count |-> 16 * Digit[t[2 * n - 1]] + Digit[t[2 * n]]]
             valid == p > 0 /\ count = p
             result == Numbers!HexStringToBytes(t)
             read == SubSeq(t, 1, 2 * count)
  <1>1. p \in Nat /\ 2 * p <= Len(t) /\ count \in 0 .. p /\ GoodPairs(t, count)
    BY PairsCounted
  <1>2. result = [valid |-> valid, output |-> output]
    BY Zenon DEF Numbers!HexStringToBytes, GoodCount, GoodPairs, Pairs
  <1>3. valid \in BOOLEAN
    BY <1>1
  <1>4. Len(output) = count
    <2> HIDE DEF count
    <2> QED BY <1>1
  <1> HIDE DEF valid, output, count, p
  <1>5. result.valid = valid /\ result.output = output
    BY <1>2, <1>3
  <1> HIDE DEF result
  <1>6. /\ Len(read) = 2 * count /\ read \in Seq(C)
        /\ \A i \in 1 .. 2 * count : read[i] = t[i]
    <2>1. 2 * count \in Nat /\ 2 * count <= Len(t) /\ count \in Nat
      BY <1>1
    <2> DEFINE m == 2 * count
    <2> HIDE DEF m
    <2>2. m \in Nat /\ m <= Len(t)
      BY <2>1 DEF m
    <2>3. /\ Len(SubSeq(t, 1, m)) = m /\ SubSeq(t, 1, m) \in Seq(C)
          /\ \A i \in 1 .. m : SubSeq(t, 1, m)[i] = t[i]
      BY <2>2
    <2> QED
      BY <2>3 DEF m
  <1> HIDE DEF read
  <1>7. \A i \in DOMAIN read : Numbers!IsDigit(Numbers!HexIntTraits, read[i])
    <2>1. DOMAIN read = 1 .. 2 * count
      BY <1>6
    <2> QED
      BY <1>1, <1>6, <2>1 DEF GoodPairs
  <1>8. ASSUME NEW n \in DOMAIN output
        PROVE  /\ output[n] \div 16 = Digit[read[2 * n - 1]]
               /\ output[n] % 16 = Digit[read[2 * n]]
    <2> DEFINE a == Digit[t[2 * n - 1]]
               b == Digit[t[2 * n]]
    <2>1. n \in 1 .. count
      BY <1>8 DEF output
    <2>2. 2 * n - 1 \in 1 .. 2 * count /\ 2 * n \in 1 .. 2 * count
      BY <1>1, <2>1
    <2>3. a \in 0 .. 15 /\ b \in 0 .. 15
      <3>1. Numbers!HexIntTraits \in Traits
        BY DEF Traits
      <3>2. /\ Numbers!IsDigit(Numbers!HexIntTraits, t[2 * n - 1])
            /\ Numbers!IsDigit(Numbers!HexIntTraits, t[2 * n])
        BY <1>1, <2>2 DEF GoodPairs
      <3> QED
        BY <3>1, <3>2, DigitFacts
    <2>4. output[n] = 16 * a + b
      BY <2>1 DEF output
    <2>5. a = Digit[read[2 * n - 1]] /\ b = Digit[read[2 * n]]
      BY <1>6, <2>2
    <2> HIDE DEF a, b
    <2>6. (16 * a + b) \div 16 = a /\ (16 * a + b) % 16 = b
      BY <2>3
    <2> QED
      BY <2>4, <2>5, <2>6
  <1>9. valid <=> read = t /\ t # <<>>
    <2>1. ASSUME valid
          PROVE  read = t /\ t # <<>>
      <3>1. p > 0 /\ count = p
        BY <2>1 DEF valid
      <3>2. Len(t) = 2 * count /\ Len(t) > 0
        <4>1. p = IF Len(t) % 2 = 0 THEN Len(t) \div 2 ELSE 0
          BY DEF p, Pairs
        <4> QED
          BY <1>1, <3>1, <4>1
      <3>3. t # <<>>
        BY <3>2
      <3>4. read = t
        BY <1>6, <3>2
      <3> QED
        BY <3>3, <3>4
    <2>2. ASSUME read = t, t # <<>>
          PROVE  valid
      <3>1. Len(t) = 2 * count /\ Len(t) # 0
        BY <1>6, <2>2
      <3>2. p = count
        <4>1. p = IF Len(t) % 2 = 0 THEN Len(t) \div 2 ELSE 0
          BY DEF p, Pairs
        <4> QED
          BY <1>1, <3>1, <4>1
      <3> QED
        BY <1>1, <3>1, <3>2 DEF valid
    <2> QED
      BY <2>1, <2>2
  <1>10. Numbers!ReadsBytes(t) <=>
           /\ \A i \in DOMAIN read : Numbers!IsDigit(Numbers!HexIntTraits, read[i])
           /\ \A n \in DOMAIN output :
                /\ output[n] \div 16 = Digit[read[2 * n - 1]]
                /\ output[n] % 16 = Digit[read[2 * n]]
           /\ valid <=> read = t /\ t # <<>>
    <2>1. SubSeq(t, 1, 2 * Len(result.output)) = read
      BY <1>4, <1>5 DEF read
    <2>2. Numbers!ReadsBytes(t) <=>
            LET r == SubSeq(t, 1, 2 * Len(result.output)) IN
            /\ \A i \in DOMAIN r : Numbers!IsDigit(Numbers!HexIntTraits, r[i])
            /\ \A n \in DOMAIN result.output :
                 /\ result.output[n] \div 16 = Digit[r[2 * n - 1]]
                 /\ result.output[n] % 16 = Digit[r[2 * n]]
            /\ result.valid <=> r = t /\ t # <<>>
      BY Zenon DEF Numbers!ReadsBytes, result
    <2> QED
      BY <1>3, <1>5, <2>1, <2>2, Zenon
  <1> QED
    BY <1>7, <1>8, <1>9, <1>10, Zenon

-----------------------------------------------------------------------------
(* Sequences, greatest numbers and loops *)

LEMMA GreatestNumber ==
  ASSUME NEW n \in Nat, NEW S, S \subseteq 0 .. n, S # {}
  PROVE  /\ Max(S) \in S
         /\ \A m \in S : m <= Max(S)
  <1> DEFINE above == {k \in Nat : \A m \in S : m <= k}
  <1>1. n \in above
    OBVIOUS
  <1>2. PICK k \in above : \A j \in above : k <= j
    BY <1>1, LeastNumber
  <1>3. k \in S
    <2>1. SUFFICES ASSUME k \notin S
                   PROVE  FALSE
      OBVIOUS
    <2>2. \A m \in S : m \in Nat /\ m <= k /\ m # k
      BY <1>2, <2>1
    <2>3. PICK m \in S : TRUE
      OBVIOUS
    <2>4. k # 0 /\ k \in Nat
      BY <1>2, <2>2, <2>3
    <2>5. k - 1 \in above
      BY <2>2, <2>4
    <2>6. ~(k <= k - 1)
      BY <2>4
    <2> QED
      BY <1>2, <2>5, <2>6
  <1>4. \A m \in S : m <= k
    BY <1>2
  <1>5. \A m \in S : k >= m
    BY <1>2
  <1>6. Max(S) \in S /\ \A m \in S : Max(S) >= m
    BY <1>3, <1>5, Zenon DEF Max
  <1> QED
    BY <1>6

LEMMA SameSequences ==
  ASSUME NEW U, NEW s \in Seq(U), NEW t \in Seq(U), Len(s) = Len(t), \A i \in 1 .. Len(s) : s[i] = t[i]
  PROVE  s = t
  OBVIOUS

LEMMA PieceIs ==
  ASSUME NEW U, NEW t \in Seq(U), NEW m \in Nat \ {0}, NEW n \in 0 .. Len(t), m <= n + 1
  PROVE  /\ SubSeq(t, m, n) \in Seq(U) /\ Len(SubSeq(t, m, n)) = n - m + 1
         /\ \A k \in 1 .. n - m + 1 : SubSeq(t, m, n)[k] = t[m + k - 1]
  OBVIOUS

LEMMA JoinIs ==
  ASSUME NEW U, NEW w \in Seq(U), NEW z \in Seq(U)
  PROVE  /\ w \o z \in Seq(U) /\ Len(w \o z) = Len(w) + Len(z)
         /\ \A k \in 1 .. Len(w) : (w \o z)[k] = w[k]
         /\ \A k \in 1 .. Len(z) : (w \o z)[Len(w) + k] = z[k]
  OBVIOUS

LEMMA AppendIs ==
  ASSUME NEW U, NEW s \in Seq(U), NEW x \in U
  PROVE  /\ Append(s, x) \in Seq(U) /\ Len(Append(s, x)) = Len(s) + 1 /\ Len(s) \in Nat
         /\ Append(s, x)[Len(s) + 1] = x
         /\ \A k \in 1 .. Len(s) : Append(s, x)[k] = s[k]
         /\ Append(s, x) # <<>>
  OBVIOUS

JoinsBefore(s, t, x) == Append(s \o t, x) = s \o Append(t, x)

LEMMA AppendJoined ==
  ASSUME NEW U, NEW s \in Seq(U), NEW t \in Seq(U), NEW x \in U
  PROVE  JoinsBefore(s, t, x)
  <1> DEFINE a == Len(s)
             b == Len(t)
             y == s \o t
             w == Append(t, x)
             left == Append(y, x)
             right == s \o w
  <1>1. /\ y \in Seq(U) /\ Len(y) = a + b /\ a \in Nat /\ b \in Nat
        /\ \A k \in 1 .. a : y[k] = s[k]
        /\ \A k \in 1 .. b : y[a + k] = t[k]
    <2>1. a \in Nat /\ b \in Nat
      OBVIOUS
    <2> QED BY <2>1, JoinIs
  <1>2. /\ w \in Seq(U) /\ Len(w) = b + 1 /\ w[b + 1] = x
        /\ \A k \in 1 .. b : w[k] = t[k]
    BY AppendIs
  <1> HIDE DEF y, w
  <1>3. /\ left \in Seq(U) /\ Len(left) = a + b + 1 /\ left[a + b + 1] = x
        /\ \A k \in 1 .. a + b : left[k] = y[k]
    <2>1. /\ left \in Seq(U) /\ Len(left) = Len(y) + 1 /\ left[Len(y) + 1] = x
          /\ \A k \in 1 .. Len(y) : left[k] = y[k]
      <3>1. y \in Seq(U)
        BY <1>1
      <3> QED BY <3>1, AppendIs
    <2> HIDE DEF left, a, b
    <2> QED BY <1>1, <2>1
  <1>4. /\ right \in Seq(U) /\ Len(right) = a + (b + 1)
        /\ \A k \in 1 .. a : right[k] = s[k]
        /\ \A k \in 1 .. b + 1 : right[a + k] = w[k]
    <2>1. /\ right \in Seq(U) /\ Len(right) = a + Len(w)
          /\ \A k \in 1 .. a : right[k] = s[k]
          /\ \A k \in 1 .. Len(w) : right[a + k] = w[k]
      BY <1>2
    <2> HIDE DEF a, b, right
    <2> QED BY <1>2, <2>1
  <1> HIDE DEF left, right, a, b
  <1>5. ASSUME NEW k \in 1 .. a + b + 1
        PROVE  left[k] = right[k]
    <2>1. CASE k \in 1 .. a
      <3>1. k \in 1 .. a + b
        BY <1>1, <2>1
      <3> QED BY <1>1, <1>3, <1>4, <2>1, <3>1
    <2>2. CASE k > a
      <3> DEFINE l == k - a
      <3>1. l \in 1 .. b + 1 /\ k = a + l
        BY <1>1, <2>2
      <3>2. l # b + 1 => l \in 1 .. b /\ k \in 1 .. a + b
        BY <1>1, <3>1
      <3> HIDE DEF l
      <3>3. right[k] = w[l]
        BY <1>4, <3>1
      <3>4. CASE l = b + 1
        <4>1. k = a + b + 1
          BY <1>1, <3>1, <3>4
        <4> QED BY <1>2, <1>3, <3>3, <3>4, <4>1
      <3>5. CASE l # b + 1
        <4>1. w[l] = t[l] /\ left[k] = y[k]
          BY <1>2, <1>3, <3>2, <3>5
        <4>2. y[k] = t[l]
          BY <1>1, <3>1, <3>2, <3>5
        <4> QED BY <3>3, <4>1, <4>2
      <3> QED BY <3>4, <3>5
    <2> QED
      BY <1>1, <2>1, <2>2
  <1>6. Len(left) = Len(right)
    BY <1>1, <1>3, <1>4
  <1>7. \A k \in 1 .. Len(left) : left[k] = right[k]
    BY <1>3, <1>5
  <1>8. left = right
    BY <1>3, <1>4, <1>6, <1>7, SameSequences
  <1> QED
    BY <1>8 DEF left, right, y, w, JoinsBefore

(* A loop that comes closer to its end with each round gives a result. *)
LoopEnds(D, S, Ends, bound, measure, last, next) ==
  \A x \in D : /\ measure[x] \in 0 .. bound /\ last[x] \in S
               /\ x \notin Ends => next[x] \in D /\ measure[next[x]] < measure[x]

Loop(f, D, S, Ends, last, next) ==
  /\ f \in [D -> S]
  /\ \A x \in D : f[x] = IF x \in Ends THEN last[x] ELSE f[next[x]]

LEMMA LoopExists ==
  ASSUME NEW D, NEW S, NEW Ends, NEW bound \in Nat, NEW measure, NEW last, NEW next,
         LoopEnds(D, S, Ends, bound, measure, last, next)
  PROVE  \E f : Loop(f, D, S, Ends, last, next)
  <1>0. /\ \A x \in D : measure[x] \in 0 .. bound /\ last[x] \in S
        /\ \A x \in D : x \notin Ends => next[x] \in D /\ measure[next[x]] < measure[x]
    <2>1. \A x \in D : measure[x] \in 0 .. bound /\ last[x] \in S
      BY DEF LoopEnds
    <2>2. \A x \in D : x \notin Ends => next[x] \in D /\ measure[next[x]] < measure[x]
      BY DEF LoopEnds
    <2> QED BY <2>1, <2>2
  <1> DEFINE Once(f, x) == IF x \in Ends THEN last[x] ELSE f[next[x]]
             Below(f, n) == \A x \in D : measure[x] < n => f[x] = Once(f, x)
             P == {n \in Nat : \E f \in [D -> S] : Below(f, n)}
  <1>1. 0 \in P
    <2> DEFINE f == [x \in D |-> last[x]]
    <2>1. f \in [D -> S] /\ Below(f, 0)
      BY <1>0
    <2> HIDE DEF f, Below
    <2> QED
      BY <2>1
  <1>2. ASSUME NEW n \in Nat, n \in P
        PROVE  n + 1 \in P
    <2>1. PICK f \in [D -> S] : Below(f, n)
      BY <1>2
    <2> DEFINE g == [x \in D |-> IF measure[x] < n THEN f[x] ELSE Once(f, x)]
    <2>2. g \in [D -> S]
      BY <1>0, <2>1
    <2>3. ASSUME NEW x \in D, measure[x] < n + 1
          PROVE  g[x] = Once(f, x) /\ Once(g, x) = Once(f, x)
      <3>1. g[x] = Once(f, x)
        <4>1. CASE measure[x] < n
          BY <2>1, <4>1
        <4>2. CASE ~(measure[x] < n)
          BY <4>2
        <4> QED
          BY <4>1, <4>2
      <3>2. x \notin Ends => g[next[x]] = f[next[x]]
        <4>1. SUFFICES ASSUME x \notin Ends
                       PROVE  g[next[x]] = f[next[x]]
          OBVIOUS
        <4>2. next[x] \in D /\ measure[next[x]] < measure[x] /\ measure[next[x]] \in Nat /\ measure[x] \in Nat
          BY <1>0, <4>1
        <4>3. measure[next[x]] < n
          BY <2>3, <4>2
        <4> QED
          BY <4>2, <4>3
      <3> QED
        BY <3>1, <3>2
    <2> HIDE DEF g, Once
    <2>4. Below(g, n + 1)
      BY <2>3
    <2> HIDE DEF Below
    <2> QED
      BY <2>2, <2>4
  <1>3. bound + 1 \in P
    <2> HIDE DEF P
    <2> QED BY <1>1, <1>2, InductiveSet
  <1>4. PICK f \in [D -> S] : Below(f, bound + 1)
    BY <1>3
  <1>5. \A x \in D : measure[x] < bound + 1
    BY <1>0
  <1> QED
    BY <1>4, <1>5 DEF Loop

-----------------------------------------------------------------------------
(* Pathnames: what DirName, BaseName and Append do to what a path says.    *)

Sep(build, c) == Paths!IsSeparator(build, c)

LEMMA GreatestIs ==
  ASSUME NEW n \in Nat, NEW S, S \subseteq 0 .. n, NEW m \in S, \A k \in S : k <= m
  PROVE  Max(S) = m
  <1>1. Max(S) \in S /\ m <= Max(S) /\ Max(S) <= m
    BY GreatestNumber
  <1>2. Max(S) \in 0 .. n /\ m \in 0 .. n
    BY <1>1
  <1> QED
    BY <1>1, <1>2

(* The names in a text, one character after the other. *)
WithCharacter(build, r, n, names) ==
  IF Sep(build, r[n]) THEN names
  ELSE IF n = 1 \/ Sep(build, r[n - 1]) THEN Append(names, <<r[n]>>)
  ELSE [names EXCEPT ![Len(names)] = Append(@, r[n])]

NamesUpTo(f, build, r) ==
  f = [n \in 0 .. Len(r) |-> IF n = 0 THEN <<>> ELSE WithCharacter(build, r, n, f[n - 1])]

LEMMA NamesTyped ==
  ASSUME NEW C, NEW build, NEW r \in Seq(C), NEW n \in 1 .. Len(r), NEW names \in Seq(Seq(C))
  PROVE  WithCharacter(build, r, n, names) \in Seq(Seq(C))
  <1>1. r[n] \in C /\ <<r[n]>> \in Seq(C)
    OBVIOUS
  <1>2. Append(names, <<r[n]>>) \in Seq(Seq(C))
    BY <1>1
  <1>3. [names EXCEPT ![Len(names)] = Append(@, r[n])] \in Seq(Seq(C))
    <2>1. Len(names) \in DOMAIN names => names[Len(names)] \in Seq(C)
      OBVIOUS
    <2>2. Len(names) \in DOMAIN names => Append(names[Len(names)], r[n]) \in Seq(C)
      BY <1>1, <2>1
    <2>3. \A i \in DOMAIN names : [names EXCEPT ![Len(names)] = Append(@, r[n])][i] \in Seq(C)
      BY <2>2
    <2>4. DOMAIN [names EXCEPT ![Len(names)] = Append(@, r[n])] = 1 .. Len(names)
      OBVIOUS
    <2>5. [names EXCEPT ![Len(names)] = Append(@, r[n])] \in [1 .. Len(names) -> Seq(C)]
      BY <2>3, <2>4
    <2>6. Len(names) \in Nat
      OBVIOUS
    <2> QED
      BY <2>5, <2>6
  <1> QED
    BY <1>2, <1>3 DEF WithCharacter

LEMMA NamesExist ==
  ASSUME NEW C, NEW build, NEW r \in Seq(C)
  PROVE  \E f : NamesUpTo(f, build, r)
  <1> DEFINE m == Len(r)
             S == Seq(Seq(C))
             step == [p \in (1 .. m) \X S |-> WithCharacter(build, r, p[1], p[2])]
  <1>1. m \in Nat /\ <<>> \in S
    OBVIOUS
  <1>2. \A n \in 1 .. m, names \in S : WithCharacter(build, r, n, names) \in S
    BY NamesTyped
  <1>3. /\ step \in [(1 .. m) \X S -> S]
        /\ \A n \in 1 .. m, names \in S : step[<<n, names>>] = WithCharacter(build, r, n, names)
    <2> HIDE DEF m, S
    <2> QED BY <1>2
  <1> HIDE DEF step
  <1>4. PICK f \in [0 .. m -> S] : Recursion(f, m, <<>>, step)
    <2> HIDE DEF m, S
    <2> QED BY <1>1, <1>3, RecursionExists
  <1>5. \A n \in 0 .. m : f[n] = IF n = 0 THEN <<>> ELSE WithCharacter(build, r, n, f[n - 1])
    <2> HIDE DEF m, S
    <2> TAKE n \in 0 .. m
    <2>1. CASE n = 0
      BY <1>4, <2>1 DEF Recursion
    <2>2. CASE n # 0
      <3>1. n \in 1 .. m /\ n - 1 \in 0 .. m
        BY <1>1, <2>2
      <3>2. f[n - 1] \in S
        BY <1>4, <3>1
      <3>3. f[n] = step[<<n, f[n - 1]>>]
        BY <1>4, <3>1 DEF Recursion
      <3> QED BY <1>3, <2>2, <3>1, <3>2, <3>3
    <2> QED
      BY <2>1, <2>2
  <1>6. f = [n \in 0 .. m |-> IF n = 0 THEN <<>> ELSE WithCharacter(build, r, n, f[n - 1])]
    <2> HIDE DEF m, S
    <2> QED BY <1>4, <1>5
  <1> QED
    BY <1>6 DEF NamesUpTo

LEMMA NamesAre ==
  ASSUME NEW C, NEW build, NEW r \in Seq(C)
  PROVE  \E f : NamesUpTo(f, build, r) /\ Paths!NamesIn(build, r) = f[Len(r)]
  <1> DEFINE upTo == CHOOSE f : f = [n \in 0 .. Len(r) |->
        IF n = 0 THEN <<>>
        ELSE IF Paths!IsSeparator(build, r[n]) THEN f[n - 1]
        ELSE IF n = 1 \/ Paths!IsSeparator(build, r[n - 1])
          THEN Append(f[n - 1], <<r[n]>>)
        ELSE [f[n - 1] EXCEPT ![Len(f[n - 1])] = Append(@, r[n])]]
  <1>1. \E f : f = [n \in 0 .. Len(r) |->
        IF n = 0 THEN <<>>
        ELSE IF Paths!IsSeparator(build, r[n]) THEN f[n - 1]
        ELSE IF n = 1 \/ Paths!IsSeparator(build, r[n - 1])
          THEN Append(f[n - 1], <<r[n]>>)
        ELSE [f[n - 1] EXCEPT ![Len(f[n - 1])] = Append(@, r[n])]]
    <2>1. \E f : NamesUpTo(f, build, r)
      BY NamesExist
    <2> QED
      BY <2>1, Zenon DEF NamesUpTo, WithCharacter, Sep
  <1>2. upTo = [n \in 0 .. Len(r) |->
        IF n = 0 THEN <<>>
        ELSE IF Paths!IsSeparator(build, r[n]) THEN upTo[n - 1]
        ELSE IF n = 1 \/ Paths!IsSeparator(build, r[n - 1])
          THEN Append(upTo[n - 1], <<r[n]>>)
        ELSE [upTo[n - 1] EXCEPT ![Len(upTo[n - 1])] = Append(@, r[n])]]
    BY <1>1, Zenon
  <1>3. Paths!NamesIn(build, r) = upTo[Len(r)]
    BY Zenon DEF Paths!NamesIn
  <1> HIDE DEF upTo
  <1>4. NamesUpTo(upTo, build, r)
    BY <1>2, Zenon DEF NamesUpTo, WithCharacter, Sep
  <1> QED
    BY <1>3, <1>4

(* The names in the first n characters. *)
FirstNames(build, r, n) == Paths!NamesIn(build, SubSeq(r, 1, n))

Firsts(build, r) ==
  /\ Len(r) \in Nat
  /\ FirstNames(build, r, 0) = <<>>
  /\ \A n \in 1 .. Len(r) : FirstNames(build, r, n) = WithCharacter(build, r, n, FirstNames(build, r, n - 1))
  /\ FirstNames(build, r, Len(r)) = Paths!NamesIn(build, r)

LEMMA NamesStep ==
  ASSUME NEW C, NEW build, NEW r \in Seq(C)
  PROVE  Firsts(build, r)
  <1>1. PICK f : NamesUpTo(f, build, r)
    BY NamesExist
  <1>2. /\ f[0] = <<>>
        /\ \A n \in 1 .. Len(r) : f[n] = WithCharacter(build, r, n, f[n - 1])
    <2>1. \A n \in 0 .. Len(r) : f[n] = IF n = 0 THEN <<>> ELSE WithCharacter(build, r, n, f[n - 1])
      BY <1>1, Zenon DEF NamesUpTo
    <2>2. 0 \in 0 .. Len(r) /\ \A n \in 1 .. Len(r) : n \in 0 .. Len(r) /\ n # 0
      OBVIOUS
    <2> QED BY <2>1, <2>2, Zenon
  <1>3. ASSUME NEW k \in 0 .. Len(r)
        PROVE  FirstNames(build, r, k) = f[k]
    <2> DEFINE u == SubSeq(r, 1, k)
    <2>1. k \in Nat /\ u \in Seq(C) /\ Len(u) = k /\ \A i \in 1 .. k : u[i] = r[i]
      OBVIOUS
    <2> HIDE DEF u
    <2>2. PICK g : NamesUpTo(g, build, u) /\ Paths!NamesIn(build, u) = g[Len(u)]
      BY <2>1, NamesAre
    <2>3. /\ g[0] = <<>>
          /\ \A n \in 1 .. k : g[n] = WithCharacter(build, u, n, g[n - 1])
      <3>1. \A n \in 0 .. k : g[n] = IF n = 0 THEN <<>> ELSE WithCharacter(build, u, n, g[n - 1])
        BY <2>1, <2>2, Zenon DEF NamesUpTo
      <3>2. 0 \in 0 .. k /\ \A n \in 1 .. k : n \in 0 .. k /\ n # 0
        BY <2>1
      <3> QED BY <3>1, <3>2, Zenon
    <2> DEFINE S == {n \in 0 .. k : g[n] = f[n]}
    <2>4. 0 \in S
      BY <1>2, <2>3, <2>1
    <2>5. ASSUME NEW n \in 1 .. k, n - 1 \in S
          PROVE  n \in S
      <3>1. n \in 1 .. Len(r) /\ n \in 0 .. k /\ g[n - 1] = f[n - 1] /\ u[n] = r[n]
        BY <2>1, <2>5
      <3>2. n # 1 => u[n - 1] = r[n - 1]
        BY <2>1
      <3>3. WithCharacter(build, u, n, g[n - 1]) = WithCharacter(build, r, n, f[n - 1])
        BY <3>1, <3>2, Zenon DEF WithCharacter
      <3> QED
        BY <1>2, <2>3, <3>1, <3>3
    <2>6. k \in S
      <3> HIDE DEF S
      <3>1. \A n \in 0 .. k : n \in S
        BY <2>1, <2>4, <2>5, UpTo
      <3> QED BY <2>1, <3>1
    <2> QED
      BY <2>1, <2>2, <2>6 DEF u, FirstNames
  <1>4. SubSeq(r, 1, Len(r)) = r
    OBVIOUS
  <1>5. \A n \in 1 .. Len(r) : n \in 0 .. Len(r) /\ n - 1 \in 0 .. Len(r)
    OBVIOUS
  <1>6. 0 \in 0 .. Len(r)
    OBVIOUS
  <1>7. FirstNames(build, r, Len(r)) = Paths!NamesIn(build, r)
    BY <1>4, Zenon DEF FirstNames
  <1>8. \A n \in 1 .. Len(r) : FirstNames(build, r, n) = WithCharacter(build, r, n, FirstNames(build, r, n - 1))
    <2> TAKE n \in 1 .. Len(r)
    <2>1. FirstNames(build, r, n) = f[n] /\ FirstNames(build, r, n - 1) = f[n - 1]
      BY <1>3, <1>5
    <2> QED BY <1>2, <2>1
  <1> QED
    BY <1>2, <1>3, <1>6, <1>7, <1>8 DEF Firsts

LEMMA OneCharacter ==
  ASSUME NEW C, NEW r \in Seq(C), NEW i \in 1 .. Len(r)
  PROVE  SubSeq(r, i, i) = <<r[i]>>
  <1>1. Len(SubSeq(r, i, i)) = 1 /\ SubSeq(r, i, i)[1] = r[i] /\ SubSeq(r, i, i) \in Seq(C)
    OBVIOUS
  <1>2. Len(<<r[i]>>) = 1 /\ <<r[i]>>[1] = r[i] /\ <<r[i]>> \in Seq(C)
    OBVIOUS
  <1>3. \A k \in 1 .. Len(SubSeq(r, i, i)) : SubSeq(r, i, i)[k] = <<r[i]>>[k]
    <2>1. \A k \in 1 .. 1 : k = 1
      OBVIOUS
    <2> QED BY <1>1, <1>2, <2>1, Zenon
  <1> QED
    BY <1>1, <1>2, <1>3, SameSequences

EndsWith(t, s, y) == [t EXCEPT ![Len(t)] = y] = Append(s, y)

LEMMA LastReplaced ==
  ASSUME NEW T, NEW s \in Seq(T), NEW x \in T, NEW y \in T, NEW t, t = Append(s, x)
  PROVE  EndsWith(t, s, y)
  <1> DEFINE n == Len(s)
             u == [t EXCEPT ![Len(t)] = y]
             v == Append(s, y)
  <1>1. /\ t \in Seq(T) /\ Len(t) = n + 1 /\ n \in Nat
        /\ \A k \in 1 .. n : t[k] = s[k]
    BY AppendIs
  <1>2. v \in Seq(T) /\ Len(v) = n + 1 /\ v[n + 1] = y /\ \A k \in 1 .. n : v[k] = s[k]
    BY AppendIs
  <1>3. /\ u \in Seq(T) /\ Len(u) = n + 1 /\ u[n + 1] = y
        /\ \A k \in 1 .. n : u[k] = t[k]
    <2> HIDE DEF n
    <2>1. n + 1 \in 1 .. n + 1 /\ \A k \in 1 .. n : k \in 1 .. n + 1 /\ k # n + 1
      BY <1>1
    <2>2. DOMAIN t = 1 .. n + 1
      BY <1>1
    <2>3. u \in Seq(T) /\ Len(u) = n + 1
      BY <1>1
    <2>4. u[n + 1] = y /\ \A k \in 1 .. n : u[k] = t[k]
      BY <1>1, <2>1, <2>2
    <2> QED BY <2>3, <2>4
  <1> HIDE DEF u, v, n
  <1>4. \A k \in 1 .. n + 1 : u[k] = v[k]
    <2> TAKE k \in 1 .. n + 1
    <2>1. k = n + 1 \/ k \in 1 .. n
      BY <1>1
    <2> QED BY <1>1, <1>2, <1>3, <2>1
  <1>5. u = v
    BY <1>2, <1>3, <1>4, SameSequences
  <1> QED
    BY <1>5 DEF u, v, EndsWith

LEMMA FirstTyped ==
  ASSUME NEW C, NEW build, NEW r \in Seq(C), NEW n \in 0 .. Len(r)
  PROVE  FirstNames(build, r, n) \in Seq(Seq(C))
  <1> DEFINE S == {i \in 0 .. Len(r) : FirstNames(build, r, i) \in Seq(Seq(C))}
  <1>0. Firsts(build, r) /\ Len(r) \in Nat
    BY NamesStep
  <1>1. 0 \in S
    <2>1. <<>> \in Seq(Seq(C)) /\ 0 \in 0 .. Len(r)
      BY <1>0
    <2> QED BY <1>0, <2>1 DEF Firsts
  <1>2. ASSUME NEW i \in 1 .. Len(r), i - 1 \in S
        PROVE  i \in S
    <2>1. FirstNames(build, r, i) = WithCharacter(build, r, i, FirstNames(build, r, i - 1))
      BY <1>0 DEF Firsts
    <2> QED
      BY <1>2, <2>1, NamesTyped
  <1> HIDE DEF S
  <1>3. \A i \in 0 .. Len(r) : i \in S
    BY <1>0, <1>1, <1>2, UpTo
  <1> QED
    BY <1>3 DEF S

LEMMA SeparatorsAddNothing ==
  ASSUME NEW C, NEW build, NEW r \in Seq(C), NEW i \in 0 .. Len(r), NEW j \in i .. Len(r),
         \A k \in i + 1 .. j : Sep(build, r[k])
  PROVE  FirstNames(build, r, j) = FirstNames(build, r, i)
  <1> DEFINE S == {k \in 0 .. j : k >= i => FirstNames(build, r, k) = FirstNames(build, r, i)}
  <1>0. Firsts(build, r) /\ j \in Nat
    BY NamesStep
  <1>1. 0 \in S
    OBVIOUS
  <1>2. ASSUME NEW k \in 1 .. j, k - 1 \in S
        PROVE  k \in S
    <2>1. CASE k <= i
      BY <2>1
    <2>2. CASE k >= i + 1
      <3>1. FirstNames(build, r, k) = WithCharacter(build, r, k, FirstNames(build, r, k - 1))
        BY <1>0 DEF Firsts
      <3>2. Sep(build, r[k])
        BY <2>2
      <3>3. FirstNames(build, r, k - 1) = FirstNames(build, r, i)
        BY <1>2, <2>2
      <3> QED
        BY <3>1, <3>2, <3>3 DEF WithCharacter
    <2> QED
      BY <2>1, <2>2
  <1> HIDE DEF S
  <1>3. \A k \in 0 .. j : k \in S
    BY <1>0, <1>1, <1>2, UpTo
  <1> QED
    BY <1>3 DEF S

NameEnds(build, r, b, e) ==
  FirstNames(build, r, e) = Append(FirstNames(build, r, b), SubSeq(r, b + 1, e))

LEMMA NameAdded ==
  ASSUME NEW C, NEW build, NEW r \in Seq(C), NEW b \in 0 .. Len(r), NEW e \in b + 1 .. Len(r),
         b = 0 \/ Sep(build, r[b]), \A k \in b + 1 .. e : ~Sep(build, r[k])
  PROVE  NameEnds(build, r, b, e)
  <1> DEFINE start == FirstNames(build, r, b)
             S == {j \in 0 .. e : j > b => FirstNames(build, r, j) = Append(start, SubSeq(r, b + 1, j))}
  <1>0. Firsts(build, r) /\ e \in Nat /\ start \in Seq(Seq(C))
    BY NamesStep, FirstTyped
  <1>1. 0 \in S
    OBVIOUS
  <1>2. ASSUME NEW j \in 1 .. e, j - 1 \in S
        PROVE  j \in S
    <2>1. CASE j <= b
      BY <2>1
    <2>2. CASE j = b + 1
      <3>1. FirstNames(build, r, j) = WithCharacter(build, r, j, start)
        BY <1>0, <2>2 DEF Firsts
      <3>2. ~Sep(build, r[j]) /\ (j = 1 \/ Sep(build, r[j - 1]))
        BY <2>2
      <3>3. SubSeq(r, b + 1, j) = <<r[j]>>
        BY <2>2, OneCharacter
      <3>4. FirstNames(build, r, j) = Append(start, SubSeq(r, b + 1, j))
        BY <3>1, <3>2, <3>3, Zenon DEF WithCharacter
      <3> QED
        BY <3>4
    <2>3. CASE j > b + 1
      <3> DEFINE before == SubSeq(r, b + 1, j - 1)
                 names == FirstNames(build, r, j - 1)
      <3>1. FirstNames(build, r, j) = WithCharacter(build, r, j, names)
        BY <1>0 DEF Firsts
      <3>2. ~Sep(build, r[j]) /\ ~(j = 1 \/ Sep(build, r[j - 1]))
        BY <2>3
      <3>3. names = Append(start, before) /\ before \in Seq(C)
        BY <1>2, <2>3
      <3>4. Append(before, r[j]) = SubSeq(r, b + 1, j)
        BY <2>3
      <3> HIDE DEF before, start, names
      <3>5. Len(names) = Len(start) + 1 /\ names[Len(names)] = before
        BY <1>0, <3>3
      <3>6. [names EXCEPT ![Len(names)] = Append(@, r[j])] = Append(start, Append(before, r[j]))
        <4>1. Append(before, r[j]) \in Seq(C)
          <5>1. r[j] \in C
            OBVIOUS
          <5> QED BY <3>3, <5>1
        <4> DEFINE longer == Append(before, r[j])
                   T == Seq(C)
        <4>0. start \in Seq(T) /\ before \in T /\ longer \in T /\ names = Append(start, before)
          BY <1>0, <3>3, <4>1
        <4> HIDE DEF longer, T
        <4>1a. EndsWith(names, start, longer)
          BY <4>0, LastReplaced
        <4>2. [names EXCEPT ![Len(names)] = longer] = Append(start, longer)
          BY <4>1a DEF EndsWith
        <4> USE DEF longer
        <4> QED BY <3>5, <4>2
      <3>7. FirstNames(build, r, j) = Append(start, SubSeq(r, b + 1, j))
        BY <3>1, <3>2, <3>4, <3>6, Zenon DEF WithCharacter
      <3> QED
        BY <3>7
    <2> QED
      BY <2>1, <2>2, <2>3
  <1> HIDE DEF S
  <1>3. \A j \in 0 .. e : j \in S
    BY <1>0, <1>1, <1>2, UpTo
  <1>4. e \in S /\ e > b
    BY <1>3
  <1> QED
    BY <1>4 DEF S, NameEnds

LEMMA SomeName ==
  ASSUME NEW C, NEW build, NEW r \in Seq(C), NEW n \in 0 .. Len(r), NEW i \in 1 .. n, ~Sep(build, r[i])
  PROVE  FirstNames(build, r, n) # <<>>
  <1> DEFINE S == {j \in 0 .. n : (\E k \in 1 .. j : ~Sep(build, r[k])) => FirstNames(build, r, j) # <<>>}
  <1>0. Firsts(build, r) /\ n \in Nat
    BY NamesStep
  <1>1. 0 \in S
    OBVIOUS
  <1>2. ASSUME NEW j \in 1 .. n, j - 1 \in S
        PROVE  j \in S
    <2> DEFINE names == FirstNames(build, r, j - 1)
    <2>1. FirstNames(build, r, j) = WithCharacter(build, r, j, names)
      BY <1>0 DEF Firsts
    <2>2. names \in Seq(Seq(C))
      BY FirstTyped
    <2> HIDE DEF names
    <2>3. [names EXCEPT ![Len(names)] = Append(@, r[j])] # <<>> \/ names = <<>>
      BY <2>2
    <2>4. Append(names, <<r[j]>>) # <<>>
      <3>1. <<r[j]>> \in Seq(C)
        OBVIOUS
      <3> QED BY <2>2, <3>1, SMTT(60)
    <2>5. CASE names = <<>>
      <3>1. \A k \in 1 .. j - 1 : Sep(build, r[k])
        BY <1>2, <2>5 DEF names
      <3>2. j = 1 \/ Sep(build, r[j - 1])
        BY <3>1
      <3>3. CASE Sep(build, r[j])
        <4>1. \A k \in 1 .. j : Sep(build, r[k])
          BY <3>1, <3>3
        <4> QED BY <4>1
      <3>4. CASE ~Sep(build, r[j])
        <4>1. FirstNames(build, r, j) # <<>>
          BY <2>1, <2>4, <3>2, <3>4 DEF WithCharacter
        <4> QED BY <4>1
      <3> QED
        BY <3>3, <3>4
    <2>6. CASE names # <<>>
      <3>1. FirstNames(build, r, j) # <<>>
        BY <2>1, <2>3, <2>4, <2>6 DEF WithCharacter
      <3> QED BY <3>1
    <2> QED
      BY <2>5, <2>6
  <1> HIDE DEF S
  <1>3. \A j \in 0 .. n : j \in S
    BY <1>0, <1>1, <1>2, UpTo
  <1>4. n \in S
    BY <1>3
  <1> QED
    BY <1>4 DEF S

(* No name goes on from the one text into the other. *)
Apart(build, u, v) == u = <<>> \/ v = <<>> \/ Sep(build, u[Len(u)])

NamesFollow(build, u, v) ==
  Paths!NamesIn(build, u \o v) = Paths!NamesIn(build, u) \o Paths!NamesIn(build, v)

LEMMA NamesJoined ==
  ASSUME NEW C, NEW build, NEW u \in Seq(C), NEW v \in Seq(C), Apart(build, u, v)
  PROVE  NamesFollow(build, u, v)
  <1> USE DEF Apart
  <1> DEFINE r == u \o v
             a == Len(u)
             b == Len(v)
             T == Seq(C)
             front == Paths!NamesIn(build, u)
             S == {j \in 0 .. b : FirstNames(build, r, a + j) = front \o FirstNames(build, v, j)}
  <1>1. /\ r \in Seq(C) /\ Len(r) = a + b /\ a \in Nat /\ b \in Nat
        /\ \A k \in 1 .. a : r[k] = u[k]
        /\ \A k \in 1 .. b : r[a + k] = v[k]
    <2>1. a \in Nat /\ b \in Nat
      OBVIOUS
    <2> QED BY <2>1, JoinIs
  <1>2. front \in Seq(T)
    <2>1. Len(u) \in 0 .. Len(u)
      OBVIOUS
    <2>2. FirstNames(build, u, Len(u)) \in Seq(Seq(C))
      BY <2>1, FirstTyped
    <2>3. Firsts(build, u)
      BY NamesStep
    <2> QED BY <2>2, <2>3 DEF Firsts
  <1>3. Firsts(build, r) /\ Firsts(build, v)
    BY <1>1, NamesStep
  <1>4. SubSeq(r, 1, a) = u
    <2> HIDE DEF r
    <2>1. SubSeq(r, 1, a) \in Seq(C) /\ Len(SubSeq(r, 1, a)) = a
          /\ \A k \in 1 .. a : SubSeq(r, 1, a)[k] = r[k]
      BY <1>1
    <2> QED BY <1>1, <2>1, SameSequences
  <1>5. FirstNames(build, r, a) = front
    BY <1>4 DEF FirstNames
  <1>6. \A j \in 0 .. b : FirstNames(build, v, j) \in Seq(T)
    BY FirstTyped
  <1>7. /\ FirstNames(build, r, a + b) = Paths!NamesIn(build, r)
        /\ FirstNames(build, v, b) = Paths!NamesIn(build, v)
    BY <1>1, <1>3 DEF Firsts
  <1> HIDE DEF r, front, a, b
  <1>8. 0 \in S
    <2>1. front \o <<>> = front
      BY <1>2
    <2>2. FirstNames(build, v, 0) = <<>> /\ a + 0 = a /\ 0 \in 0 .. b
      BY <1>1, <1>3 DEF Firsts
    <2> QED BY <1>5, <2>1, <2>2
  <1>9. ASSUME NEW j \in 1 .. b, j - 1 \in S
        PROVE  j \in S
    <2> DEFINE i == a + j
               names == FirstNames(build, v, j - 1)
    <2>1. i \in 1 .. Len(r) /\ i - 1 = a + (j - 1) /\ j \in 1 .. Len(v) /\ r[i] = v[j]
      BY <1>1 DEF b
    <2>2. FirstNames(build, r, i) = WithCharacter(build, r, i, front \o names)
      <3>1. FirstNames(build, r, i - 1) = front \o names
        BY <1>9, <2>1
      <3> HIDE DEF i, names
      <3> QED BY <1>3, <2>1, <3>1 DEF Firsts
    <2>3. FirstNames(build, v, j) = WithCharacter(build, v, j, names)
      BY <1>3, <2>1 DEF Firsts
    <2>4. names \in Seq(T)
      BY <1>1, <1>6
    <2>5. (i = 1 \/ Sep(build, r[i - 1])) <=> (j = 1 \/ Sep(build, v[j - 1]))
      <3>1. CASE j = 1
        <4>1. v # <<>>
          BY <3>1 DEF b
        <4>2. u = <<>> => a = 0
          BY DEF a
        <4>3. u # <<>> => r[a] = u[a] /\ i - 1 = a
          BY <1>1, <3>1, SMTT(60) DEF a
        <4> QED BY <3>1, <4>1, <4>2, <4>3 DEF a
      <3>2. CASE j # 1
        <4>1. r[i - 1] = v[j - 1] /\ i # 1
          BY <1>1, <3>2
        <4> QED BY <3>2, <4>1
      <3> QED BY <3>1, <3>2
    <2>6. \A x \in T : Append(front \o names, x) = front \o Append(names, x)
      <3> HIDE DEF names, T
      <3> TAKE x \in T
      <3>1. JoinsBefore(front, names, x)
        BY <1>2, <2>4, AppendJoined
      <3> QED BY <3>1 DEF JoinsBefore
    <2> HIDE DEF i, names
    <2>7. WithCharacter(build, r, i, front \o names) = front \o WithCharacter(build, v, j, names)
      <3>1. CASE Sep(build, v[j])
        BY <2>1, <3>1 DEF WithCharacter
      <3>2. CASE ~Sep(build, v[j]) /\ (j = 1 \/ Sep(build, v[j - 1]))
        <4>1. <<v[j]>> \in T
          BY <2>1
        <4>2. WithCharacter(build, r, i, front \o names) = Append(front \o names, <<v[j]>>)
          BY <2>1, <2>5, <3>2, Zenon DEF WithCharacter
        <4>3. WithCharacter(build, v, j, names) = Append(names, <<v[j]>>)
          BY <3>2, Zenon DEF WithCharacter
        <4> QED BY <2>6, <4>1, <4>2, <4>3
      <3>3. CASE ~Sep(build, v[j]) /\ ~(j = 1 \/ Sep(build, v[j - 1]))
        <4> DEFINE m == Len(names)
                   n == Len(front)
                   t == front \o names
                   longer == Append(names[m], v[j])
        <4>1. names # <<>>
          <5>1. j - 1 \in 0 .. Len(v) /\ j - 1 \in 1 .. j - 1
            BY <2>1, <3>3
          <5> QED BY <3>3, <5>1, SomeName DEF names
        <4>2. m \in Nat \ {0} /\ n \in Nat /\ Len(t) = n + m /\ t \in Seq(T)
          BY <1>2, <2>4, <4>1
        <4>3. t[n + m] = names[m] /\ names[m] \in T
          BY <1>2, <2>4, <4>1, <4>2, SMTT(60)
        <4>4. longer \in T
          BY <2>1, <4>3
        <4>5. [t EXCEPT ![Len(t)] = longer] = front \o [names EXCEPT ![m] = longer]
          <5> DEFINE before == SubSeq(names, 1, m - 1)
          <5> HIDE DEF T, longer
          <5>1. before \in Seq(T) /\ names = Append(before, names[m])
            BY <2>4, <4>1
          <5> HIDE DEF before
          <5>2. t = Append(front \o before, names[m]) /\ front \o before \in Seq(T)
            <6>1. front \o Append(before, names[m]) = Append(front \o before, names[m])
              <7>1. JoinsBefore(front, before, names[m])
                BY <1>2, <4>3, <5>1, AppendJoined
              <7> QED BY <7>1 DEF JoinsBefore
            <6>2. t = front \o Append(before, names[m])
              BY <5>1, Zenon
            <6>3. front \o before \in Seq(T)
              BY <1>2, <5>1, JoinIs
            <6> QED BY <6>1, <6>2, <6>3
          <5> HIDE DEF t
          <5>3. [t EXCEPT ![Len(t)] = longer] = Append(front \o before, longer)
            <6> DEFINE joined == front \o before
            <6> HIDE DEF joined
            <6>1. joined \in Seq(T) /\ t = Append(joined, names[m])
              BY <5>2 DEF joined
            <6>2. [t EXCEPT ![Len(t)] = longer] = Append(joined, longer)
              <7>1. EndsWith(t, joined, longer)
                BY <4>3, <4>4, <6>1, LastReplaced
              <7> QED BY <7>1 DEF EndsWith
            <6> QED BY <6>2 DEF joined
          <5>4. [names EXCEPT ![m] = longer] = Append(before, longer)
            <6>1. EndsWith(names, before, longer)
              BY <4>3, <4>4, <5>1, LastReplaced
            <6> QED BY <6>1 DEF EndsWith
          <5>5. front \o Append(before, longer) = Append(front \o before, longer)
            <6>1. JoinsBefore(front, before, longer)
              BY <1>2, <4>4, <5>1, AppendJoined
            <6> QED BY <6>1 DEF JoinsBefore
          <5> QED BY <5>3, <5>4, <5>5
        <4>6. WithCharacter(build, r, i, t) = [t EXCEPT ![Len(t)] = Append(@, r[i])]
          BY <2>1, <2>5, <3>3, Zenon DEF WithCharacter
        <4>7. WithCharacter(build, v, j, names) = [names EXCEPT ![m] = Append(@, v[j])]
          BY <3>3, Zenon DEF WithCharacter
        <4>8. [t EXCEPT ![Len(t)] = Append(@, r[i])] = [t EXCEPT ![Len(t)] = longer]
          BY <2>1, <4>2, <4>3
        <4>9. WithCharacter(build, r, i, t) = front \o WithCharacter(build, v, j, names)
          <5> HIDE DEF t, m
          <5>1. [names EXCEPT ![m] = Append(@, v[j])] = [names EXCEPT ![m] = longer]
            OBVIOUS
          <5> QED BY <4>5, <4>6, <4>7, <4>8, <5>1
        <4> QED BY <4>9
      <3> QED BY <3>1, <3>2, <3>3
    <2>8. FirstNames(build, r, i) = front \o FirstNames(build, v, j)
      BY <2>2, <2>3, <2>7
    <2>9. j \in 0 .. b
      BY <1>1
    <2> QED BY <2>8, <2>9 DEF i
  <1> HIDE DEF S
  <1>10. \A j \in 0 .. b : j \in S
    BY <1>1, <1>8, <1>9, UpTo
  <1>11. b \in S
    BY <1>1, <1>10
  <1> QED
    BY <1>7, <1>11 DEF S, r, front, NamesFollow

-----------------------------------------------------------------------------
(* The drive of a path, and what is behind it. *)
DriveLength(build, path) ==
  IF build.drives /\ Len(path) >= 2 /\ path[1] \in DOMAIN Lowercase /\ path[2] = ":" THEN 2 ELSE 0

LEMMA SizesAre ==
  /\ Paths!npos = SizeValues - 1
  /\ SizeValues \in Nat /\ SizeValues >= 16 /\ Paths!npos \in Nat /\ Paths!npos >= 15
  /\ \A x \in 0 .. 3 : \A n \in 0 .. 3 : Paths!Plus(x, n) = x + n
  /\ Paths!Plus(Paths!npos, 1) = 0
  /\ Paths!Plus(Paths!npos, 2) = 1
  /\ Paths!Plus(Paths!npos, 3) = 2
  <1>1. SizeValues \in Nat /\ SizeValues >= 16
    BY StringsAssumption
  <1>2. \A x \in 0 .. 6 : x % SizeValues = x
    BY <1>1, RemainderFacts
  <1>3. ASSUME NEW n \in 1 .. 3
        PROVE  ((SizeValues - 1) + n) % SizeValues = n - 1
    <2> DEFINE a == (SizeValues - 1) + n
               q == a \div SizeValues
               r == a % SizeValues
    <2>1. a \in Nat /\ a = SizeValues + (n - 1)
      BY <1>1
    <2> HIDE DEF a
    <2>2. a = SizeValues * q + r /\ r \in 0 .. SizeValues - 1 /\ q \in Int
      <3>1. a \in Int /\ SizeValues \in Nat \ {0}
        BY <1>1, <2>1
      <3>2. a = SizeValues * q + r
        BY <3>1, DivisionFacts
      <3>3. r \in 0 .. SizeValues - 1 /\ q \in Int
        BY <3>1, RemainderFacts
      <3> QED BY <3>2, <3>3
    <2> HIDE DEF q, r
    <2>3. q >= 2 => SizeValues * q >= 2 * SizeValues
      BY <1>1, <2>2
    <2>4. q <= 0 => SizeValues * q <= 0
      BY <1>1, <2>2
    <2>5. q = 1 => SizeValues * q = SizeValues
      BY <1>1
    <2>6. q = 1
      BY <1>1, <2>1, <2>2, <2>3, <2>4
    <2>7. r = n - 1
      BY <1>1, <2>1, <2>2, <2>5, <2>6
    <2> QED BY <2>7 DEF a, r
  <1>4. Paths!npos = SizeValues - 1
    BY DEF Paths!npos
  <1>5. \A x \in 0 .. 3 : \A n \in 0 .. 3 : Paths!Plus(x, n) = x + n
    BY <1>2 DEF Paths!Plus
  <1>6. \A n \in 1 .. 3 : Paths!Plus(Paths!npos, n) = n - 1
    BY <1>3, <1>4 DEF Paths!Plus
  <1> QED
    BY <1>1, <1>4, <1>5, <1>6
DriveIs(build, path) ==
  LET k == DriveLength(build, path)
      letter == Paths!FindDriveLetter(build, path)
  IN  /\ k \in {0, 2} /\ k <= Len(path) /\ Len(path) \in Nat
      /\ letter = (IF k = 0 THEN Paths!npos ELSE 1)
      /\ (letter = Paths!npos) <=> k = 0
      /\ Paths!Plus(letter, 1) = k /\ Paths!Plus(letter, 2) = k + 1 /\ Paths!Plus(letter, 3) = k + 2
      /\ Paths!Drive(build, path) = SubSeq(path, 1, k)
      /\ Paths!Rest(build, path) = SubSeq(path, k + 1, Len(path))
      /\ Paths!Drive(build, path) = <<>> <=> k = 0

LEMMA DrivesAre ==
  ASSUME NEW C, NEW build \in Paths!Builds, NEW path \in Seq(C)
  PROVE  DriveIs(build, path)
  <1> DEFINE k == DriveLength(build, path)
             letter == Paths!FindDriveLetter(build, path)
  <1>1. k \in {0, 2} /\ k <= Len(path) /\ Len(path) \in Nat
    BY DEF DriveLength
  <1>2. letter = (IF k = 0 THEN Paths!npos ELSE 1)
    <2>1. Paths!At(path, 0) = path[1] /\ Paths!At(path, 1) = path[2]
      BY DEF Paths!At
    <2> QED BY <2>1 DEF Paths!FindDriveLetter, DriveLength
  <1>3. (letter = Paths!npos) <=> k = 0
    BY <1>1, <1>2, SizesAre
  <1>4. Paths!Plus(letter, 1) = k /\ Paths!Plus(letter, 2) = k + 1 /\ Paths!Plus(letter, 3) = k + 2
    <2>1. CASE k = 0
      BY <1>2, <2>1, SizesAre
    <2>2. CASE k = 2
      <3>1. letter = 1 /\ 1 \in 0 .. 3 /\ 2 \in 0 .. 3 /\ 3 \in 0 .. 3
        BY <1>2, <2>2
      <3>2. Paths!Plus(1, 1) = 1 + 1 /\ Paths!Plus(1, 2) = 1 + 2 /\ Paths!Plus(1, 3) = 1 + 3
        BY <3>1, SizesAre
      <3> HIDE DEF letter, k
      <3> QED BY <2>2, <3>1, <3>2
    <2> QED BY <1>1, <2>1, <2>2
  <1>5. Paths!Drive(build, path) = SubSeq(path, 1, k) /\ Len(SubSeq(path, 1, k)) = k
    <2>1. SubSeq(path, 1, 0) = <<>>
      OBVIOUS
    <2> HIDE DEF k
    <2>2. Paths!Drive(build, path) = IF k = 0 THEN <<>> ELSE SubSeq(path, 1, 2)
      BY <1>3 DEF Paths!Drive, Paths!Resized
    <2>3. Len(SubSeq(path, 1, k)) = k
      BY <1>1
    <2> QED BY <1>1, <2>1, <2>2, <2>3
  <1>6. Paths!Rest(build, path) = SubSeq(path, k + 1, Len(path))
    <2> HIDE DEF k
    <2> QED BY <1>5 DEF Paths!Rest, Paths!From
  <1>7. Paths!Drive(build, path) = <<>> <=> k = 0
    <2> HIDE DEF k
    <2>1. k = 0 => SubSeq(path, 1, k) = <<>>
      OBVIOUS
    <2>2. k # 0 => SubSeq(path, 1, k) # <<>>
      BY <1>1, <1>5
    <2> QED BY <1>5, <2>1, <2>2
  <1> QED
    BY <1>1, <1>2, <1>3, <1>4, <1>5, <1>6, <1>7 DEF DriveIs

(* A path that is cut short behind its drive keeps it. *)
LEMMA DriveKept ==
  ASSUME NEW C, NEW build \in Paths!Builds, NEW path \in Seq(C),
         NEW n \in DriveLength(build, path) .. Len(path)
  PROVE  DriveLength(build, SubSeq(path, 1, n)) = DriveLength(build, path)
  <1> DEFINE u == SubSeq(path, 1, n)
  <1>1. n \in 0 .. Len(path)
    BY DEF DriveLength
  <1>2. Len(u) = n /\ \A i \in 1 .. n : u[i] = path[i]
    BY <1>1
  <1> HIDE DEF u
  <1>3. n >= 2 => u[1] = path[1] /\ u[2] = path[2] /\ Len(path) >= 2
    BY <1>1, <1>2
  <1>4. DriveLength(build, u) = DriveLength(build, path)
    <2>1. CASE n >= 2
      BY <1>2, <1>3, <2>1 DEF DriveLength
    <2>2. CASE ~(n >= 2)
      <3>1. DriveLength(build, path) # 2
        BY <1>1, <2>2
      <3> QED BY <1>2, <2>2, <3>1 DEF DriveLength
    <2> QED BY <2>1, <2>2
  <1> QED
    BY <1>4 DEF u

-----------------------------------------------------------------------------
(* What StripTrailingSeparators leaves of what is behind the drive. *)
TwoAlone(build, r) == Len(r) = 2 /\ Sep(build, r[1]) /\ Sep(build, r[2])

KeptLength(build, r) ==
  IF TwoAlone(build, r) THEN 2
  ELSE Max({i \in 0 .. Len(r) : i <= 1 \/ ~Sep(build, r[i])})

KeptIs(build, r, e) ==
  /\ e \in 0 .. Len(r) /\ Len(r) \in Nat
  /\ \A i \in e + 1 .. Len(r) : Sep(build, r[i])
  /\ Len(r) >= 1 => e >= 1
  /\ e >= 2 /\ ~TwoAlone(build, r) => ~Sep(build, r[e])
  /\ TwoAlone(build, r) => e = 2

LEMMA KeptAre ==
  ASSUME NEW C, NEW build, NEW r \in Seq(C)
  PROVE  KeptIs(build, r, KeptLength(build, r))
  <1> DEFINE m == Len(r)
             S == {i \in 0 .. m : i <= 1 \/ ~Sep(build, r[i])}
             e == KeptLength(build, r)
  <1>1. m \in Nat
    OBVIOUS
  <1>2. CASE TwoAlone(build, r)
    <2>1. e = 2 /\ m = 2
      BY <1>2 DEF KeptLength, TwoAlone
    <2> HIDE DEF e
    <2>2. \A i \in e + 1 .. m : Sep(build, r[i])
      BY <2>1
    <2>3. KeptIs(build, r, e)
      BY <1>2, <2>1, <2>2 DEF KeptIs
    <2> QED BY <2>3 DEF e
  <1>3. CASE ~TwoAlone(build, r)
    <2>1. 0 \in S /\ S \subseteq 0 .. m
      BY <1>1
    <2>2. e = Max(S)
      BY <1>3 DEF KeptLength
    <2>3. e \in S /\ \A i \in S : i <= e
      <3> HIDE DEF S, e
      <3> QED BY <1>1, <2>1, <2>2, GreatestNumber
    <2>4. m >= 1 => 1 \in S
      BY <1>1
    <2> HIDE DEF e
    <2>5. ASSUME NEW i \in e + 1 .. m
          PROVE  Sep(build, r[i])
      <3>1. i \in 0 .. m /\ ~(i <= e)
        BY <1>1, <2>3
      <3> QED BY <2>3, <3>1
    <2>6. m >= 1 => e >= 1
      BY <2>3, <2>4
    <2>7. KeptIs(build, r, e)
      BY <1>1, <1>3, <2>3, <2>5, <2>6 DEF KeptIs
    <2> QED BY <2>7 DEF e
  <1> QED
    BY <1>2, <1>3

LEMMA KeptUnique ==
  ASSUME NEW C, NEW build, NEW r \in Seq(C), NEW e, KeptIs(build, r, e)
  PROVE  KeptLength(build, r) = e
  <1> DEFINE m == Len(r)
             d == KeptLength(build, r)
  <1>1. KeptIs(build, r, d)
    BY KeptAre
  <1> HIDE DEF d
  <1>2. TwoAlone(build, r) => d = e
    BY <1>1 DEF KeptIs
  <1>3. ASSUME ~TwoAlone(build, r)
        PROVE  d = e
    <2>1. /\ e \in 0 .. m /\ d \in 0 .. m /\ m \in Nat
          /\ \A i \in e + 1 .. m : Sep(build, r[i])
          /\ \A i \in d + 1 .. m : Sep(build, r[i])
          /\ m >= 1 => e >= 1 /\ d >= 1
          /\ e >= 2 => ~Sep(build, r[e])
          /\ d >= 2 => ~Sep(build, r[d])
      BY <1>1, <1>3 DEF KeptIs
    <2>2. ~(e < d)
      <3>1. e < d => d \in e + 1 .. m /\ d >= 2
        BY <2>1
      <3> QED BY <2>1, <3>1
    <2>3. ~(d < e)
      <3>1. d < e => e \in d + 1 .. m /\ e >= 2
        BY <2>1
      <3> QED BY <2>1, <3>1
    <2>4. d = e
      BY <2>1, <2>2, <2>3
    <2> QED BY <2>4
  <1> QED
    BY <1>2, <1>3 DEF d

(* The rounds of the loop, as ways on from what it knows at its head. *)
Heads(path) == [pos : 0 .. Len(path), length : 0 .. Len(path), last : 0 .. Paths!npos]

StopsStripping(build, path, start, at) == at.pos <= start \/ ~Sep(build, Paths!At(path, at.pos - 1))

Strips(build, path, start, at) ==
  \/ at.pos # start + 1
  \/ at.last = start + 2
  \/ ~Sep(build, Paths!At(path, start - 1))

NextHead(build, path, start, at) ==
  IF Strips(build, path, start, at)
    THEN [pos |-> at.pos - 1, length |-> at.pos - 1, last |-> at.pos]
    ELSE [at EXCEPT !.pos = @ - 1]

StripRound(f, build, path, start, at) ==
  IF StopsStripping(build, path, start, at) THEN Paths!Resized(path, at.length)
  ELSE IF Strips(build, path, start, at)
    THEN f[[pos |-> at.pos - 1, length |-> at.pos - 1, last |-> at.pos]]
    ELSE f[[at EXCEPT !.pos = @ - 1]]

IsStripping(f, build, path, start) ==
  f = [at \in Heads(path) |-> StripRound(f, build, path, start, at)]

LEMMA HeadsFollow ==
  ASSUME NEW C, NEW build, NEW path \in Seq(C), Len(path) < SizeValues, NEW start \in Nat,
         NEW at \in Heads(path), ~StopsStripping(build, path, start, at)
  PROVE  /\ NextHead(build, path, start, at) \in Heads(path)
         /\ NextHead(build, path, start, at).pos < at.pos
  <1>1. at.pos \in 1 .. Len(path) /\ Len(path) \in Nat /\ at.length \in 0 .. Len(path)
        /\ at.last \in 0 .. Paths!npos
    <2>1. at.pos \in 0 .. Len(path) /\ at.length \in 0 .. Len(path) /\ at.last \in 0 .. Paths!npos
      BY DEF Heads
    <2> QED BY <2>1 DEF StopsStripping
  <1>2. at.pos \in 0 .. Paths!npos
    BY <1>1, SizesAre
  <1>3. at = [pos |-> at.pos, length |-> at.length, last |-> at.last]
    BY DEF Heads
  <1>4. [at EXCEPT !.pos = @ - 1] = [pos |-> at.pos - 1, length |-> at.length, last |-> at.last]
    BY <1>3
  <1>5. at.pos - 1 \in 0 .. Len(path) /\ at.pos - 1 < at.pos
    BY <1>1
  <1> QED
    BY <1>1, <1>2, <1>4, <1>5 DEF NextHead, Heads

LEMMA StrippingExists ==
  ASSUME NEW C, NEW build, NEW path \in Seq(C), Len(path) < SizeValues, NEW start \in Nat
  PROVE  \E f : IsStripping(f, build, path, start)
  <1> DEFINE D == Heads(path)
             S == {Paths!Resized(path, at.length) : at \in D}
             Ends == {at \in D : StopsStripping(build, path, start, at)}
             measure == [at \in D |-> at.pos]
             last == [at \in D |-> Paths!Resized(path, at.length)]
             next == [at \in D |-> NextHead(build, path, start, at)]
             bound == Len(path)
  <1>1. bound \in Nat
    OBVIOUS
  <1>2. \A at \in D : measure[at] \in 0 .. bound /\ last[at] \in S
    BY DEF Heads
  <1>3. \A at \in D : at \notin Ends => next[at] \in D /\ measure[next[at]] < measure[at]
    <2> TAKE at \in D
    <2> HAVE at \notin Ends
    <2>1. ~StopsStripping(build, path, start, at)
      OBVIOUS
    <2>2. NextHead(build, path, start, at) \in D /\ NextHead(build, path, start, at).pos < at.pos
      BY <2>1, HeadsFollow
    <2> QED BY <2>2
  <1>4. /\ \A at \in D : last[at] = Paths!Resized(path, at.length)
        /\ \A at \in D : next[at] = NextHead(build, path, start, at)
        /\ \A at \in D : at \in Ends <=> StopsStripping(build, path, start, at)
    OBVIOUS
  <1> HIDE DEF S, Ends, measure, last, next, bound
  <1>5. PICK f : Loop(f, D, S, Ends, last, next)
    <2>1. LoopEnds(D, S, Ends, bound, measure, last, next)
      BY <1>2, <1>3, Zenon DEF LoopEnds
    <2> HIDE DEF D
    <2> QED BY <1>1, <2>1, LoopExists
  <1>6. \A at \in D : f[at] = StripRound(f, build, path, start, at)
    <2> TAKE at \in D
    <2>1. f[at] = IF at \in Ends THEN last[at] ELSE f[next[at]]
      BY <1>5 DEF Loop
    <2>2. f[at] = IF StopsStripping(build, path, start, at) THEN Paths!Resized(path, at.length)
                  ELSE f[NextHead(build, path, start, at)]
      BY <1>4, <2>1, Zenon
    <2> QED BY <2>2, Zenon DEF NextHead, StripRound
  <1>7. f = [at \in D |-> StripRound(f, build, path, start, at)]
    BY <1>5, <1>6, Zenon DEF Loop
  <1> QED
    BY <1>7, Zenon DEF IsStripping
Behind(build, path) == SubSeq(path, DriveLength(build, path) + 1, Len(path))

BehindIs(build, path) ==
  LET k == DriveLength(build, path)
      r == Behind(build, path)
  IN  /\ Len(r) = Len(path) - k /\ Len(r) \in Nat
      /\ \A i \in 1 .. Len(r) : r[i] = path[k + i]

LEMMA BehindAre ==
  ASSUME NEW C, NEW build \in Paths!Builds, NEW path \in Seq(C)
  PROVE  Behind(build, path) \in Seq(C) /\ BehindIs(build, path)
  <1> DEFINE k == DriveLength(build, path)
             n == Len(path)
             r == SubSeq(path, k + 1, n)
  <1>1. k \in {0, 2} /\ k <= n /\ n \in Nat
    BY DrivesAre DEF DriveIs
  <1> HIDE DEF k
  <1>2. /\ r \in Seq(C) /\ Len(r) = n - (k + 1) + 1
        /\ \A i \in 1 .. n - (k + 1) + 1 : r[i] = path[(k + 1) + i - 1]
    <2>1. k + 1 \in Nat \ {0} /\ n \in 0 .. Len(path) /\ k + 1 <= n + 1
      BY <1>1
    <2> QED BY <2>1, PieceIs
  <1> HIDE DEF r, n
  <1>3. n - (k + 1) + 1 = n - k /\ n - k \in Nat
    BY <1>1
  <1>4. \A i \in 1 .. n - k : (k + 1) + i - 1 = k + i
    BY <1>1
  <1>5. r \in Seq(C) /\ Len(r) = n - k /\ n - k \in Nat /\ \A i \in 1 .. Len(r) : r[i] = path[k + i]
    BY <1>2, <1>3, <1>4
  <1> QED
    BY <1>5 DEF BehindIs, Behind, r, k, n

LEMMA StrippedIs ==
  ASSUME NEW C, NEW build \in Paths!Builds, NEW path \in Seq(C), Len(path) < SizeValues
  PROVE  Paths!StripTrailingSeparators(build, path)
           = SubSeq(path, 1, DriveLength(build, path) + KeptLength(build, Behind(build, path)))
  <1> DEFINE k == DriveLength(build, path)
             r == Behind(build, path)
             n == Len(path)
             m == Len(r)
             e == KeptLength(build, r)
             start == Paths!Plus(Paths!FindDriveLetter(build, path), 2)
             from == CHOOSE f : f = [at \in [pos : 0 .. Len(path), length : 0 .. Len(path), last : 0 .. Paths!npos] |->
               IF at.pos <= start \/ ~Paths!IsSeparator(build, Paths!At(path, at.pos - 1))
                 THEN Paths!Resized(path, at.length)
               ELSE IF \/ at.pos # start + 1
                       \/ at.last = start + 2
                       \/ ~Paths!IsSeparator(build, Paths!At(path, start - 1))
                 THEN f[[pos |-> at.pos - 1, length |-> at.pos - 1, last |-> at.pos]]
                 ELSE f[[at EXCEPT !.pos = @ - 1]]]
  <1>1. k \in {0, 2} /\ k <= n /\ n \in Nat /\ start = k + 1
    BY DrivesAre DEF DriveIs
  <1>2. r \in Seq(C) /\ m = n - k /\ m \in Nat /\ \A i \in 1 .. m : r[i] = path[k + i]
    BY BehindAre DEF BehindIs
  <1>3. KeptIs(build, r, e)
    BY <1>2, KeptAre
  <1>4. IsStripping(from, build, path, start)
    <2>1. start \in Nat
      BY <1>1
    <2> HIDE DEF start
    <2>2. \E f : IsStripping(f, build, path, start)
      BY <2>1, StrippingExists
    <2> QED BY <2>2, Zenon DEF IsStripping, StripRound, StopsStripping, Strips, Heads, Sep
  <1>5. Paths!StripTrailingSeparators(build, path)
          = from[[pos |-> Len(path), length |-> Len(path), last |-> Paths!npos]]
    BY Zenon DEF Paths!StripTrailingSeparators, Paths!Stripped
  <1> HIDE DEF from, start, e, r, k
  <1>6. \A at \in Heads(path) : from[at] = StripRound(from, build, path, k + 1, at)
    BY <1>1, <1>4, Zenon DEF IsStripping
  <1>7. /\ e \in 0 .. m
        /\ \A i \in e + 1 .. m : Sep(build, r[i])
        /\ m >= 1 => e >= 1
        /\ e >= 2 /\ ~TwoAlone(build, r) => ~Sep(build, r[e])
        /\ TwoAlone(build, r) => e = 2
    BY <1>3 DEF KeptIs
  <1> DEFINE at(q) == [pos |-> k + q, length |-> k + q, last |-> IF q = m THEN Paths!npos ELSE (k + q) + 1]
             S == {q \in 0 .. m : q >= e => from[at(q)] = Paths!Resized(path, k + e)}
  <1>8. n < SizeValues /\ Paths!npos = SizeValues - 1 /\ SizeValues \in Nat /\ SizeValues >= 16
    BY SizesAre
  <1>9. \A q \in 0 .. m : at(q) \in Heads(path)
    <2> TAKE q \in 0 .. m
    <2>1. k + q \in 0 .. n
      BY <1>1, <1>2
    <2>2. q # m => (k + q) + 1 \in 0 .. Paths!npos
      BY <1>1, <1>2, <1>8
    <2>3. Paths!npos \in 0 .. Paths!npos
      BY <1>8
    <2> QED BY <2>1, <2>2, <2>3 DEF Heads
  <1>10. \A q \in 1 .. m : Paths!At(path, (k + q) - 1) = r[q]
    <2> TAKE q \in 1 .. m
    <2>1. ((k + q) - 1) + 1 = k + q
      BY <1>1
    <2> QED BY <1>2, <2>1 DEF Paths!At
  <1>11. ASSUME NEW q \in 0 .. m, q = e
         PROVE  from[at(q)] = Paths!Resized(path, k + e)
    <2>1. at(q) \in Heads(path) /\ at(q).pos = k + q /\ at(q).length = k + q
      BY <1>9
    <2>2. CASE ~TwoAlone(build, r) \/ q <= 1
      <3>1. StopsStripping(build, path, k + 1, at(q))
        <4>1. q <= 1 => k + q <= k + 1
          BY <1>1
        <4>2. q >= 2 => ~Sep(build, Paths!At(path, (k + q) - 1))
          BY <1>7, <1>10, <1>11, <2>2
        <4> QED BY <2>1, <4>1, <4>2 DEF StopsStripping
      <3> HIDE DEF at
      <3>2. from[at(q)] = StripRound(from, build, path, k + 1, at(q))
        BY <1>6, <2>1
      <3> QED BY <1>11, <2>1, <3>1, <3>2 DEF StripRound
    <2>3. CASE TwoAlone(build, r)
      (* Nothing is stripped of two separators that stand alone. *)
      <3>1. m = 2 /\ q = 2 /\ Sep(build, r[1]) /\ Sep(build, r[2]) /\ n = k + 2
        <4>1. m = 2 /\ Sep(build, r[1]) /\ Sep(build, r[2])
          BY <2>3 DEF TwoAlone
        <4>2. q = 2
          BY <1>7, <1>11, <2>3
        <4> HIDE DEF m, n
        <4>3. n = k + 2
          BY <1>1, <1>2, <4>1
        <4> QED BY <4>1, <4>2, <4>3
      <3>2. at(q) = [pos |-> k + 2, length |-> k + 2, last |-> Paths!npos]
        BY <3>1
      <3>3. ~StopsStripping(build, path, k + 1, at(q))
        <4>1. Sep(build, Paths!At(path, (k + 2) - 1))
          BY <1>10, <3>1
        <4>2. ~(k + 2 <= k + 1)
          BY <1>1
        <4> QED BY <3>2, <4>1, <4>2 DEF StopsStripping
      <3>4. ~Strips(build, path, k + 1, at(q))
        <4>1. Sep(build, Paths!At(path, (k + 1) - 1))
          BY <1>10, <3>1
        <4>2. k + 2 = (k + 1) + 1 /\ Paths!npos # (k + 1) + 2
          BY <1>1, <1>8
        <4> QED BY <3>2, <4>1, <4>2 DEF Strips
      <3> DEFINE next == [pos |-> (k + 2) - 1, length |-> k + 2, last |-> Paths!npos]
      <3>5. [at(q) EXCEPT !.pos = @ - 1] = next
        BY <3>2
      <3>6. from[at(q)] = from[next]
        <4> HIDE DEF at, next
        <4>1. from[at(q)] = StripRound(from, build, path, k + 1, at(q))
          BY <1>6, <2>1
        <4>2. from[at(q)] = from[[at(q) EXCEPT !.pos = @ - 1]]
          BY <3>3, <3>4, <4>1, Zenon DEF StripRound
        <4> QED BY <3>5, <4>2
      <3>7. next \in Heads(path) /\ StopsStripping(build, path, k + 1, next) /\ next.length = k + 2
        <4>1. (k + 2) - 1 \in 0 .. n /\ (k + 2) - 1 <= k + 1 /\ k + 2 \in 0 .. n
          BY <1>1, <3>1
        <4>2. Paths!npos \in 0 .. Paths!npos
          BY <1>8
        <4> QED BY <4>1, <4>2 DEF Heads, StopsStripping
      <3> HIDE DEF next, at
      <3>8. from[next] = StripRound(from, build, path, k + 1, next)
        BY <1>6, <3>7
      <3>9. from[next] = Paths!Resized(path, k + 2)
        BY <3>7, <3>8 DEF StripRound
      <3> QED BY <1>11, <3>1, <3>6, <3>9
    <2> QED BY <2>2, <2>3
  <1>12. 0 \in S
    <2>1. 0 \in 0 .. m
      BY <1>2
    <2>2. 0 >= e => 0 = e
      BY <1>7
    <2> HIDE DEF at
    <2> QED BY <1>11, <2>1, <2>2
  <1>13. ASSUME NEW q \in 1 .. m, q - 1 \in S
         PROVE  q \in S
    <2>1. CASE q < e
      BY <2>1, <1>7
    <2>2. CASE q = e
      BY <1>11, <2>2
    <2>3. CASE q > e
      <3>1. q - 1 \in 0 .. m /\ q - 1 >= e /\ q \in 0 .. m
        BY <1>7, <2>3
      <3>2. from[at(q - 1)] = Paths!Resized(path, k + e)
        <4> HIDE DEF at
        <4> QED BY <1>13, <3>1
      <3>3. Sep(build, r[q]) /\ q >= 2 /\ e >= 1 /\ ~TwoAlone(build, r)
        <4>1. q \in e + 1 .. m /\ m >= 1
          BY <1>7, <2>3
        <4>2. TwoAlone(build, r) => m = 2 /\ e = 2
          BY <1>7 DEF TwoAlone
        <4> QED BY <1>7, <2>3, <4>1, <4>2
      <3>4. ~StopsStripping(build, path, k + 1, at(q))
        <4>1. ~(k + q <= k + 1)
          BY <1>1, <3>3
        <4> QED BY <1>10, <3>3, <4>1 DEF StopsStripping
      <3>5. Strips(build, path, k + 1, at(q))
        <4>1. CASE q # 2
          <5>1. k + q # (k + 1) + 1
            BY <1>1, <4>1
          <5> QED BY <5>1 DEF Strips
        <4>2. CASE q = 2 /\ m = 2
          <5>1. ~Sep(build, r[1])
            BY <3>3, <4>2 DEF TwoAlone
          <5>2. Paths!At(path, (k + 1) - 1) = r[1]
            BY <1>10, <4>2
          <5> QED BY <5>1, <5>2 DEF Strips
        <4>3. CASE q = 2 /\ m # 2
          <5>1. (k + q) + 1 = (k + 1) + 2
            BY <1>1, <4>3
          <5> QED BY <4>3, <5>1 DEF Strips
        <4> QED BY <4>1, <4>2, <4>3
      <3>6. [pos |-> at(q).pos - 1, length |-> at(q).pos - 1, last |-> at(q).pos] = at(q - 1)
        <4>1. (k + q) - 1 = k + (q - 1) /\ (k + (q - 1)) + 1 = k + q /\ q - 1 # m
          BY <1>1
        <4> QED BY <4>1
      <3>7. at(q) \in Heads(path)
        BY <1>9, <3>1
      <3> HIDE DEF at
      <3>8. from[at(q)] = StripRound(from, build, path, k + 1, at(q))
        BY <1>6, <3>7
      <3>9. from[at(q)] = from[[pos |-> at(q).pos - 1, length |-> at(q).pos - 1, last |-> at(q).pos]]
        BY <3>4, <3>5, <3>8, Zenon DEF StripRound
      <3> QED BY <3>1, <3>2, <3>6, <3>9
    <2> QED BY <1>7, <2>1, <2>2, <2>3
  <1>14. m \in S
    <2> HIDE DEF S
    <2>1. \A q \in 0 .. m : q \in S
      BY <1>2, <1>12, <1>13, UpTo
    <2> QED BY <1>2, <2>1
  <1>15. at(m) = [pos |-> Len(path), length |-> Len(path), last |-> Paths!npos]
    <2>1. k + m = Len(path)
      BY <1>1, <1>2
    <2> QED BY <2>1
  <1>16. from[at(m)] = Paths!Resized(path, k + e)
    <2> HIDE DEF at
    <2> QED BY <1>7, <1>14
  <1>17. Paths!StripTrailingSeparators(build, path) = Paths!Resized(path, k + e)
    <2> HIDE DEF at
    <2> QED BY <1>5, <1>15, <1>16
  <1> QED
    BY <1>17 DEF Paths!Resized, k, e, r

-----------------------------------------------------------------------------
(* Where DirName and BaseName cut.                                         *)

LEMMA CutTwice ==
  ASSUME NEW C, NEW s \in Seq(C), NEW a \in 0 .. Len(s), NEW b \in 0 .. a
  PROVE  SubSeq(SubSeq(s, 1, a), 1, b) = SubSeq(s, 1, b)
  <1> DEFINE u == SubSeq(s, 1, a)
             v == SubSeq(u, 1, b)
             w == SubSeq(s, 1, b)
  <1>1. Len(s) \in Nat /\ a \in Nat /\ b \in Nat /\ b <= a /\ a <= Len(s)
    OBVIOUS
  <1>2. u \in Seq(C) /\ Len(u) = a /\ \A i \in 1 .. a : u[i] = s[i]
    BY <1>1
  <1>3. w \in Seq(C) /\ Len(w) = b /\ \A i \in 1 .. b : w[i] = s[i]
    BY <1>1
  <1> HIDE DEF u, w
  <1>4. v \in Seq(C) /\ Len(v) = b /\ \A i \in 1 .. b : v[i] = u[i]
    BY <1>1, <1>2
  <1> HIDE DEF v
  <1>5. \A i \in 1 .. b : v[i] = w[i]
    BY <1>1, <1>2, <1>3, <1>4
  <1>6. v = w
    BY <1>3, <1>4, <1>5, SameSequences
  <1> QED
    BY <1>6 DEF u, v, w

LEMMA CutShort ==
  ASSUME NEW C, NEW build \in Paths!Builds, NEW path \in Seq(C),
         NEW n \in 0 .. Len(Behind(build, path))
  PROVE  LET u == SubSeq(path, 1, DriveLength(build, path) + n)
         IN  /\ u \in Seq(C) /\ Len(u) = DriveLength(build, path) + n /\ Len(u) <= Len(path)
             /\ DriveLength(build, u) = DriveLength(build, path)
             /\ Behind(build, u) = SubSeq(Behind(build, path), 1, n)
  <1> DEFINE k == DriveLength(build, path)
             r == Behind(build, path)
             u == SubSeq(path, 1, k + n)
             v == Behind(build, u)
             w == SubSeq(r, 1, n)
  <1>1. k \in {0, 2} /\ k <= Len(path) /\ Len(path) \in Nat
    BY DrivesAre DEF DriveIs
  <1>2. /\ r \in Seq(C) /\ Len(r) = Len(path) - k /\ Len(r) \in Nat
        /\ \A i \in 1 .. Len(r) : r[i] = path[k + i]
    BY BehindAre DEF BehindIs
  <1>3. n \in 0 .. Len(r)
    OBVIOUS
  <1> HIDE DEF k, r
  <1>4. k + n \in k .. Len(path) /\ k + n \in 0 .. Len(path) /\ n \in Nat
    BY <1>1, <1>2, <1>3
  <1>5. u \in Seq(C) /\ Len(u) = k + n /\ \A i \in 1 .. k + n : u[i] = path[i]
    BY <1>4
  <1>6. DriveLength(build, u) = k
    BY <1>4, DriveKept DEF k
  <1> HIDE DEF u
  <1>7. v \in Seq(C) /\ Len(v) = n /\ \A i \in 1 .. n : v[i] = u[k + i]
    <2>1. v \in Seq(C) /\ BehindIs(build, u)
      BY <1>5, BehindAre
    <2>2. Len(v) = (k + n) - k /\ \A i \in 1 .. Len(v) : v[i] = u[k + i]
      BY <1>5, <1>6, <2>1 DEF BehindIs
    <2>3. (k + n) - k = n
      BY <1>1, <1>4
    <2> QED BY <2>1, <2>2, <2>3
  <1>8. w \in Seq(C) /\ Len(w) = n /\ \A i \in 1 .. n : w[i] = r[i]
    BY <1>2, <1>3
  <1> HIDE DEF v, w
  <1>9. \A i \in 1 .. n : v[i] = w[i]
    <2> TAKE i \in 1 .. n
    <2>1. i \in 1 .. Len(r) /\ k + i \in 1 .. k + n
      BY <1>1, <1>2, <1>3
    <2> QED BY <1>2, <1>5, <1>7, <1>8, <2>1
  <1>10. v = w
    BY <1>7, <1>8, <1>9, SameSequences
  <1> QED
    BY <1>4, <1>5, <1>6, <1>10 DEF u, v, w, k, r

LastSep(build, r) == Max({i \in 0 .. Len(r) : i = 0 \/ Sep(build, r[i])})

LastSepIs(build, r, b) ==
  /\ b \in 0 .. Len(r) /\ Len(r) \in Nat
  /\ b = 0 \/ Sep(build, r[b])
  /\ \A i \in b + 1 .. Len(r) : ~Sep(build, r[i])

LEMMA LastSepAre ==
  ASSUME NEW C, NEW build, NEW r \in Seq(C)
  PROVE  LastSepIs(build, r, LastSep(build, r))
  <1> DEFINE m == Len(r)
             S == {i \in 0 .. m : i = 0 \/ Sep(build, r[i])}
             b == LastSep(build, r)
  <1>1. m \in Nat /\ 0 \in S /\ S \subseteq 0 .. m
    OBVIOUS
  <1>2. b = Max(S)
    BY DEF LastSep
  <1> HIDE DEF b
  <1>3. b \in S /\ \A i \in S : i <= b
    <2> HIDE DEF S
    <2> QED BY <1>1, <1>2, GreatestNumber
  <1>4. \A i \in b + 1 .. m : ~Sep(build, r[i])
    <2> TAKE i \in b + 1 .. m
    <2>1. i \in 0 .. m /\ ~(i <= b)
      BY <1>1, <1>3
    <2> QED BY <1>3, <2>1
  <1>5. LastSepIs(build, r, b)
    BY <1>1, <1>3, <1>4 DEF LastSepIs
  <1> QED
    BY <1>5 DEF b

LEMMA LastSepUnique ==
  ASSUME NEW C, NEW build, NEW r \in Seq(C), NEW b, LastSepIs(build, r, b)
  PROVE  LastSep(build, r) = b
  <1> DEFINE c == LastSep(build, r)
  <1>1. LastSepIs(build, r, c)
    BY LastSepAre
  <1> HIDE DEF c
  <1>2. ~(c < b) /\ ~(b < c)
    <2>1. c < b => b \in c + 1 .. Len(r) /\ b # 0
      BY <1>1 DEF LastSepIs
    <2>2. b < c => c \in b + 1 .. Len(r) /\ c # 0
      BY <1>1 DEF LastSepIs
    <2> QED BY <1>1, <2>1, <2>2 DEF LastSepIs
  <1>3. c = b
    BY <1>1, <1>2 DEF LastSepIs
  <1> QED
    BY <1>3 DEF c

(* find_last_of *)
LEMMA LastSeparatorIs ==
  ASSUME NEW C, NEW build, NEW r \in Seq(C)
  PROVE  Paths!FindLastSeparator(build, r) =
           IF LastSep(build, r) = 0 THEN Paths!npos ELSE LastSep(build, r) - 1
  <1> DEFINE found == {i \in DOMAIN r : Sep(build, r[i])}
             b == LastSep(build, r)
  <1>1. Paths!FindLastSeparator(build, r) = IF found = {} THEN Paths!npos ELSE Max(found) - 1
    <2>1. Paths!Max(found) = Max(found)
      BY Zenon DEF Paths!Max, Max
    <2>2. Paths!FindLastSeparator(build, r) = IF found = {} THEN Paths!npos ELSE Paths!Max(found) - 1
      BY Zenon DEF Paths!FindLastSeparator, Paths!LastPosition, Sep, Paths!IsSeparator
    <2> QED BY <2>1, <2>2
  <1>2. LastSepIs(build, r, b)
    BY LastSepAre
  <1> HIDE DEF b
  <1>3. found \subseteq 0 .. Len(r) /\ Len(r) \in Nat
    OBVIOUS
  <1>4. b = 0 => found = {}
    BY <1>2 DEF LastSepIs
  <1>5. b # 0 => b \in found /\ \A i \in found : i <= b
    <2> HAVE b # 0
    <2>1. b \in found
      BY <1>2 DEF LastSepIs
    <2>2. ASSUME NEW i \in found
          PROVE  i <= b
      <3>1. i \in 1 .. Len(r) /\ Sep(build, r[i])
        OBVIOUS
      <3> QED BY <1>2, <3>1 DEF LastSepIs
    <2> QED BY <2>1, <2>2
  <1> HIDE DEF found
  <1>6. b # 0 => Max(found) = b
    <2> HAVE b # 0
    <2> QED BY <1>3, <1>5, GreatestIs
  <1>7. b # 0 => found # {}
    BY <1>5
  <1>8. Paths!FindLastSeparator(build, r) = IF b = 0 THEN Paths!npos ELSE b - 1
    BY <1>1, <1>4, <1>6, <1>7
  <1> QED
    BY <1>8 DEF b

(* Separators are no letters, colons or dots. *)
LEMMA SeparatorsAre ==
  ASSUME NEW build \in Paths!Builds, NEW c
  PROVE  /\ Sep(build, c) <=> c = "/" \/ (c = "\\" /\ build.drives)
         /\ Sep(build, c) => c \notin DOMAIN Lowercase /\ c # ":" /\ c # "."
         /\ Sep(build, build.separators[1])
  <1>1. build = Paths!Posix \/ build = Paths!Windows
    BY DEF Paths!Builds
  <1>2. CASE build = Paths!Posix
    <2>1. build.separators = <<"/">> /\ build.drives = FALSE
      BY <1>2 DEF Paths!Posix
    <2>2. Paths!ToSet(build.separators) = {"/"}
      BY <2>1 DEF Paths!ToSet
    <2>3. DOMAIN Lowercase = {"c", "C"}
      BY DEF Lowercase
    <2> QED BY <2>1, <2>2, <2>3 DEF Sep, Paths!IsSeparator
  <1>3. CASE build = Paths!Windows
    <2>1. build.separators = <<"\\", "/">> /\ build.drives = TRUE
      BY <1>3 DEF Paths!Windows
    <2>2. Paths!ToSet(build.separators) = {"\\", "/"}
      <3>1. DOMAIN <<"\\", "/">> = {1, 2} /\ <<"\\", "/">>[1] = "\\" /\ <<"\\", "/">>[2] = "/"
        OBVIOUS
      <3> QED BY <2>1, <3>1 DEF Paths!ToSet
    <2>3. DOMAIN Lowercase = {"c", "C"}
      BY DEF Lowercase
    <2> QED BY <2>1, <2>2, <2>3 DEF Sep, Paths!IsSeparator
  <1> QED
    BY <1>1, <1>2, <1>3

BaseAt(build, r) == LastSep(build, SubSeq(r, 1, KeptLength(build, r)))

DirAt(build, r) ==
  LET b == BaseAt(build, r)
  IN  IF b = 0 THEN 0
      ELSE IF b = 1 THEN 1
      ELSE IF b = 2 /\ Sep(build, r[1]) THEN 2
      ELSE b - 1

DirKept(build, r) == KeptLength(build, SubSeq(r, 1, DirAt(build, r)))

PartsAre(build, r) ==
  LET e == KeptLength(build, r)
      b == BaseAt(build, r)
      t == DirAt(build, r)
      g == DirKept(build, r)
  IN  /\ Len(r) \in Nat /\ e \in 0 .. Len(r) /\ b \in 0 .. e /\ t \in 0 .. b /\ g \in 0 .. t
      /\ \A i \in e + 1 .. Len(r) : Sep(build, r[i])
      /\ e = 0 => Len(r) = 0
      /\ e >= 2 /\ ~TwoAlone(build, r) => ~Sep(build, r[e])
      /\ TwoAlone(build, r) => e = 2
      /\ b # 0 => Sep(build, r[b])
      /\ \A i \in b + 1 .. e : ~Sep(build, r[i])
      /\ \A i \in t + 1 .. b : Sep(build, r[i])
      /\ b # 0 => t # 0
      /\ t # 0 => g # 0
      /\ \A i \in g + 1 .. t : Sep(build, r[i])
      /\ g >= 2 => ~Sep(build, r[g]) \/ (t = 2 /\ g = 2 /\ Sep(build, r[1]) /\ Sep(build, r[2]))
      /\ t = 2 /\ Sep(build, r[1]) /\ Sep(build, r[2]) => g = 2
      /\ t = IF b = 0 THEN 0 ELSE IF b = 1 THEN 1 ELSE IF b = 2 /\ Sep(build, r[1]) THEN 2 ELSE b - 1

LEMMA PathParts ==
  ASSUME NEW C, NEW build, NEW r \in Seq(C)
  PROVE  PartsAre(build, r)
  <1> DEFINE m == Len(r)
             e == KeptLength(build, r)
             w == SubSeq(r, 1, e)
             b == BaseAt(build, r)
             t == DirAt(build, r)
             d == SubSeq(r, 1, t)
             g == DirKept(build, r)
  <1>1. KeptIs(build, r, e)
    BY KeptAre
  <1>2. e \in 0 .. m /\ m \in Nat
    BY <1>1 DEF KeptIs
  <1> HIDE DEF e
  <1>3. w \in Seq(C) /\ Len(w) = e /\ \A i \in 1 .. e : w[i] = r[i]
    BY <1>2
  <1>4. LastSepIs(build, w, b)
    <2> HIDE DEF w
    <2>1. LastSepIs(build, w, LastSep(build, w))
      BY <1>3, LastSepAre
    <2> QED BY <2>1 DEF BaseAt, w, e
  <1> HIDE DEF b, w
  <1>5. /\ b \in 0 .. e
        /\ b # 0 => Sep(build, r[b])
        /\ \A i \in b + 1 .. e : ~Sep(build, r[i])
    BY <1>2, <1>3, <1>4 DEF LastSepIs
  <1>6. t = IF b = 0 THEN 0 ELSE IF b = 1 THEN 1 ELSE IF b = 2 /\ Sep(build, r[1]) THEN 2 ELSE b - 1
    BY DEF DirAt, b
  <1> HIDE DEF t
  <1>7. t \in 0 .. b /\ (b # 0 => t # 0) /\ \A i \in t + 1 .. b : Sep(build, r[i])
    <2>1. t \in 0 .. b /\ (b # 0 => t # 0)
      BY <1>2, <1>5, <1>6
    <2>2. ASSUME NEW i \in t + 1 .. b
          PROVE  Sep(build, r[i])
      <3>1. i = b /\ b # 0
        BY <1>2, <1>5, <1>6
      <3> QED BY <1>5, <3>1
    <2> QED BY <2>1, <2>2
  <1>8. t \in 0 .. m
    BY <1>2, <1>5, <1>7
  <1>9. d \in Seq(C) /\ Len(d) = t /\ \A i \in 1 .. t : d[i] = r[i]
    BY <1>8
  <1> HIDE DEF d
  <1>10. KeptIs(build, d, g)
    <2>1. KeptIs(build, d, KeptLength(build, d))
      BY <1>9, KeptAre
    <2> QED BY <2>1 DEF DirKept, d, t
  <1> HIDE DEF g
  <1>11. /\ g \in 0 .. t
         /\ t # 0 => g # 0
         /\ \A i \in g + 1 .. t : Sep(build, r[i])
    BY <1>8, <1>9, <1>10 DEF KeptIs
  <1>12. TwoAlone(build, d) <=> t = 2 /\ Sep(build, r[1]) /\ Sep(build, r[2])
    BY <1>9 DEF TwoAlone
  <1>14. /\ g >= 2 => ~Sep(build, r[g]) \/ (t = 2 /\ g = 2 /\ Sep(build, r[1]) /\ Sep(build, r[2]))
         /\ t = 2 /\ Sep(build, r[1]) /\ Sep(build, r[2]) => g = 2
    <2>1. TwoAlone(build, d) => g = 2
      BY <1>10 DEF KeptIs
    <2>2. g >= 2 /\ ~TwoAlone(build, d) => ~Sep(build, d[g])
      BY <1>10 DEF KeptIs
    <2>3. g >= 2 => d[g] = r[g]
      BY <1>8, <1>9, <1>11
    <2> QED BY <1>12, <2>1, <2>2, <2>3
  <1>15. /\ \A i \in e + 1 .. m : Sep(build, r[i])
         /\ e = 0 => m = 0
         /\ e >= 2 /\ ~TwoAlone(build, r) => ~Sep(build, r[e])
         /\ TwoAlone(build, r) => e = 2
    BY <1>1, <1>2 DEF KeptIs
  <1> HIDE DEF m
  <1> QED
    BY <1>2, <1>5, <1>6, <1>7, <1>11, <1>14, <1>15, Zenon DEF PartsAre, e, b, t, g, m
DirLength(build, stripped) ==
  LET letter == Paths!FindDriveLetter(build, stripped)
      last == Paths!FindLastSeparator(build, stripped)
  IN  IF last = Paths!npos THEN Paths!Plus(letter, 1)
      ELSE IF last = Paths!Plus(letter, 1) THEN Paths!Plus(letter, 2)
      ELSE IF /\ last = Paths!Plus(letter, 2)
              /\ Paths!IsSeparator(build, Paths!At(stripped, Paths!Plus(letter, 1)))
        THEN Paths!Plus(letter, 3)
      ELSE last

DirOf(build, stripped) ==
  Paths!StripTrailingSeparators(build, SubSeq(stripped, 1, DirLength(build, stripped)))

LEMMA DirNameIs ==
  ASSUME NEW C, NEW build \in Paths!Builds, NEW path \in Seq(C), Len(path) < SizeValues
  PROVE  LET k == DriveLength(build, path)
             g == DirKept(build, Behind(build, path))
         IN  Paths!DirName(build, path) = IF k + g = 0 THEN <<".">> ELSE SubSeq(path, 1, k + g)
  <1> DEFINE k == DriveLength(build, path)
             r == Behind(build, path)
             e == KeptLength(build, r)
             w == SubSeq(r, 1, e)
             b == BaseAt(build, r)
             t == DirAt(build, r)
             g == DirKept(build, r)
             q == SubSeq(path, 1, k + e)
             letter == Paths!FindDriveLetter(build, q)
             last == Paths!FindLastSeparator(build, q)
             length == DirLength(build, q)
             u == SubSeq(q, 1, length)
             dir == Paths!StripTrailingSeparators(build, u)
  <1>1. Paths!StripTrailingSeparators(build, path) = q
    BY StrippedIs
  <1>2. Paths!DirName(build, path) = IF dir = <<>> THEN <<".">> ELSE dir
    <2>1. Paths!DirName(build, path) =
            LET stripped == Paths!StripTrailingSeparators(build, path)
            IN  IF DirOf(build, stripped) = <<>> THEN <<".">> ELSE DirOf(build, stripped)
      BY Zenon DEF Paths!DirName, Paths!Resized, Paths!Dot, DirOf, DirLength
    <2>2. dir = DirOf(build, q)
      BY Zenon DEF DirOf
    <2> HIDE DEF dir, q
    <2> QED BY <1>1, <2>1, <2>2
  <1>3. PartsAre(build, r) /\ r \in Seq(C)
    <2>1. r \in Seq(C)
      BY BehindAre
    <2> QED BY <2>1, PathParts
  <1>4. /\ Len(r) \in Nat /\ e \in 0 .. Len(r) /\ b \in 0 .. e /\ t \in 0 .. b /\ g \in 0 .. t
        /\ t = IF b = 0 THEN 0 ELSE IF b = 1 THEN 1 ELSE IF b = 2 /\ Sep(build, r[1]) THEN 2 ELSE b - 1
    BY <1>3, Zenon DEF PartsAre
  <1>5. k \in {0, 2} /\ k <= Len(path) /\ Len(path) \in Nat
    BY DrivesAre DEF DriveIs
  <1>6. Len(r) = Len(path) - k /\ \A i \in 1 .. Len(r) : r[i] = path[k + i]
    BY BehindAre DEF BehindIs
  <1>7. /\ q \in Seq(C) /\ Len(q) = k + e /\ Len(q) <= Len(path)
        /\ DriveLength(build, q) = k /\ Behind(build, q) = w
    <2>1. e \in 0 .. Len(Behind(build, path))
      BY <1>4
    <2> HIDE DEF e
    <2> QED BY <2>1, CutShort, Zenon DEF w
  <1>8. /\ letter = (IF k = 0 THEN Paths!npos ELSE 1)
        /\ Paths!Plus(letter, 1) = k /\ Paths!Plus(letter, 2) = k + 1 /\ Paths!Plus(letter, 3) = k + 2
    <2> HIDE DEF q, k
    <2>1. DriveIs(build, q)
      BY <1>7, DrivesAre
    <2> QED BY <1>7, <2>1 DEF DriveIs
  <1>9a. length =
           IF last = Paths!npos THEN Paths!Plus(letter, 1)
           ELSE IF last = Paths!Plus(letter, 1) THEN Paths!Plus(letter, 2)
           ELSE IF /\ last = Paths!Plus(letter, 2)
                   /\ Paths!IsSeparator(build, Paths!At(q, Paths!Plus(letter, 1)))
             THEN Paths!Plus(letter, 3)
           ELSE last
    BY Zenon DEF DirLength
  <1> HIDE DEF letter, length
  <1>9. \A i \in 1 .. k : ~Sep(build, q[i])
    <2>1. k = 2 => path[1] \in DOMAIN Lowercase /\ path[2] = ":"
      BY DEF DriveLength
    <2>2. \A i \in 1 .. k : q[i] = path[i]
      BY <1>4, <1>5, <1>6
    <2>3. k = 2 => ~Sep(build, path[1]) /\ ~Sep(build, path[2])
      <3> HIDE DEF k
      <3> QED BY <2>1, SeparatorsAre
    <2> HIDE DEF k, q
    <2>4. \A i \in 1 .. k : k = 2 /\ (i = 1 \/ i = 2)
      BY <1>5
    <2> QED BY <2>2, <2>3, <2>4
  <1>10. w \in Seq(C) /\ Len(w) = e /\ \A i \in 1 .. e : w[i] = r[i] /\ q[k + i] = r[i]
    <2>1. w \in Seq(C) /\ Len(w) = e /\ \A i \in 1 .. e : w[i] = r[i]
      <3> HIDE DEF e, r
      <3> QED BY <1>3, <1>4
    <2>2. \A i \in 1 .. e : q[k + i] = path[k + i]
      <3> HIDE DEF e, r, k
      <3> QED BY <1>4, <1>5, <1>6
    <2>3. \A i \in 1 .. e : i \in 1 .. Len(r)
      BY <1>4
    <2> QED BY <1>6, <2>1, <2>2, <2>3
  <1>11. LastSepIs(build, w, b)
    <2> HIDE DEF w
    <2>1. LastSepIs(build, w, LastSep(build, w))
      BY <1>10, LastSepAre
    <2> QED BY <2>1 DEF BaseAt, w, e
  <1> HIDE DEF k, r, e, w, b, t, g, q
  <1>12. LastSep(build, q) = IF b = 0 THEN 0 ELSE k + b
    <2> DEFINE c == IF b = 0 THEN 0 ELSE k + b
    <2>1. c \in 0 .. Len(q) /\ (c = 0 \/ Sep(build, q[c]))
      BY <1>4, <1>5, <1>7, <1>10, <1>11 DEF LastSepIs
    <2>2. ASSUME NEW i \in c + 1 .. Len(q)
          PROVE  ~Sep(build, q[i])
      <3>1. CASE i \in 1 .. k
        BY <1>9, <3>1
      <3>2. CASE i > k
        <4> DEFINE j == i - k
        <4>1. j \in b + 1 .. e /\ j \in 1 .. e /\ i = k + j
          BY <1>4, <1>5, <1>7, <3>2
        <4> HIDE DEF j
        <4> QED BY <1>10, <1>11, <4>1 DEF LastSepIs
      <3> QED BY <1>4, <1>5, <1>7, <3>1, <3>2
    <2>3. LastSepIs(build, q, c)
      BY <1>7, <2>1, <2>2 DEF LastSepIs
    <2> HIDE DEF c
    <2>4. LastSep(build, q) = c
      BY <1>7, <2>3, LastSepUnique
    <2> QED BY <2>4 DEF c
  <1>13. last = IF b = 0 THEN Paths!npos ELSE (k + b) - 1
    <2>1. last = IF LastSep(build, q) = 0 THEN Paths!npos ELSE LastSep(build, q) - 1
      BY <1>7, LastSeparatorIs
    <2>2. b # 0 => k + b # 0
      BY <1>4, <1>5
    <2> QED BY <1>12, <2>1, <2>2
  <1> HIDE DEF last
  <1>14. length = k + t
    <2>1. CASE b = 0
      BY <1>4, <1>5, <1>8, <1>9a, <1>13, <2>1
    <2>2. CASE b # 0
      <3>1. last = (k + b) - 1 /\ last # Paths!npos /\ b >= 1
        BY <1>4, <1>5, <1>6, <1>13, <2>2, SizesAre
      <3>2. b = 1 => length = k + 1
        BY <1>5, <1>8, <1>9a, <3>1
      <3>3. b # 1 => last # k
        BY <1>4, <1>5, <3>1
      <3>4. last = k + 1 <=> b = 2
        BY <1>4, <1>5, <3>1
      <3>5. b = 2 => Paths!At(q, Paths!Plus(letter, 1)) = r[1]
        <4> HAVE b = 2
        <4>1. 1 \in 1 .. e
          BY <1>4
        <4> QED BY <1>8, <1>10, <4>1 DEF Paths!At
      <3>6. b # 1 => length = IF b = 2 /\ Sep(build, r[1]) THEN k + 2 ELSE last
        BY <1>8, <1>9a, <3>1, <3>3, <3>4, <3>5 DEF Sep
      <3> QED BY <1>4, <1>5, <2>2, <3>1, <3>2, <3>6
    <2> QED BY <2>1, <2>2
  <1>15. u = SubSeq(path, 1, k + t)
    <2>1. k + e \in 0 .. Len(path) /\ k + t \in 0 .. k + e
      <3>1. e \in 0 .. Len(r) /\ t \in 0 .. b /\ b \in 0 .. e /\ Len(r) \in Nat
        BY <1>4, Zenon
      <3>2. k \in {0, 2} /\ k <= Len(path) /\ Len(path) \in Nat /\ Len(r) = Len(path) - k
        BY <1>5, <1>6
      <3> HIDE DEF k, e, t, b, r
      <3>3. k \in Nat /\ e \in Nat /\ t \in Nat /\ t <= e /\ e <= Len(r)
        BY <3>1, <3>2
      <3> QED BY <3>2, <3>3
    <2> QED BY <1>14, <2>1, CutTwice DEF q
  <1>16. /\ u \in Seq(C) /\ Len(u) = k + t /\ Len(u) <= Len(path)
         /\ DriveLength(build, u) = k /\ Behind(build, u) = SubSeq(r, 1, t)
    <2>1. t \in 0 .. Len(Behind(build, path))
      BY <1>4 DEF r
    <2> DEFINE p == SubSeq(path, 1, k + t)
    <2>2. /\ p \in Seq(C) /\ Len(p) = k + t /\ Len(p) <= Len(path)
          /\ DriveLength(build, p) = k /\ Behind(build, p) = SubSeq(r, 1, t)
      <3> HIDE DEF t
      <3>1. LET x == SubSeq(path, 1, DriveLength(build, path) + t)
            IN  /\ x \in Seq(C) /\ Len(x) = DriveLength(build, path) + t /\ Len(x) <= Len(path)
                /\ DriveLength(build, x) = DriveLength(build, path)
                /\ Behind(build, x) = SubSeq(Behind(build, path), 1, t)
        BY <2>1, CutShort
      <3> QED BY <3>1, Zenon DEF p, k, r
    <2>3. u = p
      BY <1>15
    <2> HIDE DEF u, p
    <2> QED BY <2>2, <2>3
  <1> HIDE DEF u
  <1>17. dir = SubSeq(path, 1, k + g)
    <2>1. KeptLength(build, SubSeq(r, 1, t)) = g
      BY Zenon DEF g, DirKept, t
    <2>2. Len(u) < SizeValues
      BY <1>5, <1>16, SizesAre
    <2>3. dir = SubSeq(u, 1, k + g)
      BY <1>16, <2>1, <2>2, StrippedIs
    <2>4. k + t \in 0 .. Len(path) /\ k + g \in 0 .. k + t
      BY <1>4, <1>5, <1>6
    <2> QED BY <1>15, <2>3, <2>4, CutTwice
  <1> HIDE DEF dir
  <1>18. dir = <<>> <=> k + g = 0
    <2>1. k + g \in 0 .. Len(path)
      BY <1>4, <1>5, <1>6
    <2>2. Len(SubSeq(path, 1, k + g)) = k + g
      BY <2>1
    <2>3. k + g = 0 => SubSeq(path, 1, k + g) = <<>>
      OBVIOUS
    <2> QED BY <1>17, <2>1, <2>2, <2>3
  <1> QED
    BY <1>2, <1>17, <1>18 DEF k, r, g

LEMMA CutBoth ==
  ASSUME NEW C, NEW s \in Seq(C), NEW a \in 0 .. Len(s), NEW b \in 0 .. a
  PROVE  SubSeq(SubSeq(s, 1, a), b + 1, a) = SubSeq(s, b + 1, a)
  <1> DEFINE u == SubSeq(s, 1, a)
             v == SubSeq(u, b + 1, a)
             w == SubSeq(s, b + 1, a)
             n == a - (b + 1) + 1
  <1>1. /\ Len(s) \in Nat /\ a \in Nat /\ b \in Nat /\ b <= a /\ a <= Len(s)
        /\ b + 1 \in Nat \ {0} /\ b + 1 <= a + 1
    OBVIOUS
  <1>2. u \in Seq(C) /\ Len(u) = a /\ \A i \in 1 .. a : u[i] = s[i]
    BY <1>1
  <1>3. w \in Seq(C) /\ Len(w) = n /\ \A i \in 1 .. n : w[i] = s[(b + 1) + i - 1]
    BY <1>1, PieceIs
  <1> HIDE DEF u, w
  <1>4. v \in Seq(C) /\ Len(v) = n /\ \A i \in 1 .. n : v[i] = u[(b + 1) + i - 1]
    <2>1. a \in 0 .. Len(u)
      BY <1>1, <1>2
    <2> QED BY <1>1, <1>2, <2>1, PieceIs, SMTT(60)
  <1>5. \A i \in 1 .. n : (b + 1) + i - 1 \in 1 .. a
    BY <1>1
  <1> HIDE DEF v, n
  <1>6. \A i \in 1 .. n : v[i] = w[i]
    BY <1>2, <1>3, <1>4, <1>5
  <1>7. v = w
    BY <1>3, <1>4, <1>6, SameSequences
  <1> QED
    BY <1>7 DEF u, v, w

BaseStart(build, r) == IF BaseAt(build, r) < KeptLength(build, r) THEN BaseAt(build, r) ELSE 0

BaseOf(build, stripped) ==
  LET letter == Paths!FindDriveLetter(build, stripped)
      rest == IF letter # Paths!npos THEN Paths!From(stripped, letter + 1) ELSE stripped
      last == Paths!FindLastSeparator(build, rest)
  IN  IF last # Paths!npos /\ last < Len(rest) - 1 THEN Paths!From(rest, last + 1) ELSE rest

LEMMA BaseNameIs ==
  ASSUME NEW C, NEW build \in Paths!Builds, NEW path \in Seq(C), Len(path) < SizeValues
  PROVE  LET r == Behind(build, path)
         IN  Paths!BaseName(build, path) = SubSeq(r, BaseStart(build, r) + 1, KeptLength(build, r))
  <1> DEFINE k == DriveLength(build, path)
             r == Behind(build, path)
             e == KeptLength(build, r)
             w == SubSeq(r, 1, e)
             b == BaseAt(build, r)
             c == BaseStart(build, r)
             q == SubSeq(path, 1, k + e)
             letter == Paths!FindDriveLetter(build, q)
             rest == IF letter # Paths!npos THEN Paths!From(q, letter + 1) ELSE q
             last == Paths!FindLastSeparator(build, rest)
  <1>1. Paths!StripTrailingSeparators(build, path) = q
    BY StrippedIs
  <1>2. Paths!BaseName(build, path) = BaseOf(build, q)
    <2>1. Paths!BaseName(build, path) = BaseOf(build, Paths!StripTrailingSeparators(build, path))
      BY Zenon DEF Paths!BaseName, BaseOf
    <2> HIDE DEF q
    <2> QED BY <1>1, <2>1
  <1>3. BaseOf(build, q) = IF last # Paths!npos /\ last < Len(rest) - 1 THEN Paths!From(rest, last + 1) ELSE rest
    BY Zenon DEF BaseOf
  <1>4. PartsAre(build, r) /\ r \in Seq(C)
    <2>1. r \in Seq(C)
      BY BehindAre
    <2> QED BY <2>1, PathParts
  <1>5. Len(r) \in Nat /\ e \in 0 .. Len(r) /\ b \in 0 .. e
    BY <1>4, Zenon DEF PartsAre
  <1>6. k \in {0, 2} /\ k <= Len(path) /\ Len(path) \in Nat
    BY DrivesAre DEF DriveIs
  <1>7. Len(r) = Len(path) - k
    BY BehindAre DEF BehindIs
  <1>8. q \in Seq(C) /\ DriveLength(build, q) = k /\ Behind(build, q) = w
    <2>1. e \in 0 .. Len(Behind(build, path))
      BY <1>5
    <2> HIDE DEF e
    <2> QED BY <2>1, CutShort, ZenonT(60) DEF w
  <1>9. w \in Seq(C) /\ Len(w) = e
    <2> HIDE DEF e, r
    <2> QED BY <1>4, <1>5
  <1>10. rest = w
    <2> HIDE DEF q, k, w
    <2>1. DriveIs(build, q)
      BY <1>8, DrivesAre
    <2>2. k = 2 => letter = 1 /\ letter # Paths!npos
      BY <1>8, <2>1, SizesAre DEF DriveIs
    <2>3. k = 0 => letter = Paths!npos
      BY <1>8, <2>1 DEF DriveIs
    <2>4. k = 2 => rest = SubSeq(q, 3, Len(q))
      BY <2>2 DEF Paths!From
    <2>5. SubSeq(q, 1, Len(q)) = q
      BY <1>8
    <2>6. w = SubSeq(q, k + 1, Len(q))
      BY <1>8 DEF Behind
    <2> HIDE DEF letter
    <2>7. CASE k = 0
      BY <2>3, <2>5, <2>6, <2>7
    <2>8. CASE k = 2
      BY <2>4, <2>6, <2>8
    <2> QED BY <1>6, <2>7, <2>8
  <1> HIDE DEF rest
  <1>11. last = IF b = 0 THEN Paths!npos ELSE b - 1
    <2>1. LastSep(build, w) = b
      BY DEF BaseAt
    <2> HIDE DEF w, b, last
    <2>2. Paths!FindLastSeparator(build, w) = IF LastSep(build, w) = 0 THEN Paths!npos ELSE LastSep(build, w) - 1
      BY <1>9, LastSeparatorIs
    <2> QED BY <1>10, <2>1, <2>2 DEF last
  <1>12. c = IF b < e THEN b ELSE 0
    BY DEF BaseStart
  <1> HIDE DEF last, w, b, e, q, k, r, c
  <1>13. Paths!BaseName(build, path) = SubSeq(w, c + 1, e)
    <2>1. (last # Paths!npos /\ last < Len(rest) - 1) <=> (b # 0 /\ b < e)
      <3>1. b # 0 => b - 1 # Paths!npos
        BY <1>5, <1>6, <1>7, SizesAre
      <3> QED BY <1>5, <1>9, <1>10, <1>11, <3>1
    <2>2. CASE b # 0 /\ b < e
      <3>1. last + 1 = b /\ c = b
        BY <1>5, <1>11, <1>12, <2>2
      <3>2. Paths!BaseName(build, path) = SubSeq(w, (last + 1) + 1, Len(w))
        BY <1>2, <1>3, <1>10, <2>1, <2>2 DEF Paths!From
      <3> QED BY <1>9, <3>1, <3>2
    <2>3. CASE ~(b # 0 /\ b < e)
      <3>1. c = 0
        BY <1>5, <1>12, <2>3
      <3>2. SubSeq(w, 1, e) = w
        BY <1>9
      <3>3. Paths!BaseName(build, path) = w
        BY <1>2, <1>3, <1>10, <2>1, <2>3
      <3> QED BY <3>1, <3>2, <3>3
    <2> QED BY <2>2, <2>3
  <1>14. SubSeq(w, c + 1, e) = SubSeq(r, c + 1, e)
    <2>1. c \in 0 .. e
      BY <1>5, <1>12
    <2> QED BY <1>4, <1>5, <2>1, CutBoth DEF w
  <1> QED
    BY <1>13, <1>14 DEF r, e, c

LEMMA SlashesAre ==
  ASSUME NEW C, NEW build, NEW r \in Seq(C), NEW s \in 0 .. Len(r),
         \A i \in 1 .. s : Sep(build, r[i]), s < Len(r) => ~Sep(build, r[s + 1])
  PROVE  Paths!SlashesIn(build, r) = s
  <1> DEFINE S == {i \in 0 .. Len(r) : \A j \in 1 .. i : Sep(build, r[j])}
  <1>1. s \in S /\ S \subseteq 0 .. Len(r) /\ Len(r) \in Nat
    OBVIOUS
  <1>2. ASSUME NEW i \in S
        PROVE  i <= s
    <2>1. i > s => s + 1 \in 1 .. i /\ s < Len(r)
      BY <1>1
    <2> QED BY <1>1, <2>1
  <1>3. Paths!SlashesIn(build, r) = Max(S)
    <2>1. Paths!SlashesIn(build, r) = Paths!Max(S)
      BY Zenon DEF Paths!SlashesIn, Sep
    <2>2. Paths!Max(S) = Max(S)
      BY Zenon DEF Paths!Max, Max
    <2> QED BY <2>1, <2>2
  <1> HIDE DEF S
  <1>4. Max(S) = s
    BY <1>1, <1>2, GreatestIs
  <1> QED
    BY <1>3, <1>4

Leading(build, r, s) ==
  /\ s \in 0 .. Len(r) /\ Len(r) \in Nat
  /\ \A i \in 1 .. s : Sep(build, r[i])
  /\ s < Len(r) => ~Sep(build, r[s + 1])

LEMMA SlashesLead ==
  ASSUME NEW C, NEW build, NEW r \in Seq(C)
  PROVE  Leading(build, r, Paths!SlashesIn(build, r))
  <1> DEFINE S == {i \in 0 .. Len(r) : \A j \in 1 .. i : Sep(build, r[j])}
             s == Paths!SlashesIn(build, r)
  <1>1. 0 \in S /\ S \subseteq 0 .. Len(r) /\ Len(r) \in Nat
    OBVIOUS
  <1>2. s = Max(S)
    <2>1. Paths!SlashesIn(build, r) = Paths!Max(S)
      BY Zenon DEF Paths!SlashesIn, Sep
    <2>2. Paths!Max(S) = Max(S)
      BY Zenon DEF Paths!Max, Max
    <2> QED BY <2>1, <2>2
  <1> HIDE DEF s
  <1>3. s \in S /\ \A i \in S : i <= s
    <2> HIDE DEF S
    <2> QED BY <1>1, <1>2, GreatestNumber
  <1>4. s < Len(r) => ~Sep(build, r[s + 1])
    <2> HAVE s < Len(r)
    <2>1. s + 1 \in 0 .. Len(r) /\ ~(s + 1 <= s)
      BY <1>1, <1>3
    <2>2. ASSUME Sep(build, r[s + 1])
          PROVE  s + 1 \in S
      <3>1. ASSUME NEW j \in 1 .. s + 1
            PROVE  Sep(build, r[j])
        <4>1. j \in 1 .. s \/ j = s + 1
          BY <1>1, <1>3
        <4> QED BY <1>3, <2>2, <4>1
      <3> QED BY <2>1, <3>1
    <2> QED BY <1>3, <2>1, <2>2
  <1>5. Leading(build, r, s)
    BY <1>1, <1>3, <1>4 DEF Leading
  <1> QED
    BY <1>5 DEF s

(* What the parts of a path are, all together. *)
PathSays(build, path, k, r, e, b, t, g, s) ==
  /\ k = DriveLength(build, path) /\ k \in {0, 2} /\ k <= Len(path) /\ Len(path) \in Nat
  /\ r = Behind(build, path) /\ Len(r) = Len(path) - k
  /\ e = KeptLength(build, r) /\ b = BaseAt(build, r) /\ t = DirAt(build, r) /\ g = DirKept(build, r)
  /\ s = Paths!SlashesIn(build, r) /\ Leading(build, r, s)
  /\ PartsAre(build, r)
  /\ Paths!Rest(build, path) = r /\ Paths!Slashes(build, path) = s
  /\ Paths!Names(build, path) = FirstNames(build, r, Len(r))
  /\ Paths!Drive(build, path) = SubSeq(path, 1, k)
  /\ Paths!Drive(build, path) = <<>> <=> k = 0

LEMMA PathReads ==
  ASSUME NEW C, NEW build \in Paths!Builds, NEW path \in Seq(C)
  PROVE  PathSays(build, path, DriveLength(build, path), Behind(build, path),
               KeptLength(build, Behind(build, path)), BaseAt(build, Behind(build, path)),
               DirAt(build, Behind(build, path)), DirKept(build, Behind(build, path)),
               Paths!SlashesIn(build, Behind(build, path)))
  <1> DEFINE k == DriveLength(build, path)
             r == Behind(build, path)
             s == Paths!SlashesIn(build, r)
  <1>1. k \in {0, 2} /\ k <= Len(path) /\ Len(path) \in Nat
    BY DrivesAre DEF DriveIs
  <1>2. r \in Seq(C) /\ Len(r) = Len(path) - k
    BY BehindAre DEF BehindIs
  <1>3. Paths!Rest(build, path) = r
    <2>1. Paths!Rest(build, path) = SubSeq(path, k + 1, Len(path))
      BY DrivesAre, Zenon DEF DriveIs
    <2> QED BY <2>1 DEF Behind
  <1>4. Paths!Drive(build, path) = SubSeq(path, 1, k) /\ (Paths!Drive(build, path) = <<>> <=> k = 0)
    BY DrivesAre, Zenon DEF DriveIs
  <1> HIDE DEF k, r
  <1>5. PartsAre(build, r) /\ Leading(build, r, s)
    BY <1>2, PathParts, SlashesLead
  <1>6. Paths!Slashes(build, path) = s
    BY <1>3, Zenon DEF Paths!Slashes
  <1>7. Paths!Names(build, path) = FirstNames(build, r, Len(r))
    <2>1. Paths!Names(build, path) = Paths!NamesIn(build, r)
      BY <1>3, Zenon DEF Paths!Names
    <2>2. Firsts(build, r)
      BY <1>2, NamesStep
    <2> QED BY <2>1, <2>2 DEF Firsts
  <1> HIDE DEF s
  <1>8. PathSays(build, path, k, r, KeptLength(build, r), BaseAt(build, r), DirAt(build, r), DirKept(build, r), s)
    BY <1>1, <1>2, <1>3, <1>4, <1>5, <1>6, <1>7 DEF PathSays, k, r, s
  <1> QED
    BY <1>8 DEF k, r, s

(* What is cut off behind n characters of the rest leaves the root, if that *)
(* much is left, and the names up to there.                                 *)
CutReads(build, path, r, n, s) ==
  LET u == SubSeq(path, 1, DriveLength(build, path) + n)
  IN  /\ Paths!Drive(build, u) = Paths!Drive(build, path)
      /\ Paths!Rest(build, u) = SubSeq(r, 1, n)
      /\ Paths!Names(build, u) = FirstNames(build, r, n)
      /\ s <= n => Paths!Slashes(build, u) = s
      /\ s > 0 /\ n > 0 => Paths!Slashes(build, u) > 0

LEMMA CutIsRead ==
  ASSUME NEW C, NEW build \in Paths!Builds, NEW path \in Seq(C),
         NEW n \in 0 .. Len(Behind(build, path))
  PROVE  CutReads(build, path, Behind(build, path), n, Paths!SlashesIn(build, Behind(build, path)))
  <1> DEFINE k == DriveLength(build, path)
             r == Behind(build, path)
             s == Paths!SlashesIn(build, r)
             u == SubSeq(path, 1, k + n)
             d == SubSeq(r, 1, n)
  <1>1. k \in {0, 2} /\ k <= Len(path) /\ Len(path) \in Nat
    BY DrivesAre DEF DriveIs
  <1>2. r \in Seq(C) /\ Len(r) = Len(path) - k /\ Len(r) \in Nat
    BY BehindAre DEF BehindIs
  <1>3. /\ u \in Seq(C) /\ Len(u) = k + n /\ Len(u) <= Len(path)
        /\ DriveLength(build, u) = k /\ Behind(build, u) = d
    BY CutShort, ZenonT(60)
  <1>4. n \in 0 .. Len(r)
    OBVIOUS
  <1>5. Paths!Drive(build, path) = SubSeq(path, 1, k)
    BY DrivesAre, Zenon DEF DriveIs
  <1>6. Leading(build, r, s)
    <2> HIDE DEF r
    <2> QED BY <1>2, SlashesLead
  <1> HIDE DEF k, r, s, u, d
  <1>7. DriveIs(build, u)
    BY <1>3, DrivesAre
  <1>8. Paths!Drive(build, u) = SubSeq(u, 1, k) /\ Paths!Rest(build, u) = d
    BY <1>3, <1>7 DEF DriveIs, Behind
  <1>9. SubSeq(u, 1, k) = SubSeq(path, 1, k)
    <2>1. k + n \in 0 .. Len(path) /\ k \in 0 .. k + n
      BY <1>1, <1>2, <1>4
    <2> QED BY <2>1, CutTwice DEF u
  <1>10. Paths!Names(build, u) = FirstNames(build, r, n)
    BY <1>8, Zenon DEF Paths!Names, FirstNames, d
  <1>11. Paths!Slashes(build, u) = Paths!SlashesIn(build, d)
    BY <1>8, Zenon DEF Paths!Slashes
  <1>12. d \in Seq(C) /\ Len(d) = n /\ \A i \in 1 .. n : d[i] = r[i]
    BY <1>2, <1>4 DEF d
  <1>13. s <= n => Paths!SlashesIn(build, d) = s
    <2> HAVE s <= n
    <2>1. s \in 0 .. Len(d)
      BY <1>4, <1>6, <1>12 DEF Leading
    <2>2. \A i \in 1 .. s : Sep(build, d[i])
      BY <1>2, <1>4, <1>6, <1>12 DEF Leading
    <2>3. s < Len(d) => ~Sep(build, d[s + 1])
      BY <1>2, <1>4, <1>6, <1>12, <2>1 DEF Leading
    <2> QED BY <1>12, <2>1, <2>2, <2>3, SlashesAre
  <1>14. s > 0 /\ n > 0 => Paths!SlashesIn(build, d) > 0
    <2> HAVE s > 0 /\ n > 0
    <2>1. Leading(build, d, Paths!SlashesIn(build, d))
      BY <1>12, SlashesLead
    <2>2. 1 \in 1 .. s /\ 1 \in 1 .. n
      BY <1>4, <1>6 DEF Leading
    <2>3. Sep(build, d[1])
      BY <1>6, <1>12, <2>2 DEF Leading
    <2> DEFINE z == Paths!SlashesIn(build, d)
    <2> HIDE DEF z
    <2>4. z \in 0 .. n /\ (z < n => ~Sep(build, d[z + 1]))
      BY <1>12, <2>1 DEF Leading, z
    <2>5. z # 0
      BY <1>4, <2>2, <2>3, <2>4
    <2>6. z > 0
      BY <2>4, <2>5
    <2> QED BY <2>6 DEF z
  <1>15. CutReads(build, path, r, n, s)
    BY <1>5, <1>8, <1>9, <1>10, <1>11, <1>13, <1>14 DEF CutReads, u, d, k
  <1> QED
    BY <1>15 DEF r, s

LEMMA TakenApartHolds ==
  ASSUME NEW C, NEW build \in Paths!Builds, NEW path \in Seq(C), Len(path) < SizeValues
  PROVE  Paths!TakenApart(build, path)
  <1> DEFINE k == DriveLength(build, path)
             r == Behind(build, path)
             e == KeptLength(build, r)
             b == BaseAt(build, r)
             t == DirAt(build, r)
             g == DirKept(build, r)
             s == Paths!SlashesIn(build, r)
             c == BaseStart(build, r)
             m == Len(r)
             names == FirstNames(build, r, m)
             dir == Paths!DirName(build, path)
             base == Paths!BaseName(build, path)
             q == SubSeq(path, 1, k + e)
             rooted == k # 0 \/ s > 0
  <1>1. PathSays(build, path, k, r, e, b, t, g, s)
    BY PathReads
  <1>2. r \in Seq(C)
    BY BehindAre
  <1>3. dir = IF k + g = 0 THEN <<".">> ELSE SubSeq(path, 1, k + g)
    BY DirNameIs
  <1>4. base = SubSeq(r, c + 1, e)
    BY BaseNameIs
  <1>5. Paths!StripTrailingSeparators(build, path) = q
    BY StrippedIs
  <1>6. c = IF b < e THEN b ELSE 0
    BY DEF BaseStart
  <1>7. \A n \in 0 .. m : CutReads(build, path, r, n, s)
    BY CutIsRead
  <1> HIDE DEF k, r, e, b, t, g, s, c, dir, base
  <1>8. /\ k \in {0, 2} /\ k <= Len(path) /\ Len(path) \in Nat /\ m = Len(path) - k
        /\ k = DriveLength(build, path)
        /\ Leading(build, r, s)
        /\ Paths!Slashes(build, path) = s /\ Paths!Names(build, path) = names
        /\ Paths!Drive(build, path) = <<>> <=> k = 0
    BY <1>1, Zenon DEF PathSays
  <1>9. /\ m \in Nat /\ e \in 0 .. m /\ b \in 0 .. e /\ t \in 0 .. b /\ g \in 0 .. t
        /\ \A i \in e + 1 .. m : Sep(build, r[i])
        /\ e = 0 => m = 0
        /\ e >= 2 /\ ~TwoAlone(build, r) => ~Sep(build, r[e])
        /\ TwoAlone(build, r) => e = 2
        /\ b # 0 => Sep(build, r[b])
        /\ \A i \in b + 1 .. e : ~Sep(build, r[i])
        /\ \A i \in t + 1 .. b : Sep(build, r[i])
        /\ b # 0 => t # 0
        /\ t # 0 => g # 0
        /\ \A i \in g + 1 .. t : Sep(build, r[i])
        /\ t = 2 /\ Sep(build, r[1]) /\ Sep(build, r[2]) => g = 2
        /\ t = IF b = 0 THEN 0 ELSE IF b = 1 THEN 1 ELSE IF b = 2 /\ Sep(build, r[1]) THEN 2 ELSE b - 1
    <2>1. PartsAre(build, r)
      BY <1>1, Zenon DEF PathSays
    <2> QED BY <2>1, Zenon DEF PartsAre, e, b, t, g
  <1>10. FirstNames(build, r, 0) = <<>>
    BY <1>2, NamesStep DEF Firsts
  <1>11. /\ s \in 0 .. m
         /\ \A i \in 1 .. s : Sep(build, r[i])
         /\ s < m => ~Sep(build, r[s + 1])
    BY <1>8 DEF Leading
  <1>12. (\E i \in 1 .. m : ~Sep(build, r[i])) <=> names # <<>>
    <2>1. ASSUME NEW i \in 1 .. m, ~Sep(build, r[i])
          PROVE  names # <<>>
      <3>1. m \in 0 .. Len(r)
        BY <1>9
      <3> QED BY <1>2, <2>1, <3>1, SomeName
    <2>2. ASSUME \A i \in 1 .. m : Sep(build, r[i])
          PROVE  names = <<>>
      <3>1. 0 \in 0 .. Len(r) /\ m \in 0 .. Len(r)
        BY <1>9
      <3>2. \A i \in 0 + 1 .. m : Sep(build, r[i])
        BY <2>2
      <3>3. FirstNames(build, r, m) = FirstNames(build, r, 0)
        BY <1>2, <3>1, <3>2, SeparatorsAddNothing
      <3> QED BY <1>10, <3>3
    <2> QED BY <2>1, <2>2
  <1>13. ASSUME names = <<>>
         PROVE  /\ dir = IF rooted THEN q ELSE <<".">>
                /\ base = SubSeq(r, 1, e)
    <2>1. \A i \in 1 .. m : Sep(build, r[i])
      BY <1>12, <1>13
    <2>2. e <= 2 /\ (e = 2 => TwoAlone(build, r))
      <3>1. e >= 2 => Sep(build, r[e])
        BY <1>9, <2>1
      <3>2. e >= 2 => TwoAlone(build, r)
        BY <1>9, <3>1
      <3> QED BY <1>9, <3>2
    <2>3. b = e
      <3>1. b < e => e \in b + 1 .. e /\ e \in 1 .. m
        BY <1>9
      <3> QED BY <1>9, <2>1, <3>1
    <2>4. e = 2 => Sep(build, r[1]) /\ Sep(build, r[2])
      BY <2>2 DEF TwoAlone
    <2>5. t = e
      BY <1>9, <2>2, <2>3, <2>4
    <2>6. g = e
      BY <1>9, <2>2, <2>4, <2>5
    <2>7. c = 0
      BY <1>6, <1>9, <2>3
    <2>8. s = m
      <3>1. s < m => s + 1 \in 1 .. m
        BY <1>9, <1>11
      <3> QED BY <1>9, <1>11, <2>1, <3>1
    <2>9. rooted <=> k + g # 0
      BY <1>8, <1>9, <2>6, <2>8
    <2>10. dir = IF rooted THEN q ELSE <<".">>
      <3> HIDE DEF rooted, q
      <3>1. k + g # 0 => dir = q
        BY <1>3, <2>6 DEF q
      <3> QED BY <1>3, <2>9, <3>1
    <2>11. base = SubSeq(r, 1, e)
      BY <1>4, <2>7
    <2> QED BY <2>10, <2>11
  <1>14. ASSUME names # <<>>
         PROVE  /\ names = Append(FirstNames(build, r, g), base)
                /\ (rooted \/ FirstNames(build, r, g) # <<>>) => k + g # 0
                /\ k + g = 0 => g = 0
                /\ ~(rooted \/ FirstNames(build, r, g) # <<>>) => k + g = 0
                /\ s <= 2 => s <= g
                /\ s > 2 => g > 0
    <2>1. PICK i \in 1 .. m : ~Sep(build, r[i])
      BY <1>12, <1>14
    <2>2. e >= 1 /\ i <= e
      <3>1. i \in 1 .. m /\ i \notin e + 1 .. m
        BY <1>9, <2>1
      <3> QED BY <1>9, <3>1
    <2>3. ~Sep(build, r[e]) /\ ~TwoAlone(build, r)
      <3>1. ~TwoAlone(build, r)
        <4>1. TwoAlone(build, r) => i = 1 \/ i = 2
          BY <1>9, <2>1, <2>2
        <4> QED BY <2>1, <4>1 DEF TwoAlone
      <3>2. e = 1 => i = 1
        BY <2>1, <2>2
      <3> QED BY <1>9, <2>1, <2>2, <3>1, <3>2
    <2>4. b < e /\ c = b
      BY <1>6, <1>9, <2>2, <2>3
    <2>5. FirstNames(build, r, e) = Append(FirstNames(build, r, b), base)
      <3>1. b \in 0 .. Len(r) /\ e \in b + 1 .. Len(r)
        BY <1>9, <2>4
      <3>2. FirstNames(build, r, e) = Append(FirstNames(build, r, b), SubSeq(r, b + 1, e))
        <4>1. b = 0 \/ Sep(build, r[b])
          BY <1>9
        <4>2. \A j \in b + 1 .. e : ~Sep(build, r[j])
          BY <1>9
        <4>3. NameEnds(build, r, b, e)
          BY <1>2, <3>1, <4>1, <4>2, NameAdded
        <4> QED BY <4>3 DEF NameEnds
      <3> QED BY <1>4, <2>4, <3>2
    <2>6. names = FirstNames(build, r, e)
      <3>1. e \in 0 .. Len(r) /\ m \in e .. Len(r)
        BY <1>9
      <3> QED BY <1>2, <1>9, <3>1, SeparatorsAddNothing
    <2>7. FirstNames(build, r, b) = FirstNames(build, r, t)
      <3>1. t \in 0 .. Len(r) /\ b \in t .. Len(r)
        BY <1>9
      <3> QED BY <1>2, <1>9, <3>1, SeparatorsAddNothing
    <2>8. FirstNames(build, r, t) = FirstNames(build, r, g)
      <3>1. g \in 0 .. Len(r) /\ t \in g .. Len(r)
        BY <1>9
      <3> QED BY <1>2, <1>9, <3>1, SeparatorsAddNothing, SMTT(60)
    <2>9. g = 0 <=> b = 0
      BY <1>9
    <2>10. s <= b
      <3>1. s > b => b + 1 \in 1 .. s /\ b + 1 \in b + 1 .. e
        BY <1>9, <1>11, <2>4
      <3> QED BY <1>9, <1>11, <3>1
    <2>11. b = 0 => s = 0 /\ FirstNames(build, r, g) = <<>>
      BY <1>9, <1>10, <1>11, <2>9, <2>10
    <2>12. s = 0 /\ b # 0 => FirstNames(build, r, g) # <<>>
      <3> HAVE s = 0 /\ b # 0
      <3>1. ~Sep(build, r[1]) /\ 1 \in 1 .. b /\ b \in 0 .. Len(r)
        BY <1>9, <1>11, <2>2
      <3>2. FirstNames(build, r, b) # <<>>
        BY <1>2, <3>1, SomeName
      <3> QED BY <2>7, <2>8, <3>2
    <2>13. s <= 2 => s <= g
      <3>1. CASE s = 0
        BY <1>9, <3>1
      <3>2. CASE s = 1
        <4>1. b # 0
          BY <1>9, <2>10, <3>2
        <4> QED BY <1>9, <2>9, <3>2, <4>1
      <3>3. CASE s = 2
        <4>1. Sep(build, r[1]) /\ Sep(build, r[2]) /\ b >= 2
          <5>1. 1 \in 1 .. s /\ 2 \in 1 .. s
            BY <3>3
          <5> QED BY <1>9, <1>11, <2>10, <3>3, <5>1
        <4>2. t = 2 => g = 2
          BY <1>9, <4>1
        <4>3. t >= 2
          BY <1>9, <4>1
        <4>4. t >= 3 => g >= 2
          <5> HAVE t >= 3
          <5>1. ~Sep(build, r[3])
            BY <1>9, <1>11, <3>3
          <5>2. g < 3 => 3 \in g + 1 .. t
            BY <1>9
          <5> QED BY <1>9, <5>1, <5>2
        <4> QED BY <1>9, <3>3, <4>2, <4>3, <4>4
      <3> QED BY <1>9, <1>11, <3>1, <3>2, <3>3
    <2>14. s > 2 => g > 0
      BY <1>9, <1>11, <2>9, <2>10
    <2>15. s > 0 => b # 0
      BY <1>9, <1>11, <2>10
    <2>16. names = Append(FirstNames(build, r, g), base)
      BY <2>5, <2>6, <2>7, <2>8
    <2>17. (rooted \/ FirstNames(build, r, g) # <<>>) => k + g # 0
      BY <1>8, <1>9, <2>9, <2>11, <2>15
    <2>18. ~(rooted \/ FirstNames(build, r, g) # <<>>) => k + g = 0
      BY <1>8, <1>9, <1>11, <2>9, <2>12
    <2>19. k + g = 0 => g = 0
      BY <1>8, <1>9
    <2> QED BY <2>13, <2>14, <2>16, <2>17, <2>18, <2>19
  <1>15. Paths!Current = <<".">>
    BY DEF Paths!Current, Paths!Dot
  <1>16. rooted <=> Paths!Drive(build, path) # <<>> \/ Paths!Slashes(build, path) > 0
    BY <1>8
  <1>17. CASE names = <<>>
    <2>1. Paths!Rest(build, q) = SubSeq(r, 1, e)
      <3>1. CutReads(build, path, r, e, s)
        BY <1>7, <1>9
      <3> QED BY <1>8, <3>1 DEF CutReads
    <2> HIDE DEF rooted, q, names
    <2> QED BY <1>5, <1>8, <1>13, <1>15, <1>16, <1>17, <2>1, Zenon DEF Paths!TakenApart, dir, base
  <1>18. CASE names # <<>>
    <2> DEFINE before == FirstNames(build, r, g)
    <2>1. before \in Seq(Seq(C)) /\ base \in Seq(C)
      <3>1. g \in 0 .. Len(r)
        BY <1>9
      <3>2. base \in Seq(C)
        <4>1. c + 1 \in Nat \ {0} /\ e \in 0 .. Len(r) /\ c + 1 <= e + 1
          BY <1>6, <1>9
        <4> QED BY <1>2, <1>4, <4>1, PieceIs
      <3> QED BY <1>2, <3>1, <3>2, FirstTyped
    <2>2. names = Append(before, base)
      BY <1>14, <1>18
    <2> DEFINE T == Seq(C)
    <2> HIDE DEF before, names, T
    <2>3. Len(names) = Len(before) + 1 /\ Len(before) \in Nat /\ names[Len(names)] = base
      BY <2>1, <2>2, AppendIs DEF T
    <2>4. Paths!Front(names) = before
      <3>1. Paths!Front(names) = SubSeq(names, 1, Len(names) - 1)
        BY DEF Paths!Front
      <3>2. before \in Seq(T) /\ base \in T
        BY <2>1 DEF T
      <3>3. SubSeq(names, 1, Len(before)) = before
        BY <2>2, <3>2
      <3>4. Len(names) - 1 = Len(before)
        BY <2>3
      <3> QED BY <3>1, <3>3, <3>4
    <2>5. Len(names) > 1 <=> before # <<>>
      <3>1. before = <<>> <=> Len(before) = 0
        BY <2>1
      <3> QED BY <2>3, <3>1
    <2>6. ASSUME rooted \/ Len(names) > 1
          PROVE  Paths!SameRoot(build, path, dir) /\ Paths!Names(build, dir) = before
      <3>1. k + g # 0
        BY <1>14, <1>18, <2>5, <2>6 DEF before
      <3>2. CutReads(build, path, r, g, s) /\ dir = SubSeq(path, 1, k + g) /\ g \in Nat
        <4>1. g \in 0 .. m /\ g \in Nat
          BY <1>9
        <4>2. CutReads(build, path, r, g, s)
          BY <1>7, <4>1
        <4>3. dir = SubSeq(path, 1, k + g)
          BY <1>3, <3>1, Zenon
        <4> QED BY <4>1, <4>2, <4>3
      <3>3. /\ Paths!Drive(build, dir) = Paths!Drive(build, path)
            /\ Paths!Names(build, dir) = before
            /\ s <= g => Paths!Slashes(build, dir) = s
            /\ s > 0 /\ g > 0 => Paths!Slashes(build, dir) > 0
        BY <1>8, <3>2, Zenon DEF CutReads, before
      <3>4. s <= 2 => s <= g
        BY <1>14, <1>18
      <3>5. s > 2 => g > 0
        BY <1>14, <1>18
      <3>6. ~(s <= 2) => s > 2 /\ s > 0
        BY <1>11
      <3>7. Paths!SameRoot(build, path, dir)
        BY <1>8, <3>3, <3>4, <3>5, <3>6 DEF Paths!SameRoot
      <3> QED BY <3>3, <3>7
    <2>7. ASSUME ~(rooted \/ Len(names) > 1)
          PROVE  dir = <<".">>
      <3>1. k + g = 0
        BY <1>14, <1>18, <2>5, <2>7 DEF before
      <3> QED BY <1>3, <3>1
    <2> HIDE DEF rooted
    <2> QED BY <1>8, <1>15, <1>16, <1>18, <2>3, <2>4, <2>6, <2>7, Zenon DEF Paths!TakenApart, dir, base
  <1> QED
    BY <1>17, <1>18

LEMMA CutBehind ==
  ASSUME NEW C, NEW s \in Seq(C), NEW a \in 0 .. Len(s)
  PROVE  SubSeq(s, 1, a) \o SubSeq(s, a + 1, Len(s)) = s
  <1> DEFINE n == Len(s)
             u == SubSeq(s, 1, a)
             v == SubSeq(s, a + 1, n)
             w == u \o v
  <1>1. n \in Nat /\ a \in 0 .. n
    OBVIOUS
  <1>2. u \in Seq(C) /\ Len(u) = a /\ \A i \in 1 .. a : u[i] = s[i]
    BY <1>1
  <1>3. v \in Seq(C) /\ Len(v) = n - a /\ \A i \in 1 .. n - a : v[i] = s[a + i]
    <2>1. a + 1 \in Nat \ {0} /\ n \in 0 .. Len(s) /\ a + 1 <= n + 1
      BY <1>1
    <2>2. /\ v \in Seq(C) /\ Len(v) = n - (a + 1) + 1
          /\ \A i \in 1 .. n - (a + 1) + 1 : v[i] = s[(a + 1) + i - 1]
      BY <2>1, PieceIs
    <2> HIDE DEF v, n
    <2>3. n - (a + 1) + 1 = n - a /\ \A i \in 1 .. n - a : (a + 1) + i - 1 = a + i
      BY <1>1
    <2> QED BY <2>2, <2>3
  <1> HIDE DEF u, v
  <1>4. /\ w \in Seq(C) /\ Len(w) = a + (n - a)
        /\ \A i \in 1 .. a : w[i] = u[i]
        /\ \A i \in 1 .. n - a : w[a + i] = v[i]
    BY <1>2, <1>3
  <1> HIDE DEF w
  <1>5. \A i \in 1 .. n : w[i] = s[i]
    <2> TAKE i \in 1 .. n
    <2>1. CASE i \in 1 .. a
      BY <1>2, <1>4, <2>1
    <2>2. CASE i > a
      <3> DEFINE j == i - a
      <3>1. j \in 1 .. n - a /\ i = a + j
        BY <1>1, <2>2
      <3> HIDE DEF j
      <3> QED BY <1>3, <1>4, <3>1
    <2> QED BY <1>1, <2>1, <2>2
  <1>6. w = s
    <2>1. Len(w) = Len(s)
      BY <1>1, <1>4
    <2> QED BY <1>4, <1>5, <2>1, SameSequences
  <1> QED
    BY <1>6 DEF w, u, v, n

(* rfind *)
LastDotIs(base, p) ==
  /\ p \in 1 .. Len(base) /\ base[p] = "."
  /\ \A i \in p + 1 .. Len(base) : base[i] # "."
  /\ Paths!FindLastDot(base) = p - 1

LEMMA LastDots ==
  ASSUME NEW C, NEW base \in Seq(C)
  PROVE  \/ (\A i \in 1 .. Len(base) : base[i] # ".") /\ Paths!FindLastDot(base) = Paths!npos
         \/ \E p : LastDotIs(base, p)
  <1> DEFINE found == {i \in DOMAIN base : base[i] = "."}
             p == Max(found)
  <1>1. Paths!FindLastDot(base) = IF found = {} THEN Paths!npos ELSE p - 1
    <2>1. Paths!Max(found) = p
      BY Zenon DEF Paths!Max, Max
    <2>2. {i \in DOMAIN base : base[i] \in {"."}} = found
      OBVIOUS
    <2>3. Paths!FindLastDot(base) = LET s == {i \in DOMAIN base : base[i] \in {"."}}
                                    IN  IF s = {} THEN Paths!npos ELSE Paths!Max(s) - 1
      BY Zenon DEF Paths!FindLastDot, Paths!LastPosition, Paths!Dot
    <2> HIDE DEF found, p
    <2> QED BY <2>1, <2>2, <2>3
  <1>2. found \subseteq 0 .. Len(base) /\ Len(base) \in Nat
    OBVIOUS
  <1>3. CASE found = {}
    <2>1. \A i \in 1 .. Len(base) : base[i] # "."
      BY <1>3
    <2> HIDE DEF found
    <2> QED BY <1>1, <1>3, <2>1
  <1>4. CASE found # {}
    <2>1. p \in found /\ \A i \in found : i <= p
      <3> HIDE DEF found
      <3> QED BY <1>2, <1>4, GreatestNumber
    <2> HIDE DEF p
    <2>2. p \in 1 .. Len(base) /\ base[p] = "."
      BY <2>1
    <2>3. \A i \in p + 1 .. Len(base) : base[i] # "."
      <3> TAKE i \in p + 1 .. Len(base)
      <3>1. i \in DOMAIN base /\ ~(i <= p)
        BY <1>2, <2>2
      <3> QED BY <2>1, <3>1
    <2> HIDE DEF found
    <2>4. LastDotIs(base, p)
      BY <1>1, <1>4, <2>2, <2>3 DEF LastDotIs
    <2> QED BY <2>4
  <1> QED
    BY <1>3, <1>4

LEMMA CutAtExtensionHolds ==
  ASSUME NEW C, NEW build \in Paths!Builds, NEW path \in Seq(C), Len(path) < SizeValues
  PROVE  Paths!CutAtExtension(build, path)
  <1> DEFINE k == DriveLength(build, path)
             r == Behind(build, path)
             e == KeptLength(build, r)
             b == BaseAt(build, r)
             c == BaseStart(build, r)
             m == Len(r)
             l == m - c
             base == Paths!BaseName(build, path)
             isDots == base = <<".">> \/ base = <<".", ".">>
             ext == Paths!FinalExtension(build, path)
  <1>0. SUFFICES ASSUME Paths!StripTrailingSeparators(build, path) = path
                 PROVE  /\ Paths!RemoveFinalExtension(build, path) \o ext = path
                        /\ IF ext = <<>> THEN isDots \/ "." \notin Paths!ToSet(base)
                           ELSE /\ ~isDots /\ Head(ext) = "."
                                /\ Paths!ToSet(Tail(ext)) \cap (Paths!ToSet(build.separators) \cup {"."}) = {}
    <2>1. (base \in {Paths!Current, <<Paths!Dot, Paths!Dot>>}) <=> isDots
      BY DEF Paths!Current, Paths!Dot
    <2> HIDE DEF base, isDots
    <2> QED BY <2>1, Zenon DEF Paths!CutAtExtension, base, Paths!Dot
  <1>1. PartsAre(build, r) /\ r \in Seq(C)
    <2>1. r \in Seq(C)
      BY BehindAre
    <2> QED BY <2>1, PathParts
  <1>2. /\ m \in Nat /\ e \in 0 .. m /\ b \in 0 .. e
        /\ e >= 2 /\ ~TwoAlone(build, r) => ~Sep(build, r[e])
        /\ b # 0 => Sep(build, r[b])
        /\ \A i \in b + 1 .. e : ~Sep(build, r[i])
    BY <1>1, Zenon DEF PartsAre
  <1>3. k \in {0, 2} /\ k <= Len(path) /\ Len(path) \in Nat
    BY DrivesAre DEF DriveIs
  <1>4. m = Len(path) - k /\ \A i \in 1 .. m : r[i] = path[k + i]
    BY BehindAre DEF BehindIs
  <1>5. e = m
    <2>1. path = SubSeq(path, 1, k + e)
      BY <1>0, StrippedIs
    <2>2. k + e \in 0 .. Len(path)
      BY <1>2, <1>3, <1>4
    <2> HIDE DEF k, e, m
    <2>3. Len(SubSeq(path, 1, k + e)) = k + e
      BY <2>2
    <2>4. Len(path) = k + e
      BY <2>1, <2>3
    <2> QED BY <1>2, <1>3, <1>4, <2>4
  <1>6. base = SubSeq(r, c + 1, e)
    BY BaseNameIs
  <1>7. c = IF b < e THEN b ELSE 0
    BY DEF BaseStart
  <1> HIDE DEF k, r, e, b, c, base
  <1>8. c \in 0 .. m /\ l \in Nat
    BY <1>2, <1>7
  <1>9. base \in Seq(C) /\ Len(base) = l /\ \A i \in 1 .. l : base[i] = r[c + i]
    <2>1. c + 1 \in Nat \ {0} /\ e \in 0 .. Len(r) /\ c + 1 <= e + 1
      BY <1>2, <1>5, <1>8
    <2>2. /\ base \in Seq(C) /\ Len(base) = e - (c + 1) + 1
          /\ \A i \in 1 .. e - (c + 1) + 1 : base[i] = r[(c + 1) + i - 1]
      BY <1>1, <1>6, <2>1, PieceIs, SMTT(60)
    <2> HIDE DEF m
    <2>3. e - (c + 1) + 1 = l /\ \A i \in 1 .. l : (c + 1) + i - 1 = c + i
      BY <1>2, <1>5, <1>8
    <2> HIDE DEF l
    <2> QED BY <2>2, <2>3
  <1>10. ASSUME NEW p \in 1 .. l, base[p] = "."
         PROVE  \A i \in 1 .. l : ~Sep(build, base[i])
    <2>1. r[c + p] = "." /\ ~Sep(build, r[c + p])
      BY <1>9, <1>10, SeparatorsAre
    <2>2. CASE b < e
      <3> TAKE i \in 1 .. l
      <3>1. c + i \in b + 1 .. e
        BY <1>2, <1>5, <1>7, <2>2
      <3> QED BY <1>2, <1>9, <3>1
    <2>3. CASE ~(b < e)
      <3>1. b = e /\ c = 0 /\ p \in 1 .. e /\ l = e
        BY <1>2, <1>5, <1>7, <2>3
      <3>2. Sep(build, r[e]) /\ e >= 1
        BY <1>2, <3>1
      <3>3. e = 1 => p = 1
        BY <3>1
      <3>4. e # 1 => TwoAlone(build, r)
        BY <1>2, <3>2
      <3>5. ~TwoAlone(build, r)
        <4>1. TwoAlone(build, r) => (p = 1 \/ p = 2) /\ Sep(build, r[1]) /\ Sep(build, r[2])
          BY <1>5, <3>1 DEF TwoAlone
        <4> QED BY <2>1, <3>1, <4>1
      <3> QED BY <2>1, <3>1, <3>2, <3>3, <3>4, <3>5
    <2> QED BY <2>2, <2>3
  <1>11. ext = IF isDots \/ Paths!FindLastDot(base) = Paths!npos THEN <<>>
               ELSE SubSeq(base, Paths!FindLastDot(base) + 1, Len(base))
    <2>1. (base \in {<<Paths!Dot>>, <<Paths!Dot, Paths!Dot>>}) <=> isDots
      BY DEF Paths!Dot
    <2>2. ext = IF base \in {<<Paths!Dot>>, <<Paths!Dot, Paths!Dot>>} \/ Paths!FindLastDot(base) = Paths!npos THEN <<>>
                ELSE SubSeq(base, Paths!FindLastDot(base) + 1, Len(base))
      BY Zenon DEF Paths!FinalExtension, Paths!From, base
    <2> HIDE DEF ext, isDots
    <2> QED BY <2>1, <2>2
  <1>12. Paths!RemoveFinalExtension(build, path) =
           IF ext = <<>> THEN path ELSE SubSeq(path, 1, Len(path) - Len(ext))
    BY Zenon DEF Paths!RemoveFinalExtension, Paths!Resized
  <1>13. path \o <<>> = path
    OBVIOUS
  <1> HIDE DEF isDots, ext, l, m
  <1>14. CASE isDots
    BY <1>11, <1>12, <1>13, <1>14
  <1>15. CASE \A i \in 1 .. Len(base) : base[i] # "."
    <2>1. Paths!FindLastDot(base) = Paths!npos
      <3>1. \A p : ~LastDotIs(base, p)
        BY <1>15 DEF LastDotIs
      <3> QED BY <1>9, <3>1, LastDots
    <2>2. "." \notin Paths!ToSet(base)
      BY <1>9, <1>15 DEF Paths!ToSet
    <2> QED BY <1>11, <1>12, <1>13, <2>1, <2>2
  <1>16. CASE ~isDots /\ ~ \A i \in 1 .. Len(base) : base[i] # "."
    <2>1. PICK p : LastDotIs(base, p)
      BY <1>9, <1>16, LastDots
    <2>2. /\ p \in 1 .. l /\ base[p] = "."
          /\ \A i \in p + 1 .. l : base[i] # "."
          /\ Paths!FindLastDot(base) = p - 1
      BY <1>9, <2>1 DEF LastDotIs
    <2>3. Paths!FindLastDot(base) # Paths!npos
      <3>1. p <= Len(path) /\ p \in Nat
        BY <1>3, <1>4, <1>8, <2>2 DEF l
      <3> QED BY <1>3, <2>2, <3>1, SizesAre
    <2>4. ext = SubSeq(base, p, l)
      <3>1. (p - 1) + 1 = p
        BY <2>2
      <3> QED BY <1>9, <1>11, <1>16, <2>2, <2>3, <3>1
    <2> DEFINE a == (k + c) + (p - 1)
               z == l - p + 1
    <2>5. ext \in Seq(C) /\ Len(ext) = z /\ \A i \in 1 .. z : ext[i] = base[p + i - 1]
      <3>1. p \in Nat \ {0} /\ l \in 0 .. Len(base) /\ p <= l + 1
        BY <1>8, <1>9, <2>2
      <3> QED BY <1>9, <2>4, <3>1, PieceIs
    <2>6. z \in Nat \ {0} /\ z = Len(path) - a /\ a \in 0 .. Len(path)
      BY <1>3, <1>4, <1>8, <2>2 DEF l
    <2>7. ext # <<>>
      BY <2>5, <2>6
    <2>8. Paths!RemoveFinalExtension(build, path) = SubSeq(path, 1, a)
      <3>1. Len(path) - z = a
        BY <1>3, <2>6
      <3> QED BY <1>12, <2>5, <2>7, <3>1
    <2>9. ext = SubSeq(path, a + 1, Len(path))
      <3> DEFINE v == SubSeq(path, a + 1, Len(path))
      <3> HIDE DEF a, z
      <3>1. v \in Seq(C) /\ Len(v) = Len(path) - (a + 1) + 1
            /\ \A i \in 1 .. Len(path) - (a + 1) + 1 : v[i] = path[(a + 1) + i - 1]
        <4>1. a + 1 \in Nat \ {0} /\ Len(path) \in 0 .. Len(path) /\ a + 1 <= Len(path) + 1
          BY <1>3, <2>6
        <4> QED BY <4>1, PieceIs
      <3>2. Len(path) - (a + 1) + 1 = z
        BY <1>3, <2>6
      <3> HIDE DEF v
      <3>3. ASSUME NEW i \in 1 .. z
            PROVE  ext[i] = v[i]
        <4>1. p + i - 1 \in 1 .. l
          BY <1>8, <2>2, <2>6 DEF z
        <4>2. c + (p + i - 1) \in 1 .. m
          BY <1>2, <1>8, <4>1 DEF l
        <4>3. base[p + i - 1] = path[k + (c + (p + i - 1))]
          BY <1>4, <1>9, <4>1, <4>2
        <4>4. k + (c + (p + i - 1)) = (a + 1) + i - 1
          BY <1>3, <1>8, <2>2, <2>6 DEF a
        <4> QED BY <2>5, <3>1, <3>2, <4>3, <4>4
      <3>4. ext = v
        <4>1. Len(ext) = Len(v)
          BY <2>5, <3>1, <3>2
        <4>2. \A i \in 1 .. Len(ext) : ext[i] = v[i]
          BY <2>5, <3>3
        <4> QED BY <2>5, <3>1, <4>1, <4>2, SameSequences
      <3> QED BY <3>4 DEF v
    <2>10. Paths!RemoveFinalExtension(build, path) \o ext = path
      BY <2>6, <2>8, <2>9, CutBehind
    <2>11. Head(ext) = "."
      <3>1. Head(ext) = ext[1] /\ 1 \in 1 .. z /\ p + 1 - 1 = p
        BY <2>2, <2>5, <2>6, <2>7
      <3> QED BY <2>2, <2>5, <3>1
    <2>12. ASSUME NEW x \in Paths!ToSet(Tail(ext))
           PROVE  ~Sep(build, x) /\ x # "."
      <3>1. /\ Tail(ext) \in Seq(C) /\ Len(Tail(ext)) = z - 1
            /\ \A i \in 1 .. z - 1 : Tail(ext)[i] = ext[i + 1]
        BY <2>5, <2>6, <2>7
      <3>2. PICK i \in 1 .. z - 1 : x = Tail(ext)[i]
        BY <3>1 DEF Paths!ToSet
      <3> DEFINE j == p + (i + 1) - 1
      <3>3. i + 1 \in 1 .. z /\ j \in p + 1 .. l /\ j \in 1 .. l
        BY <1>8, <2>2, <2>6 DEF z
      <3>4. x = base[j]
        BY <2>5, <3>1, <3>2, <3>3
      <3> HIDE DEF j
      <3> QED BY <1>10, <2>2, <3>3, <3>4
    <2>13. Paths!ToSet(Tail(ext)) \cap (Paths!ToSet(build.separators) \cup {"."}) = {}
      <3>1. \A x : Sep(build, x) <=> x \in Paths!ToSet(build.separators)
        BY Zenon DEF Sep, Paths!IsSeparator
      <3> QED BY <2>12, <3>1
    <2> QED BY <1>16, <2>7, <2>10, <2>11, <2>13
  <1> QED
    BY <1>14, <1>15, <1>16

LEMMA LettersAre ==
  /\ DOMAIN Lowercase = {"c", "C"}
  /\ Lowercase["c"] = "c" /\ Lowercase["C"] = "c"
  BY DEF Lowercase

LEMMA EqualButForCase ==
  ASSUME NEW D, NEW build, build.drives, NEW a \in Seq(D), NEW b \in Seq(D),
         Len(a) = Len(b), Len(a) >= 2, a[1] \in DOMAIN Lowercase, b[1] \in DOMAIN Lowercase,
         \A i \in 2 .. Len(a) : a[i] = b[i], a[2] = ":"
  PROVE  Paths!EqualDriveLetterCaseInsensitive(build, a, b)
  <1> DEFINE n == Len(a)
  <1>1. n \in Nat /\ n >= 2 /\ 2 \in 2 .. n /\ b[2] = ":"
    OBVIOUS
  <1>2. /\ Paths!At(a, 0) = a[1] /\ Paths!At(a, 1) = a[2] /\ Paths!At(b, 0) = b[1]
        /\ Paths!At(b, 1) = b[2]
    BY DEF Paths!At
  <1>3. Paths!FindDriveLetter(build, a) = 1 /\ Paths!FindDriveLetter(build, b) = 1
    BY <1>1, <1>2 DEF Paths!FindDriveLetter
  <1>4. Paths!npos # 1
    BY SizesAre
  <1>5. Lowercase[a[1]] = Lowercase[b[1]]
    BY LettersAre
  <1>6. Paths!From(a, 2) = Paths!From(b, 2)
    <2> DEFINE u == SubSeq(a, 3, n)
               v == SubSeq(b, 3, n)
    <2>1. 3 \in Nat \ {0} /\ n \in 0 .. Len(a) /\ n \in 0 .. Len(b) /\ 3 <= n + 1
      BY <1>1
    <2>2. u \in Seq(D) /\ Len(u) = n - 3 + 1 /\ \A i \in 1 .. n - 3 + 1 : u[i] = a[3 + i - 1]
      BY <2>1, PieceIs
    <2>3. v \in Seq(D) /\ Len(v) = n - 3 + 1 /\ \A i \in 1 .. n - 3 + 1 : v[i] = b[3 + i - 1]
      BY <2>1, PieceIs
    <2> HIDE DEF u, v
    <2>4. \A i \in 1 .. n - 3 + 1 : 3 + i - 1 \in 2 .. n
      BY <1>1
    <2>5. \A i \in 1 .. Len(u) : u[i] = v[i]
      BY <2>2, <2>3, <2>4
    <2>6. u = v
      BY <2>2, <2>3, <2>5, SameSequences
    <2> QED BY <2>6 DEF u, v, Paths!From
  <1> QED
    BY <1>2, <1>3, <1>4, <1>5, <1>6 DEF Paths!EqualDriveLetterCaseInsensitive

LEMMA SameButForCaseHolds ==
  ASSUME NEW C, NEW build \in Paths!Builds, NEW path \in Seq(C), Len(path) < SizeValues,
         Paths!Drive(build, path) # <<>>
  PROVE  Paths!SameButForCase(build, path, OtherCase(path))
  <1> DEFINE D == C \cup {"C"}
             other == OtherCase(path)
             r == Behind(build, path)
             g == DirKept(build, r)
             c == BaseStart(build, r)
             e == KeptLength(build, r)
             n == Len(path)
  <1>1. DriveLength(build, path) = 2
    BY DrivesAre DEF DriveIs
  <1>2. n >= 2 /\ n \in Nat /\ path[1] \in DOMAIN Lowercase /\ path[2] = ":" /\ build.drives
    BY <1>1 DEF DriveLength
  <1>3. path \in Seq(D)
    <2>1. \A i \in 1 .. n : path[i] \in D
      OBVIOUS
    <2> QED BY <2>1
  <1>4. /\ other \in Seq(D) /\ Len(other) = n
        /\ other[1] \in DOMAIN Lowercase
        /\ \A i \in 2 .. n : other[i] = path[i]
    <2>1. other = [path EXCEPT ![1] = IF path[1] = "c" THEN "C" ELSE path[1]]
      BY DEF OtherCase
    <2>2. (IF path[1] = "c" THEN "C" ELSE path[1]) \in D
      BY <1>2, <1>3
    <2>3. other \in Seq(D) /\ Len(other) = n
      <3>1. path \in [1 .. n -> D]
        BY <1>3
      <3>2. other \in [1 .. n -> D]
        BY <2>1, <2>2, <3>1
      <3> HIDE DEF other
      <3> QED BY <1>2, <3>2
    <2>4. other[1] = IF path[1] = "c" THEN "C" ELSE path[1]
      BY <1>2, <2>1
    <2>5. \A i \in 2 .. n : other[i] = path[i]
      BY <2>1
    <2>6. other[1] \in DOMAIN Lowercase
      BY <1>2, <2>4, LettersAre
    <2> QED BY <2>3, <2>5, <2>6
  <1> HIDE DEF D, other
  <1>5. other[2] = ":" /\ DriveLength(build, other) = 2
    <2>1. 2 \in 2 .. n
      BY <1>2
    <2> QED BY <1>2, <1>4, <2>1 DEF DriveLength
  <1>6. Behind(build, other) = r
    <2> DEFINE w == Behind(build, other)
    <2>1. /\ r \in Seq(D) /\ Len(r) = n - 2 /\ Len(r) \in Nat
          /\ \A i \in 1 .. Len(r) : r[i] = path[2 + i]
      BY <1>1, <1>3, BehindAre DEF BehindIs
    <2>2. /\ w \in Seq(D) /\ Len(w) = n - 2
          /\ \A i \in 1 .. Len(w) : w[i] = other[2 + i]
      BY <1>4, <1>5, BehindAre DEF BehindIs
    <2> HIDE DEF w, r
    <2>3. \A i \in 1 .. Len(w) : 2 + i \in 2 .. n
      BY <1>2, <2>2
    <2>4. \A i \in 1 .. Len(w) : w[i] = r[i]
      BY <1>4, <2>1, <2>2, <2>3
    <2>5. w = r
      BY <2>1, <2>2, <2>4, SameSequences
    <2> QED BY <2>5 DEF w
  <1>7. g \in 0 .. n - 2
    <2>1. r \in Seq(C) /\ Len(r) = n - 2
      BY <1>1, BehindAre DEF BehindIs
    <2>2. PartsAre(build, r)
      BY <2>1, PathParts
    <2>3. /\ KeptLength(build, r) \in 0 .. Len(r) /\ BaseAt(build, r) \in 0 .. KeptLength(build, r)
          /\ DirAt(build, r) \in 0 .. BaseAt(build, r) /\ DirKept(build, r) \in 0 .. DirAt(build, r)
      BY <2>2, Zenon DEF PartsAre
    <2> HIDE DEF r, n
    <2> QED BY <2>1, <2>3, <1>2
  <1>8. /\ Paths!DirName(build, path) = SubSeq(path, 1, 2 + g)
        /\ Paths!BaseName(build, path) = SubSeq(r, c + 1, e)
    <2>1. Paths!DirName(build, path) = IF 2 + g = 0 THEN <<".">> ELSE SubSeq(path, 1, 2 + g)
      BY <1>1, DirNameIs
    <2>2. 2 + g # 0
      BY <1>2, <1>7
    <2>3. Paths!BaseName(build, path) = SubSeq(r, c + 1, e)
      BY BaseNameIs
    <2> QED BY <2>1, <2>2, <2>3
  <1> HIDE DEF r
  <1>9. /\ Paths!DirName(build, other) = SubSeq(other, 1, 2 + g)
        /\ Paths!BaseName(build, other) = SubSeq(r, c + 1, e)
    <2>0. Len(other) < SizeValues
      BY <1>4
    <2>1. Paths!DirName(build, other) = IF 2 + g = 0 THEN <<".">> ELSE SubSeq(other, 1, 2 + g)
      BY <1>4, <1>5, <1>6, <2>0, DirNameIs
    <2>2. 2 + g # 0
      BY <1>2, <1>7
    <2>3. Paths!BaseName(build, other) = SubSeq(r, c + 1, e)
      BY <1>4, <1>6, <2>0, BaseNameIs
    <2> QED BY <2>1, <2>2, <2>3
  <1>10. Paths!EqualDriveLetterCaseInsensitive(build, path, other)
    BY <1>2, <1>3, <1>4, EqualButForCase
  <1>11. Paths!EqualDriveLetterCaseInsensitive(build, SubSeq(path, 1, 2 + g), SubSeq(other, 1, 2 + g))
    <2> DEFINE z == 2 + g
               u == SubSeq(path, 1, z)
               v == SubSeq(other, 1, z)
    <2>1. z \in 2 .. n /\ z \in 0 .. Len(path) /\ z \in 0 .. Len(other)
      BY <1>2, <1>4, <1>7
    <2> HIDE DEF z
    <2>2. u \in Seq(D) /\ Len(u) = z /\ \A i \in 1 .. z : u[i] = path[i]
      BY <1>3, <2>1
    <2>3. v \in Seq(D) /\ Len(v) = z /\ \A i \in 1 .. z : v[i] = other[i]
      BY <1>4, <2>1
    <2> HIDE DEF u, v
    <2>4. u[1] \in DOMAIN Lowercase /\ v[1] \in DOMAIN Lowercase /\ u[2] = ":"
      BY <1>2, <1>4, <2>1, <2>2, <2>3
    <2>5. \A i \in 2 .. z : i \in 1 .. z /\ i \in 2 .. n
      BY <2>1
    <2>6. \A i \in 2 .. Len(u) : u[i] = v[i]
      BY <1>4, <2>2, <2>3, <2>5
    <2>7. Paths!EqualDriveLetterCaseInsensitive(build, u, v)
      <3>1. u \in Seq(D) /\ v \in Seq(D) /\ Len(u) = Len(v) /\ Len(u) >= 2
        BY <2>1, <2>2, <2>3
      <3> QED BY <1>2, <2>4, <2>6, <3>1, EqualButForCase
    <2> QED BY <2>7 DEF u, v, z
  <1> QED
    BY <1>8, <1>9, <1>10, <1>11 DEF Paths!SameButForCase, other

(* Two paths that say the same. *)
SaysTheSame(build, path, other) ==
  /\ Paths!Drive(build, other) = Paths!Drive(build, path)
  /\ Paths!Slashes(build, other) = Paths!Slashes(build, path)
  /\ Paths!Names(build, other) = Paths!Names(build, path)

LEMMA DriveOfJoined ==
  ASSUME NEW D, NEW build \in Paths!Builds, NEW p \in Seq(D), NEW a \in Seq(D),
         \/ Len(p) >= 2
         \/ Len(p) = 1 /\ Sep(build, p[1])
         \/ Len(p) = 1 /\ Len(a) >= 1 /\ Sep(build, a[1])
         \/ DriveLength(build, a) = 0 /\ (p = <<>> \/ a = <<>>)
  PROVE  DriveLength(build, p \o a) = DriveLength(build, p)
  <1>1. /\ p \o a \in Seq(D) /\ Len(p \o a) = Len(p) + Len(a)
        /\ \A i \in 1 .. Len(p) : (p \o a)[i] = p[i]
        /\ \A i \in 1 .. Len(a) : (p \o a)[Len(p) + i] = a[i]
    BY JoinIs
  <1>2. Len(p) \in Nat /\ Len(a) \in Nat
    OBVIOUS
  <1>3. CASE Len(p) >= 2
    <2>1. (p \o a)[1] = p[1] /\ (p \o a)[2] = p[2] /\ Len(p \o a) >= 2
      BY <1>1, <1>2, <1>3
    <2> QED BY <1>3, <2>1 DEF DriveLength
  <1>4. CASE Len(p) = 1 /\ Sep(build, p[1])
    <2>1. (p \o a)[1] = p[1]
      BY <1>1, <1>4
    <2>2. p[1] \notin DOMAIN Lowercase
      BY <1>4, SeparatorsAre
    <2> QED BY <1>4, <2>1, <2>2 DEF DriveLength
  <1>5. CASE Len(p) = 1 /\ Len(a) >= 1 /\ Sep(build, a[1])
    <2>1. 1 \in 1 .. Len(a) /\ (p \o a)[Len(p) + 1] = a[1]
      BY <1>1, <1>2, <1>5
    <2>2. (p \o a)[2] = a[1]
      BY <1>5, <2>1
    <2>3. a[1] # ":"
      BY <1>5, SeparatorsAre
    <2> QED BY <1>5, <2>2, <2>3 DEF DriveLength
  <1>6. CASE DriveLength(build, a) = 0 /\ p = <<>>
    <2>1. p \o a = a
      BY <1>6
    <2>2. DriveLength(build, p) = 0
      BY <1>6 DEF DriveLength
    <2> QED BY <1>6, <2>1, <2>2
  <1>7. CASE a = <<>>
    <2>1. p \o a = p
      BY <1>7
    <2> QED BY <2>1
  <1> QED BY <1>3, <1>4, <1>5, <1>6, <1>7

LEMMA BehindJoined ==
  ASSUME NEW D, NEW build \in Paths!Builds, NEW p \in Seq(D), NEW a \in Seq(D),
         DriveLength(build, p \o a) = DriveLength(build, p)
  PROVE  Behind(build, p \o a) = Behind(build, p) \o a
  <1> DEFINE k == DriveLength(build, p)
             pa == p \o a
             w == Behind(build, p)
             x == Behind(build, pa)
             y == w \o a
  <1>1. /\ pa \in Seq(D) /\ Len(pa) = Len(p) + Len(a)
        /\ \A i \in 1 .. Len(p) : pa[i] = p[i]
        /\ \A i \in 1 .. Len(a) : pa[Len(p) + i] = a[i]
    BY JoinIs
  <1>2. w \in Seq(D) /\ Len(w) = Len(p) - k /\ \A i \in 1 .. Len(w) : w[i] = p[k + i]
    BY BehindAre DEF BehindIs
  <1>3. x \in Seq(D) /\ Len(x) = Len(pa) - k /\ \A i \in 1 .. Len(x) : x[i] = pa[k + i]
    <2>1. x \in Seq(D) /\ BehindIs(build, pa)
      BY <1>1, BehindAre
    <2>2. DriveLength(build, pa) = k
      OBVIOUS
    <2> HIDE DEF k, pa
    <2> QED BY <2>1, <2>2 DEF BehindIs
  <1>4. k \in {0, 2} /\ k <= Len(p) /\ Len(p) \in Nat /\ Len(a) \in Nat
    BY DrivesAre DEF DriveIs
  <1> HIDE DEF k, pa, w, x
  <1>5. /\ y \in Seq(D) /\ Len(y) = Len(w) + Len(a)
        /\ \A i \in 1 .. Len(w) : y[i] = w[i]
        /\ \A i \in 1 .. Len(a) : y[Len(w) + i] = a[i]
    <2>1. w \in Seq(D)
      BY <1>2
    <2> QED BY <2>1, JoinIs
  <1> HIDE DEF y
  <1>6. Len(x) = Len(y)
    BY <1>1, <1>2, <1>3, <1>4, <1>5
  <1>7. ASSUME NEW i \in 1 .. Len(x)
        PROVE  x[i] = y[i]
    <2>1. x[i] = pa[k + i]
      BY <1>3
    <2>2. CASE i <= Len(w)
      <3>1. i \in 1 .. Len(w) /\ k + i \in 1 .. Len(p)
        BY <1>2, <1>4, <2>2
      <3> QED BY <1>1, <1>2, <1>5, <2>1, <3>1
    <2>3. CASE i > Len(w)
      <3> DEFINE j == i - Len(w)
      <3>1. j \in 1 .. Len(a) /\ Len(p) + j = k + i /\ Len(w) + j = i
        BY <1>1, <1>2, <1>3, <1>4, <2>3, SMTT(60)
      <3> HIDE DEF j
      <3>2. pa[Len(p) + j] = a[j] /\ y[Len(w) + j] = a[j]
        BY <1>1, <1>5, <3>1
      <3> QED BY <2>1, <3>1, <3>2
    <2> QED BY <1>2, <1>4, <2>2, <2>3
  <1>8. x = y
    BY <1>3, <1>5, <1>6, <1>7, SameSequences
  <1> QED BY <1>8 DEF x, y, pa, w

(* A separator behind the last name says nothing. *)
LEMMA SeparatorBehind ==
  ASSUME NEW D, NEW build \in Paths!Builds, NEW q \in Seq(D), NEW x \in D, Sep(build, x),
         q # <<>>, ~Sep(build, q[Len(q)]), Len(q) # DriveLength(build, q)
  PROVE  SaysTheSame(build, q, q \o <<x>>)
  <1> DEFINE p == q \o <<x>>
             k == DriveLength(build, q)
             w == Behind(build, q)
             y == Behind(build, p)
             n == Len(w)
  <1>1. <<x>> \in Seq(D) /\ Len(<<x>>) = 1 /\ <<x>>[1] = x /\ Len(q) \in Nat /\ Len(q) >= 1
    OBVIOUS
  <1>2. /\ p \in Seq(D) /\ Len(p) = Len(q) + 1
        /\ \A i \in 1 .. Len(q) : p[i] = q[i]
    BY <1>1, JoinIs
  <1>3. DriveLength(build, p) = k
    <2>1. CASE Len(q) >= 2
      BY <1>1, <2>1, DriveOfJoined
    <2>2. CASE Len(q) = 1
      <3>1. Len(<<x>>) >= 1 /\ Sep(build, <<x>>[1])
        BY <1>1
      <3> QED BY <1>1, <2>2, <3>1, DriveOfJoined
    <2> QED BY <1>1, <2>1, <2>2
  <1>4. y = w \o <<x>>
    BY <1>1, <1>3, BehindJoined
  <1>5. w \in Seq(D) /\ n = Len(q) - k /\ n \in Nat /\ \A i \in 1 .. n : w[i] = q[k + i]
    BY BehindAre DEF BehindIs
  <1>6. k \in {0, 2} /\ k <= Len(q)
    BY DrivesAre DEF DriveIs
  <1> HIDE DEF p, w, y
  <1>7. /\ y \in Seq(D) /\ Len(y) = n + 1 /\ y[n + 1] = x
        /\ \A i \in 1 .. n : y[i] = w[i]
    <2>1. /\ w \o <<x>> \in Seq(D) /\ Len(w \o <<x>>) = Len(w) + 1
          /\ \A i \in 1 .. Len(w) : (w \o <<x>>)[i] = w[i]
          /\ \A i \in 1 .. 1 : (w \o <<x>>)[Len(w) + i] = <<x>>[i]
      BY <1>1, <1>5, JoinIs
    <2> QED BY <1>1, <1>4, <2>1
  <1>8. n >= 1 /\ ~Sep(build, y[n])
    <2>1. n >= 1 /\ n \in 1 .. n /\ k + n = Len(q)
      BY <1>1, <1>5, <1>6
    <2> QED BY <1>5, <1>7, <2>1
  <1>9. CutReads(build, p, y, n, Paths!SlashesIn(build, y))
    <2>1. n \in 0 .. Len(Behind(build, p))
      BY <1>5, <1>7 DEF y
    <2> QED BY <1>2, <2>1, CutIsRead DEF y
  <1>10. SubSeq(p, 1, k + n) = q
    <2> DEFINE u == SubSeq(p, 1, k + n)
    <2>1. k + n = Len(q) /\ k + n \in 0 .. Len(p)
      BY <1>2, <1>5, <1>6
    <2>2. u \in Seq(D) /\ Len(u) = Len(q) /\ \A i \in 1 .. Len(q) : u[i] = p[i]
      BY <1>2, <2>1
    <2> HIDE DEF u
    <2>3. u = q
      BY <1>2, <2>2, SameSequences
    <2> QED BY <2>3 DEF u
  <1>11. /\ Paths!Drive(build, q) = Paths!Drive(build, p)
         /\ Paths!Names(build, q) = FirstNames(build, y, n)
         /\ Paths!SlashesIn(build, y) <= n => Paths!Slashes(build, q) = Paths!SlashesIn(build, y)
    BY <1>3, <1>9, <1>10 DEF CutReads
  <1>12. Paths!Names(build, p) = FirstNames(build, y, n)
    <2>1. /\ Paths!Names(build, p) = FirstNames(build, y, Len(y))
          /\ Paths!Slashes(build, p) = Paths!SlashesIn(build, y)
      BY <1>2, PathReads DEF PathSays, y
    <2>2. FirstNames(build, y, n + 1) = WithCharacter(build, y, n + 1, FirstNames(build, y, (n + 1) - 1))
      <3>1. Firsts(build, y) /\ n + 1 \in 1 .. Len(y)
        BY <1>5, <1>7, NamesStep
      <3> QED BY <3>1 DEF Firsts
    <2>3. (n + 1) - 1 = n
      BY <1>5
    <2>4. FirstNames(build, y, n + 1) = FirstNames(build, y, n)
      BY <1>7, <2>2, <2>3 DEF WithCharacter
    <2> QED BY <1>7, <2>1, <2>4
  <1>13. Paths!Slashes(build, p) = Paths!Slashes(build, q)
    <2>1. Leading(build, y, Paths!SlashesIn(build, y))
      BY <1>7, SlashesLead
    <2>2. Paths!SlashesIn(build, y) < n
      <3>1. SUFFICES ASSUME Paths!SlashesIn(build, y) >= n PROVE FALSE
        BY <1>5, <2>1 DEF Leading
      <3>2. n \in 1 .. Paths!SlashesIn(build, y)
        BY <1>5, <1>8, <2>1, <3>1 DEF Leading
      <3> QED BY <1>8, <2>1, <3>2 DEF Leading
    <2>3. Paths!Slashes(build, p) = Paths!SlashesIn(build, y)
      BY <1>2, PathReads DEF PathSays, y
    <2>4. Paths!SlashesIn(build, y) \in Int
      BY <2>1 DEF Leading
    <2> QED BY <1>5, <1>11, <2>2, <2>3, <2>4
  <1>14. SaysTheSame(build, q, p)
    BY <1>11, <1>12, <1>13 DEF SaysTheSame
  <1> QED BY <1>14 DEF p

(* What a path says with a relative one put behind it. *)
JoinedReads(build, p, a) ==
  /\ Paths!Drive(build, p \o a) = Paths!Drive(build, p)
  /\ Paths!Slashes(build, p \o a) = Paths!Slashes(build, p)
  /\ Paths!Names(build, p \o a) = Paths!Names(build, p) \o Paths!Names(build, a)

LEMMA JoinedIsRead ==
  ASSUME NEW D, NEW build \in Paths!Builds, NEW p \in Seq(D), NEW a \in Seq(D),
         DriveLength(build, a) = 0, Paths!Slashes(build, a) = 0,
         a = <<>> \/ Len(p) = DriveLength(build, p) \/ Sep(build, p[Len(p)])
  PROVE  JoinedReads(build, p, a)
  <1> DEFINE k == DriveLength(build, p)
             pa == p \o a
             w == Behind(build, p)
             s == Paths!SlashesIn(build, w)
  <1>1. /\ pa \in Seq(D) /\ Len(pa) = Len(p) + Len(a)
        /\ \A i \in 1 .. Len(p) : pa[i] = p[i]
        /\ \A i \in 1 .. Len(a) : pa[Len(p) + i] = a[i]
    BY JoinIs
  <1>2. k \in {0, 2} /\ k <= Len(p) /\ Len(p) \in Nat /\ Len(a) \in Nat
    BY DrivesAre DEF DriveIs
  <1>3. DriveLength(build, pa) = k
    <2>1. \/ Len(p) >= 2
          \/ Len(p) = 1 /\ Sep(build, p[1])
          \/ p = <<>> \/ a = <<>>
      <3>0. Len(p) = 0 => p = <<>>
        OBVIOUS
      <3>1. CASE a = <<>>
        BY <3>1
      <3>2. CASE Len(p) = k
        <4> HIDE DEF k
        <4>1. Len(p) = 0 \/ Len(p) = 2
          BY <1>2, <3>2
        <4>2. Len(p) = 2 => Len(p) >= 2
          OBVIOUS
        <4> QED BY <3>0, <4>1, <4>2, Zenon
      <3>3. CASE Sep(build, p[Len(p)])
        <4> HIDE DEF k
        <4>1. Len(p) \in Nat
          OBVIOUS
        <4>2. Len(p) = 0 \/ Len(p) = 1 \/ Len(p) >= 2
          <5>1. \A m \in Nat : m = 0 \/ m = 1 \/ m >= 2
            OBVIOUS
          <5> QED BY <4>1, <5>1, Zenon
        <4> QED BY <3>0, <3>3, <4>2
      <3> QED BY <3>1, <3>2, <3>3
    <2> QED BY <2>1, DriveOfJoined
  <1>4. Behind(build, pa) = w \o a
    BY <1>3, BehindJoined
  <1>5. /\ w \in Seq(D) /\ Len(w) = Len(p) - k /\ Len(w) \in Nat
        /\ \A i \in 1 .. Len(w) : w[i] = p[k + i]
    BY BehindAre DEF BehindIs
  <1>6. Behind(build, a) = a
    BY DEF Behind
  <1>7. /\ Paths!Drive(build, p) = SubSeq(p, 1, k)
        /\ Paths!Slashes(build, p) = s /\ Leading(build, w, s)
        /\ Paths!Names(build, p) = Paths!NamesIn(build, w)
    <2>1. Paths!Rest(build, p) = w /\ Paths!Drive(build, p) = SubSeq(p, 1, k)
      BY DrivesAre DEF DriveIs, Behind
    <2>2. Leading(build, w, s)
      BY <1>5, SlashesLead
    <2> QED BY <2>1, <2>2 DEF Paths!Slashes, Paths!Names
  <1>8. /\ Paths!Drive(build, pa) = SubSeq(pa, 1, k)
        /\ Paths!Slashes(build, pa) = Paths!SlashesIn(build, w \o a)
        /\ Paths!Names(build, pa) = Paths!NamesIn(build, w \o a)
    <2>1. Paths!Rest(build, pa) = w \o a /\ Paths!Drive(build, pa) = SubSeq(pa, 1, k)
      <3>1. DriveIs(build, pa)
        BY <1>1, DrivesAre
      <3>2. /\ Paths!Rest(build, pa) = SubSeq(pa, k + 1, Len(pa))
            /\ Paths!Drive(build, pa) = SubSeq(pa, 1, k)
        BY <1>3, <3>1, Zenon DEF DriveIs
      <3>3. Behind(build, pa) = SubSeq(pa, k + 1, Len(pa))
        BY <1>3, Zenon DEF Behind
      <3> QED BY <1>4, <3>2, <3>3
    <2> QED BY <2>1 DEF Paths!Slashes, Paths!Names
  <1>9. /\ Paths!SlashesIn(build, a) = 0 /\ Leading(build, a, 0)
        /\ Paths!Names(build, a) = Paths!NamesIn(build, a)
    <2>1. Paths!Rest(build, a) = a
      <3>1. Paths!Rest(build, a) = Behind(build, a)
        BY PathReads DEF PathSays
      <3> QED BY <1>6, <3>1
    <2>2. Paths!SlashesIn(build, a) = 0
      BY <2>1 DEF Paths!Slashes
    <2>3. Leading(build, a, Paths!SlashesIn(build, a))
      BY SlashesLead
    <2> QED BY <2>1, <2>2, <2>3 DEF Paths!Names
  <1>10. SubSeq(pa, 1, k) = SubSeq(p, 1, k)
    <2> DEFINE x == SubSeq(pa, 1, k)
               y == SubSeq(p, 1, k)
    <2> HIDE DEF pa, k
    <2>1. k \in 0 .. Len(p) /\ k \in 0 .. Len(pa)
      BY <1>1, <1>2
    <2>2. x \in Seq(D) /\ Len(x) = k /\ \A i \in 1 .. k : x[i] = pa[i]
      BY <1>1, <2>1
    <2>3. y \in Seq(D) /\ Len(y) = k /\ \A i \in 1 .. k : y[i] = p[i]
      BY <2>1
    <2> HIDE DEF x, y
    <2>4. \A i \in 1 .. k : i \in 1 .. Len(p)
      BY <1>2, <2>1
    <2>5. \A i \in 1 .. Len(x) : x[i] = y[i]
      <3>1. \A i \in 1 .. k : pa[i] = p[i]
        BY <1>1, <2>4
      <3> QED BY <2>2, <2>3, <3>1
    <2>6. x = y
      BY <2>2, <2>3, <2>5, SameSequences
    <2> QED BY <2>6 DEF x, y
  <1> HIDE DEF w, pa, k
  <1>11. Paths!SlashesIn(build, w \o a) = s
    <2> DEFINE y == w \o a
    <2>1. /\ y \in Seq(D) /\ Len(y) = Len(w) + Len(a)
          /\ \A i \in 1 .. Len(w) : y[i] = w[i]
          /\ \A i \in 1 .. Len(a) : y[Len(w) + i] = a[i]
      <3>1. w \in Seq(D)
        BY <1>5
      <3> QED BY <3>1, JoinIs
    <2>2. s \in 0 .. Len(w) /\ \A i \in 1 .. s : Sep(build, w[i])
      BY <1>7, SMTT(60) DEF Leading
    <2>3. s < Len(w) => ~Sep(build, w[s + 1])
      BY <1>7 DEF Leading
    <2> HIDE DEF y, s
    <2>4. s \in 0 .. Len(y) /\ \A i \in 1 .. s : Sep(build, y[i])
      <3>1. s \in 0 .. Len(y)
        BY <1>2, <1>5, <2>1, <2>2
      <3>2. \A i \in 1 .. s : i \in 1 .. Len(w)
        BY <1>5, <2>2
      <3>3. \A i \in 1 .. s : Sep(build, y[i])
        BY <2>1, <2>2, <3>2
      <3> QED BY <3>1, <3>3
    <2>5. ASSUME s < Len(y)
          PROVE  ~Sep(build, y[s + 1])
      <3>1. CASE s < Len(w)
        <4>1. s + 1 \in 1 .. Len(w)
          BY <1>5, <2>2, <3>1
        <4> QED BY <2>1, <2>3, <3>1, <4>1
      <3>2. CASE s = Len(w)
        <4>1. 0 < Len(a) /\ 1 \in 1 .. Len(a)
          BY <1>2, <1>5, <2>1, <2>5, <3>2, SMTT(60)
        <4>2. y[s + 1] = a[1]
          BY <2>1, <3>2, <4>1
        <4> QED BY <1>9, <4>1, <4>2 DEF Leading
      <3> QED BY <1>5, <2>2, <3>1, <3>2
    <2>6. Paths!SlashesIn(build, y) = s
      BY <2>1, <2>4, <2>5, SlashesAre, ZenonT(60)
    <2> QED BY <2>6 DEF y
  <1>12. w = <<>> \/ a = <<>> \/ Sep(build, w[Len(w)])
    <2>1. CASE Len(p) = k
      BY <1>2, <1>5, <2>1
    <2>2. CASE Len(p) # k /\ Sep(build, p[Len(p)])
      <3>1. Len(w) \in 1 .. Len(w) /\ k + Len(w) = Len(p)
        BY <1>2, <1>5, <2>2
      <3> QED BY <1>5, <2>2, <3>1
    <2> QED BY <2>1, <2>2 DEF k
  <1>13. Paths!NamesIn(build, w \o a) = Paths!NamesIn(build, w) \o Paths!NamesIn(build, a)
    <2>1. w \in Seq(D)
      BY <1>5
    <2>2. Apart(build, w, a)
      BY <1>12 DEF Apart
    <2>3. NamesFollow(build, w, a)
      BY <2>1, <2>2, NamesJoined
    <2> QED BY <2>3 DEF NamesFollow
  <1>14. Paths!Slashes(build, pa) = Paths!Slashes(build, p)
    BY <1>7, <1>8, <1>11
  <1>15. Paths!Names(build, pa) = Paths!Names(build, p) \o Paths!Names(build, a)
    BY <1>7, <1>8, <1>9, <1>13
  <1> QED
    BY <1>7, <1>8, <1>10, <1>14, <1>15, Zenon DEF JoinedReads, pa

(* Append, where the path is not the current directory. *)
LEMMA AppendReads ==
  ASSUME NEW C, NEW build \in Paths!Builds, NEW path \in Seq(C), NEW a \in Seq(C),
         Len(path) < SizeValues, DriveLength(build, a) = 0, Paths!Slashes(build, a) = 0,
         NEW separated \in BOOLEAN,
         separated <=> LET q == Paths!StripTrailingSeparators(build, path)
                       IN  /\ a # <<>> /\ q # <<>>
                           /\ ~Sep(build, Paths!At(q, Len(q) - 1))
                           /\ Paths!Plus(Paths!FindDriveLetter(build, q), 1) # Len(q)
  PROVE  LET q == Paths!StripTrailingSeparators(build, path)
             result == q \o (IF separated THEN <<build.separators[1]>> ELSE <<>>) \o a
         IN  /\ Paths!SameRoot(build, path, result)
             /\ Paths!Names(build, result) = Paths!Names(build, path) \o Paths!Names(build, a)
  <1> DEFINE x == build.separators[1]
             D == C \cup {x}
             k == DriveLength(build, path)
             r == Behind(build, path)
             e == KeptLength(build, r)
             s == Paths!SlashesIn(build, r)
             q == SubSeq(path, 1, k + e)
             p == q \o (IF separated THEN <<x>> ELSE <<>>)
  <1>1. Paths!StripTrailingSeparators(build, path) = q
    BY StrippedIs
  <1>2. /\ k \in {0, 2} /\ k <= Len(path) /\ Len(path) \in Nat
        /\ Len(r) = Len(path) - k /\ Leading(build, r, s) /\ KeptIs(build, r, e)
        /\ Paths!Slashes(build, path) = s /\ Paths!Names(build, path) = FirstNames(build, r, Len(r))
    <2>1. r \in Seq(C)
      BY BehindAre
    <2>2. PathSays(build, path, k, r, e, BaseAt(build, r), DirAt(build, r), DirKept(build, r), s)
      BY PathReads, Zenon
    <2>3. KeptIs(build, r, e)
      BY <2>1, KeptAre
    <2> QED BY <2>2, <2>3, Zenon DEF PathSays
  <1>3. r \in Seq(C) /\ Len(r) \in Nat /\ e \in 0 .. Len(r) /\ Sep(build, x)
    <2>1. r \in Seq(C)
      BY BehindAre
    <2>2. e \in 0 .. Len(r) /\ Len(r) \in Nat
      BY <1>2 DEF KeptIs
    <2>3. Sep(build, x)
      BY SeparatorsAre
    <2> QED BY <2>1, <2>2, <2>3
  <1>4. CutReads(build, path, r, e, s)
    BY <1>3, CutIsRead
  <1>5. q \in Seq(D) /\ Len(q) = k + e /\ DriveLength(build, q) = k /\ x \in D /\ a \in Seq(D)
    <2>1. q \in Seq(C) /\ Len(q) = k + e /\ DriveLength(build, q) = k
      BY <1>3, CutShort
    <2> HIDE DEF q
    <2>2. \A z : z \in Seq(C) => z \in Seq(D)
      <3>1. C \subseteq D
        OBVIOUS
      <3> HIDE DEF D
      <3> QED BY <3>1
    <2> QED BY <2>1, <2>2
  <1>6. /\ Paths!Drive(build, q) = Paths!Drive(build, path)
        /\ Paths!Names(build, q) = Paths!Names(build, path)
        /\ IF s <= 2 THEN Paths!Slashes(build, q) = s ELSE Paths!Slashes(build, q) > 0
    <2>1. /\ Paths!Drive(build, q) = Paths!Drive(build, path)
          /\ Paths!Names(build, q) = FirstNames(build, r, e)
          /\ s <= e => Paths!Slashes(build, q) = s
          /\ s > 0 /\ e > 0 => Paths!Slashes(build, q) > 0
      BY <1>4, Zenon DEF CutReads
    <2> HIDE DEF q, r, k, e, s
    <2>2. FirstNames(build, r, Len(r)) = FirstNames(build, r, e)
      <3>1. \A i \in e + 1 .. Len(r) : Sep(build, r[i])
        BY <1>2 DEF KeptIs
      <3>2. Len(r) \in e .. Len(r)
        BY <1>3
      <3> QED BY <1>3, <3>1, <3>2, SeparatorsAddNothing
    <2>3. s \in 0 .. Len(r) /\ (Len(r) >= 1 => e >= 1)
      BY <1>2 DEF KeptIs, Leading
    <2>4. s <= 2 => s <= e
      <3>1. SUFFICES ASSUME s <= 2, s > e PROVE FALSE
        BY <1>3, <2>3
      <3>2. s = 2 /\ e = 1 /\ Len(r) >= 2
        BY <1>3, <2>3, <3>1
      <3>3. Sep(build, r[1]) /\ Sep(build, r[2])
        BY <1>2, <3>2 DEF Leading
      <3>4. Len(r) # 2
        BY <1>2, <3>2, <3>3 DEF KeptIs, TwoAlone
      <3> DEFINE n == Len(r)
      <3>5. n \in Nat /\ n >= 2 /\ n # 2
        BY <1>3, <3>2, <3>4
      <3>6. n >= 3
        <4> HIDE DEF n
        <4> QED BY <3>5
      <3>7. 3 \in e + 1 .. Len(r)
        BY <1>3, <3>2, <3>6
      <3>8. Sep(build, r[3])
        BY <1>2, <3>7 DEF KeptIs
      <3>9. s < Len(r) /\ s + 1 = 3
        BY <1>3, <3>2, <3>6
      <3> QED BY <1>2, <3>8, <3>9 DEF Leading
    <2>5. s > 2 => s > 0 /\ e > 0
      BY <1>3, <2>3
    <2> QED BY <1>2, <1>3, <2>1, <2>2, <2>3, <2>4, <2>5
  <1>7. separated <=> a # <<>> /\ q # <<>> /\ ~Sep(build, q[Len(q)]) /\ Len(q) # k
    <2>1. Paths!Plus(Paths!FindDriveLetter(build, q), 1) = k
      <3>1. DriveIs(build, q)
        BY <1>5, DrivesAre
      <3> HIDE DEF q, k
      <3> QED BY <1>5, <3>1 DEF DriveIs
    <2>2. Paths!At(q, Len(q) - 1) = q[Len(q)]
      <3>1. Len(q) \in Int
        BY <1>5
      <3> HIDE DEF q
      <3>2. (Len(q) - 1) + 1 = Len(q)
        BY <3>1
      <3> QED BY <3>2 DEF Paths!At
    <2> HIDE DEF q, k
    <2> QED BY <1>1, <2>1, <2>2
  <1> HIDE DEF q, k, r, e, s, D, x
  <1>8. p \in Seq(D) /\ SaysTheSame(build, q, p)
    <2>1. CASE separated
      <3>1. p = q \o <<x>>
        BY <2>1
      <3>2. SaysTheSame(build, q, q \o <<x>>)
        BY <1>3, <1>5, <1>7, <2>1, SeparatorBehind
      <3>3. <<x>> \in Seq(D)
        BY <1>5
      <3>4. q \o <<x>> \in Seq(D)
        BY <1>5, <3>3, JoinIs
      <3> QED BY <3>1, <3>2, <3>4
    <2>2. CASE ~separated
      <3>1. p = q
        BY <1>5, <2>2
      <3> QED BY <1>5, <3>1 DEF SaysTheSame
    <2> QED BY <2>1, <2>2
  <1>9. a = <<>> \/ Len(p) = DriveLength(build, p) \/ Sep(build, p[Len(p)])
    <2>1. CASE separated
      <3>1. p = q \o <<x>>
        BY <2>1
      <3>2. <<x>> \in Seq(D) /\ Len(<<x>>) = 1 /\ <<x>>[1] = x
        BY <1>5
      <3>3. Len(p) = Len(q) + 1 /\ \A i \in 1 .. 1 : p[Len(q) + i] = <<x>>[i]
        BY <1>5, <3>1, <3>2, JoinIs
      <3>4. p[Len(p)] = x
        BY <3>2, <3>3
      <3> QED BY <1>3, <3>4
    <2>2. CASE ~separated
      <3>1. p = q
        BY <1>5, <2>2
      <3>2. q = <<>> => Len(q) = k
        BY <1>2, <1>3, <1>5
      <3> HIDE DEF p
      <3> QED BY <1>5, <1>7, <2>2, <3>1, <3>2
    <2> QED BY <2>1, <2>2
  <1> DEFINE result == p \o a
  <1> HIDE DEF p
  <1>10. JoinedReads(build, p, a)
    BY <1>5, <1>8, <1>9, JoinedIsRead
  <1>11. /\ Paths!Drive(build, result) = Paths!Drive(build, path)
         /\ Paths!Slashes(build, result) = Paths!Slashes(build, q)
         /\ Paths!Names(build, result) = Paths!Names(build, path) \o Paths!Names(build, a)
    BY <1>6, <1>8, <1>10, Zenon DEF JoinedReads, SaysTheSame
  <1>12. Paths!SameRoot(build, path, result)
    <2> HIDE DEF result
    <2> QED BY <1>2, <1>6, <1>11 DEF Paths!SameRoot
  <1> QED
    BY <1>1, <1>11, <1>12, Zenon DEF result, p, x

LEMMA RelativeIs ==
  ASSUME NEW C, NEW build \in Paths!Builds, NEW a \in Seq(C), Paths!Drive(build, a) = <<>>
  PROVE  DriveLength(build, a) = 0
  BY DrivesAre DEF DriveIs

LEMMA PutTogetherHolds ==
  ASSUME NEW C, NEW build \in Paths!Builds, NEW path \in Seq(C), NEW component,
         Paths!WithoutNuls(component) \in Seq(C), Len(path) < SizeValues
  PROVE  Paths!PutTogether(build, path, component)
  <1> DEFINE a == Paths!WithoutNuls(component)
             q == Paths!StripTrailingSeparators(build, path)
             separated == /\ a # <<>> /\ q # <<>>
                          /\ ~Paths!IsSeparator(build, Paths!At(q, Len(q) - 1))
                          /\ Paths!Plus(Paths!FindDriveLetter(build, q), 1) # Len(q)
             result == Paths!AppendComponent(build, path, component)
             joined == q \o (IF separated THEN <<build.separators[1]>> ELSE <<>>) \o a
  <1>1. result = IF path = <<".">> THEN a ELSE joined
    BY Zenon DEF Paths!AppendComponent, Paths!Dot
  <1>2. ASSUME Paths!Drive(build, a) = <<>>, Paths!Slashes(build, a) = 0, path # Paths!Current
        PROVE  /\ Paths!SameRoot(build, path, result)
               /\ Paths!Names(build, result) = Paths!Names(build, path) \o Paths!Names(build, a)
    <2>1. result = joined
      BY <1>1, <1>2 DEF Paths!Current, Paths!Dot
    <2>2. DriveLength(build, a) = 0
      BY <1>2, RelativeIs
    <2>3. separated \in BOOLEAN
      BY Zenon
    <2>4. separated <=> /\ a # <<>> /\ q # <<>>
                        /\ ~Sep(build, Paths!At(q, Len(q) - 1))
                        /\ Paths!Plus(Paths!FindDriveLetter(build, q), 1) # Len(q)
      BY Zenon DEF Sep
    <2> HIDE DEF a, separated, result
    <2>5. /\ Paths!SameRoot(build, path, joined)
          /\ Paths!Names(build, joined) = Paths!Names(build, path) \o Paths!Names(build, a)
      <3>1. a \in Seq(C)
        BY DEF a
      <3> QED BY <1>2, <2>2, <2>3, <2>4, <3>1, AppendReads, ZenonT(60)
    <2> QED BY <2>1, <2>5
  <1>3. ASSUME path = Paths!Current
        PROVE  result = a
    BY <1>1, <1>3 DEF Paths!Current, Paths!Dot
  <1> QED
    BY <1>2, <1>3, Zenon DEF Paths!PutTogether

-----------------------------------------------------------------------------
(* Every text makes a path that a string may hold. *)

LEMMA WithoutNulsIs ==
  ASSUME NEW C, NEW t \in Seq(C)
  PROVE  Paths!WithoutNuls(t) \in Seq(C) /\ Len(Paths!WithoutNuls(t)) <= Len(t)
  <1> DEFINE nuls == {i \in DOMAIN t : t[i] = Paths!Nul}
             n == Paths!Min(nuls)
  <1>1. CASE nuls = {}
    BY <1>1 DEF Paths!WithoutNuls
  <1>2. CASE nuls # {}
    <2>1. nuls \subseteq Nat /\ DOMAIN t = 1 .. Len(t) /\ Len(t) \in Nat
      OBVIOUS
    <2>2. PICK least \in nuls : \A i \in nuls : least <= i
      BY <1>2, <2>1, LeastNumber
    <2>3. n \in nuls
      BY <2>2, Zenon DEF Paths!Min
    <2>4. n \in 1 .. Len(t)
      BY <2>1, <2>3
    <2>5. Paths!WithoutNuls(t) = SubSeq(t, 1, n - 1)
      BY <1>2 DEF Paths!WithoutNuls
    <2> HIDE DEF n, nuls
    <2>6. n - 1 \in 0 .. Len(t) /\ n - 1 <= Len(t)
      BY <2>1, <2>4
    <2> DEFINE m == n - 1
    <2>7. m \in 0 .. Len(t)
      BY <2>6
    <2> HIDE DEF m
    <2>8. SubSeq(t, 1, m) \in Seq(C) /\ Len(SubSeq(t, 1, m)) = m
      BY <2>7
    <2>9. m <= Len(t)
      BY <2>1, <2>7
    <2> QED BY <2>5, <2>8, <2>9 DEF m
  <1> QED BY <1>1, <1>2

LEMMA HalvesAre ==
  ASSUME NEW C, NEW t \in Seq(C), NEW n \in 0 .. Len(t)
  PROVE  /\ SubSeq(t, 1, n) \in Seq(C) /\ Len(SubSeq(t, 1, n)) <= Len(t)
         /\ SubSeq(t, n + 1, Len(t)) \in Seq(C)
  <1>1. SubSeq(t, 1, n) \in Seq(C) /\ Len(SubSeq(t, 1, n)) = n
    OBVIOUS
  <1>2. n + 1 \in Nat \ {0} /\ Len(t) \in 0 .. Len(t) /\ n + 1 <= Len(t) + 1 /\ n <= Len(t)
    OBVIOUS
  <1>3. SubSeq(t, n + 1, Len(t)) \in Seq(C)
    BY <1>2, PieceIs
  <1> QED BY <1>1, <1>2, <1>3

-----------------------------------------------------------------------------
(* A text is over the characters of its topic and no longer than it may be, *)
(* for every alphabet and every length.                                     *)
THEOREM TextsKept == StringsSpec => []StringsTypeOK
  <1>1. StringsInit => StringsTypeOK
    BY StringsAssumption DEF StringsInit, StringsTypeOK, Topics
  <1>2. ASSUME StringsTypeOK, [StringsNext]_stringVars
        PROVE  StringsTypeOK'
    <2>1. CASE UNCHANGED stringVars
      BY <1>2, <2>1 DEF stringVars, StringsTypeOK
    <2>2. ASSUME topic \in Topics, NEW character \in Alphabet[topic], Write(character)
          PROVE  StringsTypeOK'
      <3>1. text \in Seq(Alphabet[topic]) /\ Len(text) < MaxLength[topic]
        BY <1>2, <2>2 DEF StringsTypeOK, Write
      <3>2. text' \in Seq(Alphabet[topic]) /\ Len(text') = Len(text) + 1 /\ topic' = topic
        BY <2>2, <3>1 DEF Write
      <3>3. Len(text') <= MaxLength[topic]
        BY <2>2, <3>1, <3>2, StringsAssumption DEF Topics
      <3> QED
        BY <2>2, <3>2, <3>3 DEF StringsTypeOK
    <2> QED
      BY <1>2, <2>1, <2>2 DEF StringsNext
  <1> QED
    BY <1>1, <1>2, PTL DEF StringsSpec

(* Whatever text is passed, of any length over any alphabet, the numbers   *)
(* read from it are those it says, for integers of any width from 5 bits   *)
(* on, and so are the bytes (NumbersRead).                                 *)
THEOREM NumbersAreRead == StringsSpec => []NumbersRead
  <1>1. StringsTypeOK => NumbersRead
    <2> SUFFICES ASSUME StringsTypeOK, topic = "number"
                 PROVE  /\ Numbers!ReadsNumeral(Numbers!IntTraits, text)
                        /\ Numbers!ReadsNumeral(Numbers!UintTraits, text)
                        /\ Numbers!ReadsNumeral(Numbers!HexIntTraits, text)
                        /\ Numbers!ReadsBytes(text)
      BY DEF NumbersRead
    <2>1. CASE topic \in Topics
      <3>1. text \in Seq(Alphabet["number"])
        BY <2>1 DEF StringsTypeOK
      <3>2. {Numbers!IntTraits, Numbers!UintTraits, Numbers!HexIntTraits} = Traits
        BY DEF Traits
      <3> QED
        BY <3>1, <3>2, NumeralRead, BytesRead
    <2>2. CASE topic \notin Topics
      BY <2>2 DEF StringsTypeOK
    <2> QED
      BY <2>1, <2>2
  <1> QED
    BY <1>1, TextsKept, PTL

(* Whatever path a caller writes, over any alphabet and as long as a       *)
(* string may be, with or without drives: DirName and BaseName take it     *)
(* apart, FinalExtension and RemoveFinalExtension cut it at its extension, *)
(* Append puts the names of a relative component behind its own, and the   *)
(* case of a drive changes none of it (PathsTakenApart).                   *)
THEOREM PathsAreTakenApart == StringsSpec => []PathsTakenApart
  <1>1. StringsTypeOK => PathsTakenApart
    <2> SUFFICES ASSUME StringsTypeOK, topic = "path", NEW n \in 0 .. Len(text),
                        NEW build \in Paths!Builds
                 PROVE  LET path == Paths!WithoutNuls(Before(n))
                        IN  /\ n = Len(text) =>
                                 /\ Paths!TakenApart(build, path) /\ Paths!CutAtExtension(build, path)
                                 /\ Paths!Drive(build, path) # <<>> =>
                                      Paths!SameButForCase(build, path, OtherCase(path))
                            /\ Paths!PutTogether(build, path, After(n))
      BY Zenon DEF PathsTakenApart
    <2>1. topic \in Topics
      BY DEF StringsTypeOK
    <2> DEFINE C == Alphabet["path"]
               path == Paths!WithoutNuls(Before(n))
    <2>2. text \in Seq(C) /\ Len(text) <= MaxLength["path"] /\ MaxLength["path"] < SizeValues
      BY <2>1, StringsAssumption DEF StringsTypeOK, Topics
    <2>3. MaxLength["path"] \in Nat /\ SizeValues \in Nat
      BY <2>1, StringsAssumption DEF Topics
    <2> HIDE DEF C
    <2>4. Before(n) \in Seq(C) /\ Len(Before(n)) <= Len(text) /\ After(n) \in Seq(C)
      BY <2>2, HalvesAre DEF Before, After
    <2>5. /\ path \in Seq(C) /\ Len(path) <= Len(Before(n))
          /\ Paths!WithoutNuls(After(n)) \in Seq(C)
      BY <2>4, WithoutNulsIs
    <2> HIDE DEF path
    <2>6. Len(path) < SizeValues
      <3>1. Len(path) \in Nat /\ Len(Before(n)) \in Nat /\ Len(text) \in Nat
        BY <2>2, <2>4, <2>5
      <3> QED BY <2>2, <2>3, <2>4, <2>5, <3>1
    <2>7. Paths!TakenApart(build, path)
      BY <2>5, <2>6, TakenApartHolds
    <2>8. Paths!CutAtExtension(build, path)
      BY <2>5, <2>6, CutAtExtensionHolds
    <2>9. Paths!Drive(build, path) # <<>> => Paths!SameButForCase(build, path, OtherCase(path))
      BY <2>5, <2>6, SameButForCaseHolds
    <2>10. Paths!PutTogether(build, path, After(n))
      BY <2>5, <2>6, PutTogetherHolds
    <2> QED
      BY <2>7, <2>8, <2>9, <2>10 DEF path
  <1> QED
    BY <1>1, TextsKept, PTL
=============================================================================
