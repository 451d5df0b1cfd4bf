-------------------------- MODULE SafeNumericsProofs --------------------------
(***************************************************************************)
(* The objects of SafeNumerics agree with exact arithmetic, through every  *)
(* chain of operations on types of any widths.                             *)
(*                                                                         *)
(* Range checks, saturating conversions and comparisons come first, for    *)
(* every pair of types of every width; all powers of two are hidden behind *)
(* Half there, and what the proofs know of it is in HalfFacts.             *)
(*                                                                         *)
(* The invariant says what ideal is in every state in which the object is  *)
(* followed; each operation then starts from the value ideal has, and what *)
(* is left is that its result is the exact one, stored.                    *)
(***************************************************************************)
EXTENDS SafeNumerics, WellFoundedInduction, TLAPS

-----------------------------------------------------------------------------
(* Induction on the numbers that are in a set, and powers of two. *)

LEMMA LeastNumber ==
  ASSUME NEW S, S \subseteq Nat, S # {}
  PROVE  \E n \in S : \A m \in S : n <= m
  <1> DEFINE R == OpToRel(<, Nat)
  <1>1. IsWellFoundedOn(R, Nat)
    BY NatLessThanWellFounded
  <1>2. \A m, k \in Nat : m < k => <<m, k>> \in R
    BY DEF OpToRel
  <1> HIDE DEF R
  <1>3. PICK n \in S : \A m \in S : ~ (<<m, n>> \in R)
    BY <1>1, WFMin
  <1>4. \A m \in S : m \in Nat /\ n \in Nat /\ ~ (m < n)
    BY <1>2, <1>3
  <1>5. \A m \in S : n <= m
    BY <1>4
  <1> QED
    BY <1>5

LEMMA InductiveSet ==
  ASSUME NEW S, 0 \in S, \A n \in Nat : n \in S => n + 1 \in S
  PROVE  Nat \subseteq S
  <1>1. SUFFICES ASSUME NEW k \in Nat, k \notin S
                 PROVE  FALSE
    OBVIOUS
  <1> DEFINE Missing == {n \in Nat : n \notin S}
  <1>2. PICK n \in Missing : \A m \in Missing : n <= m
    BY <1>1, LeastNumber
  <1>3. n \in Nat /\ n # 0
    OBVIOUS
  <1>4. n - 1 \in Nat /\ n = (n - 1) + 1 /\ ~ (n <= n - 1)
    BY <1>3
  <1>5. n - 1 \in S
    BY <1>2, <1>4
  <1> QED
    BY <1>2, <1>4, <1>5

LEMMA PowerPositive ==
  ASSUME NEW n \in 0 .. IntmaxWidth
  PROVE  2 ^ n \in Nat \ {0}
  <1> DEFINE S == {k \in Nat : k <= IntmaxWidth => 2 ^ k \in Nat \ {0}}
  <1>1. 0 \in S
    OBVIOUS
  <1>2. ASSUME NEW k \in Nat, k \in S
        PROVE  k + 1 \in S
    <2>1. SUFFICES ASSUME k + 1 <= IntmaxWidth
                   PROVE  2 ^ (k + 1) \in Nat \ {0}
      OBVIOUS
    <2>2. k \in 0 .. IntmaxWidth - 1 /\ k <= IntmaxWidth
      BY <2>1, WidthsAssumption
    <2>3. 2 ^ k \in Nat \ {0}
      BY <1>2, <2>2
    <2>4. 2 ^ (k + 1) = 2 * 2 ^ k
      BY <2>2, PowersAssumption
    <2> QED
      BY <2>3, <2>4
  <1> HIDE DEF S
  <1>3. n \in S
    BY <1>1, <1>2, InductiveSet, WidthsAssumption
  <1> QED
    BY <1>3 DEF S

LEMMA PowerOfSum ==
  ASSUME NEW a \in Nat, NEW b \in Nat, a + b <= IntmaxWidth
  PROVE  2 ^ (a + b) = 2 ^ a * 2 ^ b
  <1> DEFINE S == {k \in Nat : a + k <= IntmaxWidth => 2 ^ (a + k) = 2 ^ a * 2 ^ k}
  <1>0. IntmaxWidth \in Nat
    BY WidthsAssumption
  <1>1. 0 \in S
    <2>1. 2 ^ a \in Nat
      BY <1>0, PowerPositive
    <2>2. a + 0 = a /\ 2 ^ 0 = 1
      OBVIOUS
    <2>3. 2 ^ (a + 0) = 2 ^ a * 2 ^ 0
      BY <2>1, <2>2
    <2> QED
      BY <2>3
  <1>2. ASSUME NEW k \in Nat, k \in S
        PROVE  k + 1 \in S
    <2>1. SUFFICES ASSUME a + (k + 1) <= IntmaxWidth
                   PROVE  2 ^ (a + (k + 1)) = 2 ^ a * 2 ^ (k + 1)
      OBVIOUS
    <2>2. /\ a + k \in 0 .. IntmaxWidth - 1 /\ k \in 0 .. IntmaxWidth - 1
          /\ a + k <= IntmaxWidth /\ a \in 0 .. IntmaxWidth /\ k \in 0 .. IntmaxWidth
          /\ a + (k + 1) = (a + k) + 1
      BY <1>0, <2>1
    <2>3. 2 ^ (a + k) = 2 ^ a * 2 ^ k
      BY <1>2, <2>2
    <2>4. 2 ^ ((a + k) + 1) = 2 * 2 ^ (a + k) /\ 2 ^ (k + 1) = 2 * 2 ^ k
      BY <2>2, PowersAssumption
    <2>5. 2 ^ a \in Nat /\ 2 ^ k \in Nat
      BY <2>2, PowerPositive
    <2>6. \A p, q \in Nat : 2 * (p * q) = p * (2 * q)
      OBVIOUS
    <2>7. 2 * (2 ^ a * 2 ^ k) = 2 ^ a * (2 * 2 ^ k)
      BY <2>5, <2>6
    <2> QED
      BY <2>2, <2>3, <2>4, <2>7
  <1> HIDE DEF S
  <1>3. b \in S
    BY <1>1, <1>2, InductiveSet
  <1> QED
    BY <1>3 DEF S

(* The powers of two that are halves of the ranges of the types.           *)
LEMMA WidthPowers ==
  /\ \A w \in Widths : 2 ^ (w - 1) \in Nat \ {0, 1}
  /\ \A w, x \in Widths :
       /\ w < x => 2 * 2 ^ (w - 1) <= 2 ^ (x - 1)
       /\ x = 2 * w => 2 ^ (x - 1) = 2 * (2 ^ (w - 1) * 2 ^ (w - 1))
  <1>1. \A w \in Widths : w \in Nat /\ w >= 2 /\ w <= IntmaxWidth /\ IntmaxWidth \in Nat
    <2>1. Widths \subseteq Nat \ {0, 1} /\ IntmaxWidth \in Widths
      BY WidthsAssumption
    <2>2. ASSUME NEW w \in Widths
          PROVE  w = IntmaxWidth \/ 2 * w <= IntmaxWidth
      BY WidthsAssumption
    <2>3. ASSUME NEW w \in Widths
          PROVE  w \in Nat /\ w >= 2 /\ w <= IntmaxWidth /\ IntmaxWidth \in Nat
      <3>1. w \in Nat /\ w # 0 /\ w # 1 /\ IntmaxWidth \in Nat
        BY <2>1
      <3> QED
        BY <2>2, <3>1
    <2> QED
      BY <2>3
  <1>2. \A w \in Widths : 2 ^ (w - 1) \in Nat \ {0} /\ 2 ^ w = 2 * 2 ^ (w - 1)
    <2>1. ASSUME NEW w \in Widths
          PROVE  w - 1 \in 0 .. IntmaxWidth - 1 /\ w - 1 \in 0 .. IntmaxWidth /\ (w - 1) + 1 = w
      BY <1>1
    <2> QED
      BY <2>1, PowerPositive, PowersAssumption
  <1>3. ASSUME NEW w \in Widths
        PROVE  2 ^ (w - 1) # 1
    <2> DEFINE h == 2 ^ (w - 2)
    <2>1. w - 2 \in 0 .. IntmaxWidth - 1 /\ w - 2 \in 0 .. IntmaxWidth /\ (w - 2) + 1 = w - 1
      BY <1>1
    <2>2. h \in Nat \ {0} /\ 2 ^ ((w - 2) + 1) = 2 * h
      BY <2>1, PowerPositive, PowersAssumption
    <2> HIDE DEF h
    <2> QED
      BY <2>1, <2>2
  <1>4. ASSUME NEW w \in Widths, NEW x \in Widths, w < x
        PROVE  2 * 2 ^ (w - 1) <= 2 ^ (x - 1)
    <2> DEFINE d == (x - 1) - w
               p == 2 ^ w
               q == 2 ^ d
    <2>1. d \in Nat /\ w \in Nat /\ w + d = x - 1 /\ w + d <= IntmaxWidth /\ d <= IntmaxWidth
      BY <1>1, <1>4
    <2>2. 2 ^ (w + d) = p * q /\ p \in Nat /\ q \in Nat \ {0}
      BY <1>1, <2>1, PowerOfSum, PowerPositive
    <2>3. \A a \in Nat, b \in Nat \ {0} : a <= a * b
      BY SMTT(20)
    <2>4. p = 2 * 2 ^ (w - 1)
      BY <1>2
    <2>5. 2 ^ (w + d) = 2 ^ (x - 1)
      BY <2>1
    <2> HIDE DEF p, q, d
    <2>6. p <= 2 ^ (x - 1)
      BY <2>2, <2>3, <2>5
    <2> QED
      BY <2>4, <2>6
  <1>5. ASSUME NEW w \in Widths, NEW x \in Widths, x = 2 * w
        PROVE  2 ^ (x - 1) = 2 * (2 ^ (w - 1) * 2 ^ (w - 1))
    <2> DEFINE p == 2 ^ w
               q == 2 ^ (w - 1)
    <2>1. w \in Nat /\ w - 1 \in Nat /\ w + (w - 1) = x - 1 /\ w + (w - 1) <= IntmaxWidth
      BY <1>1, <1>5
    <2>2. 2 ^ (w + (w - 1)) = p * q
      BY <2>1, PowerOfSum
    <2>3. p = 2 * q /\ q \in Nat
      BY <1>2
    <2>4. 2 ^ (w + (w - 1)) = 2 ^ (x - 1)
      BY <2>1
    <2> HIDE DEF p, q
    <2>5. 2 ^ (x - 1) = 2 * (q * q)
      BY <2>2, <2>3, <2>4
    <2> QED
      BY <2>5 DEF q
  <1> QED
    BY <1>2, <1>3, <1>4, <1>5

-----------------------------------------------------------------------------
(* Types and their limits. *)

LEMMA HalfFacts ==
  ASSUME NEW T \in Types, NEW U \in Types
  PROVE  /\ Half(T) \in Nat \ {0}
         /\ T.bits \in Nat \ {0}
         /\ T.signed \in BOOLEAN
         /\ T.bits = U.bits => Half(T) = Half(U)
         /\ T.bits < U.bits => 2 * Half(T) <= Half(U)
  BY WidthsAssumption, WidthPowers DEF Types, Half

LEMMA Limits ==
  ASSUME NEW T \in Types
  PROVE  /\ lowest(T) \in Int /\ max(T) \in Int
         /\ lowest(T) <= 0 /\ 0 <= max(T)
         /\ 2 * Half(T) \in Nat \ {0}
         /\ max(T) = lowest(T) + 2 * Half(T) - 1
         /\ Values(T) \subseteq Int
  BY HalfFacts DEF lowest, max, Values

LEMMA Remainders ==
  ASSUME NEW a \in Int, NEW m \in Nat \ {0}
  PROVE  /\ a % m \in 0 .. m - 1
         /\ a \in 0 .. m - 1 => a % m = a
         /\ -m <= a /\ a < 0 => a % m = a + m
         /\ m <= a /\ a < 2 * m => a % m = a - m
  BY SMTT(20)

(* A static_cast leaves a value alone that its type has, and brings one    *)
(* that is off by less than the whole range back by the whole range.       *)
LEMMA Cast1 ==
  ASSUME NEW T \in Types, NEW v \in Int
  PROVE  /\ StaticCast(T, v) \in Values(T)
         /\ StaticCast(T, v) \in Int
         /\ v \in Values(T) => StaticCast(T, v) = v
         /\ v < lowest(T) /\ lowest(T) - 2 * Half(T) <= v => StaticCast(T, v) = v + 2 * Half(T)
         /\ v > max(T) /\ v <= max(T) + 2 * Half(T) => StaticCast(T, v) = v - 2 * Half(T)
  <1> DEFINE m == 2 * Half(T)
             a == v - lowest(T)
  <1>1. m \in Nat \ {0} /\ lowest(T) \in Int /\ a \in Int /\ max(T) = lowest(T) + m - 1
    BY Limits
  <1>2. StaticCast(T, v) = lowest(T) + (a % m)
    BY DEF StaticCast
  <1>3. /\ a % m \in 0 .. m - 1
        /\ a \in 0 .. m - 1 => a % m = a
        /\ -m <= a /\ a < 0 => a % m = a + m
        /\ m <= a /\ a < 2 * m => a % m = a - m
    <2> HIDE DEF m, a
    <2> QED BY <1>1, Remainders
  <1>4. a = v - lowest(T)
    OBVIOUS
  <1> DEFINE q == a % m
  <1>5. q = a % m
    OBVIOUS
  <1> HIDE DEF a, m, q
  <1> QED
    BY <1>1, <1>2, <1>3, <1>4, <1>5 DEF Values, m

(* The wider type, or the signed one that is wider, contains the other.    *)
LEMMA WiderContains ==
  ASSUME NEW D \in Types, NEW S \in Types,
         \/ D.signed = S.signed /\ D.bits >= S.bits
         \/ D.signed /\ ~S.signed /\ D.bits > S.bits
  PROVE  /\ lowest(D) <= lowest(S) /\ max(S) <= max(D)
         /\ \A v \in Values(S) : v \in Values(D)
  <1>1. lowest(D) <= lowest(S) /\ max(S) <= max(D)
    BY HalfFacts DEF lowest, max
  <1> QED
    BY <1>1, Limits DEF Values

LEMMA StaticContains ==
  ASSUME NEW D \in Types, NEW S \in Types, StaticDstRangeRelationToSrcRange(D, S)
  PROVE  /\ lowest(D) <= lowest(S) /\ max(S) <= max(D)
         /\ \A v \in Values(S) : v \in Values(D)
  <1>1. \/ D.signed = S.signed /\ D.bits >= S.bits
        \/ D.signed /\ ~S.signed /\ D.bits > S.bits
    BY HalfFacts DEF StaticDstRangeRelationToSrcRange, MaxExponent, digits
  <1> QED
    BY <1>1, WiderContains

(* The type of a sum has every value of its operands that is not negative, *)
(* and the negative ones too if it is signed.                              *)
LEMMA CommonHolds ==
  ASSUME NEW L \in Types, NEW R \in Types
  PROVE  /\ Common(L, R) \in Types
         /\ \A S \in {L, R} : \A v \in Values(S) :
              v >= 0 \/ Common(L, R).signed => StaticCast(Common(L, R), v) = v
  <1> DEFINE P == Common(L, R)
  <1>1. /\ P \in Types
        /\ P.bits >= L.bits /\ P.bits >= R.bits
        /\ P.signed => \A S \in {L, R} : S.signed \/ P.bits > S.bits
    <2> DEFINE Q(S) == Promoted(S)
    <2>1. \A S \in {L, R} : /\ Q(S) \in Types
                            /\ Q(S).bits \in Nat /\ S.bits \in Nat
                            /\ Q(S).bits >= S.bits
                            /\ Q(S).signed => S.signed \/ Q(S).bits > S.bits
      <3>1. \A S \in Types : S.bits \in Nat /\ S.signed \in BOOLEAN
        BY WidthsAssumption DEF Types
      <3>2. int \in Types /\ int.bits = IntWidth /\ int.signed
        BY WidthsAssumption DEF Types, int
      <3> QED
        BY <3>1, <3>2 DEF Promoted
    <2>2. P = IF Q(L).bits > Q(R).bits \/ (Q(L).bits = Q(R).bits /\ ~Q(L).signed) THEN Q(L) ELSE Q(R)
      BY DEF Common
    <2> HIDE DEF P, Q
    <2>3. P.bits >= Q(L).bits /\ P.bits >= Q(R).bits
      BY <2>1, <2>2
    <2>4. P \in Types /\ P.bits \in Nat /\ P.bits >= L.bits /\ P.bits >= R.bits
      BY <2>1, <2>2, <2>3
    <2>5. ASSUME P.signed, NEW S \in {L, R}
          PROVE  S.signed \/ P.bits > S.bits
      BY <2>1, <2>2, <2>4, <2>5
    <2> QED
      BY <2>4, <2>5
  <1> HIDE DEF P
  <1>2. ASSUME NEW S \in {L, R}, NEW v \in Values(S), v >= 0 \/ P.signed
        PROVE  v \in Values(P)
    <2>1. S \in Types /\ P.bits >= S.bits /\ (P.signed => S.signed \/ P.bits > S.bits)
      BY <1>1
    <2>2. CASE P.signed
      BY <1>1, <1>2, <2>1, <2>2, WiderContains, HalfFacts
    <2>3. CASE ~P.signed
      <3>1. v \in Int /\ lowest(P) = 0 /\ v <= max(S) /\ max(S) <= max(P)
        BY <1>1, <1>2, <2>1, <2>3, HalfFacts, Limits DEF lowest, max, Values
      <3> QED
        BY <1>1, <1>2, <2>3, <3>1, Limits DEF Values
    <2> QED
      BY <2>2, <2>3
  <1>3. ASSUME NEW S \in {L, R}, NEW v \in Values(S), v >= 0 \/ P.signed
        PROVE  StaticCast(P, v) = v
    BY <1>1, <1>2, <1>3, Cast1, Limits
  <1> QED
    BY <1>1, <1>3 DEF P

-----------------------------------------------------------------------------
(* Range checks. *)

(* What RangeCheck says is so.                                             *)
LEMMA RangeCheckExact ==
  ASSUME NEW D \in Types, NEW S \in Types, NEW v \in Values(S)
  PROVE  DstRangeRelationToSrcRange(D, S, v) = [underflow |-> v < lowest(D), overflow |-> v > max(D)]
  <1> DEFINE P == Common(S, D)
             Contained == StaticDstRangeRelationToSrcRange(D, S)
  <1>1. /\ v \in Int /\ lowest(S) <= v /\ v <= max(S)
        /\ lowest(D) \in Int /\ max(D) \in Int /\ lowest(S) \in Int /\ max(S) \in Int
        /\ lowest(D) <= 0 /\ 0 <= max(D) /\ 0 <= max(S)
        /\ max(D) \in Values(D) /\ max(S) \in Values(S)
    BY Limits DEF Values
  <1>2. /\ v >= 0 \/ P.signed => StaticCast(P, v) = v
        /\ StaticCast(P, max(S)) = max(S) /\ StaticCast(P, max(D)) = max(D)
    BY <1>1, CommonHolds
  <1>3. CASE Contained
    <2>1. /\ StaticCast(D, lowest(S)) >= lowest(D)
          /\ StaticCast(D, max(S)) <= max(D)
      BY <1>1, Cast1 DEF Values
    <2>2. DstRangeRelationToSrcRange(D, S, v) = [underflow |-> FALSE, overflow |-> FALSE]
      BY <1>3, <2>1 DEF DstRangeRelationToSrcRange
    <2>3. (v < lowest(D)) = FALSE /\ (v > max(D)) = FALSE
      BY <1>1, <1>3, StaticContains
    <2> QED
      BY <2>2, <2>3
  <1>4. CASE ~Contained
    <2> DEFINE low == ~S.signed \/ v >= lowest(D)
               high == \/ D.signed = S.signed /\ v <= max(D)
                       \/ D.signed /\ ~S.signed /\ StaticCast(P, v) <= StaticCast(P, max(D))
                       \/ ~D.signed /\ S.signed
                          /\ (\/ StaticCast(P, max(S)) <= StaticCast(P, max(D))
                              \/ StaticCast(P, v) <= StaticCast(P, max(D)))
    <2>1. DstRangeRelationToSrcRange(D, S, v) = [underflow |-> ~low, overflow |-> ~high]
      BY <1>4 DEF DstRangeRelationToSrcRange
    <2>2. ~S.signed => v >= 0
      BY <1>1 DEF lowest
    <2>3. low <=> ~(v < lowest(D))
      BY <1>1, <2>2
    <2>4. ASSUME ~D.signed, S.signed, max(S) > max(D)
          PROVE  P.signed
      <3>1. S.bits > D.bits
        BY <1>1, <2>4, HalfFacts DEF max
      <3> QED
        BY <2>4, <3>1, HalfFacts, WidthsAssumption DEF Common, Promoted, int, Types
    <2>5. high <=> ~(v > max(D))
      <3> HIDE DEF P
      <3>1. CASE D.signed = S.signed
        BY <1>1, <3>1
      <3>2. CASE D.signed /\ ~S.signed
        <4>1. high <=> StaticCast(P, v) <= StaticCast(P, max(D))
          BY <3>2
        <4> HIDE DEF high
        <4> QED
          BY <1>1, <1>2, <2>2, <3>2, <4>1
      <3>3. CASE ~D.signed /\ S.signed
        <4>1. high <=> \/ StaticCast(P, max(S)) <= StaticCast(P, max(D))
                       \/ StaticCast(P, v) <= StaticCast(P, max(D))
          BY <3>3
        <4> HIDE DEF high
        <4> QED
          BY <1>1, <1>2, <2>4, <3>3, <4>1
      <3> QED
        BY <3>1, <3>2, <3>3, HalfFacts
    <2> HIDE DEF low, high
    <2> QED
      BY <2>1, <2>3, <2>5
  <1> QED
    BY <1>3, <1>4

-----------------------------------------------------------------------------
(* Comparisons. *)

(* Values that both types have are not changed by the conversion to the    *)
(* type of their sum.                                                      *)
LEMMA ConvertedExact ==
  ASSUME NEW L \in Types, NEW R \in Types,
         NEW x \in Values(L), NEW y \in Values(R), x \in Values(R), y \in Values(L)
  PROVE  Converted(L, R, x) = x /\ Converted(L, R, y) = y
  <1>1. Common(L, R).signed \/ ~L.signed \/ ~R.signed
    BY HalfFacts DEF Common, Promoted, int
  <1>2. Common(L, R).signed \/ (x >= 0 /\ y >= 0)
    BY <1>1, Limits DEF lowest, Values
  <1> QED
    BY <1>2, CommonHolds DEF Converted

LEMMA CompareExact ==
  ASSUME NEW L \in Types, NEW R \in Types, NEW x \in Values(L), NEW y \in Values(R)
  PROVE  /\ Test("IsLess", L, R, x, y) <=> x < y
         /\ Test("IsLessOrEqual", L, R, x, y) <=> x <= y
         /\ Test("IsGreater", L, R, x, y) <=> x > y
         /\ Test("IsGreaterOrEqual", L, R, x, y) <=> x >= y
         /\ Test("IsEqual", L, R, x, y) <=> x = y
         /\ Test("IsNotEqual", L, R, x, y) <=> x # y
  <1> DEFINE l == DstRangeRelationToSrcRange(R, L, x)
             r == DstRangeRelationToSrcRange(L, R, y)
             cx == Converted(L, R, x)
             cy == Converted(L, R, y)
  <1>1. /\ l = [underflow |-> x < lowest(R), overflow |-> x > max(R)]
        /\ r = [underflow |-> y < lowest(L), overflow |-> y > max(L)]
    BY RangeCheckExact
  <1>2. /\ x \in Int /\ lowest(L) <= x /\ x <= max(L)
        /\ y \in Int /\ lowest(R) <= y /\ y <= max(R)
        /\ lowest(L) \in Int /\ lowest(R) \in Int /\ max(L) \in Int /\ max(R) \in Int
    BY Limits DEF Values
  <1>3. /\ IsUnderflow(l) <=> x < lowest(R)
        /\ IsOverflow(l) <=> x > max(R)
        /\ IsUnderflow(r) <=> y < lowest(L)
        /\ IsOverflow(r) <=> y > max(L)
    <2> HIDE DEF l, r
    <2>1. /\ l.underflow <=> x < lowest(R)
          /\ l.overflow <=> x > max(R)
          /\ r.underflow <=> y < lowest(L)
          /\ r.overflow <=> y > max(L)
      BY <1>1
    <2> QED
      BY <1>2, <2>1 DEF IsUnderflow, IsOverflow
  <1>4. (l = r) <=> ((x < lowest(R) <=> y < lowest(L)) /\ (x > max(R) <=> y > max(L)))
    BY <1>1
  <1>5. l = r => cx = x /\ cy = y
    BY <1>2, <1>4, ConvertedExact DEF Values
  <1>6. /\ Test("IsLess", L, R, x, y) <=> IsUnderflow(l) \/ IsOverflow(r) \/ (l = r /\ cx < cy)
        /\ Test("IsLessOrEqual", L, R, x, y) <=> IsUnderflow(l) \/ IsOverflow(r) \/ (l = r /\ cx <= cy)
        /\ Test("IsGreater", L, R, x, y) <=> IsOverflow(l) \/ IsUnderflow(r) \/ (l = r /\ cx > cy)
        /\ Test("IsGreaterOrEqual", L, R, x, y) <=> IsOverflow(l) \/ IsUnderflow(r) \/ (l = r /\ cx >= cy)
        /\ Test("IsEqual", L, R, x, y) <=> l = r /\ cx = cy
        /\ Test("IsNotEqual", L, R, x, y) <=> l # r \/ cx # cy
    BY DEF Test, Compare
  <1> HIDE DEF l, r, cx, cy
  <1> QED
    BY <1>2, <1>3, <1>4, <1>5, <1>6

-----------------------------------------------------------------------------
(* Saturation. *)

LEMMA CommonLimits ==
  ASSUME NEW D \in Types, NEW S \in Types
  PROVE  /\ IsMaxInRangeForNumericType(D, S) <=> max(D) >= max(S)
         /\ IsMinInRangeForNumericType(D, S) <=> lowest(D) <= lowest(S)
         /\ CommonMax(D, S) = IF max(D) >= max(S) THEN max(S) ELSE max(D)
         /\ CommonMin(D, S) = IF lowest(D) <= lowest(S) THEN lowest(S) ELSE lowest(D)
  <1>1. /\ max(D) \in Values(D) /\ max(S) \in Values(S)
        /\ lowest(D) \in Values(D) /\ lowest(S) \in Values(S)
    BY Limits DEF Values
  <1>2. /\ IsMaxInRangeForNumericType(D, S) <=> max(D) >= max(S)
        /\ IsMinInRangeForNumericType(D, S) <=> lowest(D) <= lowest(S)
    BY <1>1, CompareExact
    DEF IsMaxInRangeForNumericType, IsMinInRangeForNumericType, IsGreaterOrEqual, IsLessOrEqual
  <1>3. max(D) >= max(S) => StaticCast(D, max(S)) = max(S)
    BY Limits, Cast1 DEF Values
  <1>4. lowest(D) <= lowest(S) => StaticCast(D, lowest(S)) = lowest(S)
    BY Limits, Cast1 DEF Values
  <1> QED
    BY <1>2, <1>3, <1>4 DEF CommonMax, CommonMin

LEMMA InRangeExact ==
  ASSUME NEW D \in Types, NEW S \in Types, NEW v \in Values(S)
  PROVE  IsValueInRangeForNumericType(D, S, v) <=> v \in Values(D)
  <1>1. /\ v \in Int /\ lowest(S) <= v /\ v <= max(S)
        /\ lowest(D) \in Int /\ max(D) \in Int /\ max(S) \in Int
        /\ 0 <= max(D) /\ 0 <= max(S)
    BY Limits DEF Values
  <1>2. CASE StaticDstRangeRelationToSrcRange(D, S) \/ ~S.signed
    <2> DEFINE check == DstRangeRelationToSrcRange(D, S, v)
    <2>1. check = [underflow |-> v < lowest(D), overflow |-> v > max(D)]
      BY RangeCheckExact
    <2>2. IsValueInRangeForNumericType(D, S, v) <=> IsValid(check)
      <3>1. ~(~D.signed /\ S.signed)
        BY <1>2 DEF StaticDstRangeRelationToSrcRange
      <3> QED
        BY <1>2, <3>1 DEF IsValueInRangeForNumericType
    <2> HIDE DEF check
    <2>3. (check.underflow <=> v < lowest(D)) /\ (check.overflow <=> v > max(D))
      BY <2>1
    <2> QED
      BY <1>1, <2>2, <2>3 DEF IsValid, Values
  <1>3. CASE D.signed /\ S.signed /\ ~StaticDstRangeRelationToSrcRange(D, S)
    <2>1. IsValueInRangeForNumericType(D, S, v) <=> v = StaticCast(D, v)
      BY <1>3 DEF IsValueInRangeForNumericType
    <2> QED
      BY <1>1, <2>1, Cast1
  <1>4. CASE ~D.signed /\ S.signed
    <2> DEFINE U == make_unsigned(S)
               c == CommonMax(S, D)
    <2>1. /\ U \in Types /\ lowest(U) = 0
          /\ max(U) = 2 * Half(S) - 1 /\ Half(U) = Half(S) /\ Half(S) \in Nat \ {0}
      BY HalfFacts DEF make_unsigned, Types, lowest, max, Half
    <2>2. max(S) = Half(S) - 1 /\ lowest(S) = -Half(S) /\ lowest(D) = 0
      BY <1>4 DEF max, lowest
    <2>3. c = IF max(S) >= max(D) THEN max(D) ELSE max(S)
      BY CommonLimits
    <2>4. ~StaticDstRangeRelationToSrcRange(D, S)
      BY <1>4 DEF StaticDstRangeRelationToSrcRange
    <2>5. IsValueInRangeForNumericType(D, S, v) <=> StaticCast(U, v) <= StaticCast(U, c)
      BY <1>4, <2>4 DEF IsValueInRangeForNumericType
    <2> HIDE DEF U, c
    <2>6. c \in Int /\ 0 <= c /\ c <= max(U)
      BY <1>1, <2>1, <2>2, <2>3
    <2>7. StaticCast(U, c) = c
      BY <2>1, <2>6, Cast1 DEF Values
    <2>8. StaticCast(U, v) = IF v < 0 THEN v + 2 * Half(S) ELSE v
      <3>1. CASE v < 0
        BY <1>1, <2>1, <2>2, <3>1, Cast1
      <3>2. CASE v >= 0
        <4>1. v \in Values(U)
          BY <1>1, <2>1, <2>2, <3>2 DEF Values
        <4> QED
          BY <1>1, <2>1, <3>2, <4>1, Cast1
      <3> QED
        BY <1>1, <3>1, <3>2
    <2>9. (StaticCast(U, v) <= c) <=> (0 <= v /\ v <= max(D))
      BY <1>1, <2>1, <2>2, <2>3, <2>8
    <2> QED
      BY <1>1, <2>2, <2>5, <2>7, <2>9 DEF Values
  <1> QED
    BY <1>2, <1>3, <1>4, HalfFacts

LEMMA SaturationExact ==
  ASSUME NEW D \in Types, NEW S \in Types, NEW v \in Values(S)
  PROVE  /\ saturated_cast_impl(D, S, v) = Nearest(D, v)
         /\ SaturateFastOp(D, S, v) = Nearest(D, v)
  <1>1. /\ v \in Int /\ lowest(S) <= v /\ v <= max(S)
        /\ lowest(D) \in Int /\ max(D) \in Int /\ lowest(S) \in Int /\ max(S) \in Int
        /\ lowest(D) <= 0 /\ 0 <= max(D)
    BY Limits DEF Values
  <1>2. lowest(D) <= v /\ v <= max(D) => StaticCast(D, v) = v
    BY <1>1, Cast1 DEF Values
  <1>3. saturated_cast_impl(D, S, v) = Nearest(D, v)
    <2> DEFINE check == DstRangeRelationToSrcRange(D, S, v)
    <2>1. check = [underflow |-> v < lowest(D), overflow |-> v > max(D)]
      BY RangeCheckExact
    <2>2. saturated_cast_impl(D, S, v) =
            CASE check.overflow -> max(D)
              [] check.underflow /\ ~check.overflow -> lowest(D)
              [] OTHER -> StaticCast(D, v)
      BY DEF saturated_cast_impl
    <2> HIDE DEF check
    <2>3. (check.underflow <=> v < lowest(D)) /\ (check.overflow <=> v > max(D))
      BY <2>1
    <2> QED
      BY <1>1, <1>2, <2>2, <2>3 DEF Nearest
  <1>4. SaturateFastOp(D, S, v) = Nearest(D, v)
    <2> DEFINE isMin == \/ IsMaxInRangeForNumericType(D, S)
                        \/ ~IsMinInRangeForNumericType(D, S) /\ v < 0
    <2>1. SaturateFastOp(D, S, v) =
            IF v \in Values(D) THEN StaticCast(D, v)
            ELSE IF isMin THEN CommonMin(D, S) ELSE CommonMax(D, S)
      <3>1. SaturateFastOp(D, S, v) =
              IF IsValueInRangeForNumericType(D, S, v) THEN StaticCast(D, v)
              ELSE IF isMin THEN CommonMin(D, S) ELSE CommonMax(D, S)
        BY DEF SaturateFastOp, CommonMaxOrMin
      <3> QED
        BY <3>1, InRangeExact
    <2>2. CASE v \in Values(D)
      BY <1>1, <1>2, <2>1, <2>2 DEF Nearest, Values
    <2>3. CASE v < lowest(D)
      <3>1. v \notin Values(D) /\ isMin /\ CommonMin(D, S) = lowest(D)
        BY <1>1, <2>3, CommonLimits DEF Values
      <3> QED
        BY <1>1, <2>1, <2>3, <3>1 DEF Nearest
    <2>4. CASE v > max(D)
      <3>1. v \notin Values(D) /\ ~isMin /\ CommonMax(D, S) = max(D)
        BY <1>1, <2>4, CommonLimits DEF Values
      <3> QED
        BY <1>1, <2>1, <2>4, <3>1 DEF Nearest
    <2> QED
      BY <1>1, <2>2, <2>3, <2>4 DEF Values
  <1> QED
    BY <1>3, <1>4

-----------------------------------------------------------------------------
(* Comparisons through the promotion. *)

LEMMA PromotionContains ==
  ASSUME NEW L \in Types, NEW R \in Types, IsContained(L, R)
  PROVE  /\ BigEnoughPromotion(L, R) \in Types
         /\ \A S \in {L, R} : \A v \in Values(S) : v \in Values(BigEnoughPromotion(L, R))
  <1> DEFINE P == MaxExponentPromotion(L, R)
             W == [signed |-> L.signed \/ R.signed, bits |-> 2 * P.bits]
  <1>1. P \in {L, R} /\ P \in Types /\ L.bits \in Nat \ {0} /\ R.bits \in Nat \ {0}
    BY HalfFacts DEF MaxExponentPromotion
  <1>2. CASE MaxExponentContains(L, R)
    <2>1. BigEnoughPromotion(L, R) = P
      BY <1>2 DEF BigEnoughPromotion
    <2>2. \A S \in {L, R} : StaticDstRangeRelationToSrcRange(P, S)
      BY <1>2 DEF MaxExponentContains
    <2> HIDE DEF P
    <2> QED
      BY <1>1, <2>1, <2>2, StaticContains
  <1>3. CASE ~MaxExponentContains(L, R)
    <2>1. P.bits # IntmaxWidth
      BY <1>3 DEF IsContained
    <2>2. BigEnoughPromotion(L, R) = W
      BY <1>3, <2>1 DEF BigEnoughPromotion, TwiceWiderInteger
    <2>3. W \in Types
      BY <1>1, <2>1, WidthsAssumption DEF Types
    <2>4. \A S \in {L, R} : S.bits <= P.bits + 1 /\ (~S.signed => S.bits <= P.bits)
      BY <1>1 DEF MaxExponentPromotion, MaxExponent, digits
    <2>5. ASSUME NEW S \in {L, R}
          PROVE  \/ W.signed = S.signed /\ W.bits >= S.bits
                 \/ W.signed /\ ~S.signed /\ W.bits > S.bits
      <3> HIDE DEF P
      <3>1. W.bits >= S.bits /\ (~S.signed => W.bits > S.bits)
        BY <1>1, <2>4
      <3>2. S.signed => W.signed
        OBVIOUS
      <3> QED
        BY <3>1, <3>2, HalfFacts, <2>3
    <2> HIDE DEF W
    <2> QED
      BY <2>2, <2>3, <2>5, WiderContains
  <1> QED
    BY <1>2, <1>3

LEMMA SafeCompareExact ==
  ASSUME NEW L \in Types, NEW R \in Types, NEW x \in Values(L), NEW y \in Values(R)
  PROVE  /\ SafeCompare("IsLess", L, R, x, y) <=> x < y
         /\ SafeCompare("IsLessOrEqual", L, R, x, y) <=> x <= y
         /\ SafeCompare("IsGreater", L, R, x, y) <=> x > y
         /\ SafeCompare("IsGreaterOrEqual", L, R, x, y) <=> x >= y
         /\ SafeCompare("IsEqual", L, R, x, y) <=> x = y
         /\ SafeCompare("IsNotEqual", L, R, x, y) <=> x # y
  <1>1. CASE IsContained(L, R)
    <2> DEFINE Big == BigEnoughPromotion(L, R)
    <2>1. Big \in Types /\ x \in Values(Big) /\ y \in Values(Big)
      BY <1>1, PromotionContains
    <2>2. StaticCast(Big, x) = x /\ StaticCast(Big, y) = y
      <3> HIDE DEF Big
      <3> QED BY <2>1, Cast1, Limits
    <2>3. /\ SafeCompare("IsLess", L, R, x, y) <=> Test("IsLess", Big, Big, x, y)
          /\ SafeCompare("IsLessOrEqual", L, R, x, y) <=> Test("IsLessOrEqual", Big, Big, x, y)
          /\ SafeCompare("IsGreater", L, R, x, y) <=> Test("IsGreater", Big, Big, x, y)
          /\ SafeCompare("IsGreaterOrEqual", L, R, x, y) <=> Test("IsGreaterOrEqual", Big, Big, x, y)
          /\ SafeCompare("IsEqual", L, R, x, y) <=> Test("IsEqual", Big, Big, x, y)
          /\ SafeCompare("IsNotEqual", L, R, x, y) <=> Test("IsNotEqual", Big, Big, x, y)
      BY <1>1, <2>2 DEF SafeCompare
    <2> HIDE DEF Big
    <2> QED
      BY <2>1, <2>3, CompareExact
  <1>2. CASE ~IsContained(L, R)
    BY <1>2, CompareExact DEF SafeCompare
  <1> QED
    BY <1>1, <1>2

LEMMA OperandsTyped ==
  ASSUME NEW r \in Operands
  PROVE  r.type \in Types /\ r.value \in Values(r.type) /\ r.valid \in BOOLEAN
  <1> DEFINE Of(U) == {Operand(U, w, TRUE) : w \in Values(U) \cap Edges(U)}
  <1>1. int \in Types
    BY WidthsAssumption DEF int, Types
  <1>2. 0 \in Values(int)
    BY <1>1, Limits DEF Values
  <1>3. r = Operand(int, 0, FALSE) \/ r \in UNION {Of(U) : U \in Types}
    BY DEF Operands
  <1>4. CASE r = Operand(int, 0, FALSE)
    BY <1>1, <1>2, <1>4 DEF Operand
  <1>5. CASE r \in UNION {Of(U) : U \in Types}
    <2>1. PICK U \in Types : r \in Of(U)
      BY <1>5
    <2>2. PICK w \in Values(U) : r = Operand(U, w, TRUE)
      BY <2>1
    <2> QED
      BY <2>2 DEF Operand
  <1> QED
    BY <1>3, <1>4, <1>5

(* Wherever the object holds a value of its type, every range check, both  *)
(* forms of saturated_cast and every comparison with an operand agree with *)
(* the integers (ConversionsExact), whatever the widths of the types are.  *)
THEOREM ConversionsAreExact == TypeOK => ConversionsExact
  <1> SUFFICES ASSUME TypeOK
               PROVE  ConversionsExact
    OBVIOUS
  <1> DEFINE T == number.type
             v == number.value
  <1>1. T \in Types /\ v \in Values(T)
    BY DEF TypeOK
  <1>2. \A r \in Operands : r.type \in Types /\ r.value \in Values(r.type)
    BY OperandsTyped
  <1> HIDE DEF T, v
  <1>3. \A D \in Types :
          /\ IsValueInRangeForNumericType(D, T, v) <=> v \in Values(D)
          /\ saturated_cast_impl(D, T, v) = Nearest(D, v)
          /\ SaturateFastOp(D, T, v) = Nearest(D, v)
    BY <1>1, InRangeExact, SaturationExact
  <1>4. ASSUME NEW D \in Types
        PROVE  IsValid(DstRangeRelationToSrcRange(D, T, v)) <=> v \in Values(D)
    <2> DEFINE check == DstRangeRelationToSrcRange(D, T, v)
    <2>1. check = [underflow |-> v < lowest(D), overflow |-> v > max(D)]
      BY <1>1, RangeCheckExact
    <2> HIDE DEF check
    <2>2. (check.underflow <=> v < lowest(D)) /\ (check.overflow <=> v > max(D))
      BY <2>1
    <2> QED
      BY <1>1, <2>2, Limits DEF IsValid, Values, check
  <1>5. \A r \in Operands :
          /\ SafeCompare("IsLess", T, r.type, v, r.value) <=> v < r.value
          /\ SafeCompare("IsLessOrEqual", T, r.type, v, r.value) <=> v <= r.value
          /\ SafeCompare("IsGreater", T, r.type, v, r.value) <=> v > r.value
          /\ SafeCompare("IsGreaterOrEqual", T, r.type, v, r.value) <=> v >= r.value
          /\ SafeCompare("IsEqual", T, r.type, v, r.value) <=> v = r.value
          /\ SafeCompare("IsNotEqual", T, r.type, v, r.value) <=> v # r.value
    BY <1>1, <1>2, SafeCompareExact
  <1> QED
    BY <1>3, <1>4, <1>5 DEF ConversionsExact, T, v

-----------------------------------------------------------------------------
(* Arithmetic that wraps and is then looked at. *)

LEMMA AsUnsigned ==
  ASSUME NEW T \in Types
  PROVE  LET U == make_unsigned(T)
         IN  /\ U \in Types /\ Half(U) = Half(T)
             /\ lowest(U) = 0 /\ max(U) = 2 * Half(T) - 1
             /\ Half(T) \in Nat \ {0}
             /\ T.signed => lowest(T) = -Half(T) /\ max(T) = Half(T) - 1
             /\ ~T.signed => lowest(T) = 0 /\ max(T) = 2 * Half(T) - 1
             /\ \A v \in Values(T) : /\ v \in Int /\ lowest(T) <= v /\ v <= max(T)
                                     /\ StaticCast(U, v) = IF v < 0 THEN v + 2 * Half(T) ELSE v
  <1> DEFINE U == make_unsigned(T)
  <1>1. /\ U \in Types /\ Half(U) = Half(T)
        /\ lowest(U) = 0 /\ max(U) = 2 * Half(T) - 1
        /\ Half(T) \in Nat \ {0}
    BY HalfFacts DEF make_unsigned, Types, lowest, max, Half
  <1>2. /\ T.signed => lowest(T) = -Half(T) /\ max(T) = Half(T) - 1
        /\ ~T.signed => lowest(T) = 0 /\ max(T) = 2 * Half(T) - 1
    BY DEF lowest, max
  <1> HIDE DEF U
  <1>3. ASSUME NEW v \in Values(T)
        PROVE  /\ v \in Int /\ lowest(T) <= v /\ v <= max(T)
               /\ StaticCast(U, v) = IF v < 0 THEN v + 2 * Half(T) ELSE v
    <2>1. v \in Int /\ lowest(T) <= v /\ v <= max(T) /\ T.signed \in BOOLEAN
      BY Limits, HalfFacts DEF Values
    <2>2. CASE v < 0
      BY <1>1, <1>2, <2>1, <2>2, Cast1
    <2>3. CASE v >= 0
      <3>1. v \in Values(U)
        BY <1>1, <1>2, <2>1, <2>3 DEF Values
      <3> QED
        BY <1>1, <2>1, <2>3, <3>1, Cast1
    <2> QED
      BY <2>1, <2>2, <2>3
  <1> QED
    BY <1>1, <1>2, <1>3 DEF U

(* Storing a result modulo the range of the type: it is the exact one if   *)
(* that one fits.                                                          *)
LEMMA Stored ==
  ASSUME NEW T \in Types, NEW n \in Int,
         -2 * Half(T) <= n, n < 4 * Half(T)
  PROVE  LET u == StaticCast(make_unsigned(T), n)
         IN  /\ u \in 0 .. 2 * Half(T) - 1
             /\ u = CASE n < 0 -> n + 2 * Half(T)
                      [] n \in 0 .. 2 * Half(T) - 1 -> n
                      [] n >= 2 * Half(T) -> n - 2 * Half(T)
             /\ StaticCast(T, u) = IF u > max(T) THEN u - 2 * Half(T) ELSE u
  <1> DEFINE U == make_unsigned(T)
             u == StaticCast(U, n)
  <1>1. /\ U \in Types /\ Half(U) = Half(T) /\ lowest(U) = 0 /\ max(U) = 2 * Half(T) - 1
        /\ Half(T) \in Nat \ {0}
        /\ lowest(T) \in Int /\ lowest(T) <= 0 /\ max(T) = lowest(T) + 2 * Half(T) - 1
        /\ 0 <= max(T) /\ max(T) <= 2 * Half(T) - 1 /\ max(T) \in Int
    BY AsUnsigned, Limits
  <1> HIDE DEF U
  <1>2. /\ u \in Values(U)
        /\ n \in Values(U) => u = n
        /\ n < 0 => u = n + 2 * Half(T)
        /\ n > max(U) => u = n - 2 * Half(T)
    BY <1>1, Cast1
  <1>3. /\ u \in 0 .. 2 * Half(T) - 1
        /\ u = CASE n < 0 -> n + 2 * Half(T)
                 [] n \in 0 .. 2 * Half(T) - 1 -> n
                 [] n >= 2 * Half(T) -> n - 2 * Half(T)
    <2> HIDE DEF u
    <2> QED BY <1>1, <1>2 DEF Values
  <1>4. StaticCast(T, u) = IF u > max(T) THEN u - 2 * Half(T) ELSE u
    <2> HIDE DEF u
    <2>1. CASE u > max(T)
      BY <1>1, <1>3, <2>1, Cast1
    <2>2. CASE u <= max(T)
      <3>1. u \in Values(T)
        BY <1>1, <1>3, <2>2 DEF Values
      <3> QED
        BY <1>1, <1>3, <2>2, <3>1, Cast1
    <2> QED
      BY <1>1, <1>3, <2>1, <2>2
  <1> QED
    BY <1>3, <1>4 DEF U

(* CheckedAddImpl accepts a sum exactly when the type has it, and then     *)
(* stores that sum.                                                        *)
THEOREM AddImplExact ==
  ASSUME NEW T \in Types, NEW x \in Values(T), NEW y \in Values(T)
  PROVE  /\ CheckedAddImpl(T, x, y).ok <=> x + y \in Values(T)
         /\ x + y \in Values(T) => CheckedAddImpl(T, x, y).result = x + y
  <1> DEFINE U == make_unsigned(T)
             h == Half(T)
             ux == StaticCast(U, x)
             uy == StaticCast(U, y)
             n == ux + uy
             u == StaticCast(U, n)
  <1>1. /\ h \in Nat \ {0}
        /\ T.signed => lowest(T) = -h /\ max(T) = h - 1
        /\ ~T.signed => lowest(T) = 0 /\ max(T) = 2 * h - 1
        /\ x \in Int /\ lowest(T) <= x /\ x <= max(T)
        /\ y \in Int /\ lowest(T) <= y /\ y <= max(T)
        /\ ux = IF x < 0 THEN x + 2 * h ELSE x
        /\ uy = IF y < 0 THEN y + 2 * h ELSE y
    BY AsUnsigned
  <1>2. T.signed \in BOOLEAN
    BY HalfFacts
  <1> HIDE DEF ux, uy
  <1>3. n \in Int /\ -2 * h <= n /\ n < 4 * h
    BY <1>1, <1>2
  <1>4. n = ux + uy
    OBVIOUS
  <1> HIDE DEF n
  <1>5. /\ u \in 0 .. 2 * h - 1
        /\ u = CASE n < 0 -> n + 2 * h
                 [] n \in 0 .. 2 * h - 1 -> n
                 [] n >= 2 * h -> n - 2 * h
        /\ StaticCast(T, u) = IF u > max(T) THEN u - 2 * h ELSE u
    BY <1>3, Stored
  <1>6. /\ CheckedAddImpl(T, x, y).ok <=>
             IF T.signed THEN (u >= h) \in {ux >= h, uy >= h} ELSE u >= uy
        /\ CheckedAddImpl(T, x, y).result = StaticCast(T, u)
    BY DEF CheckedAddImpl, Outcome, SignBit, ux, uy, n
  <1> HIDE DEF u, h
  <1> QED
    BY <1>1, <1>2, <1>3, <1>4, <1>5, <1>6 DEF Values

(* So does CheckedSubImpl with a difference.                               *)
THEOREM SubImplExact ==
  ASSUME NEW T \in Types, NEW x \in Values(T), NEW y \in Values(T)
  PROVE  /\ CheckedSubImpl(T, x, y).ok <=> x - y \in Values(T)
         /\ x - y \in Values(T) => CheckedSubImpl(T, x, y).result = x - y
  <1> DEFINE U == make_unsigned(T)
             h == Half(T)
             ux == StaticCast(U, x)
             uy == StaticCast(U, y)
             n == ux - uy
             u == StaticCast(U, n)
  <1>1. /\ h \in Nat \ {0}
        /\ T.signed => lowest(T) = -h /\ max(T) = h - 1
        /\ ~T.signed => lowest(T) = 0 /\ max(T) = 2 * h - 1
        /\ x \in Int /\ lowest(T) <= x /\ x <= max(T)
        /\ y \in Int /\ lowest(T) <= y /\ y <= max(T)
        /\ ux = IF x < 0 THEN x + 2 * h ELSE x
        /\ uy = IF y < 0 THEN y + 2 * h ELSE y
    BY AsUnsigned
  <1>2. T.signed \in BOOLEAN
    BY HalfFacts
  <1> HIDE DEF ux, uy
  <1>3. n \in Int /\ -2 * h <= n /\ n < 4 * h
    BY <1>1, <1>2
  <1>4. n = ux - uy
    OBVIOUS
  <1> HIDE DEF n
  <1>5. /\ u \in 0 .. 2 * h - 1
        /\ u = CASE n < 0 -> n + 2 * h
                 [] n \in 0 .. 2 * h - 1 -> n
                 [] n >= 2 * h -> n - 2 * h
        /\ StaticCast(T, u) = IF u > max(T) THEN u - 2 * h ELSE u
    BY <1>3, Stored
  <1>6. /\ CheckedSubImpl(T, x, y).ok <=>
             IF T.signed THEN (u >= h <=> ux >= h) \/ (ux >= h <=> uy >= h) ELSE x >= y
        /\ CheckedSubImpl(T, x, y).result = StaticCast(T, u)
    BY DEF CheckedSubImpl, Outcome, SignBit, ux, uy, n
  <1> HIDE DEF u, h
  <1> QED
    BY <1>1, <1>2, <1>3, <1>4, <1>5, <1>6 DEF Values

LEMMA AbsExact ==
  ASSUME NEW T \in Types, NEW v \in Values(T)
  PROVE  /\ SafeUnsignedAbs(T, v) = IF v < 0 THEN -v ELSE v
         /\ SafeUnsignedAbs(T, v) <= IF v < 0 THEN max(T) + 1 ELSE max(T)
  <1> DEFINE U == make_unsigned(T)
             h == Half(T)
             u == StaticCast(U, v)
  <1>1. /\ h \in Nat \ {0}
        /\ T.signed => lowest(T) = -h /\ max(T) = h - 1
        /\ ~T.signed => lowest(T) = 0 /\ max(T) = 2 * h - 1
        /\ v \in Int /\ lowest(T) <= v /\ v <= max(T)
        /\ u = IF v < 0 THEN v + 2 * h ELSE v
        /\ T.signed \in BOOLEAN
    BY AsUnsigned, HalfFacts
  <1>2. SafeUnsignedAbs(T, v) = IF v < 0 THEN StaticCast(U, 0 - u) ELSE u
    BY DEF SafeUnsignedAbs
  <1> DEFINE n == 0 - u
  <1>3. v < 0 => n \in Int /\ n = -v - 2 * h /\ -2 * h <= n /\ n < 0 /\ n < 4 * h
    BY <1>1
  <1> HIDE DEF n
  <1>4. v < 0 => StaticCast(U, n) = n + 2 * h
    BY <1>1, <1>3, Stored
  <1> HIDE DEF u, h, U
  <1> QED
    BY <1>1, <1>2, <1>3, <1>4 DEF n

LEMMA DivBound ==
  ASSUME NEW a \in Nat, NEW b \in Nat, NEW c \in Nat \ {0}
  PROVE  a <= b \div c <=> a * c <= b
  <1> DEFINE q == b \div c
             r == b % c
  <1>1. q \in Nat /\ r \in 0 .. c - 1 /\ b = c * q + r
    BY SMTT(20)
  <1> HIDE DEF q, r
  <1>2. ASSUME a <= q
        PROVE  a * c <= b
    <2>1. PICK d \in Nat : q = a + d
      BY <1>1, <1>2
    <2>2. b = a * c + d * c + r /\ d * c \in Nat
      BY <1>1, <2>1
    <2> QED
      BY <1>1, <2>2
  <1>3. ASSUME q < a
        PROVE  b < a * c
    <2>1. PICK d \in Nat : a = q + 1 + d
      BY <1>1, <1>3
    <2>2. a * c = c * q + c + d * c /\ d * c \in Nat
      BY <1>1, <2>1
    <2> QED
      BY <1>1, <2>2
  <1> QED
    BY <1>1, <1>2, <1>3 DEF q

(* And CheckedMulImpl with a product, lowest() included.                   *)
THEOREM MulImplExact ==
  ASSUME NEW T \in Types, NEW x \in Values(T), NEW y \in Values(T)
  PROVE  /\ CheckedMulImpl(T, x, y).ok <=> x * y \in Values(T)
         /\ x * y \in Values(T) => CheckedMulImpl(T, x, y).result = x * y
  <1> DEFINE U == make_unsigned(T)
             h == Half(T)
             ux == SafeUnsignedAbs(T, x)
             uy == SafeUnsignedAbs(T, y)
             isNegative == T.signed /\ (x < 0) # (y < 0)
             bound == max(T) + (IF isNegative THEN 1 ELSE 0)
             free == IF ~T.signed \/ isNegative THEN 1 ELSE 0
             p == ux * uy
  <1>1. /\ h \in Nat \ {0} /\ T.signed \in BOOLEAN
        /\ T.signed => lowest(T) = -h /\ max(T) = h - 1
        /\ ~T.signed => lowest(T) = 0 /\ max(T) = 2 * h - 1
        /\ x \in Int /\ lowest(T) <= x /\ x <= max(T)
        /\ y \in Int /\ lowest(T) <= y /\ y <= max(T)
        /\ U \in Types /\ lowest(U) = 0 /\ max(U) = 2 * h - 1
    BY AsUnsigned, HalfFacts
  <1>2. /\ ux = IF x < 0 THEN -x ELSE x
        /\ uy = IF y < 0 THEN -y ELSE y
    BY AbsExact
  <1>3. /\ CheckedMulImpl(T, x, y).ok <=> uy <= free \/ ux <= bound \div uy
        /\ CheckedMulImpl(T, x, y).result =
             StaticCast(T, IF isNegative THEN 0 - StaticCast(U, p) ELSE StaticCast(U, p))
    BY DEF CheckedMulImpl, Outcome
  <1>4. isNegative \in BOOLEAN /\ (isNegative <=> (x < 0 /\ y >= 0) \/ (x >= 0 /\ y < 0))
    BY <1>1
  <1> HIDE DEF U, h, ux, uy, isNegative
  <1>5. /\ ux \in Nat /\ uy \in Nat /\ p \in Nat /\ bound \in Nat
        /\ bound <= 2 * h - 1
    BY <1>1, <1>2, <1>4
  <1>6. x * y = IF isNegative THEN -p ELSE p
    <2>1. CASE x < 0 /\ y < 0
      BY <1>1, <1>2, <1>4, <2>1
    <2>2. CASE x < 0 /\ y >= 0
      BY <1>1, <1>2, <1>4, <2>2
    <2>3. CASE x >= 0 /\ y < 0
      BY <1>1, <1>2, <1>4, <2>3
    <2>4. CASE x >= 0 /\ y >= 0
      BY <1>1, <1>2, <1>4, <2>4
    <2> QED
      BY <1>1, <2>1, <2>2, <2>3, <2>4
  <1>7. uy <= free => p <= bound
    <2>1. CASE uy = 0
      BY <1>5, <2>1
    <2>2. CASE uy = 1
      <3>1. p = ux
        BY <1>5, <2>2
      <3>2. uy <= free => ux <= bound
        BY <1>1, <1>2, <1>4, <2>2
      <3> QED
        BY <3>1, <3>2
    <2> QED
      BY <1>5, <2>1, <2>2
  <1>8. uy # 0 => (ux <= bound \div uy <=> p <= bound)
    BY <1>5, DivBound
  <1> HIDE DEF bound, free
  <1>9. (uy <= free \/ ux <= bound \div uy) <=> p <= bound
    <2>1. CASE uy = 0
      BY <1>5, <1>7, <2>1 DEF free
    <2>2. CASE uy # 0
      BY <1>7, <1>8, <2>2
    <2> QED
      BY <2>1, <2>2
  <1> HIDE DEF p
  <1>10. x * y \in Values(T) <=> p <= bound
    BY <1>1, <1>4, <1>5, <1>6 DEF bound, Values
  <1>11. ASSUME p <= bound
         PROVE  CheckedMulImpl(T, x, y).result = x * y
    <2>1. StaticCast(U, p) = p
      <3>1. p \in Values(U)
        BY <1>1, <1>5, <1>11 DEF Values
      <3> QED
        BY <1>1, <1>5, <3>1, Cast1
    <2>2. CheckedMulImpl(T, x, y).result = StaticCast(T, x * y)
      BY <1>3, <1>5, <1>6, <2>1
    <2> QED
      BY <1>10, <1>11, <2>2, Cast1, Limits
  <1> QED
    BY <1>3, <1>9, <1>10, <1>11

-----------------------------------------------------------------------------
(* Sums, differences and products in every build. *)

LEMMA FastContains ==
  ASSUME NEW L \in Types, NEW R \in Types, IsContained(L, R)
  PROVE  /\ FastIntegerArithmeticPromotion(L, R) \in Types
         /\ \A S \in {L, R} : \A v \in Values(S) :
              v \in Values(FastIntegerArithmeticPromotion(L, R))
  <1> DEFINE P == MaxExponentPromotion(L, R)
             W == [signed |-> L.signed \/ R.signed, bits |-> 2 * P.bits]
             widest == [signed |-> L.signed \/ R.signed, bits |-> IntmaxWidth]
  <1>1. P \in {L, R} /\ P \in Types /\ L.bits \in Nat \ {0} /\ R.bits \in Nat \ {0}
    BY HalfFacts DEF MaxExponentPromotion
  <1>2. CASE IsIntegerArithmeticSafe(widest, P, P)
    <2>1. P.bits # IntmaxWidth
      <3>1. IntmaxWidth >= 2 * P.bits
        BY <1>2 DEF IsIntegerArithmeticSafe
      <3> HIDE DEF P
      <3> QED
        BY <1>1, <3>1
    <2>2. FastIntegerArithmeticPromotion(L, R) = W
      BY <1>2 DEF FastIntegerArithmeticPromotion, TwiceWiderInteger
    <2>3. W \in Types
      BY <1>1, <2>1, WidthsAssumption DEF Types
    <2>4. \A S \in {L, R} : S.bits <= P.bits + 1 /\ (~S.signed => S.bits <= P.bits)
      BY <1>1 DEF MaxExponentPromotion, MaxExponent, digits
    <2>5. ASSUME NEW S \in {L, R}
          PROVE  \/ W.signed = S.signed /\ W.bits >= S.bits
                 \/ W.signed /\ ~S.signed /\ W.bits > S.bits
      <3> HIDE DEF P
      <3>1. W.bits >= S.bits /\ (~S.signed => W.bits > S.bits)
        BY <1>1, <2>4
      <3>2. S.signed => W.signed
        OBVIOUS
      <3> QED
        BY <3>1, <3>2, HalfFacts, <2>3
    <2> HIDE DEF W
    <2> QED
      BY <2>2, <2>3, <2>5, WiderContains
  <1>3. CASE ~IsIntegerArithmeticSafe(widest, P, P)
    <2>1. FastIntegerArithmeticPromotion(L, R) = BigEnoughPromotion(L, R)
      BY <1>3 DEF FastIntegerArithmeticPromotion
    <2> QED
      BY <2>1, PromotionContains
  <1> QED
    BY <1>2, <1>3

LEMMA PromotionHolds ==
  ASSUME NEW B \in Builds, NEW L \in Types, NEW R \in Types, IsContained(L, R)
  PROVE  /\ Promotion(B, L, R) \in Types
         /\ \A S \in {L, R} : \A v \in Values(S) : v \in Values(Promotion(B, L, R))
  <1>1. Promotion(B, L, R) \in {BigEnoughPromotion(L, R), FastIntegerArithmeticPromotion(L, R)}
    BY DEF Promotion
  <1> QED
    BY <1>1, FastContains, PromotionContains

(* A type twice as wide has the square of the number of values. *)
LEMMA TwiceAsWide ==
  ASSUME NEW P \in Types, NEW S \in Types, P.bits >= 2 * S.bits
  PROVE  /\ Half(S) \in Nat /\ Half(S) >= 2 /\ Half(P) \in Nat
         /\ 2 * (Half(S) * Half(S)) <= Half(P)
  <1> DEFINE w == S.bits
             D == [signed |-> TRUE, bits |-> 2 * w]
  <1>1. w \in Widths /\ P.bits \in Widths /\ Widths \subseteq Nat \ {0, 1}
    BY WidthsAssumption DEF Types
  <1>2. w # IntmaxWidth
    <2>1. P.bits = IntmaxWidth \/ 2 * P.bits <= IntmaxWidth
      BY <1>1, WidthsAssumption
    <2>2. P.bits >= 2 * w /\ P.bits \in Nat \ {0} /\ w \in Nat \ {0} /\ IntmaxWidth \in Nat
      BY <1>1, WidthsAssumption
    <2> HIDE DEF w
    <2> QED
      BY <2>1, <2>2
  <1>3. D \in Types
    BY <1>1, <1>2, WidthsAssumption DEF Types
  <1>4. Half(D) = 2 * (Half(S) * Half(S))
    BY <1>1, <1>3, WidthPowers DEF Types, Half
  <1>5. Half(S) \in Nat \ {0, 1}
    BY <1>1, WidthPowers DEF Half
  <1>6. Half(D) \in Nat /\ Half(P) \in Nat /\ Half(D) <= Half(P)
    BY <1>1, <1>3, HalfFacts
  <1> QED
    BY <1>4, <1>5, <1>6

LEMMA ImplTypes ==
  ASSUME NEW T \in Types, NEW x \in Values(T), NEW y \in Values(T)
  PROVE  \A do \in {CheckedAddImpl(T, x, y), CheckedSubImpl(T, x, y), CheckedMulImpl(T, x, y)} :
           do.result \in Values(T)
  <1> DEFINE U == make_unsigned(T)
  <1>1. U \in Types /\ T.signed \in BOOLEAN /\ x \in Int /\ y \in Int
    BY AsUnsigned, HalfFacts, Limits
  <1>2. \A n \in Int : StaticCast(U, n) \in Int /\ StaticCast(T, n) \in Values(T)
    BY <1>1, Cast1
  <1>3. ASSUME NEW n \in Int, NEW ok
        PROVE  Outcome(ok, StaticCast(T, n)).result \in Values(T)
    BY <1>2, <1>3 DEF Outcome
  <1>4. CheckedAddImpl(T, x, y).result \in Values(T)
    <2> DEFINE u == StaticCast(U, StaticCast(U, x) + StaticCast(U, y))
               ok == IF T.signed
                     THEN SignBit(T, u) \in {SignBit(T, StaticCast(U, x)), SignBit(T, StaticCast(U, y))}
                     ELSE u >= StaticCast(U, y)
    <2>1. u \in Int
      BY <1>1, <1>2
    <2>2. CheckedAddImpl(T, x, y) = Outcome(ok, StaticCast(T, u))
      BY DEF CheckedAddImpl
    <2> HIDE DEF u, ok
    <2> QED
      BY <1>3, <2>1, <2>2
  <1>5. CheckedSubImpl(T, x, y).result \in Values(T)
    <2> DEFINE ux == StaticCast(U, x)
               uy == StaticCast(U, y)
               u == StaticCast(U, ux - uy)
               ok == IF T.signed THEN \/ SignBit(T, u) <=> SignBit(T, ux)
                                      \/ SignBit(T, ux) <=> SignBit(T, uy)
                     ELSE x >= y
    <2>1. u \in Int
      BY <1>1, <1>2
    <2>2. CheckedSubImpl(T, x, y) = Outcome(ok, StaticCast(T, u))
      BY DEF CheckedSubImpl
    <2> HIDE DEF u, ok
    <2> QED
      BY <1>3, <2>1, <2>2
  <1>6. CheckedMulImpl(T, x, y).result \in Values(T)
    <2> DEFINE ux == SafeUnsignedAbs(T, x)
               uy == SafeUnsignedAbs(T, y)
               u == StaticCast(U, ux * uy)
               isNegative == T.signed /\ (x < 0) # (y < 0)
               one(b) == IF b THEN 1 ELSE 0
               ok == \/ uy <= one(~T.signed \/ isNegative)
                     \/ ux <= (max(T) + one(isNegative)) \div uy
               n == IF isNegative THEN 0 - u ELSE u
    <2>1. ux \in Int /\ uy \in Int
      BY AbsExact, <1>1
    <2>2. u \in Int
      <3> HIDE DEF ux, uy
      <3> QED BY <1>2, <2>1
    <2>3. n \in Int
      <3> HIDE DEF u
      <3> QED BY <2>2
    <2>4. CheckedMulImpl(T, x, y) = Outcome(ok, StaticCast(T, n))
      BY DEF CheckedMulImpl
    <2> HIDE DEF n, ok
    <2> QED
      BY <1>3, <2>3, <2>4
  <1> QED
    BY <1>4, <1>5, <1>6

(* What Do says of a result n: whether V has it, and n itself. *)
Exactly(V, do, n) ==
  /\ do.ok <=> n \in Values(V)
  /\ do.ok => do.result = n

LEMMA BuiltinExact ==
  ASSUME NEW V \in Types, NEW n \in Int
  PROVE  /\ Exactly(V, Builtin(V, n), n)
         /\ Builtin(V, n).result \in Values(V)
         /\ Builtin(V, n).ok <=> n \in Values(V)
         /\ n \in Values(V) => Builtin(V, n).result = n
  BY Cast1 DEF Exactly, Builtin, Outcome

LEMMA NarrowedExact ==
  ASSUME NEW P \in Types, NEW V \in Types, NEW n \in Int, NEW ok,
         NEW presult \in Values(P),
         ok /\ presult \in Values(V) <=> n \in Values(V),
         n \in Values(V) => presult = n
  PROVE  Exactly(V, Narrowed(V, P, ok, presult), n)
  <1>1. IsValueInRangeForNumericType(V, P, presult) <=> presult \in Values(V)
    BY InRangeExact
  <1>2. presult \in Values(V) => StaticCast(V, presult) = presult
    BY Cast1, Limits
  <1> QED
    BY <1>1, <1>2 DEF Exactly, Narrowed, Outcome

(* An operation in a type that holds the operands: of it, and of whether   *)
(* it can overflow there.                                                  *)
LEMMA PortableExact ==
  ASSUME NEW B \in Builds, NEW T \in Types, NEW U \in Types, NEW V \in {T, U},
         IsContained(T, U), NEW x \in Values(T), NEW y \in Values(U),
         NEW n \in Int, NEW impl,
         LET P == Promotion(B, T, U)
         IN  /\ impl.ok <=> n \in Values(P)
             /\ n \in Values(P) => impl.result = n
             /\ impl.result \in Values(P)
             /\ IsIntegerArithmeticSafe(P, T, U) =>
                  \/ n \in Values(P)
                  \/ n \notin Values(V) /\ StaticCast(P, n) \notin Values(V)
  PROVE  Exactly(V, Portable(B, T, U, V, x, y, n, impl), n)
  <1> DEFINE P == Promotion(B, T, U)
             presult == IF IsIntegerArithmeticSafe(P, T, U)
                          THEN Outcome(TRUE, StaticCast(P, n)) ELSE impl
  <1>1. /\ P \in Types /\ V \in Types
        /\ \A S \in {T, U} : \A v \in Values(S) : v \in Values(P)
    BY PromotionHolds
  <1>2. x \in Values(P) /\ y \in Values(P) /\ (\A v \in Values(V) : v \in Values(P))
    BY <1>1
  <1>3. BothInRange(P, T, U, x, y)
    BY <1>1, <1>2, InRangeExact DEF BothInRange
  <1>4. StaticCast(P, n) \in Values(P) /\ (n \in Values(P) => StaticCast(P, n) = n)
    BY <1>1, Cast1
  <1>5. Portable(B, T, U, V, x, y, n, impl) = Narrowed(V, P, presult.ok, presult.result)
    BY <1>3 DEF Portable
  <1>6. /\ presult.result \in Values(P)
        /\ presult.ok /\ presult.result \in Values(V) <=> n \in Values(V)
        /\ n \in Values(V) => presult.result = n
    <2>1. CASE IsIntegerArithmeticSafe(P, T, U)
      <3>1. presult = [ok |-> TRUE, result |-> StaticCast(P, n)]
        BY <2>1 DEF Outcome
      <3>2. \/ n \in Values(P)
            \/ n \notin Values(V) /\ StaticCast(P, n) \notin Values(V)
        BY <2>1
      <3> HIDE DEF P, presult
      <3> QED
        BY <3>1, <3>2, <1>2, <1>4
    <2>2. CASE ~IsIntegerArithmeticSafe(P, T, U)
      <3>1. presult = impl
        BY <2>2
      <3>2. /\ impl.ok <=> n \in Values(P)
            /\ n \in Values(P) => impl.result = n
            /\ impl.result \in Values(P)
        OBVIOUS
      <3> HIDE DEF P, presult
      <3> QED
        BY <3>1, <3>2, <1>2
    <2> QED
      BY <2>1, <2>2
  <1> HIDE DEF P, presult
  <1> QED
    BY <1>1, <1>5, <1>6, NarrowedExact

(* Sums and differences have one bit more, at most. *)
LEMMA SafeSums ==
  ASSUME NEW P \in Types, NEW T \in Types, NEW U \in Types, NEW V \in {T, U},
         IsIntegerArithmeticSafe(P, T, U), NEW x \in Values(T), NEW y \in Values(U)
  PROVE  /\ x + y \in Values(P)
         /\ \/ x - y \in Values(P)
            \/ x - y \notin Values(V) /\ StaticCast(P, x - y) \notin Values(V)
  <1> DEFINE p == Half(P)
  <1>1. ASSUME NEW S \in {T, U}
        PROVE  /\ Half(S) \in Nat /\ p \in Nat /\ 4 * Half(S) <= p
               /\ S.signed => P.signed
    <2>1. S \in Types /\ P.bits >= 2 * S.bits /\ (S.signed => P.signed)
      BY DEF IsIntegerArithmeticSafe
    <2>2. /\ Half(S) \in Nat /\ Half(S) >= 2 /\ p \in Nat
          /\ 2 * (Half(S) * Half(S)) <= p
      BY <2>1, TwiceAsWide
    <2>3. ASSUME NEW h \in Nat, h >= 2
          PROVE  2 * h <= h * h
      BY <2>3
    <2>4. 2 * Half(S) <= Half(S) * Half(S) /\ Half(S) * Half(S) \in Nat
      BY <2>2, <2>3
    <2> QED
      BY <2>1, <2>2, <2>4
  <1>2. /\ x \in Int /\ y \in Int
        /\ lowest(T) <= x /\ x <= max(T) /\ lowest(U) <= y /\ y <= max(U)
    BY Limits DEF Values
  <1>3. ASSUME NEW S \in {T, U}
        PROVE  /\ S.signed => lowest(S) = -Half(S) /\ max(S) = Half(S) - 1
               /\ ~S.signed => lowest(S) = 0 /\ max(S) = 2 * Half(S) - 1
               /\ S.signed \in BOOLEAN
    BY HalfFacts DEF lowest, max
  <1>4. /\ P.signed => lowest(P) = -p /\ max(P) = p - 1
        /\ ~P.signed => lowest(P) = 0 /\ max(P) = 2 * p - 1
        /\ P.signed \in BOOLEAN
    BY HalfFacts DEF lowest, max
  <1> DEFINE s == Half(T)
             u == Half(U)
  <1>5. /\ s \in Nat /\ u \in Nat /\ p \in Nat /\ 4 * s <= p /\ 4 * u <= p
        /\ -s <= x /\ x <= 2 * s - 1 /\ -u <= y /\ y <= 2 * u - 1
        /\ ~P.signed => 0 <= x /\ 0 <= y
    BY <1>1, <1>2, <1>3
  <1>6. Values(P) = lowest(P) .. max(P) /\ Values(V) = lowest(V) .. max(V)
    BY DEF Values
  <1>7. max(V) <= p - 1 /\ max(V) \in Int /\ lowest(V) \in Int
    <2>1. V \in {T, U} /\ V \in Types
      OBVIOUS
    <2>2. Half(V) \in Nat /\ 4 * Half(V) <= p /\ p \in Nat
      BY <1>1, <2>1
    <2>3. max(V) <= 2 * Half(V) - 1 /\ Half(V) >= 1
      BY <2>1, HalfFacts DEF max
    <2> HIDE DEF p
    <2> QED
      BY <2>1, <2>2, <2>3, Limits
  <1>8. /\ x - y < lowest(P) /\ ~P.signed => StaticCast(P, x - y) = x - y + 2 * p
    <2> SUFFICES ASSUME ~P.signed, x - y < lowest(P)
                 PROVE  StaticCast(P, x - y) = x - y + 2 * p
      OBVIOUS
    <2>1. lowest(P) = 0 /\ lowest(P) - 2 * Half(P) <= x - y /\ x - y \in Int
      BY <1>2, <1>4, <1>5
    <2>2. StaticCast(P, x - y) = x - y + 2 * Half(P)
      BY <2>1, Cast1
    <2> QED
      BY <2>2
  <1> HIDE DEF p, s, u
  <1>9. x + y \in Values(P)
    <2>1. CASE P.signed
      BY <1>2, <1>4, <1>5, <1>6, <2>1
    <2>2. CASE ~P.signed
      BY <1>2, <1>4, <1>5, <1>6, <2>2
    <2> QED
      BY <2>1, <2>2
  <1>10. CASE P.signed
    <2>1. x - y \in Values(P)
      BY <1>2, <1>4, <1>5, <1>6, <1>10
    <2> QED
      BY <1>9, <2>1
  <1>11. CASE ~P.signed
    <2>1. \A S \in {T, U} : ~S.signed
      BY <1>1, <1>11
    <2>2. lowest(V) = 0
      BY <2>1, <1>3
    <2>3. x - y <= max(P)
      BY <1>2, <1>4, <1>5, <1>11
    <2>4. CASE x >= y
      BY <1>2, <1>4, <1>6, <1>9, <1>11, <2>3, <2>4
    <2>5. CASE x < y
      <3>1. x - y \notin Values(V)
        BY <1>2, <1>6, <1>7, <2>2, <2>5
      <3>2. StaticCast(P, x - y) = x - y + 2 * p
        BY <1>2, <1>4, <1>8, <1>11, <2>5
      <3>3. x - y + 2 * p > p - 1
        BY <1>2, <1>5, <1>11
      <3>4. StaticCast(P, x - y) \notin Values(V)
        BY <1>2, <1>5, <1>6, <1>7, <3>2, <3>3
      <3> QED
        BY <1>9, <3>1, <3>4
    <2> QED
      BY <1>2, <2>4, <2>5
  <1> QED
    BY <1>4, <1>10, <1>11

(* Products have as many bits as both operands together. *)
LEMMA ProductBound ==
  ASSUME NEW a \in Nat, NEW b \in Nat, NEW x \in Int, NEW y \in Int,
         -a <= x, x <= a, -b <= y, y <= b
  PROVE  -(a * b) <= x * y /\ x * y <= a * b
  <1>1. (a - x) * (b + y) >= 0 /\ (a + x) * (b - y) >= 0
    BY SMTT(20)
  <1>2. (a - x) * (b - y) >= 0 /\ (a + x) * (b + y) >= 0
    BY SMTT(20)
  <1>3. /\ (a - x) * (b + y) = a * b + a * y - x * b - x * y
        /\ (a + x) * (b - y) = a * b - a * y + x * b - x * y
        /\ (a - x) * (b - y) = a * b - a * y - x * b + x * y
        /\ (a + x) * (b + y) = a * b + a * y + x * b + x * y
    BY SMTT(20)
  <1> DEFINE ab == a * b
             ay == a * y
             xb == x * b
             xy == x * y
  <1>4. ab \in Int /\ ay \in Int /\ xb \in Int /\ xy \in Int
    OBVIOUS
  <1>5. /\ ab + ay - xb - xy >= 0 /\ ab - ay + xb - xy >= 0
        /\ ab - ay - xb + xy >= 0 /\ ab + ay + xb + xy >= 0
    BY <1>1, <1>2, <1>3
  <1>6. -ab <= xy /\ xy <= ab
    <2> HIDE DEF ab, ay, xb, xy
    <2> QED
      BY <1>4, <1>5
  <1> QED
    BY <1>6

LEMMA SquareBound ==
  ASSUME NEW h \in Nat, h >= 1, NEW p \in Nat, 2 * (h * h) <= p,
         NEW x \in Int, NEW y \in Int
  PROVE  /\ -h <= x /\ x <= h /\ -h <= y /\ y <= 2 * h - 1 => -p <= x * y /\ x * y <= p - 1
         /\ 0 <= x /\ x <= 2 * h - 1 /\ 0 <= y /\ y <= 2 * h - 1
              => 0 <= x * y /\ x * y <= 2 * p - 1
  <1> DEFINE q == h * h
             b == 2 * h - 1
  <1>1. /\ q \in Nat /\ 2 * q <= p /\ b \in Nat /\ h <= b
        /\ h * b = 2 * q - h /\ b * b = 4 * q - 4 * h + 1
    BY SMTT(20)
  <1>2. ASSUME -h <= x, x <= h, -h <= y, y <= b
        PROVE  -p <= x * y /\ x * y <= p - 1
    <2>1. -(h * b) <= x * y /\ x * y <= h * b
      <3> HIDE DEF b
      <3>1. -b <= y
        BY <1>1, <1>2
      <3> QED
        BY <1>1, <1>2, <3>1, ProductBound
    <2>2. x * y \in Int
      OBVIOUS
    <2> DEFINE xy == x * y
    <2>3. -(2 * q - h) <= xy /\ xy <= 2 * q - h /\ xy \in Int
      BY <1>1, <2>1, <2>2
    <2>4. -p <= xy /\ xy <= p - 1
      <3> HIDE DEF xy, q
      <3> QED
        BY <1>1, <2>3
    <2> QED
      BY <2>4
  <1>3. ASSUME 0 <= x, x <= b, 0 <= y, y <= b
        PROVE  0 <= x * y /\ x * y <= 2 * p - 1
    <2>1. x * y <= b * b /\ x * y \in Int
      <3> HIDE DEF b
      <3>1. -b <= x /\ -b <= y
        BY <1>1, <1>3
      <3> QED
        BY <1>1, <1>3, <3>1, ProductBound
    <2>2. 0 <= x * y
      BY <1>3
    <2> DEFINE xy == x * y
    <2>3. xy <= 4 * q - 4 * h + 1 /\ xy \in Int
      BY <1>1, <2>1
    <2>4. xy <= 2 * p - 1
      <3> HIDE DEF xy, q
      <3> QED
        BY <1>1, <2>3
    <2> QED
      BY <2>2, <2>4
  <1> QED
    BY <1>2, <1>3

LEMMA SafeProducts ==
  ASSUME NEW P \in Types, NEW T \in Types, NEW U \in Types,
         IsIntegerArithmeticSafe(P, T, U), P.signed => T.signed \/ U.signed,
         NEW x \in Values(T), NEW y \in Values(U)
  PROVE  x * y \in Values(P)
  <1> DEFINE p == Half(P)
             s == Half(T)
             u == Half(U)
             h == IF s <= u THEN u ELSE s
  <1>1. /\ s \in Nat /\ s >= 2 /\ 2 * (s * s) <= p /\ p \in Nat
        /\ u \in Nat /\ u >= 2 /\ 2 * (u * u) <= p
        /\ (T.signed => P.signed) /\ (U.signed => P.signed)
    BY TwiceAsWide DEF IsIntegerArithmeticSafe
  <1>2. h \in Nat /\ h >= 1 /\ 2 * (h * h) <= p /\ s <= h /\ u <= h
    <2> HIDE DEF s, u, p
    <2>1. CASE s <= u
      BY <1>1, <2>1
    <2>2. CASE ~(s <= u)
      BY <1>1, <2>2
    <2> QED
      BY <2>1, <2>2
  <1>3. /\ x \in Int /\ y \in Int /\ x * y \in Int
        /\ lowest(T) <= x /\ x <= max(T) /\ lowest(U) <= y /\ y <= max(U)
    BY Limits DEF Values
  <1>4. /\ T.signed => -s <= x /\ x <= s - 1
        /\ ~T.signed => 0 <= x /\ x <= 2 * s - 1
        /\ U.signed => -u <= y /\ y <= u - 1
        /\ ~U.signed => 0 <= y /\ y <= 2 * u - 1
        /\ T.signed \in BOOLEAN /\ U.signed \in BOOLEAN /\ P.signed \in BOOLEAN
    BY <1>3, HalfFacts DEF lowest, max
  <1>5. /\ P.signed => lowest(P) = -p /\ max(P) = p - 1
        /\ ~P.signed => lowest(P) = 0 /\ max(P) = 2 * p - 1
    BY DEF lowest, max
  <1>6. Values(P) = lowest(P) .. max(P) /\ lowest(P) \in Int /\ max(P) \in Int
    BY Limits DEF Values
  <1>7. lowest(P) <= x * y /\ x * y <= max(P)
    <2> HIDE DEF s, u, p, h
    <2>1. CASE P.signed /\ T.signed
      <3>1. -h <= x /\ x <= h /\ -h <= y /\ y <= 2 * h - 1
        BY <1>1, <1>2, <1>3, <1>4, <2>1
      <3> QED
        BY <1>1, <1>2, <1>3, <1>5, <2>1, <3>1, SquareBound
    <2>2. CASE P.signed /\ ~T.signed
      <3>1. U.signed
        BY <2>2
      <3>2. -h <= y /\ y <= h /\ -h <= x /\ x <= 2 * h - 1
        BY <1>1, <1>2, <1>3, <1>4, <2>2, <3>1
      <3>3. -p <= y * x /\ y * x <= p - 1
        BY <1>1, <1>2, <1>3, <3>2, SquareBound
      <3>4. y * x = x * y
        BY <1>3
      <3> QED
        BY <1>5, <2>2, <3>3, <3>4
    <2>3. CASE ~P.signed
      <3>1. 0 <= x /\ x <= 2 * h - 1 /\ 0 <= y /\ y <= 2 * h - 1
        BY <1>1, <1>2, <1>3, <1>4, <2>3
      <3> QED
        BY <1>1, <1>2, <1>3, <1>5, <2>3, <3>1, SquareBound
    <2> QED
      BY <2>1, <2>2, <2>3
  <1> HIDE DEF p, s, u, h
  <1> QED
    BY <1>3, <1>6, <1>7

LEMMA PromotionSigned ==
  ASSUME NEW B \in Builds, NEW L \in Types, NEW R \in Types
  PROVE  /\ FastIntegerArithmeticPromotion(L, R).signed => L.signed \/ R.signed
         /\ Promotion(B, L, R).signed => L.signed \/ R.signed
  <1>1. MaxExponentPromotion(L, R) \in {L, R}
    BY DEF MaxExponentPromotion
  <1>2. BigEnoughPromotion(L, R).signed => L.signed \/ R.signed
    BY <1>1 DEF BigEnoughPromotion, TwiceWiderInteger
  <1>3. FastIntegerArithmeticPromotion(L, R).signed => L.signed \/ R.signed
    BY <1>2 DEF FastIntegerArithmeticPromotion, TwiceWiderInteger
  <1> QED
    BY <1>2, <1>3 DEF Promotion

(* Where some type has both operands, a sum, a difference and a product    *)
(* are accepted exactly when the type of the result has them, and then     *)
(* stored as they are: by the built-in functions of clang and gcc and on   *)
(* the portable path, with or without a wider type, so in all builds alike *)
(* (checked_math_impl.h, lines 42-200).                                    *)
THEOREM BuildsAgree ==
  ASSUME NEW B \in Builds, NEW T \in Types, NEW U \in Types, NEW V \in {T, U},
         IsContained(T, U), NEW x \in Values(T), NEW y \in Values(U)
  PROVE  /\ Exactly(V, CheckedAddOp(B, T, U, V, x, y), x + y)
         /\ Exactly(V, CheckedSubOp(B, T, U, V, x, y), x - y)
         /\ Exactly(V, CheckedMulOp(B, T, U, V, x, y), x * y)
  <1>1. V \in Types /\ x \in Int /\ y \in Int
    BY Limits
  <1> DEFINE sum == x + y
             difference == x - y
             product == x * y
  <1>2. sum \in Int /\ difference \in Int /\ product \in Int
    BY <1>1
  <1>3. ASSUME NEW P \in Types, x \in Values(P), y \in Values(P)
        PROVE  /\ StaticCast(P, x) = x /\ StaticCast(P, y) = y
               /\ CheckedAddImpl(P, x, y).ok <=> sum \in Values(P)
               /\ sum \in Values(P) => CheckedAddImpl(P, x, y).result = sum
               /\ CheckedSubImpl(P, x, y).ok <=> difference \in Values(P)
               /\ difference \in Values(P) => CheckedSubImpl(P, x, y).result = difference
               /\ CheckedMulImpl(P, x, y).ok <=> product \in Values(P)
               /\ product \in Values(P) => CheckedMulImpl(P, x, y).result = product
    BY <1>1, <1>3, Cast1, AddImplExact, SubImplExact, MulImplExact
  <1>4. /\ Exactly(V, CheckedAddOp(B, T, U, V, x, y), sum)
        /\ Exactly(V, CheckedSubOp(B, T, U, V, x, y), difference)
    <2> DEFINE P == Promotion(B, T, U)
               add == CheckedAddImpl(P, x, y)
               sub == CheckedSubImpl(P, x, y)
    <2>1. P \in Types /\ x \in Values(P) /\ y \in Values(P)
      BY PromotionHolds
    <2>2. StaticCast(P, x) = x /\ StaticCast(P, y) = y
      BY <1>3, <2>1
    <2>3. CASE B.compiler # "other"
      BY <1>1, <1>2, <2>3, BuiltinExact DEF CheckedAddOp, CheckedSubOp
    <2>4. CASE B.compiler = "other"
      <3>1. /\ CheckedAddOp(B, T, U, V, x, y) = Portable(B, T, U, V, x, y, sum, add)
            /\ CheckedSubOp(B, T, U, V, x, y) = Portable(B, T, U, V, x, y, difference, sub)
        BY <2>2, <2>4 DEF CheckedAddOp, CheckedSubOp
      <3>2. /\ add.result \in Values(P)
            /\ sub.result \in Values(P)
        BY <2>1, ImplTypes
      <3>3. /\ add.ok <=> sum \in Values(P)
            /\ sum \in Values(P) => add.result = sum
            /\ sub.ok <=> difference \in Values(P)
            /\ difference \in Values(P) => sub.result = difference
        BY <1>3, <2>1
      <3>4. IsIntegerArithmeticSafe(P, T, U) =>
              /\ sum \in Values(P)
              /\ \/ difference \in Values(P)
                 \/ difference \notin Values(V) /\ StaticCast(P, difference) \notin Values(V)
        BY <2>1, SafeSums
      <3> HIDE DEF sum, difference, add, sub
      <3>5. /\ Exactly(V, Portable(B, T, U, V, x, y, sum, add), sum)
            /\ Exactly(V, Portable(B, T, U, V, x, y, difference, sub), difference)
        BY <1>2, <3>2, <3>3, <3>4, PortableExact
      <3> QED
        BY <3>1, <3>5
    <2> QED
      BY <2>3, <2>4
  <1>5. Exactly(V, CheckedMulOp(B, T, U, V, x, y), product)
    <2> DEFINE P == FastIntegerArithmeticPromotion(T, U)
               mul == CheckedMulImpl(P, x, y)
               presult == IF MulFastOpSupported(B, P, P) THEN Builtin(P, product)
                          ELSE IF IsIntegerArithmeticSafe(P, T, U)
                            THEN Outcome(TRUE, StaticCast(P, product))
                          ELSE mul
    <2>1. /\ P \in Types /\ x \in Values(P) /\ y \in Values(P)
          /\ \A v \in Values(V) : v \in Values(P)
      BY FastContains
    <2>2. StaticCast(P, x) = x /\ StaticCast(P, y) = y
      BY <1>3, <2>1
    <2>3. CASE MulFastOpSupported(B, T, U)
      BY <1>1, <1>2, <2>3, BuiltinExact DEF CheckedMulOp
    <2>4. CASE ~MulFastOpSupported(B, T, U)
      <3>1. BothInRange(P, T, U, x, y)
        BY <2>1, InRangeExact DEF BothInRange
      <3>2. CheckedMulOp(B, T, U, V, x, y) = Narrowed(V, P, presult.ok, presult.result)
        BY <2>2, <2>4, <3>1 DEF CheckedMulOp
      <3>3. /\ presult.result \in Values(P)
            /\ presult.ok <=> product \in Values(P)
            /\ product \in Values(P) => presult.result = product
        <4>1. StaticCast(P, product) \in Values(P)
              /\ (product \in Values(P) => StaticCast(P, product) = product)
          BY <1>2, <2>1, Cast1
        <4>2. CASE MulFastOpSupported(B, P, P)
          <5>1. presult = Builtin(P, product)
            BY <4>2
          <5> HIDE DEF presult, P, product
          <5> QED
            BY <1>2, <2>1, <5>1, BuiltinExact
        <4>3. CASE ~MulFastOpSupported(B, P, P) /\ IsIntegerArithmeticSafe(P, T, U)
          <5>1. product \in Values(P)
            BY <2>1, <4>3, SafeProducts, PromotionSigned
          <5>2. presult = [ok |-> TRUE, result |-> StaticCast(P, product)]
            BY <4>3 DEF Outcome
          <5> HIDE DEF presult, P, product
          <5> QED
            BY <4>1, <5>1, <5>2
        <4>4. CASE ~MulFastOpSupported(B, P, P) /\ ~IsIntegerArithmeticSafe(P, T, U)
          <5>1. presult = mul
            BY <4>4
          <5>2. mul.result \in Values(P)
            BY <2>1, ImplTypes
          <5>3. /\ mul.ok <=> product \in Values(P)
                /\ product \in Values(P) => mul.result = product
            BY <1>3, <2>1
          <5> HIDE DEF presult, P, product, mul
          <5> QED
            BY <5>1, <5>2, <5>3
        <4> QED
          BY <4>2, <4>3, <4>4
      <3> HIDE DEF presult, P, product
      <3>4. Exactly(V, Narrowed(V, P, presult.ok, presult.result), product)
        BY <1>1, <1>2, <2>1, <3>3, NarrowedExact
      <3> QED
        BY <3>2, <3>4
    <2> QED
      BY <2>3, <2>4
  <1> QED
    BY <1>4, <1>5

-----------------------------------------------------------------------------
(* The objects. *)

Agrees(o, S) == S = IF o.valid THEN {o.value} ELSE {}

Agreement ==
  /\ ~astray => Agrees(number, ideal)
  /\ number.class = "ClampedNumeric" => number.valid

IInv == TypeOK /\ Agreement

Classes == {"CheckedNumeric", "ClampedNumeric"}

-----------------------------------------------------------------------------
(* The objects an operation makes, and what it leaves of ideal. *)

(* A type is in the range of itself whatever the value.                    *)
LEMMA SelfInRange ==
  ASSUME NEW V \in Types, NEW n \in Int
  PROVE  /\ IsValueInRangeForNumericType(V, V, n)
         /\ SaturateFastOp(V, V, n) = StaticCast(V, n)
  <1>1. V.signed \in BOOLEAN /\ digits(V) \in Int /\ lowest(V) \in Int /\ max(V) \in Int
    BY HalfFacts, Limits DEF digits
  <1>2. StaticDstRangeRelationToSrcRange(V, V)
    BY <1>1 DEF StaticDstRangeRelationToSrcRange, MaxExponent
  <1>3. lowest(V) \in Values(V) /\ max(V) \in Values(V)
    BY Limits DEF Values
  <1>4. StaticCast(V, lowest(V)) = lowest(V) /\ StaticCast(V, max(V)) = max(V)
    BY <1>1, <1>3, Cast1
  <1> DEFINE low == \/ StaticCast(V, lowest(V)) >= lowest(V)
                    \/ StaticCast(V, n) >= lowest(V)
             high == \/ StaticCast(V, max(V)) <= max(V)
                     \/ StaticCast(V, n) <= max(V)
  <1>5. DstRangeRelationToSrcRange(V, V, n) = [underflow |-> ~low, overflow |-> ~high]
    BY <1>2 DEF DstRangeRelationToSrcRange
  <1>6. IsValueInRangeForNumericType(V, V, n) <=> IsValid(DstRangeRelationToSrcRange(V, V, n))
    BY <1>2 DEF IsValueInRangeForNumericType
  <1>7. IsValueInRangeForNumericType(V, V, n)
    <2>1. low /\ high
      BY <1>1, <1>4
    <2> HIDE DEF low, high
    <2>2. IsValid([underflow |-> ~low, overflow |-> ~high])
      BY <2>1 DEF IsValid
    <2> QED
      BY <1>5, <1>6, <2>2
  <1> QED
    BY <1>7 DEF SaturateFastOp

LEMMA CheckedMade ==
  ASSUME NEW V \in Types, NEW n \in Int, NEW valid \in BOOLEAN
  PROVE  Checked(V, V, n, valid) = Object("CheckedNumeric", V, StaticCast(V, n), valid)
  BY SelfInRange DEF Checked

LEMMA ClampedMade ==
  ASSUME NEW V \in Types, NEW n \in Int
  PROVE  Clamped(V, V, n) = Object("ClampedNumeric", V, StaticCast(V, n), TRUE)
  BY SelfInRange DEF Clamped

LEMMA CheckedConverted ==
  ASSUME NEW V \in Types, NEW S \in Types, NEW n \in Values(S), NEW valid \in BOOLEAN,
         NEW fits, fits = (valid /\ n \in Values(V))
  PROVE  Checked(V, S, n, valid) = Object("CheckedNumeric", V, StaticCast(V, n), fits)
  <1>1. (valid /\ IsValueInRangeForNumericType(V, S, n)) = fits
    BY InRangeExact
  <1> QED
    BY <1>1 DEF Checked

LEMMA ClampedConverted ==
  ASSUME NEW V \in Types, NEW S \in Types, NEW n \in Values(S)
  PROVE  /\ Clamped(V, S, n) = Object("ClampedNumeric", V, Nearest(V, n), TRUE)
         /\ Nearest(V, n) \in Values(V)
  <1>1. Nearest(V, n) \in Values(V)
    BY Limits DEF Nearest, Values
  <1> QED
    BY <1>1, SaturationExact DEF Clamped

(* An operation that is followed keeps the invariant.                      *)
LEMMA FollowKeeps ==
  ASSUME IInv, NEW V \in Types, NEW class \in Classes, NEW n \in Values(V), NEW valid \in BOOLEAN,
         number' = Object(class, V, n, valid), class = "ClampedNumeric" => valid,
         NEW S \in SUBSET Int, NEW may, Follow(S, may),
         \/ Agrees(number', S)
         \/ may = "refuse" /\ ~valid
         \/ may = "differ"
  PROVE  IInv'
  <1>1. /\ number' \in [class : Classes, type : Types, value : Int, valid : BOOLEAN]
        /\ number'.value \in Values(number'.type)
        /\ number'.class = class /\ number'.value = n /\ number'.valid = valid
    BY Limits DEF Object
  <1>2. build' = build /\ running' = running /\ astray' \in BOOLEAN
    BY DEF Follow
  <1>3. ideal' = IF astray' THEN {} ELSE S
    BY DEF Follow
  <1>4. TypeOK'
    BY <1>1, <1>2, <1>3 DEF IInv, TypeOK, Classes
  <1>5. ASSUME ~astray'
        PROVE  Agrees(number', S)
    BY <1>1, <1>5 DEF Follow, Agrees
  <1>6. Agreement'
    BY <1>1, <1>3, <1>5 DEF Agreement, Agrees
  <1> QED
    BY <1>4, <1>6 DEF IInv

(* What an operation starts from.                                          *)
LEMMA StartsRight ==
  ASSUME IInv, Followed, NEW r \in Arguments
  PROVE  /\ T0 \in Types /\ v0 \in Values(T0) /\ v0 \in Int /\ number.valid \in BOOLEAN
         /\ r.type \in Types /\ r.value \in Values(r.type) /\ r.value \in Int /\ r.valid \in BOOLEAN
         /\ ideal = IF number.valid THEN {v0} ELSE {}
         /\ Operated(r) = IF number.valid /\ r.valid THEN {v0} ELSE {}
         /\ number.class = "ClampedNumeric" => number.valid /\ r.valid
         /\ build \in Builds
  <1>1. r \in Operands /\ (number.class = "CheckedNumeric" \/ r.valid)
    BY DEF Arguments
  <1>2. r.type \in Types /\ r.value \in Values(r.type) /\ r.value \in Int /\ r.valid \in BOOLEAN
    BY <1>1, OperandsTyped, Limits
  <1>3. /\ T0 \in Types /\ v0 \in Values(T0) /\ v0 \in Int
        /\ number.class \in {"CheckedNumeric", "ClampedNumeric"} /\ number.valid \in BOOLEAN
        /\ build \in Builds
    BY DEF IInv, TypeOK, T0, v0
  <1>4. ideal = IF number.valid THEN {v0} ELSE {}
    BY DEF IInv, Agreement, Agrees, Followed, v0
  <1>5. number.class = "ClampedNumeric" => number.valid
    BY DEF IInv, Agreement
  <1>6. number.class = "ClampedNumeric" => r.valid
    BY <1>1, <1>3
  <1> QED
    BY <1>2, <1>3, <1>4, <1>5, <1>6 DEF Operated

(* What the answer of a checked operation may be when both operands are    *)
(* valid.                                                                  *)
Answers(V, do, exact, may) ==
  \/ may = "differ"
  \/ do.ok /\ Fitting(V, exact) = {StaticCast(V, do.result)}
  \/ ~do.ok /\ (may = "refuse" \/ Fitting(V, exact) = {})

LEMMA CheckedStep ==
  ASSUME IInv, NEW r \in Arguments, NEW V \in Types, NEW do, do.ok \in BOOLEAN, do.result \in Int,
         NEW exact \in SUBSET Int, NEW may, CheckedMathOp(do, r, V, exact, may),
         number.valid /\ r.valid => Answers(V, do, exact, may),
         ~(number.valid /\ r.valid) => exact = {}
  PROVE  IInv'
  <1> DEFINE valid == number.valid /\ r.valid /\ do.ok
             n == IF number.valid /\ r.valid THEN do.result ELSE 0
             S == Fitting(V, exact)
  <1>1. Followed /\ number' = CheckedResult(V, r, do) /\ Follow(S, may)
    BY DEF CheckedMathOp, IsChecked
  <1>2. number.valid \in BOOLEAN /\ r.valid \in BOOLEAN
    BY <1>1, StartsRight
  <1>3. valid \in BOOLEAN /\ n \in Int
    BY <1>2
  <1>4. number' = Checked(V, V, n, valid)
    BY <1>1 DEF CheckedResult
  <1>5. S \in SUBSET Int
    BY DEF Fitting
  <1>6. \/ S = IF valid THEN {StaticCast(V, n)} ELSE {}
        \/ may = "refuse" /\ ~valid
        \/ may = "differ"
    BY <1>2 DEF Answers, Fitting
  <1> HIDE DEF valid, n, S
  <1>7. number' = Object("CheckedNumeric", V, StaticCast(V, n), valid) /\ StaticCast(V, n) \in Values(V)
    <2>1. Checked(V, V, n, valid) = Object("CheckedNumeric", V, StaticCast(V, n), valid)
      BY <1>3, CheckedMade
    <2>2. StaticCast(V, n) \in Values(V)
      BY <1>3, Cast1
    <2> QED
      BY <1>4, <2>1, <2>2
  <1>8. number'.valid = valid /\ number'.value = StaticCast(V, n)
    BY <1>7 DEF Object
  <1>9. \/ Agrees(number', S)
        \/ may = "refuse" /\ ~valid
        \/ may = "differ"
    BY <1>6, <1>8 DEF Agrees
  <1> QED
    BY <1>1, <1>3, <1>5, <1>7, <1>9, FollowKeeps DEF Classes

LEMMA ClampedStep ==
  ASSUME IInv, NEW r \in Arguments, NEW V \in Types, NEW do \in Int,
         NEW exact \in SUBSET Int, NEW may, ClampedMathOp(do, r, V, exact, may),
         \/ may = "differ"
         \/ Clamp(V, exact) = {StaticCast(V, do)}
  PROVE  IInv'
  <1> DEFINE S == Clamp(V, exact)
  <1>1. number' = ClampedResult(V, do) /\ Follow(S, may)
    BY DEF ClampedMathOp
  <1>2. number' = Object("ClampedNumeric", V, StaticCast(V, do), TRUE) /\ StaticCast(V, do) \in Values(V)
    BY <1>1, ClampedMade, Cast1 DEF ClampedResult
  <1>3. S \in SUBSET Int
    BY Limits DEF Clamp, Nearest
  <1>4. may = "differ" \/ S = {StaticCast(V, do)}
    OBVIOUS
  <1> HIDE DEF S
  <1>5. Agrees(number', S) \/ may = "differ"
    BY <1>2, <1>4 DEF Agrees, Object
  <1> QED
    BY <1>1, <1>2, <1>3, <1>5, FollowKeeps DEF Classes

-----------------------------------------------------------------------------
(* Addition, subtraction and multiplication on every path. *)

(* An answer that is given is right, and its parts have the types they     *)
(* should have.                                                            *)
Typed(do) == do.ok \in BOOLEAN /\ do.result \in Int
Sound(V, do, n) == do.ok => n \in Values(V) /\ do.result = n

LEMMA PromotionTypes ==
  ASSUME NEW B \in Builds, NEW T \in Types, NEW U \in Types
  PROVE  /\ MaxExponentPromotion(T, U) \in {T, U}
         /\ LowestValuePromotion(T, U) \in {T, U}
         /\ \A P \in {Promotion(B, T, U), FastIntegerArithmeticPromotion(T, U),
                      BigEnoughPromotion(T, U)} :
              /\ P \in Types
              /\ ~IsContained(T, U) =>
                   P = MaxExponentPromotion(T, U) /\ ~IsIntegerArithmeticSafe(P, T, U)
  <1>1. MaxExponentPromotion(T, U) \in {T, U} /\ LowestValuePromotion(T, U) \in {T, U}
    BY HalfFacts DEF MaxExponentPromotion, LowestValuePromotion
  <1>2. CASE IsContained(T, U)
    BY <1>1, <1>2, PromotionHolds, FastContains, PromotionContains
  <1>3. CASE ~IsContained(T, U)
    <2> DEFINE P == MaxExponentPromotion(T, U)
               widest == [signed |-> T.signed \/ U.signed, bits |-> IntmaxWidth]
    <2>1. P.bits = IntmaxWidth /\ ~MaxExponentContains(T, U)
      BY <1>3 DEF IsContained
    <2>2. BigEnoughPromotion(T, U) = P
      BY <2>1 DEF BigEnoughPromotion
    <2>3. IntmaxWidth \in Nat \ {0}
      BY WidthsAssumption
    <2>4. ~IsIntegerArithmeticSafe(widest, P, P)
      BY <2>1, <2>3 DEF IsIntegerArithmeticSafe
    <2>5. FastIntegerArithmeticPromotion(T, U) = P
      BY <2>2, <2>4 DEF FastIntegerArithmeticPromotion
    <2>6. Promotion(B, T, U) = P
      BY <2>2, <2>5 DEF Promotion
    <2>7. ~IsIntegerArithmeticSafe(P, T, U)
      BY <1>1, <2>1, <2>3 DEF IsIntegerArithmeticSafe
    <2> HIDE DEF P
    <2> QED
      BY <1>1, <2>2, <2>5, <2>6, <2>7 DEF P
  <1> QED
    BY <1>2, <1>3

LEMMA NarrowedTyped ==
  ASSUME NEW V \in Types, NEW P, NEW ok, NEW presult \in Int
  PROVE  Typed(Narrowed(V, P, ok, presult))
  BY Cast1 DEF Typed, Narrowed, Outcome

LEMMA NarrowedSound ==
  ASSUME NEW V \in Types, NEW P \in Types, NEW n \in Int, NEW ok, NEW presult \in Values(P),
         ok => presult = n
  PROVE  Sound(V, Narrowed(V, P, ok, presult), n)
  <1>1. IsValueInRangeForNumericType(V, P, presult) <=> presult \in Values(V)
    BY InRangeExact
  <1>2. presult \in Values(V) => StaticCast(V, presult) = presult
    BY Limits, Cast1
  <1> QED
    BY <1>1, <1>2 DEF Sound, Narrowed, Outcome

LEMMA SumsAnswered ==
  ASSUME NEW B \in Builds, NEW T \in Types, NEW U \in Types, NEW V \in {T, U},
         NEW x \in Values(T), NEW y \in Values(U)
  PROVE  LET add == CheckedAddOp(B, T, U, V, x, y)
             sub == CheckedSubOp(B, T, U, V, x, y)
             partial == ~IsContained(T, U) /\ B.compiler = "other"
         IN  /\ Typed(add) /\ Sound(V, add, x + y)
             /\ Typed(sub) /\ Sound(V, sub, x - y)
             /\ ~partial => Exactly(V, add, x + y) /\ Exactly(V, sub, x - y)
  <1> DEFINE add == CheckedAddOp(B, T, U, V, x, y)
             sub == CheckedSubOp(B, T, U, V, x, y)
             sum == x + y
             difference == x - y
  <1>1. x \in Int /\ y \in Int /\ sum \in Int /\ difference \in Int /\ V \in Types
    BY Limits
  <1>2. CASE B.compiler # "other"
    <2>1. add = Builtin(V, sum) /\ sub = Builtin(V, difference)
      BY <1>2 DEF CheckedAddOp, CheckedSubOp
    <2> HIDE DEF add, sub, sum, difference
    <2>2. Exactly(V, add, sum) /\ Exactly(V, sub, difference)
      BY <1>1, <2>1, BuiltinExact
    <2>3. Typed(add) /\ Typed(sub)
      BY <1>1, <2>1, Cast1 DEF Typed, Builtin, Outcome
    <2> QED
      BY <2>2, <2>3 DEF Exactly, Sound, add, sub, sum, difference
  <1>3. CASE B.compiler = "other"
    <2> DEFINE P == Promotion(B, T, U)
               px == StaticCast(P, x)
               py == StaticCast(P, y)
               plus == px + py
               minus == px - py
               addImpl == CheckedAddImpl(P, px, py)
               subImpl == CheckedSubImpl(P, px, py)
               psum == IF IsIntegerArithmeticSafe(P, T, U) THEN Outcome(TRUE, StaticCast(P, plus)) ELSE addImpl
               pdifference == IF IsIntegerArithmeticSafe(P, T, U) THEN Outcome(TRUE, StaticCast(P, minus)) ELSE subImpl
    <2>1. P \in Types /\ px \in Values(P) /\ py \in Values(P) /\ px \in Int /\ py \in Int
      BY <1>1, PromotionTypes, Cast1
    <2>2. plus \in Int /\ minus \in Int
      BY <2>1
    <2>3. /\ add = IF BothInRange(P, T, U, x, y)
                   THEN Narrowed(V, P, psum.ok, psum.result) ELSE Refused
          /\ sub = IF BothInRange(P, T, U, x, y)
                   THEN Narrowed(V, P, pdifference.ok, pdifference.result) ELSE Refused
      BY <1>3 DEF CheckedAddOp, CheckedSubOp, Portable
    <2>4. addImpl.result \in Values(P) /\ subImpl.result \in Values(P)
      BY <2>1, ImplTypes
    <2>5. psum.result \in Values(P) /\ pdifference.result \in Values(P)
      <3>1. StaticCast(P, plus) \in Values(P) /\ StaticCast(P, minus) \in Values(P)
        BY <2>1, <2>2, Cast1
      <3> HIDE DEF plus, minus, addImpl, subImpl
      <3> QED
        BY <2>4, <3>1 DEF Outcome
    <2>6. Typed(add) /\ Typed(sub)
      <3>1. psum.result \in Int /\ pdifference.result \in Int
        BY <2>1, <2>5, Limits
      <3>2. Typed(Refused)
        BY DEF Typed, Refused, Outcome
      <3> HIDE DEF psum, pdifference, add, sub
      <3>3. /\ Typed(Narrowed(V, P, psum.ok, psum.result))
            /\ Typed(Narrowed(V, P, pdifference.ok, pdifference.result))
        BY <1>1, <3>1, NarrowedTyped
      <3> QED
        BY <2>3, <3>2, <3>3
    <2>7. CASE IsContained(T, U)
      <3>1. Exactly(V, add, sum) /\ Exactly(V, sub, difference)
        BY <2>7, BuildsAgree
      <3> QED
        BY <2>6, <3>1 DEF Exactly, Sound
    <2>8. CASE ~IsContained(T, U)
      <3>1. psum = addImpl /\ pdifference = subImpl
        BY <2>8, PromotionTypes
      <3>2. CASE ~BothInRange(P, T, U, x, y)
        <4> HIDE DEF sum, difference
        <4> QED
          BY <2>3, <2>6, <2>8, <1>3, <3>2 DEF Refused, Outcome, Sound, sum, difference
      <3>3. CASE BothInRange(P, T, U, x, y)
        <4>1. x \in Values(P) /\ y \in Values(P)
          BY <2>1, <3>3, InRangeExact DEF BothInRange
        <4>2. px = x /\ py = y
          BY <1>1, <2>1, <4>1, Cast1
        <4>3. /\ addImpl.ok => addImpl.result = sum
              /\ subImpl.ok => subImpl.result = difference
          BY <2>1, <4>1, <4>2, AddImplExact, SubImplExact
        <4>4. /\ add = Narrowed(V, P, addImpl.ok, addImpl.result)
              /\ sub = Narrowed(V, P, subImpl.ok, subImpl.result)
          BY <2>3, <3>1, <3>3
        <4> HIDE DEF sum, difference, addImpl, subImpl, P, add, sub
        <4>5. Sound(V, add, sum) /\ Sound(V, sub, difference)
          BY <1>1, <2>1, <2>4, <4>3, <4>4, NarrowedSound
        <4> QED
          BY <1>3, <2>6, <2>8, <4>5 DEF sum, difference, add, sub
      <3> QED
        BY <3>2, <3>3
    <2> QED
      BY <2>7, <2>8
  <1> QED
    BY <1>2, <1>3

LEMMA ProductsAnswered ==
  ASSUME NEW B \in Builds, NEW T \in Types, NEW U \in Types, NEW V \in {T, U},
         NEW x \in Values(T), NEW y \in Values(U)
  PROVE  LET mul == CheckedMulOp(B, T, U, V, x, y)
             partial == ~IsContained(T, U) /\ ~MulFastOpSupported(B, T, U)
         IN  /\ Typed(mul) /\ Sound(V, mul, x * y)
             /\ ~partial => Exactly(V, mul, x * y)
  <1> DEFINE mul == CheckedMulOp(B, T, U, V, x, y)
             product == x * y
  <1>1. x \in Int /\ y \in Int /\ product \in Int /\ V \in Types
    BY Limits
  <1>2. CASE MulFastOpSupported(B, T, U)
    <2>1. mul = Builtin(V, product)
      BY <1>2 DEF CheckedMulOp
    <2> HIDE DEF mul, product
    <2>2. Exactly(V, mul, product)
      BY <1>1, <2>1, BuiltinExact
    <2>3. Typed(mul)
      BY <1>1, <2>1, Cast1 DEF Typed, Builtin, Outcome
    <2> QED
      BY <2>2, <2>3 DEF Exactly, Sound, mul, product
  <1>3. CASE ~MulFastOpSupported(B, T, U)
    <2> DEFINE P == FastIntegerArithmeticPromotion(T, U)
               px == StaticCast(P, x)
               py == StaticCast(P, y)
               times == px * py
               impl == CheckedMulImpl(P, px, py)
               presult == IF MulFastOpSupported(B, P, P) THEN Builtin(P, product)
                          ELSE IF IsIntegerArithmeticSafe(P, T, U) THEN Outcome(TRUE, StaticCast(P, times))
                          ELSE impl
               taken == BothInRange(P, T, U, x, y) \/ x = 0 \/ y = 0
    <2>1. P \in Types /\ px \in Values(P) /\ py \in Values(P) /\ px \in Int /\ py \in Int
      BY <1>1, PromotionTypes, Cast1
    <2>2. times \in Int
      BY <2>1
    <2>3. mul = IF taken THEN Narrowed(V, P, presult.ok, presult.result) ELSE Refused
      BY <1>3 DEF CheckedMulOp
    <2>4. presult.result \in Values(P)
      <3>1. impl.result \in Values(P)
        BY <2>1, ImplTypes
      <3>2. StaticCast(P, times) \in Values(P) /\ StaticCast(P, product) \in Values(P)
        BY <1>1, <2>1, <2>2, Cast1
      <3> HIDE DEF times, product, impl
      <3> QED
        BY <3>1, <3>2 DEF Outcome, Builtin
    <2>5. Typed(mul)
      <3>1. presult.result \in Int
        BY <2>1, <2>4, Limits
      <3>2. Typed(Refused)
        BY DEF Typed, Refused, Outcome
      <3> HIDE DEF presult, mul
      <3>3. Typed(Narrowed(V, P, presult.ok, presult.result))
        BY <1>1, <3>1, NarrowedTyped
      <3> QED
        BY <2>3, <3>2, <3>3
    <2>6. CASE IsContained(T, U)
      <3>1. Exactly(V, mul, product)
        BY <2>6, BuildsAgree
      <3> QED
        BY <2>5, <3>1 DEF Exactly, Sound
    <2>7. CASE ~IsContained(T, U)
      <3>1. presult = IF MulFastOpSupported(B, P, P) THEN Builtin(P, product) ELSE impl
        BY <2>7, PromotionTypes
      <3>2. CASE ~taken
        <4> HIDE DEF product, taken
        <4> QED
          BY <2>3, <2>5, <2>7, <1>3, <3>2 DEF Refused, Outcome, Sound, product
      <3>3. CASE taken
        <4>1. impl.ok => impl.result = times
          BY <2>1, MulImplExact
        <4>2. times = product
          <5>1. CASE x = 0 \/ y = 0
            <6>1. 0 \in Values(P)
              BY <2>1, Limits DEF Values
            <6>2. StaticCast(P, 0) = 0
              BY <2>1, <6>1, Cast1
            <6>3. product = 0 /\ (px = 0 \/ py = 0)
              BY <1>1, <5>1, <6>2
            <6> HIDE DEF px, py
            <6> QED
              BY <2>1, <6>3
          <5>2. CASE BothInRange(P, T, U, x, y)
            <6>1. x \in Values(P) /\ y \in Values(P)
              BY <2>1, <5>2, InRangeExact DEF BothInRange
            <6>2. px = x /\ py = y
              BY <1>1, <2>1, <6>1, Cast1
            <6> QED
              BY <6>2
          <5> QED
            BY <3>3, <5>1, <5>2
        <4>3. Builtin(P, product).ok => Builtin(P, product).result = product
          BY <1>1, <2>1, BuiltinExact DEF Exactly
        <4> HIDE DEF product, impl, times
        <4>4. presult.ok => presult.result = product
          BY <3>1, <4>1, <4>2, <4>3
        <4>5. mul = Narrowed(V, P, presult.ok, presult.result)
          BY <2>3, <3>3
        <4> HIDE DEF P, presult, mul
        <4>6. Sound(V, mul, product)
          BY <1>1, <2>1, <2>4, <4>4, <4>5, NarrowedSound
        <4> QED
          BY <1>3, <2>5, <2>7, <4>6 DEF product, mul
      <3> QED
        BY <3>2, <3>3
    <2> QED
      BY <2>6, <2>7
  <1> QED
    BY <1>2, <1>3

-----------------------------------------------------------------------------
(* From an exact answer to the object. *)

LEMMA ExactAnswers ==
  ASSUME NEW V \in Types, NEW n \in Int, NEW do, do.ok \in BOOLEAN, Sound(V, do, n),
         NEW may, may = "refuse" \/ Exactly(V, do, n)
  PROVE  Answers(V, do, {n}, may)
  <1>1. CASE do.ok
    <2>1. n \in Values(V) /\ do.result = n /\ StaticCast(V, n) = n
      BY <1>1, Cast1 DEF Sound
    <2> QED
      BY <1>1, <2>1 DEF Answers, Fitting
  <1>2. CASE ~do.ok
    BY <1>2 DEF Answers, Fitting, Exactly
  <1> QED
    BY <1>1, <1>2

LEMMA LimitIs ==
  ASSUME NEW V \in Types, NEW isMin \in BOOLEAN
  PROVE  /\ Limit(V, isMin) = IF isMin THEN lowest(V) ELSE max(V)
         /\ Limit(V, isMin) \in Int /\ Limit(V, isMin) \in Values(V)
  BY CommonLimits, Limits DEF Limit, CommonMaxOrMin, Values

(* The nearest value is the result, or the limit on its side.              *)
LEMMA NearestAnswered ==
  ASSUME NEW V \in Types, NEW n \in Int, NEW do, Typed(do), Exactly(V, do, n), NEW isMin \in BOOLEAN,
         n < lowest(V) => isMin, n > max(V) => ~isMin
  PROVE  Nearest(V, n) = StaticCast(V, Otherwise(do, Limit(V, isMin)))
  <1>2. lowest(V) \in Int /\ max(V) \in Int /\ lowest(V) <= max(V)
    BY Limits
  <1>3. CASE n \in Values(V)
    <2>1. Otherwise(do, Limit(V, isMin)) = n /\ StaticCast(V, n) = n
      BY <1>3, Cast1 DEF Otherwise, Exactly, Typed
    <2> QED
      BY <1>2, <1>3, <2>1 DEF Nearest, Values
  <1>4. CASE n \notin Values(V)
    <2>1. Otherwise(do, Limit(V, isMin)) = Limit(V, isMin)
      BY <1>4 DEF Otherwise, Exactly, Typed
    <2>2. StaticCast(V, Limit(V, isMin)) = Limit(V, isMin)
      BY LimitIs, Cast1
    <2>3. n < lowest(V) \/ n > max(V)
      BY <1>2, <1>4 DEF Values
    <2>4. Limit(V, isMin) = Nearest(V, n)
      BY <1>2, <2>3, LimitIs DEF Nearest
    <2> QED
      BY <2>1, <2>2, <2>4
  <1> QED
    BY <1>3, <1>4

LEMMA OtherwiseInt ==
  ASSUME NEW do, Typed(do), NEW saturated \in Int
  PROVE  Otherwise(do, saturated) \in Int
  BY DEF Otherwise, Typed

-----------------------------------------------------------------------------
(* The wider of two types. *)

LEMMA PowersGrow ==
  ASSUME NEW a \in 0 .. IntmaxWidth, NEW b \in 0 .. IntmaxWidth, a <= b
  PROVE  2 ^ a \in Nat \ {0} /\ 2 ^ b \in Nat \ {0} /\ 2 ^ a <= 2 ^ b
  <1> DEFINE c == b - a
             p == 2 ^ a
             q == 2 ^ c
  <1>1. /\ IntmaxWidth \in Nat /\ a \in Nat /\ c \in Nat /\ c \in 0 .. IntmaxWidth
        /\ a + c = b /\ a + c <= IntmaxWidth
    BY WidthsAssumption
  <1>2. p \in Nat \ {0} /\ q \in Nat \ {0} /\ 2 ^ b \in Nat \ {0}
    BY <1>1, PowerPositive
  <1>3. 2 ^ (a + c) = p * q
    BY <1>1, PowerOfSum
  <1>4. \A i \in Nat, j \in Nat \ {0} : i <= i * j
    BY SMTT(20)
  <1>5. 2 ^ (a + c) = 2 ^ b
    BY <1>1
  <1> HIDE DEF p, q, c
  <1>6. p <= 2 ^ b
    BY <1>2, <1>3, <1>4, <1>5
  <1> QED
    BY <1>2, <1>6 DEF p

LEMMA WidthsBounded ==
  ASSUME NEW T \in Types
  PROVE  /\ T.bits \in Nat /\ 2 <= T.bits /\ T.bits <= IntmaxWidth /\ IntmaxWidth \in Nat
         /\ digits(T) \in 1 .. IntmaxWidth
         /\ T.bits \in 0 .. IntmaxWidth /\ T.bits - 1 \in 0 .. IntmaxWidth - 1
  <1>1. Widths \subseteq Nat \ {0, 1} /\ IntmaxWidth \in Widths /\ T.bits \in Widths
    BY WidthsAssumption DEF Types
  <1>2. T.bits = IntmaxWidth \/ 2 * T.bits <= IntmaxWidth
    BY <1>1, WidthsAssumption
  <1>3. T.bits \in Nat /\ T.bits # 0 /\ T.bits # 1 /\ IntmaxWidth \in Nat
    BY <1>1
  <1>4. 2 <= T.bits /\ T.bits <= IntmaxWidth
    BY <1>2, <1>3
  <1> QED
    BY <1>3, <1>4 DEF digits

LEMMA MaxIsPower ==
  ASSUME NEW T \in Types
  PROVE  /\ max(T) = 2 ^ digits(T) - 1
         /\ lowest(T) = IF T.signed THEN -(2 ^ digits(T)) ELSE 0
         /\ 2 ^ T.bits = 2 * Half(T)
         /\ 2 ^ digits(T) \in Nat \ {0}
  <1>1. 2 ^ ((T.bits - 1) + 1) = 2 * 2 ^ (T.bits - 1)
    BY WidthsBounded, PowersAssumption
  <1>2. (T.bits - 1) + 1 = T.bits
    BY WidthsBounded
  <1>3. 2 ^ T.bits = 2 * Half(T)
    BY <1>1, <1>2 DEF Half
  <1>4. 2 ^ digits(T) = IF T.signed THEN Half(T) ELSE 2 * Half(T)
    BY <1>3 DEF digits, Half
  <1> QED
    BY <1>3, <1>4, HalfFacts DEF max, lowest

LEMMA WiderLimits ==
  ASSUME NEW T \in Types, NEW U \in Types
  PROVE  LET P == MaxExponentPromotion(T, U)
         IN  /\ P \in {T, U}
             /\ \A S \in {T, U} : max(S) <= max(P) /\ (P.signed => lowest(P) <= lowest(S))
  <1> DEFINE P == MaxExponentPromotion(T, U)
  <1>1. P \in {T, U} /\ digits(T) <= digits(P) /\ digits(U) <= digits(P)
    BY WidthsBounded DEF MaxExponentPromotion, MaxExponent
  <1> HIDE DEF P
  <1>2. ASSUME NEW S \in {T, U}
        PROVE  max(S) <= max(P) /\ (P.signed => lowest(P) <= lowest(S))
    <2>1. /\ digits(S) \in 0 .. IntmaxWidth /\ digits(P) \in 0 .. IntmaxWidth
          /\ digits(S) <= digits(P)
      BY <1>1, WidthsBounded
    <2>2. /\ 2 ^ digits(S) \in Nat /\ 2 ^ digits(P) \in Nat
          /\ 2 ^ digits(S) <= 2 ^ digits(P)
      BY <2>1, PowersGrow
    <2> QED
      BY <1>1, <2>2, MaxIsPower
  <1> QED
    BY <1>1, <1>2 DEF P

-----------------------------------------------------------------------------
(* Addition, subtraction and multiplication of the objects. *)

(* On which side of V the result is that V has not.                        *)
LEMMA SumSides ==
  ASSUME NEW T \in Types, NEW U \in Types, NEW V \in {T, MaxExponentPromotion(T, U)},
         NEW x \in Values(T), NEW y \in Values(U)
  PROVE  /\ x + y > max(V) => ~(y < 0)
         /\ x + y < lowest(V) /\ ~(~V.signed /\ x < 0) => y < 0
         /\ x - y > max(V) => y < 0
         /\ x - y < lowest(V) => ~(y < 0)
  <1>1. /\ x \in Int /\ lowest(T) <= x /\ x <= max(T) /\ y \in Int /\ lowest(U) <= y /\ y <= max(U)
        /\ lowest(T) \in Int /\ max(T) \in Int /\ lowest(U) \in Int /\ max(U) \in Int
        /\ lowest(V) \in Int /\ max(V) \in Int /\ V \in Types /\ V \in {T, U}
    BY Limits, WiderLimits DEF Values
  <1>2. CASE V = T
    BY <1>1, <1>2
  <1>3. CASE V # T
    <2>1. V = U /\ V = MaxExponentPromotion(T, U)
      BY <1>1, <1>3
    <2>2. max(T) <= max(V) /\ (V.signed => lowest(V) <= lowest(T))
      BY <2>1, WiderLimits
    <2>3. lowest(V) <= y /\ y <= max(V)
      BY <1>1, <2>1
    <2>4. CASE V.signed
      BY <1>1, <2>2, <2>3, <2>4
    <2>5. CASE ~V.signed
      <3>1. lowest(V) = 0
        BY <2>5 DEF lowest
      <3> QED
        BY <1>1, <2>2, <2>3, <2>5, <3>1
    <2> QED
      BY <2>4, <2>5
  <1> QED
    BY <1>2, <1>3

LEMMA SumsSaturated ==
  ASSUME NEW B \in Builds, NEW T \in Types, NEW U \in Types,
         NEW V \in {T, MaxExponentPromotion(T, U)}, NEW x \in Values(T), NEW y \in Values(U),
         NEW sum, sum = x + y, NEW difference, difference = x - y
  PROVE  LET add == ClampedAddOp(B, T, U, V, x, y)
             sub == ClampedSubOp(B, T, U, V, x, y)
             partial == ~IsContained(T, U) /\ B.compiler = "other"
             wrongLimit == ~V.signed /\ x < 0
         IN  /\ add \in Int /\ sub \in Int
             /\ ~(partial \/ wrongLimit) => Nearest(V, sum) = StaticCast(V, add)
             /\ ~partial => Nearest(V, difference) = StaticCast(V, sub)
  <1> DEFINE add == CheckedAddOp(B, T, U, V, x, y)
             sub == CheckedSubOp(B, T, U, V, x, y)
             partial == ~IsContained(T, U) /\ B.compiler = "other"
             isMin == y < 0
  <1>1. /\ V \in {T, U} /\ V \in Types /\ isMin \in BOOLEAN /\ (~isMin) \in BOOLEAN
        /\ sum \in Int /\ difference \in Int
    BY WiderLimits, Limits
  <1>2. Typed(add) /\ Typed(sub) /\ (~partial => Exactly(V, add, sum) /\ Exactly(V, sub, difference))
    BY <1>1, SumsAnswered
  <1>3. /\ sum > max(V) => ~isMin
        /\ sum < lowest(V) /\ ~(~V.signed /\ x < 0) => isMin
        /\ difference > max(V) => isMin
        /\ difference < lowest(V) => ~isMin
    BY SumSides
  <1>4. /\ ClampedAddOp(B, T, U, V, x, y) = Otherwise(add, Limit(V, isMin))
        /\ ClampedSubOp(B, T, U, V, x, y) = Otherwise(sub, Limit(V, ~isMin))
    BY DEF ClampedAddOp, ClampedSubOp, IsValueNegative
  <1> HIDE DEF add, sub, isMin, partial
  <1>5. Otherwise(add, Limit(V, isMin)) \in Int /\ Otherwise(sub, Limit(V, ~isMin)) \in Int
    BY <1>1, <1>2, LimitIs, OtherwiseInt
  <1>6. ASSUME ~partial, ~(~V.signed /\ x < 0)
        PROVE  Nearest(V, sum) = StaticCast(V, Otherwise(add, Limit(V, isMin)))
    BY <1>1, <1>2, <1>3, <1>6, NearestAnswered
  <1>7. ASSUME ~partial
        PROVE  Nearest(V, difference) = StaticCast(V, Otherwise(sub, Limit(V, ~isMin)))
    BY <1>1, <1>2, <1>3, <1>7, NearestAnswered
  <1> QED
    BY <1>4, <1>5, <1>6, <1>7 DEF partial

LEMMA ProductsSaturated ==
  ASSUME NEW B \in Builds, NEW T \in Types, NEW U \in Types,
         NEW V \in {T, MaxExponentPromotion(T, U)}, NEW x \in Values(T), NEW y \in Values(U),
         NEW product, product = x * y
  PROVE  LET mul == ClampedMulOp(B, T, U, V, x, y)
             partial == ~IsContained(T, U) /\ ~MulFastOpSupported(B, T, U)
         IN  /\ mul \in Int
             /\ ~partial => Nearest(V, product) = StaticCast(V, mul)
  <1> DEFINE mul == CheckedMulOp(B, T, U, V, x, y)
             partial == ~IsContained(T, U) /\ ~MulFastOpSupported(B, T, U)
             isMin == (x < 0) # (y < 0)
  <1>1. /\ V \in {T, U} /\ V \in Types /\ isMin \in BOOLEAN /\ x \in Int /\ y \in Int
        /\ product \in Int /\ lowest(V) \in Int /\ max(V) \in Int /\ lowest(V) <= 0 /\ 0 <= max(V)
    BY WiderLimits, Limits
  <1>2. Typed(mul) /\ (~partial => Exactly(V, mul, product))
    BY <1>1, ProductsAnswered
  <1>3. \A a, b \in Int : /\ a * b < 0 => (a < 0) # (b < 0)
                          /\ a * b > 0 => (a < 0) = (b < 0)
    BY SMTT(30)
  <1>4. (product < 0 => isMin) /\ (product > 0 => ~isMin)
    BY <1>1, <1>3
  <1>5. ClampedMulOp(B, T, U, V, x, y) = Otherwise(mul, Limit(V, isMin))
    BY DEF ClampedMulOp, IsValueNegative
  <1> HIDE DEF mul, partial, isMin
  <1>6. (product < lowest(V) => isMin) /\ (product > max(V) => ~isMin)
    BY <1>1, <1>4
  <1>7. Otherwise(mul, Limit(V, isMin)) \in Int
    BY <1>1, <1>2, LimitIs, OtherwiseInt
  <1>8. ASSUME ~partial
        PROVE  Nearest(V, product) = StaticCast(V, Otherwise(mul, Limit(V, isMin)))
    BY <1>1, <1>2, <1>6, <1>8, NearestAnswered
  <1> QED
    BY <1>5, <1>7, <1>8 DEF partial

LEMMA CheckedExactStep ==
  ASSUME IInv, NEW r \in Arguments, NEW V \in Types, NEW n \in Int, NEW do, Typed(do), Sound(V, do, n),
         NEW exact, exact = IF number.valid /\ r.valid THEN {n} ELSE {},
         NEW may, may = "refuse" \/ Exactly(V, do, n),
         CheckedMathOp(do, r, V, exact, may)
  PROVE  IInv'
  <1>1. do.ok \in BOOLEAN /\ do.result \in Int
    BY DEF Typed
  <1>2. Answers(V, do, {n}, may)
    BY <1>1, ExactAnswers
  <1>3. exact \in SUBSET Int
    OBVIOUS
  <1> QED
    BY <1>1, <1>2, <1>3, CheckedStep

LEMMA ClampedExactStep ==
  ASSUME IInv, NEW r \in Arguments, NEW V \in Types, NEW n \in Int, NEW do \in Int,
         NEW may, ClampedMathOp(do, r, V, {n}, may),
         may = "differ" \/ Nearest(V, n) = StaticCast(V, do)
  PROVE  IInv'
  <1>1. Clamp(V, {n}) = {Nearest(V, n)}
    BY DEF Clamp
  <1> QED
    BY <1>1, ClampedStep

LEMMA AddKeeps ==
  ASSUME IInv, Add
  PROVE  IInv'
  <1>1. SUFFICES
          ASSUME NEW r \in Arguments, NEW V \in ResultTypes(MaxExponentPromotion(T0, r.type)),
                 LET sum == {a + r.value : a \in Operated(r)}
                     partial == NoPromotion(r) /\ build.compiler = "other"
                     wrongLimit == ~V.signed /\ v0 < 0
                     checked == CheckedAddOp(build, T0, r.type, V, v0, r.value)
                     clamped == ClampedAddOp(build, T0, r.type, V, v0, r.value)
                 IN  \/ CheckedMathOp(checked, r, V, sum, MayIf(partial, "refuse"))
                     \/ ClampedMathOp(clamped, r, V, sum, MayIf(partial \/ wrongLimit, "differ"))
          PROVE  IInv'
    BY DEF Add
  <1> DEFINE exact == {a + r.value : a \in Operated(r)}
             n == v0 + r.value
             partial == NoPromotion(r) /\ build.compiler = "other"
             wrongLimit == ~V.signed /\ v0 < 0
             checked == CheckedAddOp(build, T0, r.type, V, v0, r.value)
             clamped == ClampedAddOp(build, T0, r.type, V, v0, r.value)
  <1>2. IsChecked \/ IsClamped
    BY <1>1 DEF CheckedMathOp, ClampedMathOp
  <1>3. Followed
    BY <1>2 DEF IsChecked, IsClamped
  <1>4. /\ T0 \in Types /\ v0 \in Values(T0) /\ v0 \in Int /\ build \in Builds
        /\ r.type \in Types /\ r.value \in Values(r.type) /\ r.value \in Int
        /\ Operated(r) = IF number.valid /\ r.valid THEN {v0} ELSE {}
        /\ number.class = "ClampedNumeric" => number.valid /\ r.valid
    BY <1>3, StartsRight
  <1>5. V \in {T0, MaxExponentPromotion(T0, r.type)} /\ V \in {T0, r.type} /\ V \in Types
    BY <1>4, WiderLimits DEF ResultTypes
  <1>6. n \in Int /\ exact = IF number.valid /\ r.valid THEN {n} ELSE {}
    BY <1>4
  <1>7. /\ Typed(checked) /\ Sound(V, checked, n)
        /\ ~partial => Exactly(V, checked, n)
    BY <1>4, <1>5, SumsAnswered DEF NoPromotion
  <1>8. /\ clamped \in Int
        /\ ~(partial \/ wrongLimit) => Nearest(V, n) = StaticCast(V, clamped)
    <2>1. n = v0 + r.value
      OBVIOUS
    <2> HIDE DEF n
    <2> QED
      BY <1>4, <1>5, <2>1, SumsSaturated DEF NoPromotion
  <1>9. MayIf(partial, "refuse") = "refuse" \/ ~partial
    BY DEF MayIf
  <1>10. MayIf(partial \/ wrongLimit, "differ") = "differ" \/ ~(partial \/ wrongLimit)
    BY DEF MayIf
  <1>11. CASE CheckedMathOp(checked, r, V, exact, MayIf(partial, "refuse"))
    <2> HIDE DEF exact, n, partial, wrongLimit, checked, clamped
    <2> QED
      BY <1>5, <1>6, <1>7, <1>9, <1>11, CheckedExactStep
  <1>12. CASE ClampedMathOp(clamped, r, V, exact, MayIf(partial \/ wrongLimit, "differ"))
    <2> HIDE DEF exact, n, partial, wrongLimit, checked, clamped
    <2>1. exact = {n}
      BY <1>4, <1>6, <1>12 DEF ClampedMathOp, IsClamped
    <2> QED
      BY <1>5, <1>6, <1>8, <1>10, <1>12, <2>1, ClampedExactStep
  <1> QED
    BY <1>1, <1>11, <1>12

LEMMA SubKeeps ==
  ASSUME IInv, Sub
  PROVE  IInv'
  <1>1. SUFFICES
          ASSUME NEW r \in Arguments, NEW V \in ResultTypes(MaxExponentPromotion(T0, r.type)),
                 LET difference == {a - r.value : a \in Operated(r)}
                     partial == NoPromotion(r) /\ build.compiler = "other"
                     checked == CheckedSubOp(build, T0, r.type, V, v0, r.value)
                     clamped == ClampedSubOp(build, T0, r.type, V, v0, r.value)
                 IN  \/ CheckedMathOp(checked, r, V, difference, MayIf(partial, "refuse"))
                     \/ ClampedMathOp(clamped, r, V, difference, MayIf(partial, "differ"))
          PROVE  IInv'
    BY DEF Sub
  <1> DEFINE exact == {a - r.value : a \in Operated(r)}
             n == v0 - r.value
             partial == NoPromotion(r) /\ build.compiler = "other"
             checked == CheckedSubOp(build, T0, r.type, V, v0, r.value)
             clamped == ClampedSubOp(build, T0, r.type, V, v0, r.value)
  <1>2. IsChecked \/ IsClamped
    BY <1>1 DEF CheckedMathOp, ClampedMathOp
  <1>3. Followed
    BY <1>2 DEF IsChecked, IsClamped
  <1>4. /\ T0 \in Types /\ v0 \in Values(T0) /\ v0 \in Int /\ build \in Builds
        /\ r.type \in Types /\ r.value \in Values(r.type) /\ r.value \in Int
        /\ Operated(r) = IF number.valid /\ r.valid THEN {v0} ELSE {}
        /\ number.class = "ClampedNumeric" => number.valid /\ r.valid
    BY <1>3, StartsRight
  <1>5. V \in {T0, MaxExponentPromotion(T0, r.type)} /\ V \in {T0, r.type} /\ V \in Types
    BY <1>4, WiderLimits DEF ResultTypes
  <1>6. n \in Int /\ exact = IF number.valid /\ r.valid THEN {n} ELSE {}
    BY <1>4
  <1>7. /\ Typed(checked) /\ Sound(V, checked, n)
        /\ ~partial => Exactly(V, checked, n)
    BY <1>4, <1>5, SumsAnswered DEF NoPromotion
  <1>8. /\ clamped \in Int
        /\ ~partial => Nearest(V, n) = StaticCast(V, clamped)
    <2>1. n = v0 - r.value
      OBVIOUS
    <2> HIDE DEF n
    <2> QED
      BY <1>4, <1>5, <2>1, SumsSaturated DEF NoPromotion
  <1>9. MayIf(partial, "refuse") = "refuse" \/ ~partial
    BY DEF MayIf
  <1>10. MayIf(partial, "differ") = "differ" \/ ~partial
    BY DEF MayIf
  <1>11. CASE CheckedMathOp(checked, r, V, exact, MayIf(partial, "refuse"))
    <2> HIDE DEF exact, n, partial, checked, clamped
    <2> QED
      BY <1>5, <1>6, <1>7, <1>9, <1>11, CheckedExactStep
  <1>12. CASE ClampedMathOp(clamped, r, V, exact, MayIf(partial, "differ"))
    <2> HIDE DEF exact, n, partial, checked, clamped
    <2>1. exact = {n}
      BY <1>4, <1>6, <1>12 DEF ClampedMathOp, IsClamped
    <2> QED
      BY <1>5, <1>6, <1>8, <1>10, <1>12, <2>1, ClampedExactStep
  <1> QED
    BY <1>1, <1>11, <1>12

LEMMA MulKeeps ==
  ASSUME IInv, Mul
  PROVE  IInv'
  <1>1. SUFFICES
          ASSUME NEW r \in Arguments, NEW V \in ResultTypes(MaxExponentPromotion(T0, r.type)),
                 LET product == {a * r.value : a \in Operated(r)}
                     partial == NoPromotion(r) /\ ~MulFastOpSupported(build, T0, r.type)
                     checked == CheckedMulOp(build, T0, r.type, V, v0, r.value)
                     clamped == ClampedMulOp(build, T0, r.type, V, v0, r.value)
                 IN  \/ CheckedMathOp(checked, r, V, product, MayIf(partial, "refuse"))
                     \/ ClampedMathOp(clamped, r, V, product, MayIf(partial, "differ"))
          PROVE  IInv'
    BY DEF Mul
  <1> DEFINE exact == {a * r.value : a \in Operated(r)}
             n == v0 * r.value
             partial == NoPromotion(r) /\ ~MulFastOpSupported(build, T0, r.type)
             checked == CheckedMulOp(build, T0, r.type, V, v0, r.value)
             clamped == ClampedMulOp(build, T0, r.type, V, v0, r.value)
  <1>2. IsChecked \/ IsClamped
    BY <1>1 DEF CheckedMathOp, ClampedMathOp
  <1>3. Followed
    BY <1>2 DEF IsChecked, IsClamped
  <1>4. /\ T0 \in Types /\ v0 \in Values(T0) /\ v0 \in Int /\ build \in Builds
        /\ r.type \in Types /\ r.value \in Values(r.type) /\ r.value \in Int
        /\ Operated(r) = IF number.valid /\ r.valid THEN {v0} ELSE {}
        /\ number.class = "ClampedNumeric" => number.valid /\ r.valid
    BY <1>3, StartsRight
  <1>5. V \in {T0, MaxExponentPromotion(T0, r.type)} /\ V \in {T0, r.type} /\ V \in Types
    BY <1>4, WiderLimits DEF ResultTypes
  <1>6. n \in Int /\ exact = IF number.valid /\ r.valid THEN {n} ELSE {}
    BY <1>4
  <1>7. /\ Typed(checked) /\ Sound(V, checked, n)
        /\ ~partial => Exactly(V, checked, n)
    BY <1>4, <1>5, ProductsAnswered DEF NoPromotion
  <1>8. /\ clamped \in Int
        /\ ~partial => Nearest(V, n) = StaticCast(V, clamped)
    <2>1. n = v0 * r.value
      OBVIOUS
    <2> HIDE DEF n
    <2> QED
      BY <1>4, <1>5, <2>1, ProductsSaturated DEF NoPromotion
  <1>9. MayIf(partial, "refuse") = "refuse" \/ ~partial
    BY DEF MayIf
  <1>10. MayIf(partial, "differ") = "differ" \/ ~partial
    BY DEF MayIf
  <1>11. CASE CheckedMathOp(checked, r, V, exact, MayIf(partial, "refuse"))
    <2> HIDE DEF exact, n, partial, checked, clamped
    <2> QED
      BY <1>5, <1>6, <1>7, <1>9, <1>11, CheckedExactStep
  <1>12. CASE ClampedMathOp(clamped, r, V, exact, MayIf(partial, "differ"))
    <2> HIDE DEF exact, n, partial, checked, clamped
    <2>1. exact = {n}
      BY <1>4, <1>6, <1>12 DEF ClampedMathOp, IsClamped
    <2> QED
      BY <1>5, <1>6, <1>8, <1>10, <1>12, <2>1, ClampedExactStep
  <1> QED
    BY <1>1, <1>11, <1>12

-----------------------------------------------------------------------------
(* Division. *)

LEMMA NatQuotient ==
  ASSUME NEW a \in Nat, NEW c \in Nat \ {0}
  PROVE  /\ a \div c \in Nat /\ a \div c <= a
         /\ c # 1 => 2 * (a \div c) <= a
         /\ c = 1 => a \div c = a
         /\ c * (a \div c) <= a /\ a < c * (a \div c) + c
  <1> DEFINE q == a \div c
  <1>1. q \in Nat /\ c * q <= a /\ a < c * q + c
    BY SMTT(30)
  <1>2. \A k \in Nat, d \in Nat \ {0} : k <= d * k /\ (d # 1 => 2 * k <= d * k)
    BY SMTT(30)
  <1>3. c = 1 => q = a
    OBVIOUS
  <1> HIDE DEF q
  <1>4. q <= c * q /\ (c # 1 => 2 * q <= c * q)
    BY <1>1, <1>2
  <1>5. c * q \in Nat
    BY <1>1
  <1>6. q <= a /\ (c # 1 => 2 * q <= a)
    BY <1>1, <1>4, <1>5
  <1> QED
    BY <1>1, <1>3, <1>6 DEF q

LEMMA QuotientFacts ==
  ASSUME NEW x \in Int, NEW y \in Int, y # 0
  PROVE  /\ Quotient(x, y) \in Int
         /\ x = 0 => Quotient(x, y) = 0
         /\ (x < 0) = (y < 0) => 0 <= Quotient(x, y) /\ Quotient(x, y) <= Abs(x)
         /\ (x < 0) # (y < 0) => -Abs(x) <= Quotient(x, y) /\ Quotient(x, y) <= 0
         /\ y # -1 /\ x < 0 => Quotient(x, y) < -x
         /\ x < 0 /\ y = -1 => Quotient(x, y) = -x
  <1> DEFINE a == Abs(x)
             c == Abs(y)
             q == a \div c
  <1>1. /\ a \in Nat /\ c \in Nat \ {0} /\ a = (IF x < 0 THEN -x ELSE x)
        /\ y < 0 /\ y # -1 => c # 1
        /\ y = -1 => c = 1
    BY DEF Abs
  <1>2. Quotient(x, y) = (IF (x < 0) = (y < 0) THEN 1 ELSE -1) * q
    BY DEF Quotient
  <1> HIDE DEF a, c
  <1>3. /\ q \in Nat /\ q <= a
        /\ c # 1 => 2 * q <= a
        /\ c = 1 => q = a
    BY <1>1, NatQuotient
  <1> HIDE DEF q
  <1>4. CASE (x < 0) = (y < 0)
    <2>1. Quotient(x, y) = q
      BY <1>2, <1>3, <1>4
    <2> QED
      BY <1>1, <1>3, <1>4, <2>1 DEF a
  <1>5. CASE (x < 0) # (y < 0)
    <2>1. Quotient(x, y) = -q
      BY <1>2, <1>3, <1>5
    <2> QED
      BY <1>1, <1>3, <1>5, <2>1 DEF a
  <1> QED
    BY <1>4, <1>5

(* The quotient of two values of a type is one too, but for that of lowest *)
(* and -1.                                                                 *)
LEMMA QuotientFits ==
  ASSUME NEW P \in Types, NEW x \in Values(P), NEW y \in Values(P), y # 0
  PROVE  /\ Quotient(x, y) \in Values(P) \/ (x = lowest(P) /\ y = -1 /\ P.signed)
         /\ x = lowest(P) /\ y = -1 => Quotient(x, y) \notin Values(P)
  <1>1. /\ x \in Int /\ y \in Int /\ lowest(P) <= x /\ x <= max(P) /\ lowest(P) <= y /\ y <= max(P)
        /\ lowest(P) \in Int /\ max(P) \in Int /\ lowest(P) <= 0 /\ 0 <= max(P)
        /\ P.signed => lowest(P) = -max(P) - 1
        /\ ~P.signed => lowest(P) = 0
    BY Limits, HalfFacts DEF Values, lowest, max
  <1> DEFINE q == Quotient(x, y)
  <1>2. /\ q \in Int
        /\ (x < 0) = (y < 0) => 0 <= q /\ q <= IF x < 0 THEN -x ELSE x
        /\ (x < 0) # (y < 0) => -(IF x < 0 THEN -x ELSE x) <= q /\ q <= 0
        /\ y # -1 /\ x < 0 => q < -x
        /\ x < 0 /\ y = -1 => q = -x
    BY <1>1, QuotientFacts DEF Abs
  <1> HIDE DEF q
  <1>3. CASE P.signed
    BY <1>1, <1>2, <1>3 DEF Values, q
  <1>4. CASE ~P.signed
    BY <1>1, <1>2, <1>4 DEF Values, q
  <1> QED
    BY <1>3, <1>4

(* A type that contains another has values as low.                         *)
LEMMA LowestContained ==
  ASSUME NEW T \in Types, NEW P \in Types, P.signed, T.signed, lowest(T) <= lowest(P)
  PROVE  StaticDstRangeRelationToSrcRange(T, P)
  <1>1. /\ digits(T) \in 1 .. IntmaxWidth /\ digits(P) \in 1 .. IntmaxWidth /\ IntmaxWidth \in Nat
        /\ lowest(T) = -(2 ^ digits(T)) /\ lowest(P) = -(2 ^ digits(P))
        /\ 2 ^ digits(T) \in Nat \ {0} /\ 2 ^ digits(P) \in Nat \ {0}
    BY WidthsBounded, MaxIsPower
  <1>2. ASSUME digits(T) < digits(P)
        PROVE  FALSE
    <2> DEFINE d == digits(T)
               e == digits(P)
    <2>1. d \in 0 .. IntmaxWidth - 1 /\ d + 1 \in 0 .. IntmaxWidth /\ e \in 0 .. IntmaxWidth /\ d + 1 <= e
      BY <1>1, <1>2
    <2> HIDE DEF d, e
    <2>2. 2 ^ (d + 1) <= 2 ^ e /\ 2 ^ (d + 1) = 2 * 2 ^ d
      BY <2>1, PowersGrow, PowersAssumption
    <2>3. 2 * 2 ^ digits(T) <= 2 ^ digits(P)
      BY <2>2 DEF d, e
    <2> QED
      BY <1>1, <2>3
  <1> QED
    BY <1>1, <1>2 DEF StaticDstRangeRelationToSrcRange, MaxExponent

(* An operand that the promotion does not have is a nonzero one of a       *)
(* signed type and stays nonzero.                                          *)
LEMMA NonzeroPromoted ==
  ASSUME NEW T \in Types, NEW U \in Types, NEW y \in Values(U), y # 0
  PROVE  StaticCast(BigEnoughPromotion(T, U), y) # 0
  <1> DEFINE P == BigEnoughPromotion(T, U)
  <1>1. y \in Int /\ lowest(U) <= y /\ y <= max(U) /\ lowest(U) \in Int /\ max(U) \in Int
    BY Limits DEF Values
  <1>2. CASE IsContained(T, U)
    <2>1. P \in Types /\ y \in Values(P)
      BY <1>2, PromotionContains
    <2> QED
      BY <1>1, <2>1, Cast1
  <1>3. CASE ~IsContained(T, U)
    <2>1. P = MaxExponentPromotion(T, U)
      BY <1>3 DEF IsContained, BigEnoughPromotion
    <2>2. P \in {T, U} /\ P \in Types /\ P.bits = IntmaxWidth /\ max(U) <= max(P)
      BY <1>3, <2>1, WiderLimits DEF IsContained
    <2> HIDE DEF P
    <2>3. /\ lowest(P) \in Int /\ max(P) \in Int /\ Half(P) \in Nat \ {0} /\ Half(U) \in Nat \ {0}
          /\ lowest(P) = (IF P.signed THEN -Half(P) ELSE 0)
          /\ lowest(U) = (IF U.signed THEN -Half(U) ELSE 0)
      BY <2>2, Limits, HalfFacts DEF lowest
    <2>4. Half(U) <= Half(P)
      <3>1. U.bits <= P.bits /\ U.bits \in Nat /\ P.bits \in Nat
        BY <2>2, WidthsBounded
      <3>2. CASE U.bits = P.bits
        BY <2>2, <2>3, <3>2, HalfFacts
      <3>3. CASE U.bits < P.bits
        <4>1. 2 * Half(U) <= Half(P)
          BY <2>2, <3>3, HalfFacts
        <4> QED
          BY <2>3, <4>1
      <3> QED
        BY <3>1, <3>2, <3>3
    <2>5. CASE lowest(P) <= y
      <3>1. y \in Values(P)
        BY <1>1, <2>2, <2>3, <2>5 DEF Values
      <3> QED
        BY <1>1, <2>2, <3>1, Cast1 DEF P
    <2>6. CASE y < lowest(P)
      <3>1. ~P.signed /\ lowest(P) = 0 /\ lowest(P) - 2 * Half(P) <= y /\ y + 2 * Half(P) > 0
        BY <1>1, <2>3, <2>4, <2>6
      <3>2. StaticCast(P, y) = y + 2 * Half(P)
        BY <1>1, <2>2, <2>6, <3>1, Cast1
      <3> QED
        BY <1>1, <2>3, <3>1, <3>2 DEF P
    <2> QED
      BY <1>1, <2>3, <2>5, <2>6
  <1> QED
    BY <1>2, <1>3

LEMMA QuotientsAnswered ==
  ASSUME NEW B \in Builds, NEW T \in Types, NEW U \in Types, NEW V \in {T, U},
         NEW x \in Values(T), NEW y \in Values(U)
  PROVE  LET div == CheckedDivOp(B, T, U, V, x, y)
             quotient == Quotient(x, y)
         IN  /\ Typed(div)
             /\ y = 0 => ~div.ok
             /\ y # 0 => /\ Sound(V, div, quotient)
                         /\ IsContained(T, U) => Exactly(V, div, quotient)
  <1> DEFINE P == BigEnoughPromotion(T, U)
             div == CheckedDivOp(B, T, U, V, x, y)
             px == StaticCast(P, x)
             py == StaticCast(P, y)
             q == Quotient(px, py)
             n == Quotient(x, y)
             lowestByMinusOne ==
               /\ T.signed /\ U.signed /\ StaticDstRangeRelationToSrcRange(T, P)
               /\ px = lowest(P) /\ y = StaticCast(U, -1)
             lost == ~BothInRange(P, T, U, x, y) /\ x # 0
  <1>1. /\ x \in Int /\ y \in Int /\ V \in Types /\ P \in Types
        /\ px \in Values(P) /\ py \in Values(P) /\ px \in Int /\ py \in Int
    BY Limits, PromotionTypes, Cast1
  <1>2. div = IF y = 0 \/ lowestByMinusOne \/ lost
              THEN Refused ELSE Narrowed(V, P, TRUE, StaticCast(P, q))
    BY DEF CheckedDivOp
  <1>3. ~Refused.ok /\ Typed(Refused)
    BY DEF Refused, Outcome, Typed
  <1>4. CASE y = 0
    <2> HIDE DEF div, n
    <2> QED
      BY <1>2, <1>3, <1>4 DEF div
  <1>5. CASE y # 0
    <2>1. py # 0
      BY <1>5, NonzeroPromoted
    <2>2. q \in Int /\ n \in Int /\ (x = 0 => n = 0) /\ (px = 0 => q = 0)
      BY <1>1, <1>5, <2>1, QuotientFacts
    <2>3. Typed(div)
      <3>1. StaticCast(P, q) \in Int
        BY <1>1, <2>2, Cast1
      <3>2. Typed(Narrowed(V, P, TRUE, StaticCast(P, q)))
        BY <1>1, <3>1, NarrowedTyped
      <3> QED
        BY <1>2, <1>3, <3>2
    <2>4. BothInRange(P, T, U, x, y) => px = x /\ py = y
      <3>1. BothInRange(P, T, U, x, y) => x \in Values(P) /\ y \in Values(P)
        BY <1>1, InRangeExact DEF BothInRange
      <3> QED
        BY <1>1, <3>1, Cast1
    <2>5. CASE lowestByMinusOne
      <3>1. MaxExponentContains(T, U)
        <4>1. digits(T) \in Int /\ digits(U) \in Int
          BY WidthsBounded
        <4> DEFINE M == MaxExponentPromotion(T, U)
        <4>2. M \in {T, U} /\ digits(T) <= digits(M) /\ digits(U) <= digits(M)
          BY <4>1 DEF MaxExponentPromotion, MaxExponent
        <4> HIDE DEF M
        <4>3. StaticDstRangeRelationToSrcRange(M, T) /\ StaticDstRangeRelationToSrcRange(M, U)
          <5>1. T.signed \in BOOLEAN /\ U.signed \in BOOLEAN /\ T.signed /\ U.signed
            BY <2>5, HalfFacts
          <5>2. M.signed = T.signed /\ M.signed = U.signed
            BY <4>2, <5>1
          <5>3. digits(M) + 1 >= digits(T) + 1 /\ digits(M) + 1 >= digits(U) + 1
            BY <4>1, <4>2
          <5> QED
            BY <5>2, <5>3 DEF StaticDstRangeRelationToSrcRange, MaxExponent
        <4> QED
          BY <4>3 DEF MaxExponentContains, M
      <3>2. IsContained(T, U) /\ P.signed
        BY <2>5, <3>1 DEF IsContained, BigEnoughPromotion, MaxExponentPromotion
      <3>3. x \in Values(P) /\ y \in Values(P) /\ \A v \in Values(V) : v \in Values(P)
        BY <3>2, PromotionContains
      <3>4. px = x /\ x = lowest(P)
        BY <1>1, <2>5, <3>3, Cast1
      <3>5. y = -1
        <4>1. -1 \in Values(U)
          BY <2>5, HalfFacts DEF Values, lowest, max
        <4> QED
          BY <2>5, <4>1, Cast1
      <3>6. n \notin Values(P)
        BY <1>1, <1>5, <3>3, <3>4, <3>5, QuotientFits
      <3>7. n \notin Values(V)
        BY <3>3, <3>6
      <3>8. div = Refused
        BY <1>2, <2>5
      <3> HIDE DEF div, n
      <3> QED
        BY <1>3, <1>5, <3>7, <3>8 DEF Sound, Exactly, div, n
    <2>6. CASE ~lowestByMinusOne /\ lost
      <3>1. div = Refused
        BY <1>2, <2>6
      <3>2. ~IsContained(T, U)
        <4>1. ASSUME IsContained(T, U)
              PROVE  BothInRange(P, T, U, x, y)
          BY <1>1, <4>1, PromotionContains, InRangeExact DEF BothInRange
        <4> QED
          BY <2>6, <4>1
      <3> HIDE DEF div, n
      <3> QED
        BY <1>3, <1>5, <3>1, <3>2 DEF Sound, div, n
    <2>7. CASE ~lowestByMinusOne /\ ~lost
      <3>1. div = Narrowed(V, P, TRUE, StaticCast(P, q))
        BY <1>2, <1>5, <2>7
      <3>2. q = n /\ StaticCast(P, q) = n /\ n \in Values(P)
        <4>1. CASE BothInRange(P, T, U, x, y)
          <5>1. px = x /\ py = y /\ q = n
            BY <2>4, <4>1
          <5>2. x \in Values(P) /\ y \in Values(P)
            BY <1>1, <5>1
          <5>3. ASSUME x = lowest(P), y = -1, P.signed
                PROVE  FALSE
            <6>1. x < 0 /\ U.signed /\ T.signed
              <7>1. ~T.signed => lowest(T) = 0
                BY DEF lowest
              <7>2. ~U.signed => lowest(U) = 0
                BY DEF lowest
              <7>3. lowest(P) < 0
                BY <1>1, <5>3, HalfFacts DEF lowest
              <7>4. lowest(T) <= x /\ lowest(U) <= y /\ lowest(T) \in Int /\ lowest(U) \in Int
                BY Limits DEF Values
              <7> QED
                BY <1>1, <5>3, <7>1, <7>2, <7>3, <7>4, HalfFacts
            <6>2. lowest(T) <= lowest(P)
              BY <5>3, Limits DEF Values
            <6>3. StaticDstRangeRelationToSrcRange(T, P)
              BY <1>1, <5>3, <6>1, <6>2, LowestContained
            <6>4. -1 \in Values(U)
              BY <5>3
            <6>5. StaticCast(U, -1) = -1
              BY <6>4, Cast1
            <6> QED
              BY <2>7, <5>1, <5>3, <6>1, <6>3, <6>5
          <5>4. n \in Values(P)
            BY <1>1, <1>5, <5>2, <5>3, QuotientFits
          <5> QED
            BY <1>1, <2>2, <5>1, <5>4, Cast1
        <4>2. CASE ~BothInRange(P, T, U, x, y)
          <5>1. x = 0
            BY <2>7, <4>2
          <5>2. 0 \in Values(P)
            BY <1>1, Limits DEF Values
          <5>3. StaticCast(P, 0) = 0
            BY <1>1, <5>2, Cast1
          <5> QED
            BY <2>2, <5>1, <5>2, <5>3
        <4> QED
          BY <4>1, <4>2
      <3> HIDE DEF P, q, n, div
      <3>3. Exactly(V, div, n)
        BY <1>1, <2>2, <3>1, <3>2, NarrowedExact
      <3>4. Sound(V, div, n)
        BY <3>3 DEF Exactly, Sound
      <3> QED
        BY <1>5, <2>3, <3>3, <3>4 DEF div, n
    <2> QED
      BY <1>5, <2>3, <2>5, <2>6, <2>7
  <1> QED
    BY <1>4, <1>5

LEMMA QuotientsSaturated ==
  ASSUME NEW B \in Builds, NEW T \in Types, NEW U \in Types, NEW V \in {T, U},
         NEW x \in Values(T), NEW y \in Values(U),
         NEW far, far = CASE x > 0 -> max(V) [] x = 0 -> 0 [] x < 0 -> lowest(V)
  PROVE  LET div == ClampedDivOp(B, T, U, V, x, y)
         IN  /\ div \in Int /\ far \in Int
             /\ y = 0 => Nearest(V, far) = StaticCast(V, div)
             /\ y # 0 /\ IsContained(T, U) => Nearest(V, Quotient(x, y)) = StaticCast(V, div)
  <1> DEFINE div == CheckedDivOp(B, T, U, V, x, y)
             isMin == (x < 0) # (y < 0)
             saturated == IF x = 0 THEN 0 ELSE Limit(V, isMin)
             n == Quotient(x, y)
  <1>1. /\ x \in Int /\ y \in Int /\ V \in Types /\ isMin \in BOOLEAN
        /\ lowest(V) \in Int /\ max(V) \in Int /\ lowest(V) <= 0 /\ 0 <= max(V)
    BY Limits
  <1>2. ClampedDivOp(B, T, U, V, x, y) = Otherwise(div, saturated)
    BY DEF ClampedDivOp, IsValueNegative
  <1>3. Typed(div) /\ (y = 0 => ~div.ok) /\ (y # 0 /\ IsContained(T, U) => Exactly(V, div, n))
    BY QuotientsAnswered
  <1>4. Limit(V, isMin) \in Int /\ Limit(V, isMin) = IF isMin THEN lowest(V) ELSE max(V)
    BY <1>1, LimitIs
  <1>5. saturated \in Int /\ far \in Int
    BY <1>1, <1>4
  <1>6. Otherwise(div, saturated) \in Int
    <2> HIDE DEF saturated, div
    <2> QED
      BY <1>3, <1>5, OtherwiseInt
  <1>7. ASSUME y = 0
        PROVE  Nearest(V, far) = StaticCast(V, Otherwise(div, saturated))
    <2>1. saturated = far
      BY <1>1, <1>4, <1>7
    <2>2. far \in Values(V) /\ Nearest(V, far) = far
      BY <1>1 DEF Values, Nearest
    <2>3. StaticCast(V, far) = far
      BY <1>1, <1>5, <2>2, Cast1
    <2> HIDE DEF saturated, div
    <2> QED
      BY <1>3, <1>7, <2>1, <2>2, <2>3 DEF Otherwise
  <1>8. ASSUME y # 0, IsContained(T, U)
        PROVE  Nearest(V, n) = StaticCast(V, Otherwise(div, saturated))
    <2>1. /\ n \in Int /\ (x = 0 => n = 0)
          /\ (x < 0) = (y < 0) => 0 <= n
          /\ (x < 0) # (y < 0) => n <= 0
      BY <1>1, <1>8, QuotientFacts
    <2>2. (n < lowest(V) => isMin) /\ (n > max(V) => ~isMin)
      BY <1>1, <2>1
    <2> HIDE DEF n, isMin
    <2>3. Nearest(V, n) = StaticCast(V, Otherwise(div, Limit(V, isMin)))
      <3> HIDE DEF div
      <3> QED
        BY <1>1, <1>3, <1>8, <2>1, <2>2, NearestAnswered
    <2>4. Otherwise(div, Limit(V, isMin)) = Otherwise(div, saturated)
      <3>1. CASE x # 0
        BY <3>1
      <3>2. CASE x = 0
        <4>1. n \in Values(V)
          BY <1>1, <2>1, <3>2 DEF Values
        <4>2. div.ok
          BY <1>3, <1>8, <4>1 DEF Exactly
        <4> QED
          BY <4>2 DEF Otherwise
      <3> QED
        BY <3>1, <3>2
    <2> QED
      BY <2>3, <2>4
  <1> QED
    BY <1>2, <1>5, <1>6, <1>7, <1>8

LEMMA DivKeeps ==
  ASSUME IInv, Div
  PROVE  IInv'
  <1>1. SUFFICES
          ASSUME NEW r \in Arguments, NEW V \in ResultTypes(MaxExponentPromotion(T0, r.type)),
                 LET quotient == IF r.value = 0 THEN {} ELSE {Quotient(a, r.value) : a \in Operated(r)}
                     beyond == {CASE a > 0 -> max(V) [] a = 0 -> 0 [] a < 0 -> lowest(V) : a \in ideal}
                     checked == CheckedDivOp(build, T0, r.type, V, v0, r.value)
                     clamped == ClampedDivOp(build, T0, r.type, V, v0, r.value)
                 IN  \/ CheckedMathOp(checked, r, V, quotient, MayIf(NoPromotion(r), "refuse"))
                     \/ ClampedMathOp(clamped, r, V, IF r.value = 0 THEN beyond ELSE quotient,
                                      MayIf(NoPromotion(r), "differ"))
          PROVE  IInv'
    BY DEF Div
  <1> DEFINE exact == IF r.value = 0 THEN {} ELSE {Quotient(a, r.value) : a \in Operated(r)}
             beyond == {CASE a > 0 -> max(V) [] a = 0 -> 0 [] a < 0 -> lowest(V) : a \in ideal}
             n == Quotient(v0, r.value)
             far == CASE v0 > 0 -> max(V) [] v0 = 0 -> 0 [] v0 < 0 -> lowest(V)
             checked == CheckedDivOp(build, T0, r.type, V, v0, r.value)
             clamped == ClampedDivOp(build, T0, r.type, V, v0, r.value)
  <1>2. IsChecked \/ IsClamped
    BY <1>1 DEF CheckedMathOp, ClampedMathOp
  <1>3. Followed
    BY <1>2 DEF IsChecked, IsClamped
  <1>4. /\ T0 \in Types /\ v0 \in Values(T0) /\ v0 \in Int /\ build \in Builds
        /\ r.type \in Types /\ r.value \in Values(r.type) /\ r.value \in Int
        /\ Operated(r) = IF number.valid /\ r.valid THEN {v0} ELSE {}
        /\ ideal = IF number.valid THEN {v0} ELSE {}
        /\ number.class = "ClampedNumeric" => number.valid /\ r.valid
    BY <1>3, StartsRight
  <1>5. V \in {T0, r.type} /\ V \in Types
    BY <1>4, WiderLimits DEF ResultTypes
  <1>6. r.value # 0 => n \in Int /\ exact = IF number.valid /\ r.valid THEN {n} ELSE {}
    BY <1>4, QuotientFacts
  <1>7. /\ Typed(checked)
        /\ r.value = 0 => ~checked.ok
        /\ r.value # 0 => Sound(V, checked, n) /\ (~NoPromotion(r) => Exactly(V, checked, n))
    BY <1>4, <1>5, QuotientsAnswered DEF NoPromotion
  <1>8. /\ clamped \in Int /\ far \in Int
        /\ r.value = 0 => Nearest(V, far) = StaticCast(V, clamped)
        /\ r.value # 0 /\ ~NoPromotion(r) => Nearest(V, n) = StaticCast(V, clamped)
    <2>1. far = CASE v0 > 0 -> max(V) [] v0 = 0 -> 0 [] v0 < 0 -> lowest(V)
      OBVIOUS
    <2> HIDE DEF far
    <2> QED
      BY <1>4, <1>5, <2>1, QuotientsSaturated DEF NoPromotion
  <1>9. MayIf(NoPromotion(r), "refuse") = "refuse" \/ ~NoPromotion(r)
    BY DEF MayIf
  <1>10. MayIf(NoPromotion(r), "differ") = "differ" \/ ~NoPromotion(r)
    BY DEF MayIf
  <1>11. CASE CheckedMathOp(checked, r, V, exact, MayIf(NoPromotion(r), "refuse"))
    <2>1. CASE r.value = 0
      <3>1. exact = {}
        BY <2>1
      <3> HIDE DEF exact, checked
      <3>2. Answers(V, checked, exact, MayIf(NoPromotion(r), "refuse"))
        BY <1>7, <2>1, <3>1 DEF Answers, Fitting
      <3>3. checked.ok \in BOOLEAN /\ checked.result \in Int /\ exact \in SUBSET Int
        BY <1>7, <3>1 DEF Typed
      <3> QED
        BY <1>5, <1>11, <3>1, <3>2, <3>3, CheckedStep
    <2>2. CASE r.value # 0
      <3> HIDE DEF exact, n, checked
      <3> QED
        BY <1>5, <1>6, <1>7, <1>9, <1>11, <2>2, CheckedExactStep
    <2> QED
      BY <2>1, <2>2
  <1>12. CASE ClampedMathOp(clamped, r, V, IF r.value = 0 THEN beyond ELSE exact,
                            MayIf(NoPromotion(r), "differ"))
    <2>1. number.valid /\ r.valid
      BY <1>4, <1>12 DEF ClampedMathOp, IsClamped
    <2>2. CASE r.value = 0
      <3>1. beyond = {far}
        BY <1>4, <2>1
      <3>2. ClampedMathOp(clamped, r, V, {far}, MayIf(NoPromotion(r), "differ"))
        BY <1>12, <2>2, <3>1
      <3> HIDE DEF far, clamped
      <3> QED
        BY <1>5, <1>8, <2>2, <3>2, ClampedExactStep
    <2>3. CASE r.value # 0
      <3>1. ClampedMathOp(clamped, r, V, {n}, MayIf(NoPromotion(r), "differ")) /\ n \in Int
        BY <1>6, <1>12, <2>1, <2>3
      <3> HIDE DEF n, clamped
      <3> QED
        BY <1>5, <1>8, <1>10, <2>3, <3>1, ClampedExactStep
    <2> QED
      BY <2>2, <2>3
  <1> QED
    BY <1>1, <1>11, <1>12

-----------------------------------------------------------------------------
(* Remainder. *)

LEMMA RemainderFacts ==
  ASSUME NEW x \in Int, NEW y \in Int, y # 0
  PROVE  /\ Remainder(x, y) \in Int
         /\ x >= 0 => 0 <= Remainder(x, y) /\ Remainder(x, y) <= x
         /\ x < 0 => x <= Remainder(x, y) /\ Remainder(x, y) <= 0
  <1> DEFINE a == Abs(x)
             c == Abs(y)
             q == a \div c
             cq == c * q
  <1>1. /\ a \in Nat /\ c \in Nat \ {0} /\ a = (IF x < 0 THEN -x ELSE x)
        /\ c = (IF y < 0 THEN -y ELSE y)
    BY DEF Abs
  <1>2. Quotient(x, y) = (IF (x < 0) = (y < 0) THEN 1 ELSE -1) * q
    BY DEF Quotient
  <1>3. Remainder(x, y) = x - y * Quotient(x, y)
    BY DEF Remainder
  <1> HIDE DEF a, c
  <1>4. q \in Nat /\ cq <= a
    BY <1>1, NatQuotient
  <1>5. cq \in Nat
    BY <1>1, <1>4
  <1> HIDE DEF q
  <1>6. Quotient(x, y) = IF (x < 0) = (y < 0) THEN q ELSE -q
    BY <1>2, <1>4
  <1>7. y * Quotient(x, y) = IF x < 0 THEN -cq ELSE cq
    <2>1. CASE y < 0
      <3>1. y * q = -cq /\ y * (-q) = cq
        BY <1>1, <1>4, <2>1
      <3> QED
        BY <1>6, <2>1, <3>1
    <2>2. CASE y >= 0
      <3>1. y * q = cq /\ y * (-q) = -cq
        BY <1>1, <1>4, <2>2
      <3> QED
        BY <1>6, <2>2, <3>1
    <2> QED
      BY <2>1, <2>2
  <1> HIDE DEF cq
  <1> QED
    BY <1>1, <1>3, <1>4, <1>5, <1>7

LEMMA RemaindersAnswered ==
  ASSUME NEW B \in Builds, NEW T \in Types, NEW U \in Types, NEW V \in {T, U},
         NEW x \in Values(T), NEW y \in Values(U)
  PROVE  LET mod == CheckedModOp(B, T, U, V, x, y)
             remainder == Remainder(x, y)
         IN  /\ Typed(mod)
             /\ y = 0 => ~mod.ok
             /\ y # 0 /\ IsContained(T, U) => Exactly(V, mod, remainder)
  <1> DEFINE P == BigEnoughPromotion(T, U)
             mod == CheckedModOp(B, T, U, V, x, y)
             px == StaticCast(P, x)
             py == StaticCast(P, y)
             rem == Remainder(px, py)
             n == Remainder(x, y)
  <1>1. /\ x \in Int /\ y \in Int /\ V \in Types /\ P \in Types
        /\ px \in Values(P) /\ py \in Values(P) /\ px \in Int /\ py \in Int
    BY Limits, PromotionTypes, Cast1
  <1>2. mod = IF y = 0 THEN Refused ELSE Narrowed(V, P, TRUE, rem)
    BY DEF CheckedModOp
  <1>3. CASE y = 0
    BY <1>2, <1>3 DEF Refused, Outcome, Typed
  <1>4. CASE y # 0
    <2>1. rem \in Int
      <3>1. py # 0
        BY <1>4, NonzeroPromoted
      <3> QED
        BY <1>1, <3>1, RemainderFacts
    <2>2. mod = Narrowed(V, P, TRUE, rem)
      BY <1>2, <1>4
    <2>3. Typed(mod)
      <3> HIDE DEF rem, mod
      <3> QED
        BY <1>1, <2>1, <2>2, NarrowedTyped
    <2>4. ASSUME IsContained(T, U)
          PROVE  Exactly(V, mod, n)
      <3>1. x \in Values(P) /\ y \in Values(P)
        BY <2>4, PromotionContains
      <3>2. px = x /\ py = y
        BY <1>1, <3>1, Cast1
      <3>3. rem = n
        BY <3>2
      <3>4. /\ n \in Int
            /\ x >= 0 => 0 <= n /\ n <= x
            /\ x < 0 => x <= n /\ n <= 0
        BY <1>1, <1>4, RemainderFacts
      <3> HIDE DEF n, rem, mod, P
      <3>5. n \in Values(P)
        BY <1>1, <3>1, <3>4, Limits DEF Values
      <3> QED
        BY <1>1, <2>2, <3>3, <3>4, <3>5, NarrowedExact
    <2> HIDE DEF mod, n
    <2> QED
      BY <1>4, <2>3, <2>4 DEF mod, n
  <1> QED
    BY <1>3, <1>4

LEMMA ModKeeps ==
  ASSUME IInv, Mod
  PROVE  IInv'
  <1>1. SUFFICES
          ASSUME NEW r \in Arguments, NEW V \in ResultTypes(MaxExponentPromotion(T0, r.type)),
                 LET remainder == IF r.value = 0 THEN {} ELSE {Remainder(a, r.value) : a \in Operated(r)}
                     fits == r.value # 0 /\ Remainder(v0, r.value) \in Values(V)
                     checked == CheckedModOp(build, T0, r.type, V, v0, r.value)
                     clamped == ClampedModOp(build, T0, r.type, V, v0, r.value)
                 IN  \/ CheckedMathOp(checked, r, V, remainder, MayIf(NoPromotion(r), "differ"))
                     \/ ClampedMathOp(clamped, r, V, remainder, MayIf(NoPromotion(r) \/ ~fits, "differ"))
          PROVE  IInv'
    BY DEF Mod
  <1> DEFINE exact == IF r.value = 0 THEN {} ELSE {Remainder(a, r.value) : a \in Operated(r)}
             n == Remainder(v0, r.value)
             fits == r.value # 0 /\ n \in Values(V)
             checked == CheckedModOp(build, T0, r.type, V, v0, r.value)
             clamped == ClampedModOp(build, T0, r.type, V, v0, r.value)
             may == MayIf(NoPromotion(r), "differ")
  <1>2. IsChecked \/ IsClamped
    BY <1>1 DEF CheckedMathOp, ClampedMathOp
  <1>3. Followed
    BY <1>2 DEF IsChecked, IsClamped
  <1>4. /\ T0 \in Types /\ v0 \in Values(T0) /\ v0 \in Int /\ build \in Builds
        /\ r.type \in Types /\ r.value \in Values(r.type) /\ r.value \in Int
        /\ Operated(r) = IF number.valid /\ r.valid THEN {v0} ELSE {}
        /\ number.class = "ClampedNumeric" => number.valid /\ r.valid
    BY <1>3, StartsRight
  <1>5. V \in {T0, r.type} /\ V \in Types
    BY <1>4, WiderLimits DEF ResultTypes
  <1>6. r.value # 0 => n \in Int
    BY <1>4, RemainderFacts
  <1>7. exact = IF r.value # 0 /\ number.valid /\ r.valid THEN {n} ELSE {}
    BY <1>4
  <1>8. /\ Typed(checked)
        /\ r.value = 0 => ~checked.ok
        /\ r.value # 0 /\ ~NoPromotion(r) => Exactly(V, checked, n)
    BY <1>4, <1>5, RemaindersAnswered DEF NoPromotion
  <1>9. clamped = Otherwise(checked, StaticCast(V, v0))
    BY DEF ClampedModOp
  <1>10. exact \in SUBSET Int
    BY <1>6, <1>7
  <1>11. CASE CheckedMathOp(checked, r, V, exact, may)
    <2>1. may = "differ" \/ ~NoPromotion(r)
      BY DEF MayIf
    <2> HIDE DEF may, exact, checked, n
    <2>2. checked.ok \in BOOLEAN /\ checked.result \in Int
      BY <1>8 DEF Typed
    <2>3. ASSUME number.valid /\ r.valid
          PROVE  Answers(V, checked, exact, may)
      <3>1. CASE r.value = 0
        <4>1. exact = {} /\ ~checked.ok
          BY <1>7, <1>8, <3>1
        <4> QED
          BY <4>1 DEF Answers, Fitting
      <3>2. CASE r.value # 0 /\ ~NoPromotion(r)
        <4>1. exact = {n}
          BY <1>7, <2>3, <3>2
        <4>2. Exactly(V, checked, n)
          BY <1>8, <3>2
        <4>3. Sound(V, checked, n)
          BY <4>2 DEF Exactly, Sound
        <4> QED
          BY <1>5, <1>6, <2>2, <3>2, <4>1, <4>2, <4>3, ExactAnswers
      <3>3. CASE NoPromotion(r)
        BY <2>1, <3>3 DEF Answers
      <3> QED
        BY <3>1, <3>2, <3>3
    <2>4. ~(number.valid /\ r.valid) => exact = {}
      BY <1>7
    <2> QED
      BY <1>5, <1>10, <1>11, <2>2, <2>3, <2>4, CheckedStep
  <1>12. CASE ClampedMathOp(clamped, r, V, exact, MayIf(NoPromotion(r) \/ ~fits, "differ"))
    <2> DEFINE m == MayIf(NoPromotion(r) \/ ~fits, "differ")
    <2>1. m = "differ" \/ (~NoPromotion(r) /\ fits)
      BY DEF MayIf
    <2>2. clamped \in Int
      <3>1. StaticCast(V, v0) \in Int
        BY <1>4, <1>5, Cast1
      <3> HIDE DEF checked, clamped
      <3> QED
        BY <1>8, <1>9, <3>1, OtherwiseInt
    <2>3. number.valid /\ r.valid
      BY <1>4, <1>12 DEF ClampedMathOp, IsClamped
    <2>4. ASSUME ~NoPromotion(r), fits
          PROVE  Clamp(V, exact) = {StaticCast(V, clamped)}
      <3>1. exact = {n} /\ n \in Int /\ n \in Values(V)
        BY <1>6, <1>7, <2>3, <2>4
      <3>2. Exactly(V, checked, n)
        BY <1>8, <2>4
      <3> HIDE DEF n, checked, clamped, exact
      <3>3. clamped = n
        BY <1>9, <3>1, <3>2 DEF Exactly, Otherwise
      <3>4. StaticCast(V, n) = n /\ Nearest(V, n) = n
        BY <1>5, <3>1, Cast1, Limits DEF Nearest, Values
      <3> QED
        BY <3>1, <3>3, <3>4 DEF Clamp
    <2> HIDE DEF m, clamped, exact, fits
    <2>5. m = "differ" \/ Clamp(V, exact) = {StaticCast(V, clamped)}
      BY <2>1, <2>4
    <2> QED
      BY <1>5, <1>10, <1>12, <2>2, <2>5, ClampedStep DEF m
  <1> QED
    BY <1>1, <1>11, <1>12

LEMMA ModTrapsKeeps ==
  ASSUME IInv, ModTraps
  PROVE  IInv'
  <1>1. number' = number /\ ideal' = ideal /\ astray' = astray /\ build' = build /\ running' = FALSE
    BY DEF ModTraps
  <1>2. TypeOK'
    BY <1>1 DEF IInv, TypeOK
  <1>3. Agreement'
    BY <1>1 DEF IInv, Agreement, Agrees
  <1> QED
    BY <1>2, <1>3 DEF IInv

-----------------------------------------------------------------------------
(* A static_cast to a type looks at a value modulo the range of the type.  *)

Divided(a, m, q, s) == s \in 0 .. m - 1 /\ a = m * q + s

LEMMA DivisionUnique ==
  ASSUME NEW m \in Nat \ {0}, NEW q \in Int, NEW s, NEW a \in Int, Divided(a, m, q, s)
  PROVE  a % m = s /\ a \div m = q
  <1> DEFINE mq == m * q
  <1>0. mq = m * q /\ mq \in Int /\ s \in 0 .. m - 1 /\ a = mq + s
    BY DEF Divided
  <1> HIDE DEF mq
  <1> DEFINE p == a \div m
             t == a % m
  <1>1. p \in Int /\ t \in 0 .. m - 1 /\ a = m * p + t
    BY SMTT(30)
  <1> HIDE DEF p, t
  <1>2. mq \in Int /\ mq + s = m * p + t
    BY <1>0, <1>1
  <1>3. ASSUME p < q
        PROVE  FALSE
    <2>1. m * (p + 1) <= mq /\ m * (p + 1) = m * p + m
      BY <1>0, <1>1, <1>3, SMTT(30)
    <2> DEFINE mp == m * p
    <2>2. mp \in Int /\ mq \in Int /\ mp + m <= mq /\ mq + s = mp + t
      BY <1>0, <1>1, <1>2, <2>1
    <2> HIDE DEF mp
    <2> QED
      BY <1>0, <1>1, <2>2
  <1>4. ASSUME q < p
        PROVE  FALSE
    <2>1. m * (q + 1) <= m * p /\ m * (q + 1) = mq + m
      BY <1>0, <1>1, <1>4, SMTT(30)
    <2> DEFINE mp == m * p
    <2>2. mp \in Int /\ mq \in Int /\ mq + m <= mp /\ mq + s = mp + t
      BY <1>0, <1>1, <1>2, <2>1
    <2> HIDE DEF mp
    <2> QED
      BY <1>0, <1>1, <2>2
  <1>5. p = q
    BY <1>1, <1>3, <1>4
  <1>6. mq + s = mq + t
    BY <1>0, <1>1, <1>2, <1>5
  <1>7. s = t
    BY <1>0, <1>1, <1>2, <1>6
  <1> QED
    BY <1>5, <1>7 DEF p, t

LEMMA CastIs ==
  ASSUME NEW T \in Types, NEW w \in Values(T), NEW k \in Int, NEW v \in Int,
         v = w + 2 * Half(T) * k
  PROVE  StaticCast(T, v) = w
  <1> DEFINE m == 2 * Half(T)
             s == w - lowest(T)
             a == v - lowest(T)
             mk == m * k
  <1>1. /\ m \in Nat \ {0} /\ w \in Int /\ lowest(T) \in Int /\ max(T) = lowest(T) + m - 1
        /\ lowest(T) <= w /\ w <= max(T)
    BY Limits DEF Values
  <1>2. mk \in Int /\ v = w + mk
    BY <1>1
  <1>3. StaticCast(T, v) = lowest(T) + (a % m)
    BY DEF StaticCast
  <1> HIDE DEF m
  <1>4. s \in 0 .. m - 1 /\ a \in Int
    BY <1>1
  <1>5. mk = m * k
    OBVIOUS
  <1>6. s = w - lowest(T) /\ a = v - lowest(T)
    OBVIOUS
  <1> HIDE DEF a, s, mk
  <1>7. a = mk + s
    BY <1>1, <1>2, <1>6
  <1>8. a % m = s
    <2>1. Divided(a, m, k, s)
      BY <1>4, <1>5, <1>7 DEF Divided
    <2> QED
      BY <1>1, <1>4, <2>1, DivisionUnique
  <1> QED
    BY <1>1, <1>3, <1>6, <1>8

(* Two values that a type takes for the same.                              *)
LEMMA CastPeriodic ==
  ASSUME NEW T \in Types, NEW n \in Int, NEW k \in Int, NEW v \in Int, v = n + 2 * Half(T) * k
  PROVE  StaticCast(T, v) = StaticCast(T, n)
  <1> DEFINE m == 2 * Half(T)
             a == n - lowest(T)
             q == a \div m
             w == StaticCast(T, n)
  <1>1. m \in Nat \ {0} /\ lowest(T) \in Int /\ w \in Values(T) /\ w \in Int
    BY Limits, Cast1
  <1>2. w = lowest(T) + (a % m)
    BY DEF StaticCast
  <1>3. a \in Int /\ a = n - lowest(T)
    BY <1>1
  <1> HIDE DEF m, a, w
  <1>4. q \in Int /\ a % m \in Int /\ a = m * q + (a % m)
    BY <1>1, <1>3, SMTT(30)
  <1> HIDE DEF q
  <1> DEFINE mq == m * q
             mk == m * k
             rest == a % m
  <1>5. mq \in Int /\ mk \in Int /\ rest \in Int /\ a = mq + rest /\ w = lowest(T) + rest /\ v = n + mk
    BY <1>1, <1>2, <1>4 DEF m
  <1>6. v = w + (mq + mk)
    <2> HIDE DEF mq, mk, rest
    <2> QED
      BY <1>1, <1>3, <1>5
  <1>7. mq + mk = m * (q + k)
    BY <1>1, <1>4
  <1>8. q + k \in Int
    BY <1>4
  <1> DEFINE j == q + k
  <1>9. j \in Int /\ v = w + m * j
    BY <1>6, <1>7, <1>8
  <1> HIDE DEF j
  <1>10. v = w + 2 * Half(T) * j
    BY <1>9 DEF m
  <1> QED
    BY <1>1, <1>9, <1>10, CastIs DEF w

(* The range of a type that is as wide is a multiple of that of another.   *)
LEMMA RangeMultiple ==
  ASSUME NEW C \in Types, NEW V \in Types, V.bits <= C.bits
  PROVE  \E k \in Nat : 2 * Half(C) = 2 * Half(V) * k
  <1> DEFINE d == C.bits - V.bits
             b == V.bits
             k == 2 ^ d
  <1>1. d \in Nat /\ b \in Nat /\ b + d = C.bits /\ b + d <= IntmaxWidth /\ d \in 0 .. IntmaxWidth
    BY WidthsBounded
  <1>2. 2 ^ (b + d) = 2 ^ b * 2 ^ d /\ k \in Nat
    BY <1>1, PowerOfSum, PowerPositive
  <1>3. 2 ^ C.bits = 2 * Half(C) /\ 2 ^ V.bits = 2 * Half(V)
    BY MaxIsPower
  <1>4. 2 ^ (b + d) = 2 ^ C.bits
    BY <1>1
  <1>5. 2 * Half(C) = 2 * Half(V) * k
    BY <1>2, <1>3, <1>4
  <1> HIDE DEF k
  <1> QED
    BY <1>2, <1>5

-----------------------------------------------------------------------------
(* The larger and the smaller of two values. *)

LEMMA ExtremesFit ==
  ASSUME NEW T \in Types, NEW U \in Types, NEW x \in Values(T), NEW y \in Values(U)
  PROVE  /\ (IF x > y THEN x ELSE y) \in Values(MaxExponentPromotion(T, U))
         /\ (IF x < y THEN x ELSE y) \in Values(LowestValuePromotion(T, U))
  <1>1. /\ x \in Int /\ lowest(T) <= x /\ x <= max(T) /\ y \in Int /\ lowest(U) <= y /\ y <= max(U)
        /\ lowest(T) \in Int /\ max(T) \in Int /\ lowest(U) \in Int /\ max(U) \in Int
        /\ lowest(T) <= 0 /\ lowest(U) <= 0
        /\ T.signed \in BOOLEAN /\ U.signed \in BOOLEAN
    BY Limits, HalfFacts DEF Values
  <1>2. /\ ~T.signed => lowest(T) = 0
        /\ ~U.signed => lowest(U) = 0
    BY DEF lowest
  <1>3. (IF x > y THEN x ELSE y) \in Values(MaxExponentPromotion(T, U))
    <2> DEFINE P == MaxExponentPromotion(T, U)
    <2>1. /\ P \in {T, U} /\ max(T) <= max(P) /\ max(U) <= max(P)
          /\ P.signed => lowest(P) <= lowest(T) /\ lowest(P) <= lowest(U)
      BY WiderLimits
    <2> HIDE DEF P
    <2> QED
      BY <1>1, <1>2, <2>1 DEF Values, P
  <1>4. (IF x < y THEN x ELSE y) \in Values(LowestValuePromotion(T, U))
    <2> DEFINE P == LowestValuePromotion(T, U)
    <2>1. P \in {T, U}
      BY DEF LowestValuePromotion
    <2>2. lowest(P) <= lowest(T) /\ lowest(P) <= lowest(U)
      <3>1. CASE T.signed /\ U.signed
        <4>1. P = MaxExponentPromotion(T, U)
          BY <3>1 DEF LowestValuePromotion, MaxExponentPromotion
        <4>2. P.signed
          BY <2>1, <3>1
        <4> QED
          BY <4>1, <4>2, WiderLimits
      <3>2. CASE ~T.signed /\ ~U.signed
        BY <1>1, <1>2, <2>1, <3>2
      <3>3. CASE T.signed /\ ~U.signed
        <4>1. P = T
          BY <3>3 DEF LowestValuePromotion
        <4> QED
          BY <1>1, <1>2, <3>3, <4>1
      <3>4. CASE ~T.signed /\ U.signed
        <4>1. P = U
          BY <3>4 DEF LowestValuePromotion
        <4> QED
          BY <1>1, <1>2, <3>4, <4>1
      <3> QED
        BY <1>1, <3>1, <3>2, <3>3, <3>4
    <2> HIDE DEF P
    <2> QED
      BY <1>1, <2>1, <2>2 DEF Values, P
  <1> QED
    BY <1>3, <1>4

Larger(x, y) == IF x > y THEN x ELSE y
Smaller(x, y) == IF x < y THEN x ELSE y

LEMMA LargerAnswered ==
  ASSUME NEW B \in Builds, NEW T \in Types, NEW U \in Types, NEW x \in Values(T), NEW y \in Values(U),
         NEW V, V = MaxExponentPromotion(T, U), NEW z, z = Larger(x, y),
         NEW checked, checked = CheckedMaxOp(B, T, U, V, x, y),
         NEW clamped, clamped = ClampedMaxOp(B, T, U, V, x, y)
  PROVE  /\ V \in {T, U} /\ V \in Types /\ z \in Values(V) /\ z \in Int
         /\ IsGreater(T, U, x, y) <=> x > y
         /\ Typed(checked) /\ Exactly(V, checked, z)
         /\ clamped = z
  <1>1. x \in Int /\ y \in Int /\ V \in {T, U} /\ V \in Types
    BY Limits DEF MaxExponentPromotion
  <1>2. z = IF x > y THEN x ELSE y
    BY DEF Larger
  <1>3. z \in Values(V) /\ z \in {x, y} /\ z \in Int
    BY <1>1, <1>2, ExtremesFit
  <1>4. IsGreater(T, U, x, y) <=> x > y
    BY CompareExact DEF IsGreater
  <1>5. z = IF IsGreater(T, U, x, y) THEN x ELSE y
    BY <1>2, <1>4
  <1>6. StaticCast(V, z) = z
    BY <1>1, <1>3, Cast1
  <1>7. checked = Narrowed(V, V, TRUE, z)
    BY <1>5, <1>6 DEF CheckedMaxOp
  <1>8. Typed(checked) /\ Exactly(V, checked, z)
    BY <1>1, <1>3, <1>7, NarrowedTyped, NarrowedExact
  <1>9. Nearest(V, z) = z
    BY <1>1, <1>3, Limits DEF Nearest, Values
  <1>10. clamped = Nearest(V, z)
    BY <1>1, <1>5, SaturationExact DEF ClampedMaxOp
  <1> QED
    BY <1>1, <1>3, <1>4, <1>8, <1>9, <1>10

LEMMA SmallerAnswered ==
  ASSUME NEW B \in Builds, NEW T \in Types, NEW U \in Types, NEW x \in Values(T), NEW y \in Values(U),
         NEW V, V = LowestValuePromotion(T, U), NEW z, z = Smaller(x, y),
         NEW checked, checked = CheckedMinOp(B, T, U, V, x, y),
         NEW clamped, clamped = ClampedMinOp(B, T, U, V, x, y)
  PROVE  /\ V \in {T, U} /\ V \in Types /\ z \in Values(V) /\ z \in Int
         /\ IsLess(T, U, x, y) <=> x < y
         /\ Typed(checked) /\ Exactly(V, checked, z)
         /\ clamped = z
  <1>1. x \in Int /\ y \in Int /\ V \in {T, U} /\ V \in Types
    BY Limits DEF LowestValuePromotion
  <1>2. z = IF x < y THEN x ELSE y
    BY DEF Smaller
  <1>3. z \in Values(V) /\ z \in {x, y} /\ z \in Int
    BY <1>1, <1>2, ExtremesFit
  <1>4. IsLess(T, U, x, y) <=> x < y
    BY CompareExact DEF IsLess
  <1>5. z = IF IsLess(T, U, x, y) THEN x ELSE y
    BY <1>2, <1>4
  <1>6. StaticCast(V, z) = z
    BY <1>1, <1>3, Cast1
  <1>7. checked = Narrowed(V, V, TRUE, z)
    BY <1>5, <1>6 DEF CheckedMinOp
  <1>8. Typed(checked) /\ Exactly(V, checked, z)
    BY <1>1, <1>3, <1>7, NarrowedTyped, NarrowedExact
  <1>9. Nearest(V, z) = z
    BY <1>1, <1>3, Limits DEF Nearest, Values
  <1>10. clamped = Nearest(V, z)
    BY <1>1, <1>5, SaturationExact DEF ClampedMinOp
  <1> QED
    BY <1>1, <1>3, <1>4, <1>8, <1>9, <1>10

(* The ?: of CheckedNumeric::Max and Min may take a negative value for a   *)
(* large one of the common type; the type of the result takes it back.     *)
LEMMA PickedBack ==
  ASSUME NEW T \in Types, NEW U \in Types, NEW V \in {T, U}, NEW S \in {T, U},
         NEW z \in Values(S), z \in Values(V)
  PROVE  /\ Converted(T, U, z) \in Int
         /\ StaticCast(V, Converted(T, U, z)) = z
  <1> DEFINE C == Common(T, U)
             c == StaticCast(C, z)
  <1>1. C \in Types /\ V \in Types /\ z \in Int /\ c \in Int /\ Converted(T, U, z) = c
    BY CommonHolds, Limits, Cast1 DEF Converted
  <1>2. V.bits <= C.bits /\ S.bits <= C.bits
    BY WidthsBounded, WidthsAssumption DEF Common, Promoted, int
  <1>3. CASE z >= 0 \/ C.signed
    <2>1. c = z
      BY <1>3, CommonHolds
    <2> HIDE DEF c
    <2> QED
      BY <1>1, <2>1, Cast1
  <1>4. CASE z < 0 /\ ~C.signed
    <2> HIDE DEF C
    <2>1. /\ Half(C) \in Nat \ {0} /\ Half(S) \in Nat \ {0}
          /\ lowest(C) = 0 /\ lowest(S) <= z /\ -Half(S) <= lowest(S) /\ lowest(S) \in Int
      BY <1>1, <1>4, HalfFacts, Limits DEF lowest, Values
    <2>2. Half(S) <= Half(C)
      <3>1. S.bits \in Nat /\ C.bits \in Nat
        BY <1>1, WidthsBounded
      <3>2. CASE S.bits = C.bits
        BY <1>1, <2>1, <3>2, HalfFacts
      <3>3. CASE S.bits < C.bits
        <4>1. 2 * Half(S) <= Half(C)
          BY <1>1, <3>3, HalfFacts
        <4> QED
          BY <2>1, <4>1
      <3> QED
        BY <1>2, <3>1, <3>2, <3>3
    <2>3. z < lowest(C) /\ lowest(C) - 2 * Half(C) <= z
      BY <1>1, <1>4, <2>1, <2>2
    <2>4. c = z + 2 * Half(C)
      BY <1>1, <2>3, Cast1
    <2>5. PICK k \in Nat : 2 * Half(C) = 2 * Half(V) * k
      BY <1>1, <1>2, RangeMultiple
    <2>6. c = z + 2 * Half(V) * k
      BY <2>4, <2>5
    <2> HIDE DEF c
    <2>7. StaticCast(V, c) = z
      BY <1>1, <2>6, CastIs
    <2> QED
      BY <1>1, <2>7
  <1> QED
    BY <1>1, <1>3, <1>4, HalfFacts

LEMMA PickedStep ==
  ASSUME IInv, NEW r \in Arguments, NEW V \in {T0, r.type}, NEW first, NEW exact,
         Picked(V, r, first, exact),
         NEW z \in Values(V), first => z = v0, ~first => z = r.value,
         exact = IF number.valid /\ r.valid THEN {z} ELSE {}
  PROVE  IInv'
  <1> DEFINE c == Converted(T0, r.type, z)
             d == StaticCast(V, c)
             valid == number.valid /\ r.valid
  <1>1. /\ Followed /\ Follow(exact, "agree")
        /\ number' = Checked(V, V, StaticCast(V, Converted(T0, r.type, IF first THEN v0 ELSE r.value)), valid)
    BY DEF Picked, IsChecked
  <1>2. /\ T0 \in Types /\ v0 \in Values(T0) /\ v0 \in Int /\ number.valid \in BOOLEAN
        /\ r.type \in Types /\ r.value \in Values(r.type) /\ r.value \in Int /\ r.valid \in BOOLEAN
    BY <1>1, StartsRight
  <1>3. V \in Types /\ z \in Int /\ valid \in BOOLEAN
    BY <1>2
  <1>4. d = z
    <2>1. z \in Values(T0) \/ z \in Values(r.type)
      BY <1>2
    <2> QED
      BY <1>2, <2>1, PickedBack
  <1>5. number' = Checked(V, V, d, valid)
    BY <1>1
  <1> HIDE DEF c, d, valid
  <1>6. StaticCast(V, z) = z
    BY <1>3, Cast1
  <1>7. number' = Object("CheckedNumeric", V, z, valid)
    BY <1>3, <1>4, <1>5, <1>6, CheckedMade
  <1>8. Agrees(number', exact)
    BY <1>7 DEF Agrees, Object, valid
  <1>9. exact \in SUBSET Int
    BY <1>3
  <1> QED
    BY <1>1, <1>3, <1>7, <1>8, <1>9, FollowKeeps DEF Classes

LEMMA MaxWithKeeps ==
  ASSUME IInv, MaxWith
  PROVE  IInv'
  <1>1. SUFFICES
          ASSUME NEW r \in Arguments,
                 LET V == MaxExponentPromotion(T0, r.type)
                     larger == {IF a > r.value THEN a ELSE r.value : a \in Operated(r)}
                     checked == CheckedMaxOp(build, T0, r.type, V, v0, r.value)
                     clamped == ClampedMaxOp(build, T0, r.type, V, v0, r.value)
                 IN  \/ CheckedMathOp(checked, r, V, larger, "agree")
                     \/ Picked(V, r, IsGreater(T0, r.type, v0, r.value), larger)
                     \/ ClampedMathOp(clamped, r, V, larger, "agree")
          PROVE  IInv'
    BY DEF MaxWith
  <1> DEFINE V == MaxExponentPromotion(T0, r.type)
             exact == {IF a > r.value THEN a ELSE r.value : a \in Operated(r)}
             z == IF v0 > r.value THEN v0 ELSE r.value
             first == IsGreater(T0, r.type, v0, r.value)
             checked == CheckedMaxOp(build, T0, r.type, V, v0, r.value)
             clamped == ClampedMaxOp(build, T0, r.type, V, v0, r.value)
  <1>2. IsChecked \/ IsClamped
    BY <1>1 DEF CheckedMathOp, ClampedMathOp, Picked
  <1>3. Followed
    BY <1>2 DEF IsChecked, IsClamped
  <1>4. /\ T0 \in Types /\ v0 \in Values(T0) /\ v0 \in Int /\ build \in Builds
        /\ r.type \in Types /\ r.value \in Values(r.type) /\ r.value \in Int
        /\ Operated(r) = IF number.valid /\ r.valid THEN {v0} ELSE {}
        /\ number.class = "ClampedNumeric" => number.valid /\ r.valid
    BY <1>3, StartsRight
  <1>5. exact = IF number.valid /\ r.valid THEN {z} ELSE {}
    BY <1>4
  <1>6. /\ z = Larger(v0, r.value) /\ V = MaxExponentPromotion(T0, r.type)
        /\ checked = CheckedMaxOp(build, T0, r.type, V, v0, r.value)
        /\ clamped = ClampedMaxOp(build, T0, r.type, V, v0, r.value)
        /\ v0 > r.value => z = v0
        /\ ~(v0 > r.value) => z = r.value
        /\ first = IsGreater(T0, r.type, v0, r.value)
    BY DEF Larger
  <1> HIDE DEF V, exact, z, first, checked, clamped
  <1>7. /\ V \in {T0, r.type} /\ V \in Types /\ z \in Values(V) /\ z \in Int
        /\ IsGreater(T0, r.type, v0, r.value) <=> v0 > r.value
        /\ Typed(checked) /\ Exactly(V, checked, z)
        /\ clamped = z
    BY <1>4, <1>6, LargerAnswered
  <1>8. /\ first => z = v0
        /\ ~first => z = r.value
        /\ V \in {T0, r.type} /\ z \in Values(V)
    BY <1>6, <1>7
  <1>9. CASE CheckedMathOp(checked, r, V, exact, "agree")
    <2>1. Sound(V, checked, z)
      BY <1>7 DEF Sound, Exactly
    <2> QED
      BY <1>5, <1>7, <1>9, <2>1, CheckedExactStep
  <1>10. CASE Picked(V, r, first, exact)
    BY <1>5, <1>8, <1>10, PickedStep
  <1>11. CASE ClampedMathOp(clamped, r, V, exact, "agree")
    <2>1. exact = {z}
      BY <1>4, <1>5, <1>11 DEF ClampedMathOp, IsClamped
    <2>2. Nearest(V, z) = z /\ StaticCast(V, z) = z
      BY <1>7, Limits, Cast1 DEF Nearest, Values
    <2> QED
      BY <1>7, <1>11, <2>1, <2>2, ClampedExactStep
  <1> QED
    BY <1>1, <1>9, <1>10, <1>11 DEF V, exact, first, checked, clamped

LEMMA MinWithKeeps ==
  ASSUME IInv, MinWith
  PROVE  IInv'
  <1>1. SUFFICES
          ASSUME NEW r \in Arguments,
                 LET V == LowestValuePromotion(T0, r.type)
                     smaller == {IF a < r.value THEN a ELSE r.value : a \in Operated(r)}
                     checked == CheckedMinOp(build, T0, r.type, V, v0, r.value)
                     clamped == ClampedMinOp(build, T0, r.type, V, v0, r.value)
                 IN  \/ CheckedMathOp(checked, r, V, smaller, "agree")
                     \/ Picked(V, r, IsLess(T0, r.type, v0, r.value), smaller)
                     \/ ClampedMathOp(clamped, r, V, smaller, "agree")
          PROVE  IInv'
    BY DEF MinWith
  <1> DEFINE V == LowestValuePromotion(T0, r.type)
             exact == {IF a < r.value THEN a ELSE r.value : a \in Operated(r)}
             z == IF v0 < r.value THEN v0 ELSE r.value
             first == IsLess(T0, r.type, v0, r.value)
             checked == CheckedMinOp(build, T0, r.type, V, v0, r.value)
             clamped == ClampedMinOp(build, T0, r.type, V, v0, r.value)
  <1>2. IsChecked \/ IsClamped
    BY <1>1 DEF CheckedMathOp, ClampedMathOp, Picked
  <1>3. Followed
    BY <1>2 DEF IsChecked, IsClamped
  <1>4. /\ T0 \in Types /\ v0 \in Values(T0) /\ v0 \in Int /\ build \in Builds
        /\ r.type \in Types /\ r.value \in Values(r.type) /\ r.value \in Int
        /\ Operated(r) = IF number.valid /\ r.valid THEN {v0} ELSE {}
        /\ number.class = "ClampedNumeric" => number.valid /\ r.valid
    BY <1>3, StartsRight
  <1>5. exact = IF number.valid /\ r.valid THEN {z} ELSE {}
    BY <1>4
  <1>6. /\ z = Smaller(v0, r.value) /\ V = LowestValuePromotion(T0, r.type)
        /\ checked = CheckedMinOp(build, T0, r.type, V, v0, r.value)
        /\ clamped = ClampedMinOp(build, T0, r.type, V, v0, r.value)
        /\ v0 < r.value => z = v0
        /\ ~(v0 < r.value) => z = r.value
        /\ first = IsLess(T0, r.type, v0, r.value)
    BY DEF Smaller
  <1> HIDE DEF V, exact, z, first, checked, clamped
  <1>7. /\ V \in {T0, r.type} /\ V \in Types /\ z \in Values(V) /\ z \in Int
        /\ IsLess(T0, r.type, v0, r.value) <=> v0 < r.value
        /\ Typed(checked) /\ Exactly(V, checked, z)
        /\ clamped = z
    BY <1>4, <1>6, SmallerAnswered
  <1>8. /\ first => z = v0
        /\ ~first => z = r.value
        /\ V \in {T0, r.type} /\ z \in Values(V)
    BY <1>6, <1>7
  <1>9. CASE CheckedMathOp(checked, r, V, exact, "agree")
    <2>1. Sound(V, checked, z)
      BY <1>7 DEF Sound, Exactly
    <2> QED
      BY <1>5, <1>7, <1>9, <2>1, CheckedExactStep
  <1>10. CASE Picked(V, r, first, exact)
    BY <1>5, <1>8, <1>10, PickedStep
  <1>11. CASE ClampedMathOp(clamped, r, V, exact, "agree")
    <2>1. exact = {z}
      BY <1>4, <1>5, <1>11 DEF ClampedMathOp, IsClamped
    <2>2. Nearest(V, z) = z /\ StaticCast(V, z) = z
      BY <1>7, Limits, Cast1 DEF Nearest, Values
    <2> QED
      BY <1>7, <1>11, <2>1, <2>2, ClampedExactStep
  <1> QED
    BY <1>1, <1>9, <1>10, <1>11 DEF V, exact, first, checked, clamped

-----------------------------------------------------------------------------
(* Bits. *)

Apart(T, u, v, k) == u = v + 2 * Half(T) * k

(* Values that a type takes for the same have the same bits in it.         *)
LEMMA BitPeriodic ==
  ASSUME NEW T \in Types, NEW v \in Int, NEW k \in Int, NEW u \in Int, Apart(T, u, v, k),
         NEW i \in 0 .. T.bits - 1
  PROVE  (u \div 2 ^ i) % 2 = (v \div 2 ^ i) % 2
  <1> DEFINE m == 2 ^ i
             j == T.bits - 1 - i
             p == 2 ^ j
             d == v \div m
             e == v % m
             c == d \div 2
             b == d % 2
  <1>0. u = v + 2 * Half(T) * k
    BY DEF Apart
  <1>1. /\ i \in Nat /\ j \in Nat /\ i + j = T.bits - 1 /\ i + j <= IntmaxWidth
        /\ i \in 0 .. IntmaxWidth /\ j \in 0 .. IntmaxWidth
    BY WidthsBounded
  <1>2. m \in Nat \ {0} /\ p \in Nat \ {0}
    BY <1>1, PowerPositive
  <1>3. Half(T) = m * p
    <2>1. 2 ^ (i + j) = m * p
      BY <1>1, PowerOfSum
    <2> QED
      BY <1>1, <2>1 DEF Half
  <1> HIDE DEF m, p, j
  <1>4. d \in Int /\ e \in 0 .. m - 1 /\ v = m * d + e
    BY <1>2, SMTT(30)
  <1> HIDE DEF d, e
  <1>5. c \in Int /\ b \in 0 .. 1 /\ d = 2 * c + b
    BY <1>4, SMTT(30)
  <1> HIDE DEF c, b
  <1> DEFINE pk == p * k
             f == d + 2 * pk
             g == c + pk
  <1>6. pk \in Int
    BY <1>2
  <1>7. 2 * Half(T) * k = m * (2 * pk)
    <2>1. \A x, y, z \in Int : 2 * (x * y) * z = x * (2 * (y * z))
      BY SMTT(30)
    <2> QED
      BY <1>2, <1>3, <2>1
  <1> HIDE DEF pk
  <1>8. m * d + m * (2 * pk) = m * f /\ f \in Int /\ g \in Int
    BY <1>2, <1>4, <1>5, <1>6
  <1>9. u = m * f + e
    <2> DEFINE md == m * d
               mp == m * (2 * pk)
               mf == m * f
    <2>1. md \in Int /\ mp \in Int /\ mf \in Int /\ md + mp = mf /\ v = md + e /\ u = v + mp
      BY <1>0, <1>2, <1>4, <1>6, <1>7, <1>8
    <2> HIDE DEF md, mp, mf, f
    <2>2. u = mf + e
      BY <1>2, <1>4, <2>1
    <2> QED
      BY <2>2 DEF mf
  <1>10. f = 2 * g + b
    BY <1>4, <1>5, <1>6
  <1> HIDE DEF f, g
  <1>11. u \div m = f
    <2>1. Divided(u, m, f, e)
      BY <1>4, <1>9 DEF Divided
    <2> QED
      BY <1>2, <1>4, <1>8, <2>1, DivisionUnique
  <1>12. f % 2 = b
    <2>1. Divided(f, 2, g, b)
      BY <1>5, <1>10 DEF Divided
    <2> QED
      BY <1>5, <1>8, <2>1, DivisionUnique
  <1> QED
    BY <1>11, <1>12 DEF m, d, b

LEMMA CastApart ==
  ASSUME NEW T \in Types, NEW v \in Int
  PROVE  \E k \in Int : Apart(T, v, StaticCast(T, v), k)
  <1> DEFINE m == 2 * Half(T)
             a == v - lowest(T)
             q == a \div m
             c == StaticCast(T, v)
  <1>1. m \in Nat \ {0} /\ lowest(T) \in Int /\ a \in Int /\ c \in Int
    BY Limits, Cast1
  <1>2. c = lowest(T) + (a % m)
    BY DEF StaticCast
  <1>3. q \in Int /\ a % m \in Int /\ a = m * q + (a % m) /\ m * q \in Int
    BY <1>1, SMTT(30)
  <1>4. v = c + m * q
    <2> DEFINE mq == m * q
               rest == a % m
    <2>1. mq \in Int /\ rest \in Int /\ a = mq + rest /\ c = lowest(T) + rest /\ a = v - lowest(T)
      BY <1>2, <1>3
    <2> HIDE DEF mq, rest, c, m, a
    <2>2. v = c + mq
      BY <1>1, <2>1
    <2> QED
      BY <2>2 DEF mq
  <1> HIDE DEF q, c, a
  <1>5. Apart(T, v, c, q)
    BY <1>4 DEF Apart, m
  <1> QED
    BY <1>3, <1>5 DEF c

LEMMA BitsConverted ==
  ASSUME NEW T \in Types, NEW v \in Int
  PROVE  Bits(T, StaticCast(T, v)) = Bits(T, v)
  <1> DEFINE c == StaticCast(T, v)
  <1>1. c \in Int
    BY Cast1
  <1>2. PICK k \in Int : Apart(T, v, c, k)
    BY CastApart
  <1> HIDE DEF c
  <1>3. ASSUME NEW i \in 0 .. T.bits - 1
        PROVE  (v \div 2 ^ i) % 2 = (c \div 2 ^ i) % 2
    BY <1>1, <1>2, BitPeriodic
  <1> QED
    BY <1>3 DEF Bits, c

(* The sum that OfBits builds up, and the equation that defines it.        *)
Weight(bits, n) == IF n - 1 \in bits THEN 2 ^ (n - 1) ELSE 0
SumsOf(bits, f) ==
  f = [n \in 0 .. IntmaxWidth |-> IF n = 0 THEN 0 ELSE f[n - 1] + Weight(bits, n)]

LEMMA WeightBounded ==
  ASSUME NEW bits, NEW n \in 1 .. IntmaxWidth
  PROVE  /\ n - 1 \in 0 .. IntmaxWidth
         /\ Weight(bits, n) \in Nat /\ Weight(bits, n) <= 2 ^ (n - 1)
         /\ 2 ^ (n - 1) \in Nat /\ 2 ^ n = 2 * 2 ^ (n - 1)
  <1>1. IntmaxWidth \in Nat /\ n - 1 \in 0 .. IntmaxWidth - 1 /\ n - 1 \in 0 .. IntmaxWidth /\ n = (n - 1) + 1
    BY WidthsAssumption
  <1>2. 2 ^ (n - 1) \in Nat
    BY <1>1, PowerPositive
  <1>3. 2 ^ ((n - 1) + 1) = 2 * 2 ^ (n - 1)
    BY <1>1, PowersAssumption
  <1>4. 2 ^ ((n - 1) + 1) = 2 ^ n
    BY <1>1
  <1>5. Weight(bits, n) \in Nat /\ Weight(bits, n) <= 2 ^ (n - 1)
    BY <1>2 DEF Weight
  <1> QED
    BY <1>1, <1>2, <1>3, <1>4, <1>5

LEMMA SumsExist ==
  ASSUME NEW bits
  PROVE  \E f : SumsOf(bits, f)
  <1> DEFINE D == 0 .. IntmaxWidth
             step(f, n) == f[n] = IF n = 0 THEN 0 ELSE f[n - 1] + Weight(bits, n)
             S == {k \in Nat : k <= IntmaxWidth => \E f \in [D -> Nat] : \A n \in 0 .. k : step(f, n)}
  <1>0. IntmaxWidth \in Nat
    BY WidthsAssumption
  <1>1. 0 \in S
    <2> DEFINE f == [n \in D |-> 0]
    <2>1. f \in [D -> Nat] /\ \A n \in 0 .. 0 : step(f, n)
      BY <1>0
    <2> HIDE DEF f, step
    <2> QED
      BY <2>1
  <1>2. ASSUME NEW k \in Nat, k \in S
        PROVE  k + 1 \in S
    <2>1. SUFFICES ASSUME k + 1 <= IntmaxWidth
                   PROVE  \E f \in [D -> Nat] : \A n \in 0 .. k + 1 : step(f, n)
      OBVIOUS
    <2>2. PICK f \in [D -> Nat] : \A n \in 0 .. k : step(f, n)
      BY <1>0, <1>2, <2>1
    <2>3. k + 1 \in 1 .. IntmaxWidth /\ k \in D /\ k + 1 \in D /\ (k + 1) - 1 = k
      BY <1>0, <2>1
    <2> DEFINE w == Weight(bits, k + 1)
               g == [f EXCEPT ![k + 1] = f[k] + w]
    <2>4. w \in Nat
      BY <2>3, WeightBounded
    <2>5. w = Weight(bits, k + 1)
      OBVIOUS
    <2> HIDE DEF w
    <2>6. g \in [D -> Nat] /\ g[k + 1] = f[k] + w /\ \A n \in 0 .. k : g[n] = f[n]
      BY <1>0, <2>3, <2>4
    <2> HIDE DEF g
    <2>7. step(g, k + 1)
      BY <2>3, <2>5, <2>6
    <2>8. ASSUME NEW n \in 0 .. k
          PROVE  step(g, n)
      BY <2>2, <2>6
    <2>9. \A n \in 0 .. k + 1 : n = k + 1 \/ n \in 0 .. k
      OBVIOUS
    <2> HIDE DEF step
    <2> QED
      BY <2>6, <2>7, <2>8, <2>9
  <1>3. IntmaxWidth \in S
    <2> HIDE DEF S
    <2>1. Nat \subseteq S
      BY <1>1, <1>2, InductiveSet
    <2> QED
      BY <1>0, <2>1
  <1>4. PICK f \in [D -> Nat] : \A n \in D : step(f, n)
    BY <1>0, <1>3
  <1>5. f = [n \in D |-> IF n = 0 THEN 0 ELSE f[n - 1] + Weight(bits, n)]
    BY <1>4
  <1> QED
    BY <1>5 DEF SumsOf

LEMMA BitsBounded ==
  ASSUME NEW T \in Types, NEW bits, bits \subseteq 0 .. T.bits - 1
  PROVE  OfBits(bits) \in 0 .. 2 * Half(T) - 1
  <1> DEFINE below == CHOOSE f : f = [n \in 0 .. IntmaxWidth |->
                        IF n = 0 THEN 0
                        ELSE f[n - 1] + (IF n - 1 \in bits THEN 2 ^ (n - 1) ELSE 0)]
             b == T.bits
             S == {k \in Nat : k <= IntmaxWidth =>
                     /\ below[k] \in Nat
                     /\ k <= b => below[k] < 2 ^ k
                     /\ k >= b => below[k] < 2 ^ b}
  <1>0. IntmaxWidth \in Nat /\ b \in Nat /\ b <= IntmaxWidth /\ b \in 0 .. IntmaxWidth
    BY WidthsBounded
  <1>1. SumsOf(bits, below)
    <2>1. \E f : f = [n \in 0 .. IntmaxWidth |->
                    IF n = 0 THEN 0
                    ELSE f[n - 1] + (IF n - 1 \in bits THEN 2 ^ (n - 1) ELSE 0)]
      BY SumsExist DEF SumsOf, Weight
    <2>2. below = [n \in 0 .. IntmaxWidth |->
                    IF n = 0 THEN 0
                    ELSE below[n - 1] + (IF n - 1 \in bits THEN 2 ^ (n - 1) ELSE 0)]
      BY <2>1
    <2> QED
      BY <2>2 DEF SumsOf, Weight
  <1>2. OfBits(bits) = below[IntmaxWidth]
    BY DEF OfBits
  <1> HIDE DEF below
  <1>3. \A n \in 0 .. IntmaxWidth : below[n] = IF n = 0 THEN 0 ELSE below[n - 1] + Weight(bits, n)
    BY <1>1 DEF SumsOf
  <1>4. 0 \in S
    <2>1. below[0] = 0 /\ 2 ^ 0 = 1 /\ 2 ^ b \in Nat \ {0}
      BY <1>0, <1>3, PowerPositive
    <2> QED
      BY <2>1
  <1>5. ASSUME NEW k \in Nat, k \in S
        PROVE  k + 1 \in S
    <2>1. SUFFICES ASSUME k + 1 <= IntmaxWidth
                   PROVE  /\ below[k + 1] \in Nat
                          /\ k + 1 <= b => below[k + 1] < 2 ^ (k + 1)
                          /\ k + 1 >= b => below[k + 1] < 2 ^ b
      OBVIOUS
    <2>2. k + 1 \in 1 .. IntmaxWidth /\ k + 1 \in 0 .. IntmaxWidth /\ k \in 0 .. IntmaxWidth
          /\ (k + 1) - 1 = k /\ k <= IntmaxWidth /\ k + 1 # 0
      BY <1>0, <2>1
    <2> DEFINE w == Weight(bits, k + 1)
    <2>3. below[k + 1] = below[k] + w
      BY <1>3, <2>2
    <2>4. /\ below[k] \in Nat
          /\ k <= b => below[k] < 2 ^ k
          /\ k >= b => below[k] < 2 ^ b
      BY <1>5, <2>2
    <2>5. w \in Nat /\ w <= 2 ^ k /\ 2 ^ k \in Nat /\ 2 ^ (k + 1) = 2 * 2 ^ k
      BY <2>2, WeightBounded
    <2>6. k >= b => w = 0
      BY <1>0, <2>2 DEF Weight
    <2>7. k + 1 = b => 2 ^ (k + 1) = 2 ^ b
      OBVIOUS
    <2> HIDE DEF w
    <2>8. CASE k >= b
      BY <1>0, <2>3, <2>4, <2>6, <2>8
    <2>9. CASE k < b
      <3>1. below[k + 1] \in Nat /\ below[k + 1] < 2 ^ (k + 1)
        BY <1>0, <2>3, <2>4, <2>5, <2>9
      <3> QED
        BY <1>0, <2>7, <2>9, <3>1
    <2> QED
      BY <1>0, <2>8, <2>9
  <1>6. IntmaxWidth \in S
    <2> HIDE DEF S
    <2>1. Nat \subseteq S
      BY <1>4, <1>5, InductiveSet
    <2> QED
      BY <1>0, <2>1
  <1>7. below[IntmaxWidth] \in Nat /\ below[IntmaxWidth] < 2 ^ b
    BY <1>0, <1>6
  <1>8. 2 ^ b = 2 * Half(T) /\ 2 * Half(T) \in Nat
    BY MaxIsPower, Limits
  <1> QED
    BY <1>2, <1>7, <1>8

(* What And, Or and Xor make of the values is what the type in which they  *)
(* work makes of their bits, and it has that value.                        *)
LEMMA BitsTyped ==
  ASSUME NEW T \in Types, NEW U \in Types, NEW W, W = BitsType(T, U)
  PROVE  W \in Types /\ lowest(W) = 0 /\ max(W) = 2 * Half(W) - 1
  <1>1. MaxExponentPromotion(T, U) \in Types
    BY DEF MaxExponentPromotion
  <1> QED
    BY <1>1, AsUnsigned DEF BitsType

LEMMA BitsOfExact ==
  ASSUME NEW T \in Types, NEW U \in Types, NEW W, W = BitsType(T, U), NEW x \in Int
  PROVE  BitsOf(T, U, x) = Bits(W, x) /\ Bits(W, x) \subseteq 0 .. W.bits - 1
  <1>1. BitsOf(T, U, x) = Bits(W, x)
    BY BitsTyped, BitsConverted DEF BitsOf
  <1> QED
    BY <1>1 DEF Bits

LEMMA BitsValued ==
  ASSUME NEW W \in Types, lowest(W) = 0, max(W) = 2 * Half(W) - 1,
         NEW bits, bits \subseteq 0 .. W.bits - 1
  PROVE  OfBits(bits) \in Values(W)
  BY BitsBounded DEF Values

LEMMA AndExact ==
  ASSUME NEW T \in Types, NEW U \in Types, NEW x \in Int, NEW y \in Int,
         NEW W, W = BitsType(T, U)
  PROVE  And(T, U, x, y) = OfBits(Bits(W, x) \cap Bits(W, y)) /\ And(T, U, x, y) \in Values(W)
  <1>1. W \in Types /\ lowest(W) = 0 /\ max(W) = 2 * Half(W) - 1
    BY BitsTyped
  <1>2. /\ BitsOf(T, U, x) = Bits(W, x) /\ Bits(W, x) \subseteq 0 .. W.bits - 1
        /\ BitsOf(T, U, y) = Bits(W, y) /\ Bits(W, y) \subseteq 0 .. W.bits - 1
    BY BitsOfExact
  <1> DEFINE bits == Bits(W, x) \cap Bits(W, y)
  <1>3. bits \subseteq 0 .. W.bits - 1
    BY <1>2
  <1>4. And(T, U, x, y) = OfBits(bits)
    BY <1>2 DEF And
  <1> HIDE DEF bits
  <1>5. OfBits(bits) \in Values(W)
    BY <1>1, <1>3, BitsValued
  <1> QED
    BY <1>4, <1>5 DEF bits

LEMMA OrExact ==
  ASSUME NEW T \in Types, NEW U \in Types, NEW x \in Int, NEW y \in Int,
         NEW W, W = BitsType(T, U)
  PROVE  Or(T, U, x, y) = OfBits(Bits(W, x) \cup Bits(W, y)) /\ Or(T, U, x, y) \in Values(W)
  <1>1. W \in Types /\ lowest(W) = 0 /\ max(W) = 2 * Half(W) - 1
    BY BitsTyped
  <1>2. /\ BitsOf(T, U, x) = Bits(W, x) /\ Bits(W, x) \subseteq 0 .. W.bits - 1
        /\ BitsOf(T, U, y) = Bits(W, y) /\ Bits(W, y) \subseteq 0 .. W.bits - 1
    BY BitsOfExact
  <1> DEFINE bits == Bits(W, x) \cup Bits(W, y)
  <1>3. bits \subseteq 0 .. W.bits - 1
    BY <1>2
  <1>4. Or(T, U, x, y) = OfBits(bits)
    BY <1>2 DEF Or
  <1> HIDE DEF bits
  <1>5. OfBits(bits) \in Values(W)
    BY <1>1, <1>3, BitsValued
  <1> QED
    BY <1>4, <1>5 DEF bits

LEMMA XorExact ==
  ASSUME NEW T \in Types, NEW U \in Types, NEW x \in Int, NEW y \in Int,
         NEW W, W = BitsType(T, U)
  PROVE  Xor(T, U, x, y) = OfBits(SymDiff(Bits(W, x), Bits(W, y))) /\ Xor(T, U, x, y) \in Values(W)
  <1>1. W \in Types /\ lowest(W) = 0 /\ max(W) = 2 * Half(W) - 1
    BY BitsTyped
  <1>2. /\ BitsOf(T, U, x) = Bits(W, x) /\ Bits(W, x) \subseteq 0 .. W.bits - 1
        /\ BitsOf(T, U, y) = Bits(W, y) /\ Bits(W, y) \subseteq 0 .. W.bits - 1
    BY BitsOfExact
  <1> DEFINE bits == SymDiff(Bits(W, x), Bits(W, y))
  <1>3. bits \subseteq 0 .. W.bits - 1
    BY <1>2 DEF SymDiff
  <1>4. Xor(T, U, x, y) = OfBits(bits)
    BY <1>2 DEF Xor
  <1> HIDE DEF bits
  <1>5. OfBits(bits) \in Values(W)
    BY <1>1, <1>3, BitsValued
  <1> QED
    BY <1>4, <1>5 DEF bits

(* Any of the three operations, whose result is the value n of W.          *)
LEMMA BitOpStep ==
  ASSUME IInv, NEW r \in Arguments, NEW V \in Types, NEW W \in Types, NEW n \in Values(W),
         NEW checked, checked = Narrowed(V, W, TRUE, n),
         NEW clamped, clamped = StaticCast(V, n),
         NEW bits, Followed => bits = {n : a \in Operated(r)},
         BitOp(checked, clamped, bits, r, V)
  PROVE  IInv'
  <1>1. IsChecked \/ IsClamped
    BY DEF BitOp, CheckedMathOp, ClampedMathOp
  <1>2. Followed
    BY <1>1 DEF IsChecked, IsClamped
  <1>3. /\ Operated(r) = IF number.valid /\ r.valid THEN {v0} ELSE {}
        /\ number.class = "ClampedNumeric" => number.valid /\ r.valid
    BY <1>2, StartsRight
  <1>4. bits = IF number.valid /\ r.valid THEN {n} ELSE {}
    BY <1>2, <1>3
  <1>5. n \in Int /\ clamped \in Int /\ clamped \in Values(V)
    BY Limits, Cast1
  <1>6. Typed(checked) /\ Exactly(V, checked, n)
    BY <1>5, NarrowedTyped, NarrowedExact
  <1>7. Sound(V, checked, n)
    BY <1>6 DEF Sound, Exactly
  <1>8. CASE CheckedMathOp(checked, r, V, bits, "agree")
    BY <1>4, <1>5, <1>6, <1>7, <1>8, CheckedExactStep
  <1>9. CASE ClampedMathOp(clamped, r, V, {StaticCast(V, m) : m \in bits}, "agree")
    <2>1. bits = {n}
      BY <1>3, <1>4, <1>9 DEF ClampedMathOp, IsClamped
    <2>2. {StaticCast(V, m) : m \in bits} = {clamped}
      BY <2>1
    <2>3. Nearest(V, clamped) = clamped /\ StaticCast(V, clamped) = clamped
      BY <1>5, Limits, Cast1 DEF Nearest, Values
    <2> QED
      BY <1>5, <1>9, <2>2, <2>3, ClampedExactStep
  <1> QED
    BY <1>8, <1>9 DEF BitOp

LEMMA AndWithKeeps ==
  ASSUME IInv, AndWith
  PROVE  IInv'
  <1>1. SUFFICES
          ASSUME NEW r \in Arguments, NEW V \in ResultTypes(BitsType(T0, r.type)),
                 LET W == BitsType(T0, r.type)
                     bits == {OfBits(Bits(W, a) \cap Bits(W, r.value)) : a \in Operated(r)}
                     checked == CheckedAndOp(build, T0, r.type, V, v0, r.value)
                     clamped == ClampedAndOp(build, T0, r.type, V, v0, r.value)
                 IN  BitOp(checked, clamped, bits, r, V)
          PROVE  IInv'
    BY DEF AndWith
  <1> DEFINE W == BitsType(T0, r.type)
             n == And(T0, r.type, v0, r.value)
             bits == {OfBits(Bits(W, a) \cap Bits(W, r.value)) : a \in Operated(r)}
             checked == CheckedAndOp(build, T0, r.type, V, v0, r.value)
             clamped == ClampedAndOp(build, T0, r.type, V, v0, r.value)
  <1>2. T0 \in Types
    BY DEF IInv, TypeOK, T0
  <1>3. r.type \in Types /\ r.value \in Int /\ v0 \in Int
    BY OperandsTyped, Limits DEF Arguments, IInv, TypeOK, v0
  <1>4. W = BitsType(T0, r.type) /\ n = And(T0, r.type, v0, r.value)
    OBVIOUS
  <1> HIDE DEF W, n
  <1>5. W \in Types /\ n \in Values(W) /\ n = OfBits(Bits(W, v0) \cap Bits(W, r.value))
    <2>1. W \in Types
      BY <1>2, <1>3, <1>4, BitsTyped
    <2>2. n \in Values(W) /\ n = OfBits(Bits(W, v0) \cap Bits(W, r.value))
      BY <1>2, <1>3, <1>4, AndExact
    <2> QED
      BY <2>1, <2>2
  <1>6. V \in Types
    BY <1>2, <1>4, <1>5 DEF ResultTypes
  <1>7. checked = Narrowed(V, W, TRUE, n) /\ clamped = StaticCast(V, n)
    BY DEF CheckedAndOp, ClampedAndOp, W, n
  <1>8. Followed => bits = {n : a \in Operated(r)}
    <2>1. SUFFICES ASSUME Followed
                   PROVE  bits = {n : a \in Operated(r)}
      OBVIOUS
    <2>2. Operated(r) = IF number.valid /\ r.valid THEN {v0} ELSE {}
      BY <2>1, StartsRight
    <2>3. \A a \in Operated(r) : a = v0
      BY <2>2
    <2> QED
      BY <1>5, <2>3
  <1> HIDE DEF bits, checked, clamped
  <1>9. BitOp(checked, clamped, bits, r, V)
    BY <1>1 DEF W, bits, checked, clamped
  <1> QED
    BY <1>5, <1>6, <1>7, <1>8, <1>9, BitOpStep

LEMMA OrWithKeeps ==
  ASSUME IInv, OrWith
  PROVE  IInv'
  <1>1. SUFFICES
          ASSUME NEW r \in Arguments, NEW V \in ResultTypes(BitsType(T0, r.type)),
                 LET W == BitsType(T0, r.type)
                     bits == {OfBits(Bits(W, a) \cup Bits(W, r.value)) : a \in Operated(r)}
                     checked == CheckedOrOp(build, T0, r.type, V, v0, r.value)
                     clamped == ClampedOrOp(build, T0, r.type, V, v0, r.value)
                 IN  BitOp(checked, clamped, bits, r, V)
          PROVE  IInv'
    BY DEF OrWith
  <1> DEFINE W == BitsType(T0, r.type)
             n == Or(T0, r.type, v0, r.value)
             bits == {OfBits(Bits(W, a) \cup Bits(W, r.value)) : a \in Operated(r)}
             checked == CheckedOrOp(build, T0, r.type, V, v0, r.value)
             clamped == ClampedOrOp(build, T0, r.type, V, v0, r.value)
  <1>2. T0 \in Types
    BY DEF IInv, TypeOK, T0
  <1>3. r.type \in Types /\ r.value \in Int /\ v0 \in Int
    BY OperandsTyped, Limits DEF Arguments, IInv, TypeOK, v0
  <1>4. W = BitsType(T0, r.type) /\ n = Or(T0, r.type, v0, r.value)
    OBVIOUS
  <1> HIDE DEF W, n
  <1>5. W \in Types /\ n \in Values(W) /\ n = OfBits(Bits(W, v0) \cup Bits(W, r.value))
    <2>1. W \in Types
      BY <1>2, <1>3, <1>4, BitsTyped
    <2>2. n \in Values(W) /\ n = OfBits(Bits(W, v0) \cup Bits(W, r.value))
      BY <1>2, <1>3, <1>4, OrExact
    <2> QED
      BY <2>1, <2>2
  <1>6. V \in Types
    BY <1>2, <1>4, <1>5 DEF ResultTypes
  <1>7. checked = Narrowed(V, W, TRUE, n) /\ clamped = StaticCast(V, n)
    BY DEF CheckedOrOp, ClampedOrOp, W, n
  <1>8. Followed => bits = {n : a \in Operated(r)}
    <2>1. SUFFICES ASSUME Followed
                   PROVE  bits = {n : a \in Operated(r)}
      OBVIOUS
    <2>2. Operated(r) = IF number.valid /\ r.valid THEN {v0} ELSE {}
      BY <2>1, StartsRight
    <2>3. \A a \in Operated(r) : a = v0
      BY <2>2
    <2> QED
      BY <1>5, <2>3
  <1> HIDE DEF bits, checked, clamped
  <1>9. BitOp(checked, clamped, bits, r, V)
    BY <1>1 DEF W, bits, checked, clamped
  <1> QED
    BY <1>5, <1>6, <1>7, <1>8, <1>9, BitOpStep

LEMMA XorWithKeeps ==
  ASSUME IInv, XorWith
  PROVE  IInv'
  <1>1. SUFFICES
          ASSUME NEW r \in Arguments, NEW V \in ResultTypes(BitsType(T0, r.type)),
                 LET W == BitsType(T0, r.type)
                     bits == {OfBits(SymDiff(Bits(W, a), Bits(W, r.value))) : a \in Operated(r)}
                     checked == CheckedXorOp(build, T0, r.type, V, v0, r.value)
                     clamped == ClampedXorOp(build, T0, r.type, V, v0, r.value)
                 IN  BitOp(checked, clamped, bits, r, V)
          PROVE  IInv'
    BY DEF XorWith
  <1> DEFINE W == BitsType(T0, r.type)
             n == Xor(T0, r.type, v0, r.value)
             bits == {OfBits(SymDiff(Bits(W, a), Bits(W, r.value))) : a \in Operated(r)}
             checked == CheckedXorOp(build, T0, r.type, V, v0, r.value)
             clamped == ClampedXorOp(build, T0, r.type, V, v0, r.value)
  <1>2. T0 \in Types
    BY DEF IInv, TypeOK, T0
  <1>3. r.type \in Types /\ r.value \in Int /\ v0 \in Int
    BY OperandsTyped, Limits DEF Arguments, IInv, TypeOK, v0
  <1>4. W = BitsType(T0, r.type) /\ n = Xor(T0, r.type, v0, r.value)
    OBVIOUS
  <1> HIDE DEF W, n
  <1>5. W \in Types /\ n \in Values(W) /\ n = OfBits(SymDiff(Bits(W, v0), Bits(W, r.value)))
    <2>1. W \in Types
      BY <1>2, <1>3, <1>4, BitsTyped
    <2>2. n \in Values(W) /\ n = OfBits(SymDiff(Bits(W, v0), Bits(W, r.value)))
      BY <1>2, <1>3, <1>4, XorExact
    <2> QED
      BY <2>1, <2>2
  <1>6. V \in Types
    BY <1>2, <1>4, <1>5 DEF ResultTypes
  <1>7. checked = Narrowed(V, W, TRUE, n) /\ clamped = StaticCast(V, n)
    BY DEF CheckedXorOp, ClampedXorOp, W, n
  <1>8. Followed => bits = {n : a \in Operated(r)}
    <2>1. SUFFICES ASSUME Followed
                   PROVE  bits = {n : a \in Operated(r)}
      OBVIOUS
    <2>2. Operated(r) = IF number.valid /\ r.valid THEN {v0} ELSE {}
      BY <2>1, StartsRight
    <2>3. \A a \in Operated(r) : a = v0
      BY <2>2
    <2> QED
      BY <1>5, <2>3
  <1> HIDE DEF bits, checked, clamped
  <1>9. BitOp(checked, clamped, bits, r, V)
    BY <1>1 DEF W, bits, checked, clamped
  <1> QED
    BY <1>5, <1>6, <1>7, <1>8, <1>9, BitOpStep

-----------------------------------------------------------------------------
(* Unary operations and conversions. *)

LEMMA ObjectStarts ==
  ASSUME IInv, Followed
  PROVE  /\ T0 \in Types /\ v0 \in Values(T0) /\ v0 \in Int /\ number.valid \in BOOLEAN
         /\ ideal = IF number.valid THEN {v0} ELSE {}
         /\ number.class = "ClampedNumeric" => number.valid
         /\ build \in Builds
  <1>1. /\ T0 \in Types /\ v0 \in Values(T0) /\ v0 \in Int /\ number.valid \in BOOLEAN
        /\ build \in Builds
    BY DEF IInv, TypeOK, T0, v0
  <1>2. ideal = IF number.valid THEN {v0} ELSE {}
    BY DEF IInv, Agreement, Agrees, Followed, v0
  <1>3. number.class = "ClampedNumeric" => number.valid
    BY DEF IInv, Agreement
  <1> QED
    BY <1>1, <1>2, <1>3

LEMMA MadeKeeps ==
  ASSUME IInv, NEW V \in Types, NEW class \in Classes, NEW n \in Values(V), NEW valid \in BOOLEAN,
         number' = Object(class, V, n, valid), class = "ClampedNumeric" => valid,
         NEW S \in SUBSET Int, NEW may, Follow(S, may),
         \/ S = IF valid THEN {n} ELSE {}
         \/ may = "refuse" /\ ~valid
         \/ may = "differ"
  PROVE  IInv'
  <1>1. number'.valid = valid /\ number'.value = n
    BY DEF Object
  <1>2. \/ Agrees(number', S)
        \/ may = "refuse" /\ ~valid
        \/ may = "differ"
    BY <1>1 DEF Agrees
  <1> QED
    BY <1>2, FollowKeeps

LEMMA CastKeeps ==
  ASSUME IInv, NEW D \in Types, Cast(D)
  PROVE  IInv'
  <1>1. Followed
    BY DEF Cast, IsChecked, IsClamped
  <1>2. /\ T0 \in Types /\ v0 \in Values(T0) /\ v0 \in Int /\ number.valid \in BOOLEAN
        /\ ideal = IF number.valid THEN {v0} ELSE {}
        /\ number.class = "ClampedNumeric" => number.valid
    BY <1>1, ObjectStarts
  <1>3. CASE IsChecked /\ number' = Checked(D, T0, v0, number.valid) /\ Follow(Fitting(D, ideal), "agree")
    <2> DEFINE n == StaticCast(D, v0)
               valid == number.valid /\ v0 \in Values(D)
               S == Fitting(D, ideal)
    <2>1. n \in Values(D) /\ valid \in BOOLEAN /\ valid = (number.valid /\ v0 \in Values(D))
      BY <1>2, Cast1
    <2>2. S = IF valid THEN {n} ELSE {}
      BY <1>2, Cast1 DEF Fitting
    <2> HIDE DEF valid
    <2>3. number' = Object("CheckedNumeric", D, n, valid)
      BY <1>2, <1>3, <2>1, CheckedConverted
    <2>4. S \in SUBSET Int
      BY <1>2 DEF Fitting
    <2> HIDE DEF n
    <2> QED
      BY <1>3, <2>1, <2>2, <2>3, <2>4, MadeKeeps DEF Classes
  <1>4. CASE IsClamped /\ number' = Clamped(D, T0, v0) /\ Follow(Clamp(D, ideal), "agree")
    <2> DEFINE n == Nearest(D, v0)
               S == Clamp(D, ideal)
    <2>1. number' = Object("ClampedNumeric", D, n, TRUE) /\ n \in Values(D)
      BY <1>2, <1>4, ClampedConverted
    <2>2. ideal = {v0}
      BY <1>2, <1>4 DEF IsClamped
    <2>3. S = {n} /\ S \in SUBSET Int
      BY <2>1, <2>2, Limits DEF Clamp
    <2> HIDE DEF n
    <2> QED
      BY <1>4, <2>1, <2>3, MadeKeeps DEF Classes
  <1> QED
    BY <1>3, <1>4 DEF Cast

(* 0 - x in the unsigned type, and back.                                   *)
LEMMA NegateWraps ==
  ASSUME NEW T \in Types, NEW v \in Values(T), NEW h, h = Half(T)
  PROVE  /\ NegateWrapper(T, v) \in Values(T) /\ h \in Nat \ {0} /\ v \in Int
         /\ ~T.signed => lowest(T) = 0 /\ NegateWrapper(T, v) = StaticCast(T, -v)
         /\ T.signed => /\ lowest(T) = -h /\ max(T) = h - 1
                        /\ -v \in Values(T) <=> v # lowest(T)
                        /\ NegateWrapper(T, v) = IF v = lowest(T) THEN lowest(T) ELSE -v
  <1> DEFINE U == make_unsigned(T)
             u == StaticCast(U, v)
  <1>1. /\ U \in Types /\ h \in Nat \ {0} /\ v \in Int /\ lowest(T) <= v /\ v <= max(T)
        /\ u = IF v < 0 THEN v + 2 * h ELSE v
        /\ T.signed => lowest(T) = -h /\ max(T) = h - 1
        /\ ~T.signed => lowest(T) = 0 /\ max(T) = 2 * h - 1
    BY AsUnsigned
  <1>2. NegateWrapper(T, v) = StaticCast(T, 0 - u) /\ u \in Int
    BY <1>1 DEF NegateWrapper
  <1>3. NegateWrapper(T, v) \in Values(T)
    BY <1>2, Cast1
  <1> HIDE DEF u, U
  <1>4. ASSUME ~T.signed
        PROVE  lowest(T) = 0 /\ NegateWrapper(T, v) = StaticCast(T, -v)
    <2>1. 0 - u = -v
      BY <1>1, <1>4
    <2> QED
      BY <1>1, <1>2, <1>4, <2>1
  <1>5. ASSUME T.signed
        PROVE  /\ lowest(T) = -h /\ max(T) = h - 1
               /\ -v \in Values(T) <=> v # lowest(T)
               /\ NegateWrapper(T, v) = IF v = lowest(T) THEN lowest(T) ELSE -v
    <2>1. lowest(T) = -h /\ max(T) = h - 1 /\ lowest(T) \in Int /\ max(T) \in Int
      BY <1>1, <1>5
    <2>2. -v \in Values(T) <=> v # lowest(T)
      BY <1>1, <2>1 DEF Values
    <2> DEFINE m == 0 - u
    <2>3. m \in Int
      BY <1>2
    <2>4. CASE v >= 0
      <3>1. m = -v /\ v # lowest(T) /\ m \in Values(T)
        BY <1>1, <2>1, <2>4 DEF Values
      <3> HIDE DEF m
      <3>2. StaticCast(T, m) = m
        BY <2>3, <3>1, Cast1
      <3> QED
        BY <1>2, <2>1, <2>2, <3>1, <3>2 DEF m
    <2>5. CASE v = lowest(T)
      <3>1. m = lowest(T) /\ m \in Values(T)
        BY <1>1, <2>1, <2>5 DEF Values
      <3> HIDE DEF m
      <3>2. StaticCast(T, m) = m
        BY <2>3, <3>1, Cast1
      <3> QED
        BY <1>2, <2>1, <2>2, <2>5, <3>1, <3>2 DEF m
    <2>6. CASE v < 0 /\ v # lowest(T)
      <3>1. m = -v - 2 * h /\ m < lowest(T) /\ lowest(T) - 2 * Half(T) <= m
        BY <1>1, <2>1, <2>6
      <3> HIDE DEF m
      <3>2. StaticCast(T, m) = m + 2 * Half(T)
        BY <2>3, <3>1, Cast1
      <3>3. StaticCast(T, m) = -v
        BY <1>1, <2>3, <3>1, <3>2
      <3> QED
        BY <1>2, <2>1, <2>2, <2>6, <3>3 DEF m
    <2> QED
      BY <1>1, <2>4, <2>5, <2>6
  <1> QED
    BY <1>1, <1>3, <1>4, <1>5

(* Both forms of the negation of an object of a CheckedNumeric.            *)
LEMMA NegationKeeps ==
  ASSUME IInv, Followed, number' \in Negation(T0),
         NEW S, S = (IF number.valid
                     THEN Fitting(T0, {IF T0.signed THEN -v0 ELSE StaticCast(T0, -v0)}) ELSE {}),
         Follow(S, "agree")
  PROVE  IInv'
  <1> DEFINE T == T0
             v == v0
             m == IF T0.signed THEN -v0 ELSE StaticCast(T0, -v0)
             w == NegateWrapper(T0, v0)
             do == CheckedSubOp(build, T0, T0, T0, 0, v0)
  <1>1. T \in Types /\ v \in Values(T) /\ v \in Int /\ number.valid \in BOOLEAN /\ build \in Builds
    BY ObjectStarts
  <1>2. /\ w \in Values(T) /\ w \in Int /\ T.signed \in BOOLEAN
        /\ ~T.signed => w = StaticCast(T, -v)
        /\ T.signed => /\ -v \in Values(T) <=> v # lowest(T)
                       /\ w = IF v = lowest(T) THEN lowest(T) ELSE -v
        /\ T.signed => -v # lowest(T)
    <2>1. w \in Values(T) /\ w \in Int /\ T.signed \in BOOLEAN
      BY <1>1, NegateWraps, HalfFacts, Limits
    <2>2. /\ ~T.signed => w = StaticCast(T, -v)
          /\ T.signed => /\ -v \in Values(T) <=> v # lowest(T)
                         /\ w = IF v = lowest(T) THEN lowest(T) ELSE -v
      BY <1>1, NegateWraps
    <2>3. T.signed => lowest(T) = -Half(T) /\ max(T) = Half(T) - 1 /\ Half(T) \in Nat
      BY <1>1, NegateWraps
    <2>4. v <= max(T)
      BY <1>1, Limits DEF Values
    <2>5. T.signed => -v # lowest(T)
      BY <1>1, <2>3, <2>4
    <2> HIDE DEF T, v, w
    <2> QED
      BY <2>1, <2>2, <2>5
  <1>3. S = IF number.valid THEN Fitting(T, {m}) ELSE {}
    OBVIOUS
  <1>4. m = IF T.signed THEN -v ELSE StaticCast(T, -v)
    OBVIOUS
  <1>5. m \in Int /\ -v \in Int
    BY <1>1, <1>4, Cast1
  <1> HIDE DEF T, v, m, w, do
  <1>6. S \in SUBSET Int
    BY <1>3, <1>5 DEF Fitting
  <1>7. CASE number' = Checked(T, T, w, number.valid /\ (T.signed => w # lowest(T)))
    <2> DEFINE valid == number.valid /\ (T.signed => w # lowest(T))
    <2>1. valid \in BOOLEAN
      BY <1>1, <1>2
    <2>2. S = IF valid THEN {w} ELSE {}
      <3>1. CASE T.signed
        <4>1. m = -v
          BY <1>4, <3>1
        <4>2. w # lowest(T) <=> m \in Values(T)
          BY <1>2, <3>1, <4>1
        <4>3. w # lowest(T) => w = m
          BY <1>2, <3>1, <4>1
        <4> QED
          BY <1>1, <1>3, <3>1, <4>2, <4>3 DEF Fitting
      <3>2. CASE ~T.signed
        <4>1. m = w
          BY <1>2, <1>4, <3>2
        <4> QED
          BY <1>1, <1>2, <1>3, <3>2, <4>1 DEF Fitting
      <3> QED
        BY <3>1, <3>2
    <2>3. number' = Checked(T, T, w, valid)
      BY <1>7
    <2> HIDE DEF valid
    <2>4. StaticCast(T, w) = w
      BY <1>1, <1>2, Cast1
    <2>5. number' = Object("CheckedNumeric", T, w, valid)
      BY <1>1, <1>2, <2>1, <2>3, <2>4, CheckedMade
    <2> QED
      BY <1>1, <1>2, <1>6, <2>1, <2>2, <2>5, MadeKeeps DEF Classes
  <1>8. CASE T.signed /\ number' = Checked(T, T, do.result, number.valid /\ do.ok)
    <2>1. IsContained(T, T)
      <3>1. MaxExponentPromotion(T, T) = T
        BY DEF MaxExponentPromotion
      <3>2. digits(T) \in Int
        BY <1>1, WidthsBounded
      <3>3. StaticDstRangeRelationToSrcRange(T, T)
        BY <3>2 DEF StaticDstRangeRelationToSrcRange, MaxExponent
      <3> QED
        BY <3>1, <3>3 DEF IsContained, MaxExponentContains
    <2>2. 0 \in Values(T)
      BY <1>1, Limits DEF Values
    <2>3. Typed(do) /\ Exactly(T, do, 0 - v)
      <3>1. do = CheckedSubOp(build, T, T, T, 0, v)
        BY DEF do, T, v
      <3> QED
        BY <1>1, <2>1, <2>2, <3>1, SumsAnswered
    <2>4. 0 - v = m
      BY <1>1, <1>4, <1>8
    <2> DEFINE valid == number.valid /\ do.ok
               n == StaticCast(T, do.result)
    <2>5. do.ok \in BOOLEAN /\ do.result \in Int /\ valid \in BOOLEAN /\ n \in Values(T)
      BY <1>1, <2>3, Cast1 DEF Typed
    <2>6. (do.ok <=> m \in Values(T)) /\ (m \in Values(T) => n = m)
      BY <1>1, <1>5, <2>3, <2>4, Cast1 DEF Exactly
    <2>7. S = IF valid THEN {n} ELSE {}
      BY <1>1, <1>3, <2>5, <2>6 DEF Fitting
    <2>8. number' = Checked(T, T, do.result, valid)
      BY <1>8
    <2> HIDE DEF valid
    <2>9. number' = Object("CheckedNumeric", T, n, valid)
      BY <1>1, <2>5, <2>8, CheckedMade
    <2> HIDE DEF n
    <2> QED
      BY <1>1, <1>6, <2>5, <2>7, <2>9, MadeKeeps DEF Classes
  <1> QED
    BY <1>7, <1>8 DEF Negation, T, v, w, do

(* An object of a ClampedNumeric that takes the nearest value to one.      *)
LEMMA NearestKeeps ==
  ASSUME IInv, NEW V \in Types, NEW n \in Int, NEW m \in Int, number' = Clamped(V, V, n), n = Nearest(V, m),
         NEW S, S = {m}, Follow(Clamp(V, S), "agree")
  PROVE  IInv'
  <1>1. n \in Values(V)
    BY Limits DEF Nearest, Values
  <1>2. StaticCast(V, n) = n
    BY <1>1, Cast1
  <1>3. number' = Object("ClampedNumeric", V, n, TRUE)
    BY <1>2, ClampedMade
  <1>4. Clamp(V, S) = {n} /\ {n} \in SUBSET Int
    BY DEF Clamp
  <1> QED
    BY <1>1, <1>3, <1>4, MadeKeeps DEF Classes

LEMMA NegateKeeps ==
  ASSUME IInv, Negate
  PROVE  IInv'
  <1>1. Followed
    BY DEF Negate, IsChecked, IsClamped
  <1>2. /\ T0 \in Types /\ v0 \in Values(T0) /\ v0 \in Int /\ number.valid \in BOOLEAN
        /\ ideal = IF number.valid THEN {v0} ELSE {}
        /\ number.class = "ClampedNumeric" => number.valid
    BY <1>1, ObjectStarts
  <1>3. CASE /\ number' \in Negation(T0)
             /\ Follow(Fitting(T0, {IF T0.signed THEN -a ELSE StaticCast(T0, -a) : a \in ideal}), "agree")
    <2> DEFINE S == Fitting(T0, {IF T0.signed THEN -a ELSE StaticCast(T0, -a) : a \in ideal})
    <2>1. S = IF number.valid
              THEN Fitting(T0, {IF T0.signed THEN -v0 ELSE StaticCast(T0, -v0)}) ELSE {}
      BY <1>2 DEF Fitting
    <2> HIDE DEF S
    <2> QED
      BY <1>1, <1>3, <2>1, NegationKeeps DEF S
  <1>4. CASE /\ IsClamped
             /\ number' = Clamped(T0, T0, SaturatedNegWrapper(T0, v0))
             /\ Follow(Clamp(T0, {-a : a \in ideal}), "agree")
    <2> DEFINE n == SaturatedNegWrapper(T0, v0)
               m == -v0
               S == {-a : a \in ideal}
               h == Half(T0)
    <2>1. S = {m} /\ m \in Int
      BY <1>2, <1>4 DEF IsClamped
    <2>2. n = Nearest(T0, m)
      <3>1. /\ lowest(T0) \in Int /\ max(T0) \in Int /\ lowest(T0) <= v0 /\ v0 <= max(T0)
            /\ lowest(T0) <= 0 /\ 0 <= max(T0)
        BY <1>2, Limits DEF Values
      <3>2. /\ h \in Nat \ {0}
            /\ ~T0.signed => lowest(T0) = 0
            /\ T0.signed => /\ lowest(T0) = -h /\ max(T0) = h - 1
                            /\ -v0 \in Values(T0) <=> v0 # lowest(T0)
                            /\ NegateWrapper(T0, v0) = IF v0 = lowest(T0) THEN lowest(T0) ELSE -v0
        BY <1>2, NegateWraps
      <3>3. CASE ~T0.signed
        <4>1. n = 0
          BY <3>3 DEF SaturatedNegWrapper
        <4> QED
          BY <3>1, <3>2, <3>3, <4>1, <1>2 DEF Nearest
      <3>4. CASE T0.signed /\ v0 = lowest(T0)
        <4>1. n = max(T0)
          BY <3>2, <3>4 DEF SaturatedNegWrapper
        <4> QED
          BY <3>1, <3>2, <3>4, <4>1, <1>2 DEF Nearest
      <3>5. CASE T0.signed /\ v0 # lowest(T0)
        <4>1. -v0 # lowest(T0)
          BY <1>2, <3>1, <3>2, <3>5
        <4>2. n = -v0
          BY <3>2, <3>5, <4>1 DEF SaturatedNegWrapper
        <4> QED
          BY <3>1, <3>2, <3>5, <4>2, <1>2 DEF Nearest, Values
      <3> QED
        BY <3>3, <3>4, <3>5
    <2>3. n \in Int
      BY <1>2, <2>1, <2>2, Limits DEF Nearest
    <2> HIDE DEF n, m, S
    <2>4. number' = Clamped(T0, T0, n) /\ Follow(Clamp(T0, S), "agree")
      BY <1>4 DEF n, S
    <2> QED
      BY <1>2, <2>1, <2>2, <2>3, <2>4, NearestKeeps
  <1> QED
    BY <1>3, <1>4 DEF Negate

LEMMA AbsValues ==
  ASSUME NEW T \in Types, NEW v \in Values(T)
  PROVE  /\ SafeUnsignedAbs(T, v) = Abs(v)
         /\ Abs(v) \in Nat /\ Abs(v) \in Values(make_unsigned(T)) /\ make_unsigned(T) \in Types
         /\ SaturatedAbsWrapper(T, v) = Nearest(T, Abs(v))
         /\ ~T.signed => ~(v < 0)
  <1> DEFINE h == Half(T)
             u == Abs(v)
             U == make_unsigned(T)
  <1>1. /\ U \in Types /\ h \in Nat \ {0} /\ v \in Int /\ lowest(T) <= v /\ v <= max(T)
        /\ lowest(U) = 0 /\ max(U) = 2 * h - 1
        /\ T.signed => lowest(T) = -h /\ max(T) = h - 1
        /\ ~T.signed => lowest(T) = 0 /\ max(T) = 2 * h - 1
        /\ lowest(T) \in Int /\ max(T) \in Int /\ T.signed \in BOOLEAN
    BY AsUnsigned, HalfFacts, Limits
  <1>2. SafeUnsignedAbs(T, v) = u
    BY AbsExact DEF Abs
  <1>3. u = IF v < 0 THEN -v ELSE v
    BY DEF Abs
  <1> HIDE DEF h, u, U
  <1>4. u \in Nat /\ u <= 2 * h - 1
    BY <1>1, <1>3
  <1>5. u \in Values(U)
    BY <1>1, <1>4 DEF Values
  <1> DEFINE n == SaturatedAbsWrapper(T, v)
  <1>6. n = StaticCast(T, IF StaticCast(T, u) < 0 THEN u - 1 ELSE u)
    BY <1>2 DEF SaturatedAbsWrapper
  <1> HIDE DEF n
  <1>7. n = Nearest(T, u)
    <2>1. CASE u <= max(T)
      <3>1. u \in Values(T)
        BY <1>1, <1>4, <2>1 DEF Values
      <3>2. StaticCast(T, u) = u
        BY <1>4, <3>1, Cast1
      <3>3. n = u
        BY <1>4, <1>6, <3>2
      <3> QED
        BY <1>1, <1>4, <2>1, <3>3 DEF Nearest
    <2>2. CASE u > max(T)
      <3>1. T.signed /\ u = max(T) + 1
        BY <1>1, <1>3, <2>2
      <3>2. StaticCast(T, u) = u - 2 * Half(T)
        BY <1>1, <1>4, <3>1, Cast1 DEF h
      <3>3. StaticCast(T, u) < 0 /\ u - 1 = max(T)
        BY <1>1, <1>4, <3>1, <3>2 DEF h
      <3>4. n = StaticCast(T, max(T))
        BY <1>6, <3>3
      <3>5. StaticCast(T, max(T)) = max(T)
        BY <1>1, Cast1, Limits DEF Values
      <3> QED
        BY <1>1, <1>4, <2>2, <3>4, <3>5 DEF Nearest
    <2> QED
      BY <1>1, <1>4, <2>1, <2>2
  <1> QED
    BY <1>1, <1>2, <1>4, <1>5, <1>7 DEF u, U, n

LEMMA AbsOfKeeps ==
  ASSUME IInv, AbsOf
  PROVE  IInv'
  <1>1. Followed
    BY DEF AbsOf, IsChecked, IsClamped
  <1>2. /\ T0 \in Types /\ v0 \in Values(T0) /\ v0 \in Int /\ number.valid \in BOOLEAN
        /\ ideal = IF number.valid THEN {v0} ELSE {}
        /\ number.class = "ClampedNumeric" => number.valid
    BY <1>1, ObjectStarts
  <1>3. CASE /\ IsChecked
             /\ number' \in IF IsValueNegative(v0) THEN Negation(T0) ELSE {number}
             /\ Follow(Fitting(T0, {Abs(a) : a \in ideal}), "agree")
    <2> DEFINE S == Fitting(T0, {Abs(a) : a \in ideal})
    <2>1. CASE v0 < 0
      <3>1. T0.signed
        BY <1>2, <2>1, AbsValues
      <3>2. S = IF number.valid
                THEN Fitting(T0, {IF T0.signed THEN -v0 ELSE StaticCast(T0, -v0)}) ELSE {}
        BY <1>2, <2>1, <3>1 DEF Fitting, Abs
      <3>3. number' \in Negation(T0)
        BY <1>3, <2>1 DEF IsValueNegative
      <3> HIDE DEF S
      <3> QED
        BY <1>1, <1>3, <3>2, <3>3, NegationKeeps DEF S
    <2>2. CASE ~(v0 < 0)
      <3>1. number' = number
        BY <1>3, <2>2 DEF IsValueNegative
      <3>2. S = IF number.valid THEN {v0} ELSE {}
        BY <1>2, <2>2 DEF Fitting, Abs
      <3>3. S \in SUBSET Int
        BY <1>2, <3>2
      <3> HIDE DEF S
      <3>4. number = Object(number.class, T0, v0, number.valid) /\ number.class \in Classes
        BY DEF IInv, TypeOK, Object, T0, v0, Classes
      <3> QED
        BY <1>2, <1>3, <3>1, <3>2, <3>3, <3>4, MadeKeeps DEF S
    <2> QED
      BY <2>1, <2>2
  <1>4. CASE /\ IsClamped
             /\ number' = Clamped(T0, T0, SaturatedAbsWrapper(T0, v0))
             /\ Follow(Clamp(T0, {Abs(a) : a \in ideal}), "agree")
    <2> DEFINE n == SaturatedAbsWrapper(T0, v0)
               m == Abs(v0)
               S == {Abs(a) : a \in ideal}
    <2>1. S = {m}
      BY <1>2, <1>4 DEF IsClamped
    <2>2. n = Nearest(T0, m) /\ m \in Int
      BY <1>2, AbsValues
    <2>3. n \in Int
      BY <1>2, <2>2, Limits DEF Nearest
    <2> HIDE DEF n, m, S
    <2>4. number' = Clamped(T0, T0, n) /\ Follow(Clamp(T0, S), "agree")
      BY <1>4 DEF n, S
    <2> QED
      BY <1>2, <2>1, <2>2, <2>3, <2>4, NearestKeeps
  <1> QED
    BY <1>3, <1>4 DEF AbsOf

LEMMA UnsignedAbsKeeps ==
  ASSUME IInv, UnsignedAbs
  PROVE  IInv'
  <1>1. Followed
    BY DEF UnsignedAbs, IsChecked, IsClamped
  <1>2. /\ T0 \in Types /\ v0 \in Values(T0) /\ v0 \in Int /\ number.valid \in BOOLEAN
        /\ ideal = IF number.valid THEN {v0} ELSE {}
        /\ number.class = "ClampedNumeric" => number.valid
    BY <1>1, ObjectStarts
  <1> DEFINE U == make_unsigned(T0)
             n == SafeUnsignedAbs(T0, v0)
             S == {Abs(a) : a \in ideal}
  <1>3. U \in Types /\ n \in Values(U) /\ n \in Int /\ n = Abs(v0)
    BY <1>2, AbsValues
  <1>4. S = IF number.valid THEN {n} ELSE {}
    BY <1>2, <1>3
  <1>5. Follow(S, "agree")
    BY DEF UnsignedAbs
  <1>6. \/ IsChecked /\ number' = Checked(U, U, n, number.valid)
        \/ IsClamped /\ number' = Clamped(U, U, n)
    BY DEF UnsignedAbs
  <1> HIDE DEF U, n, S
  <1>7. StaticCast(U, n) = n /\ S \in SUBSET Int
    BY <1>3, <1>4, Cast1
  <1>8. CASE IsChecked /\ number' = Checked(U, U, n, number.valid)
    <2>1. number' = Object("CheckedNumeric", U, n, number.valid)
      BY <1>2, <1>3, <1>7, <1>8, CheckedMade
    <2> QED
      BY <1>2, <1>3, <1>4, <1>5, <1>7, <2>1, MadeKeeps DEF Classes
  <1>9. CASE IsClamped /\ number' = Clamped(U, U, n)
    <2>1. number' = Object("ClampedNumeric", U, n, TRUE)
      BY <1>3, <1>7, <1>9, ClampedMade
    <2>2. S = {n}
      BY <1>2, <1>4, <1>9 DEF IsClamped
    <2> QED
      BY <1>3, <1>5, <1>7, <2>1, <2>2, MadeKeeps DEF Classes
  <1> QED
    BY <1>6, <1>8, <1>9

LEMMA InvertKeeps ==
  ASSUME IInv, Invert
  PROVE  IInv'
  <1>1. Followed
    BY DEF Invert, IsChecked, IsClamped
  <1>2. /\ T0 \in Types /\ v0 \in Values(T0) /\ v0 \in Int /\ number.valid \in BOOLEAN
        /\ ideal = IF number.valid THEN {v0} ELSE {}
        /\ number.class = "ClampedNumeric" => number.valid
    BY <1>1, ObjectStarts
  <1> DEFINE U == make_unsigned(T0)
             h == Half(T0)
             inverted == StaticCast(U, -v0 - 1)
             S == {IF T0.signed THEN -a - 1 ELSE max(T0) - a : a \in ideal}
             partial == T0.signed /\ v0 >= 0
             m == IF T0.signed THEN -v0 - 1 ELSE max(T0) - v0
  <1>3. /\ U \in Types /\ h \in Nat \ {0} /\ lowest(T0) <= v0 /\ v0 <= max(T0)
        /\ lowest(U) = 0 /\ max(U) = 2 * h - 1 /\ Half(U) = h
        /\ T0.signed => lowest(T0) = -h /\ max(T0) = h - 1
        /\ ~T0.signed => lowest(T0) = 0 /\ max(T0) = 2 * h - 1
        /\ lowest(T0) \in Int /\ max(T0) \in Int /\ T0.signed \in BOOLEAN
    BY <1>2, AsUnsigned, HalfFacts, Limits
  <1>4. inverted \in Values(U) /\ inverted \in Int
    BY <1>2, <1>3, Cast1
  <1>5. inverted = IF -v0 - 1 < 0 THEN -v0 - 1 + 2 * h ELSE -v0 - 1
    <2> DEFINE k == -v0 - 1
    <2>1. k \in Int /\ -(2 * h) <= k /\ k <= 2 * h - 1
      BY <1>2, <1>3
    <2> HIDE DEF U, h, k
    <2>2. CASE k < 0
      <3>1. StaticCast(U, k) = k + 2 * Half(U)
        BY <1>3, <2>1, <2>2, Cast1
      <3> QED
        BY <1>3, <2>1, <2>2, <3>1 DEF k
    <2>3. CASE ~(k < 0)
      <3>1. k \in Values(U)
        BY <1>3, <2>1, <2>3 DEF Values
      <3>2. StaticCast(U, k) = k
        BY <1>3, <2>1, <3>1, Cast1
      <3> QED
        BY <2>3, <3>2 DEF k
    <2> QED
      BY <2>2, <2>3
  <1>6. /\ ~partial => inverted \in Values(T0) /\ inverted = m
        /\ partial => inverted > max(T0)
        /\ m \in Int
    <2> HIDE DEF h, U, inverted
    <2> QED
      BY <1>2, <1>3, <1>4, <1>5 DEF Values
  <1>7. S = IF number.valid THEN {m} ELSE {}
    BY <1>2
  <1>8. MayIf(partial, "refuse") = (IF partial THEN "refuse" ELSE "agree")
        /\ MayIf(partial, "differ") = (IF partial THEN "differ" ELSE "agree")
    BY DEF MayIf
  <1> HIDE DEF U, h, inverted, S, partial, m
  <1>9. S \in SUBSET Int
    BY <1>6, <1>7
  <1>10. CASE /\ IsChecked
              /\ number' = Checked(T0, U, inverted, number.valid)
              /\ Follow(S, MayIf(partial, "refuse"))
    <2> DEFINE valid == number.valid /\ inverted \in Values(T0)
               n == StaticCast(T0, inverted)
               may == MayIf(partial, "refuse")
    <2>1. valid \in BOOLEAN /\ n \in Values(T0) /\ valid = (number.valid /\ inverted \in Values(T0))
      BY <1>2, <1>4, Cast1
    <2>2. S = (IF valid THEN {n} ELSE {}) \/ (may = "refuse" /\ ~valid)
      <3>1. CASE partial
        <4>1. inverted \notin Values(T0)
          BY <1>3, <1>4, <1>6, <3>1 DEF Values
        <4> QED
          BY <1>8, <3>1, <4>1
      <3>2. CASE ~partial
        <4>1. n = m /\ inverted \in Values(T0)
          BY <1>2, <1>4, <1>6, <3>2, Cast1
        <4> QED
          BY <1>2, <1>7, <4>1
      <3> QED
        BY <3>1, <3>2
    <2> HIDE DEF valid
    <2>3. number' = Object("CheckedNumeric", T0, n, valid)
      BY <1>2, <1>3, <1>4, <1>10, <2>1, CheckedConverted
    <2>4. Follow(S, may)
      BY <1>10
    <2> HIDE DEF n, may
    <2> QED
      BY <1>2, <1>9, <2>1, <2>2, <2>3, <2>4, MadeKeeps DEF Classes
  <1>11. CASE /\ IsClamped
              /\ number' = Clamped(T0, U, inverted)
              /\ Follow(S, MayIf(partial, "differ"))
    <2> DEFINE n == Nearest(T0, inverted)
               may == MayIf(partial, "differ")
    <2>1. number' = Object("ClampedNumeric", T0, n, TRUE) /\ n \in Values(T0)
      BY <1>2, <1>3, <1>4, <1>11, ClampedConverted
    <2>2. S = {n} \/ may = "differ"
      <3>1. CASE partial
        BY <1>8, <3>1
      <3>2. CASE ~partial
        <4>1. n = m
          BY <1>3, <1>4, <1>6, <3>2 DEF Nearest, Values
        <4> QED
          BY <1>2, <1>7, <1>11, <4>1 DEF IsClamped
      <3> QED
        BY <3>1, <3>2
    <2>3. Follow(S, may)
      BY <1>11
    <2> HIDE DEF n, may
    <2> QED
      BY <1>2, <1>9, <2>1, <2>2, <2>3, MadeKeeps DEF Classes
  <1> QED
    BY <1>10, <1>11 DEF Invert, U, inverted, S, partial

-----------------------------------------------------------------------------
(* Shifts. *)

LEMMA CastTwice ==
  ASSUME NEW T \in Types, NEW U, U = make_unsigned(T), NEW v \in Int
  PROVE  StaticCast(T, StaticCast(U, v)) = StaticCast(T, v)
  <1> DEFINE c == StaticCast(U, v)
  <1>1. U \in Types /\ Half(U) = Half(T)
    BY AsUnsigned
  <1>2. c \in Int
    BY <1>1, Cast1
  <1>3. PICK k \in Int : Apart(U, v, c, k)
    BY <1>1, CastApart
  <1> HIDE DEF c
  <1>4. v = c + 2 * Half(T) * k
    BY <1>1, <1>3 DEF Apart
  <1>5. StaticCast(T, v) = StaticCast(T, c)
    BY <1>2, <1>4, CastPeriodic
  <1> QED
    BY <1>5 DEF c

(* What the operations make of the count.                                  *)
LEMMA CountIs ==
  ASSUME NEW T \in Types, NEW o, o.type \in Types, o.value \in Values(o.type), ShiftCount(o),
         NEW s, s = StaticCast(make_unsigned(o.type), o.value)
  PROVE  /\ s \in Nat
         /\ s < T.bits <=> o.value \in 0 .. T.bits - 1
         /\ s < T.bits => s = o.value
         /\ o.value >= 0 => s = o.value
         /\ ~o.type.signed => s = o.value
  <1> DEFINE U == make_unsigned(o.type)
             y == o.value
  <1>1. /\ U \in Types /\ y \in Int /\ lowest(U) = 0
        /\ s = IF y < 0 THEN y + 2 * Half(o.type) ELSE y
        /\ ~o.type.signed => y >= 0
    BY AsUnsigned
  <1>2. s \in Int /\ lowest(U) <= s
    BY <1>1, Cast1, Limits DEF Values
  <1>3. y >= 0 \/ s > IntmaxWidth
    BY DEF ShiftCount
  <1>4. T.bits \in Nat /\ T.bits <= IntmaxWidth /\ IntmaxWidth \in Nat
    BY WidthsBounded
  <1> HIDE DEF U, y
  <1>5. y >= 0 => s = y
    BY <1>1
  <1>6. s < T.bits <=> y \in 0 .. T.bits - 1
    BY <1>1, <1>2, <1>3, <1>4, <1>5
  <1>7. s < T.bits => s = y
    BY <1>1, <1>2, <1>3, <1>4, <1>5
  <1> QED
    BY <1>1, <1>2, <1>5, <1>6, <1>7 DEF y

LEMMA ShiftPower ==
  ASSUME NEW T \in Types, NEW s \in Nat, s < T.bits
  PROVE  2 ^ s \in Nat \ {0} /\ s \in 0 .. IntmaxWidth
  <1>1. s \in 0 .. IntmaxWidth
    BY WidthsBounded
  <1> QED
    BY <1>1, PowerPositive

(* A value shifted to the right is one of the same type.                   *)
LEMMA ShiftedRight ==
  ASSUME NEW T \in Types, NEW x \in Values(T), NEW p \in Nat \ {0}
  PROVE  x \div p \in Values(T)
  <1> DEFINE q == x \div p
             e == x % p
  <1>1. x \in Int /\ lowest(T) <= x /\ x <= max(T) /\ lowest(T) \in Int /\ max(T) \in Int
        /\ lowest(T) <= 0 /\ 0 <= max(T)
    BY Limits DEF Values
  <1>2. q \in Int /\ e \in 0 .. p - 1 /\ x = p * q + e
    BY <1>1, SMTT(30)
  <1> HIDE DEF q, e
  <1>3. x >= 0 => 0 <= q /\ q <= x
    <2>1. SUFFICES ASSUME x >= 0
                   PROVE  0 <= q /\ q <= x
      OBVIOUS
    <2>2. q >= 0
      <3>1. SUFFICES ASSUME q <= -1
                     PROVE  FALSE
        BY <1>2
      <3>2. p * q <= -p
        BY <1>2, <3>1, SMTT(30)
      <3> DEFINE pq == p * q
      <3>3. pq \in Int /\ pq <= -p /\ x = pq + e
        BY <1>2, <3>2
      <3> HIDE DEF pq
      <3> QED
        BY <1>1, <1>2, <2>1, <3>3
    <2>3. q <= p * q
      BY <1>2, <2>2, SMTT(30)
    <2> DEFINE pq == p * q
    <2>4. pq \in Int /\ q <= pq /\ x = pq + e
      BY <1>2, <2>3
    <2> HIDE DEF pq
    <2> QED
      BY <1>1, <1>2, <2>2, <2>4
  <1>4. x < 0 => x <= q /\ q <= 0
    <2>1. SUFFICES ASSUME x < 0
                   PROVE  x <= q /\ q <= 0
      OBVIOUS
    <2>2. q <= -1
      <3>1. SUFFICES ASSUME q >= 0
                     PROVE  FALSE
        BY <1>2
      <3>2. p * q >= 0
        BY <1>2, <3>1, SMTT(30)
      <3> DEFINE pq == p * q
      <3>3. pq \in Int /\ pq >= 0 /\ x = pq + e
        BY <1>2, <3>2
      <3> HIDE DEF pq
      <3> QED
        BY <1>1, <1>2, <2>1, <3>3
    <2> DEFINE c == -1 - q
               pc == p * c
    <2>3. c \in Nat /\ c <= pc
      BY <1>2, <2>2, SMTT(30)
    <2>4. p * q = -p - pc /\ pc \in Int
      BY <1>2, SMTT(30)
    <2> HIDE DEF pc
    <2>5. x = -p - pc + e
      BY <1>2, <2>4
    <2>6. x <= -1 - pc
      BY <1>1, <1>2, <2>4, <2>5
    <2> QED
      BY <1>1, <1>2, <2>2, <2>3, <2>4, <2>6
  <1> QED
    BY <1>1, <1>2, <1>3, <1>4 DEF Values, q

(* An operation that has no meaning for the operands gives no result.      *)
LEMMA RefusedStep ==
  ASSUME IInv, NEW r \in Arguments, NEW V \in Types, NEW do, Typed(do), ~do.ok,
         NEW exact, exact = {}, NEW may, CheckedMathOp(do, r, V, exact, may)
  PROVE  IInv'
  <1>1. do.ok \in BOOLEAN /\ do.result \in Int /\ exact \in SUBSET Int
    BY DEF Typed
  <1>2. Answers(V, do, exact, may)
    BY DEF Answers, Fitting
  <1> QED
    BY <1>1, <1>2, CheckedStep

LEMMA RshKeeps ==
  ASSUME IInv, Rsh
  PROVE  IInv'
  <1>1. SUFFICES
          ASSUME NEW r \in {o \in Arguments : ShiftCount(o)},
                 LET meant == r.value \in 0 .. T0.bits - 1
                     shifted == {a \div 2 ^ r.value : a \in Operated(r)}
                     far == {IF a < 0 THEN -1 ELSE 0 : a \in ideal}
                     checked == CheckedRshOp(build, T0, r.type, T0, v0, r.value)
                     clamped == ClampedRshOp(build, T0, r.type, T0, v0, r.value)
                 IN  \/ CheckedMathOp(checked, r, T0, IF meant THEN shifted ELSE {}, "agree")
                     \/ /\ ~r.type.signed
                        /\ ClampedMathOp(clamped, r, T0, IF meant THEN shifted ELSE far, "agree")
          PROVE  IInv'
    BY DEF Rsh
  <1> DEFINE meant == r.value \in 0 .. T0.bits - 1
             n == v0 \div 2 ^ r.value
             z == IF v0 < 0 THEN -1 ELSE 0
             shifted == {a \div 2 ^ r.value : a \in Operated(r)}
             far == {IF a < 0 THEN -1 ELSE 0 : a \in ideal}
             checked == CheckedRshOp(build, T0, r.type, T0, v0, r.value)
             clamped == ClampedRshOp(build, T0, r.type, T0, v0, r.value)
  <1>2. IsChecked \/ IsClamped
    BY <1>1 DEF CheckedMathOp, ClampedMathOp
  <1>3. Followed /\ r \in Arguments /\ ShiftCount(r)
    BY <1>2 DEF IsChecked, IsClamped
  <1>4. /\ T0 \in Types /\ v0 \in Values(T0) /\ v0 \in Int
        /\ r.type \in Types /\ r.value \in Values(r.type) /\ r.value \in Int
        /\ Operated(r) = IF number.valid /\ r.valid THEN {v0} ELSE {}
        /\ ideal = IF number.valid THEN {v0} ELSE {}
        /\ number.class = "ClampedNumeric" => number.valid /\ r.valid
    BY <1>3, StartsRight
  <1>5. shifted = IF number.valid /\ r.valid THEN {n} ELSE {}
    BY <1>4
  <1>6. number.valid => far = {z}
    BY <1>4
  <1> DEFINE T == T0
             x == v0
             y == r.value
             s == StaticCast(make_unsigned(r.type), y)
  <1>7. T \in Types /\ x \in Values(T)
    BY <1>4
  <1>8. /\ s \in Nat /\ (s < T.bits <=> meant) /\ (s < T.bits => s = y)
        /\ ~r.type.signed => s = y
    BY <1>3, <1>4, CountIs
  <1>9. checked = IF s < T.bits THEN Narrowed(T, T, TRUE, x \div 2 ^ s) ELSE Refused
    BY DEF CheckedRshOp
  <1>10. clamped = IF y < T.bits THEN SaturateFastOp(T, Promoted(T), x \div 2 ^ y)
                   ELSE IF x < 0 THEN StaticCast(T, -1) ELSE 0
    BY DEF ClampedRshOp
  <1>11. n = x \div 2 ^ y /\ z = IF x < 0 THEN -1 ELSE 0
    OBVIOUS
  <1>12. /\ x \in Int /\ lowest(T) <= x /\ lowest(T) \in Int /\ max(T) \in Int
         /\ 0 <= max(T) /\ lowest(T) <= 0 /\ T.bits \in Nat
    BY <1>7, Limits, WidthsBounded DEF Values
  <1> HIDE DEF T, x, y, s, meant, n, z, checked, clamped
  <1>13. ASSUME meant
         PROVE  /\ n \in Int /\ Typed(checked) /\ Exactly(T, checked, n)
                /\ ~r.type.signed => clamped \in Int /\ Nearest(T, n) = StaticCast(T, clamped)
    <2>1. s < T.bits /\ s = y /\ 2 ^ s \in Nat \ {0}
      BY <1>7, <1>8, <1>13, ShiftPower
    <2>2. n \in Values(T) /\ n = x \div 2 ^ s
      BY <1>7, <1>11, <2>1, ShiftedRight
    <2>3. n \in Int /\ Nearest(T, n) = n /\ StaticCast(T, n) = n
      BY <1>7, <2>2, Limits, Cast1 DEF Nearest, Values
    <2>4. checked = Narrowed(T, T, TRUE, n)
      BY <1>9, <2>1, <2>2
    <2>5. Typed(checked) /\ Exactly(T, checked, n)
      BY <1>7, <2>2, <2>3, <2>4, NarrowedTyped, NarrowedExact
    <2>6. clamped = n
      <3>1. Promoted(T) \in Types /\ n \in Values(Promoted(T))
        <4>1. CASE T.bits < IntWidth
          <5>1. /\ int \in Types /\ int.signed /\ int.bits = IntWidth /\ IntWidth \in Nat
                /\ T.signed \in BOOLEAN
            BY <1>7, WidthsAssumption, HalfFacts DEF int, Types
          <5>2. CASE T.signed
            <6>1. int.signed = T.signed /\ int.bits >= T.bits
              BY <1>12, <4>1, <5>1, <5>2
            <6> QED
              BY <1>7, <2>2, <4>1, <5>1, <6>1, WiderContains DEF Promoted
          <5>3. CASE ~T.signed
            BY <1>7, <1>12, <2>2, <4>1, <5>1, <5>3, WiderContains DEF Promoted
          <5> QED
            BY <5>2, <5>3
        <4>2. CASE ~(T.bits < IntWidth)
          BY <1>7, <2>2, <4>2 DEF Promoted
        <4> QED
          BY <4>1, <4>2
      <3>2. clamped = SaturateFastOp(T, Promoted(T), n)
        BY <1>10, <1>11, <2>1
      <3>3. SaturateFastOp(T, Promoted(T), n) = Nearest(T, n)
        BY <1>7, <3>1, SaturationExact
      <3> QED
        BY <2>3, <3>2, <3>3
    <2> QED
      BY <2>3, <2>5, <2>6
  <1>14. ASSUME ~meant
         PROVE  /\ Typed(checked) /\ ~checked.ok
                /\ ~r.type.signed => z \in Int /\ clamped \in Int /\ Nearest(T, z) = StaticCast(T, clamped)
    <2>1. checked = Refused
      BY <1>8, <1>9, <1>14
    <2>2. Typed(checked) /\ ~checked.ok
      BY <2>1 DEF Typed, Refused, Outcome
    <2>3. ASSUME ~r.type.signed
          PROVE  z \in Int /\ clamped \in Int /\ Nearest(T, z) = StaticCast(T, clamped)
      <3>1. clamped = IF x < 0 THEN StaticCast(T, -1) ELSE 0
        BY <1>8, <1>10, <1>12, <1>14, <2>3
      <3>2. z \in Values(T) /\ z \in Int
        BY <1>11, <1>12 DEF Values
      <3>3. StaticCast(T, z) = z
        BY <1>7, <3>2, Cast1
      <3>4. clamped = z
        BY <1>11, <3>1, <3>3
      <3>5. Nearest(T, z) = z
        BY <1>12, <3>2 DEF Nearest, Values
      <3> QED
        BY <3>2, <3>3, <3>4, <3>5
    <2> QED
      BY <2>2, <2>3
  <1> HIDE DEF shifted, far
  <1>15. ASSUME CheckedMathOp(checked, r, T0, IF meant THEN shifted ELSE {}, "agree")
         PROVE  IInv'
    <2>1. CASE meant
      <3>1. CheckedMathOp(checked, r, T0, shifted, "agree")
        BY <1>15, <2>1
      <3>2. n \in Int /\ Typed(checked) /\ Exactly(T0, checked, n) /\ Sound(T0, checked, n)
        BY <1>13, <2>1 DEF Sound, Exactly, T
      <3> QED
        BY <1>3, <1>4, <1>5, <3>1, <3>2, CheckedExactStep
    <2>2. CASE ~meant
      <3>1. CheckedMathOp(checked, r, T0, {}, "agree")
        BY <1>15, <2>2
      <3> QED
        BY <1>3, <1>4, <1>14, <2>2, <3>1, RefusedStep
    <2> QED
      BY <2>1, <2>2
  <1>16. ASSUME ~r.type.signed,
                ClampedMathOp(clamped, r, T0, IF meant THEN shifted ELSE far, "agree")
         PROVE  IInv'
    <2>1. number.valid /\ r.valid
      BY <1>4, <1>16 DEF ClampedMathOp, IsClamped
    <2>2. CASE meant
      <3>1. ClampedMathOp(clamped, r, T0, {n}, "agree")
        BY <1>5, <1>16, <2>1, <2>2
      <3> QED
        BY <1>3, <1>4, <1>13, <1>16, <2>2, <3>1, ClampedExactStep DEF T
    <2>3. CASE ~meant
      <3>1. ClampedMathOp(clamped, r, T0, {z}, "agree")
        BY <1>6, <1>16, <2>1, <2>3
      <3> QED
        BY <1>3, <1>4, <1>14, <1>16, <2>3, <3>1, ClampedExactStep DEF T
    <2> QED
      BY <2>2, <2>3
  <1> QED
    BY <1>1, <1>15, <1>16 DEF meant, shifted, far, checked, clamped

LEMMA DivisionIs ==
  ASSUME NEW a \in Int, NEW m \in Nat \ {0}
  PROVE  a \div m \in Int /\ a % m \in 0 .. m - 1 /\ a = m * (a \div m) + (a % m)
  BY SMTT(30)

(* Shifting back tells whether a bit was lost on the way.                  *)
LEMMA ShiftedBack ==
  ASSUME NEW T \in Types, NEW x \in Values(T), NEW s \in Nat, s < digits(T), NEW p, p = 2 ^ s,
         NEW n, n = x * p, NEW c \in Values(T), n \in Values(T) => c = n
  PROVE  c \div p = x <=> n \in Values(T)
  <1> DEFINE d == digits(T) - s
             g == 2 ^ d
             q == c \div p
             e == c % p
  <1>1. /\ x \in Int /\ c \in Int /\ lowest(T) <= c /\ c <= max(T) /\ lowest(T) <= x /\ x <= max(T)
        /\ lowest(T) \in Int /\ max(T) \in Int
    BY Limits DEF Values
  <1>2. /\ digits(T) \in 0 .. IntmaxWidth /\ IntmaxWidth \in Nat /\ s \in 0 .. IntmaxWidth
        /\ d \in Nat /\ d \in 0 .. IntmaxWidth /\ s + d = digits(T) /\ s + d <= IntmaxWidth
    BY WidthsBounded
  <1>3. p \in Nat \ {0} /\ g \in Nat \ {0}
    BY <1>2, PowerPositive
  <1>4. 2 ^ digits(T) = p * g
    <2>1. 2 ^ (s + d) = 2 ^ s * 2 ^ d
      BY <1>2, PowerOfSum
    <2> QED
      BY <1>2, <2>1
  <1>5. /\ max(T) = p * g - 1
        /\ lowest(T) = IF T.signed THEN -(p * g) ELSE 0
    BY <1>4, MaxIsPower
  <1> HIDE DEF d, g
  <1>6. q \in Int /\ e \in 0 .. p - 1 /\ c = p * q + e /\ n \in Int
    <2>1. q \in Int /\ e \in 0 .. p - 1 /\ c = p * q + e
      BY <1>1, <1>3, DivisionIs
    <2>2. n \in Int
      BY <1>1, <1>3
    <2> QED
      BY <2>1, <2>2
  <1>7. ASSUME n \in Values(T)
        PROVE  q = x
    <2>1. c = p * x + 0
      BY <1>1, <1>3, <1>7
    <2>2. Divided(c, p, x, 0)
      BY <1>3, <2>1 DEF Divided
    <2> QED
      BY <1>1, <1>3, <2>2, DivisionUnique
  <1> HIDE DEF q, e
  <1>8. ASSUME q = x, n \notin Values(T)
        PROVE  FALSE
    <2> DEFINE pq == p * q
               pg == p * g
    <2>1. n = pq /\ pq \in Int /\ pg \in Int /\ c = pq + e
      BY <1>1, <1>3, <1>6, <1>8
    <2>2. max(T) = pg - 1 /\ lowest(T) = IF T.signed THEN -pg ELSE 0
      BY <1>5
    <2>3. pq < lowest(T) \/ pq > max(T)
      BY <1>1, <1>8, <2>1 DEF Values
    <2>4. ~(pq > max(T))
      <3> HIDE DEF pq, pg
      <3> QED
        BY <1>1, <1>3, <1>6, <2>1
    <2>5. pq < lowest(T)
      BY <2>3, <2>4
    <2>6. T.signed
      <3>1. SUFFICES ASSUME ~T.signed
                     PROVE  FALSE
        OBVIOUS
      <3>2. lowest(T) = 0 /\ x >= 0
        BY <1>1, <2>2, <3>1
      <3>3. pq >= 0
        BY <1>3, <1>6, <1>8, <3>2, SMTT(30)
      <3> HIDE DEF pq, pg
      <3> QED
        BY <1>1, <2>1, <2>5, <3>2, <3>3
    <2>7. q < -g
      <3>1. SUFFICES ASSUME q >= -g
                     PROVE  FALSE
        BY <1>3, <1>6
      <3>2. p * q >= p * (-g) /\ p * (-g) = -(p * g)
        BY <1>3, <1>6, <3>1, SMTT(30)
      <3>3. pq >= -pg
        BY <2>1, <3>2
      <3> HIDE DEF pq, pg
      <3> QED
        BY <1>1, <2>1, <2>2, <2>5, <2>6, <3>3
    <2>8. pq <= -pg - p
      <3>1. p * q <= p * (-g - 1) /\ p * (-g - 1) = -(p * g) - p
        BY <1>3, <1>6, <2>7, SMTT(30)
      <3> QED
        BY <2>1, <3>1
    <2> HIDE DEF pq, pg
    <2> QED
      BY <1>1, <1>3, <1>6, <2>1, <2>2, <2>6, <2>8
  <1> QED
    BY <1>7, <1>8 DEF q

(* Shifting a value by all its digits leaves nothing but zero in range, or *)
(* lowest() itself.                                                        *)
LEMMA ShiftedFar ==
  ASSUME NEW T \in Types, NEW x \in Values(T), T.signed, NEW p, p = 2 ^ digits(T), NEW n, n = x * p
  PROVE  /\ n \in Int
         /\ x = 0 => n = 0
         /\ x > 0 => n > max(T)
         /\ x < 0 => n <= lowest(T)
  <1>1. x \in Int /\ p \in Nat \ {0} /\ max(T) = p - 1 /\ lowest(T) = -p
    BY MaxIsPower, Limits
  <1>2. n \in Int /\ (x = 0 => n = 0)
    BY <1>1
  <1>3. x > 0 => x * p >= p
    BY <1>1, SMTT(30)
  <1>4. x < 0 => x * p <= -p
    BY <1>1, SMTT(30)
  <1>5. (x > 0 => n >= p) /\ (x < 0 => n <= -p)
    BY <1>3, <1>4
  <1> QED
    BY <1>1, <1>2, <1>5

(* What is shifted is the value, or the one that stands for it in the      *)
(* unsigned type.                                                          *)
LEMMA ShiftedUnsigned ==
  ASSUME NEW T \in Types, NEW x \in Values(T), NEW p \in Nat \ {0}, NEW n, n = x * p,
         NEW u, u = StaticCast(make_unsigned(T), x)
  PROVE  /\ StaticCast(T, StaticCast(make_unsigned(T), x * p)) = StaticCast(T, n)
         /\ StaticCast(T, u * p) = StaticCast(T, n)
         /\ StaticCast(T, StaticCast(make_unsigned(T), u * p)) = StaticCast(T, n)
  <1> DEFINE h == Half(T)
             up == u * p
  <1>1. x \in Int /\ h \in Nat \ {0} /\ u = IF x < 0 THEN x + 2 * h ELSE x
    BY AsUnsigned
  <1>2. u \in Int /\ n \in Int /\ up \in Int
    BY <1>1
  <1>3. StaticCast(T, StaticCast(make_unsigned(T), n)) = StaticCast(T, n)
    BY <1>2, CastTwice
  <1>4. StaticCast(T, StaticCast(make_unsigned(T), up)) = StaticCast(T, up)
    <2> HIDE DEF up
    <2> QED
      BY <1>2, CastTwice
  <1>5. StaticCast(T, up) = StaticCast(T, n)
    <2>1. CASE x >= 0
      <3>1. up = n
        BY <1>1, <2>1
      <3> QED
        BY <3>1
    <2>2. CASE x < 0
      <3>1. up = x * p + 2 * h * p
        <4>1. \A a, b, c \in Int : (a + 2 * b) * c = a * c + 2 * b * c
          BY SMTT(30)
        <4> QED
          BY <1>1, <2>2, <4>1
      <3>2. up = n + 2 * Half(T) * p
        BY <3>1
      <3> HIDE DEF up
      <3> QED
        BY <1>2, <3>2, CastPeriodic
    <2> QED
      BY <1>1, <2>1, <2>2
  <1> QED
    BY <1>3, <1>4, <1>5

LEMMA LshKeeps ==
  ASSUME IInv, Lsh
  PROVE  IInv'
  <1>1. SUFFICES
          ASSUME NEW r \in {o \in Arguments : ShiftCount(o)},
                 LET meant == r.value \in 0 .. T0.bits - 1
                     shifted == {a * 2 ^ r.value : a \in Operated(r)}
                     far == {CASE a > 0 -> max(T0) [] a = 0 -> 0 [] a < 0 -> lowest(T0) : a \in ideal}
                     checked == CheckedLshOp(build, T0, r.type, T0, v0, r.value)
                     clamped == ClampedLshOp(build, T0, r.type, T0, v0, r.value)
                 IN  \/ CheckedMathOp(checked, r, T0, IF meant /\ v0 >= 0 THEN shifted ELSE {}, "agree")
                     \/ /\ ~r.type.signed
                        /\ ClampedMathOp(clamped, r, T0, IF meant THEN shifted ELSE far, "agree")
          PROVE  IInv'
    BY DEF Lsh
  <1> DEFINE meant == r.value \in 0 .. T0.bits - 1
             n == v0 * 2 ^ r.value
             z == CASE v0 > 0 -> max(T0) [] v0 = 0 -> 0 [] v0 < 0 -> lowest(T0)
             shifted == {a * 2 ^ r.value : a \in Operated(r)}
             far == {CASE a > 0 -> max(T0) [] a = 0 -> 0 [] a < 0 -> lowest(T0) : a \in ideal}
             checked == CheckedLshOp(build, T0, r.type, T0, v0, r.value)
             clamped == ClampedLshOp(build, T0, r.type, T0, v0, r.value)
  <1>2. IsChecked \/ IsClamped
    BY <1>1 DEF CheckedMathOp, ClampedMathOp
  <1>3. Followed /\ r \in Arguments /\ ShiftCount(r)
    BY <1>2 DEF IsChecked, IsClamped
  <1>4. /\ T0 \in Types /\ v0 \in Values(T0) /\ v0 \in Int
        /\ r.type \in Types /\ r.value \in Values(r.type) /\ r.value \in Int
        /\ Operated(r) = IF number.valid /\ r.valid THEN {v0} ELSE {}
        /\ ideal = IF number.valid THEN {v0} ELSE {}
        /\ number.class = "ClampedNumeric" => number.valid /\ r.valid
    BY <1>3, StartsRight
  <1>5. shifted = IF number.valid /\ r.valid THEN {n} ELSE {}
    BY <1>4
  <1>6. number.valid => far = {z}
    <2>1. SUFFICES ASSUME number.valid
                   PROVE  far = {z}
      OBVIOUS
    <2>2. ideal = {v0}
      BY <1>4, <2>1
    <2> QED
      BY <2>2
  <1> DEFINE T == T0
             x == v0
             y == r.value
             U == make_unsigned(T)
             s == StaticCast(make_unsigned(r.type), y)
             p == 2 ^ y
             u == StaticCast(U, x)
             c == StaticCast(T, n)
  <1>7. T \in Types /\ x \in Values(T)
    BY <1>4
  <1>8. /\ s \in Nat /\ (s < T.bits <=> meant) /\ (s < T.bits => s = y)
        /\ ~r.type.signed => s = y
    BY <1>3, <1>4, CountIs
  <1>9. checked = LET wide == IF T.bits < IntWidth THEN x * 2 ^ s ELSE StaticCast(U, x * 2 ^ s)
                      result == StaticCast(T, wide)
                  IN  CASE x >= 0 /\ s < digits(T) -> Outcome(result \div 2 ^ s = x, result)
                        [] OTHER -> Outcome(T.signed /\ x = 0 /\ s = digits(T), 0)
    BY DEF CheckedLshOp
  <1>10. clamped = LET wide == IF T.bits < IntWidth THEN u * 2 ^ y ELSE StaticCast(U, u * 2 ^ y)
                       result == StaticCast(T, wide)
                   IN  CASE y < digits(T) /\ result \div 2 ^ y = x -> result
                         [] OTHER -> IF x = 0 THEN 0 ELSE Limit(T, x < 0)
    BY DEF ClampedLshOp, IsValueNegative
  <1>11. n = x * p /\ z = CASE x > 0 -> max(T) [] x = 0 -> 0 [] x < 0 -> lowest(T)
    OBVIOUS
  <1>12. /\ x \in Int /\ lowest(T) <= x /\ lowest(T) \in Int /\ max(T) \in Int
         /\ 0 <= max(T) /\ lowest(T) <= 0 /\ T.bits \in Nat
         /\ T.signed \in BOOLEAN /\ digits(T) = IF T.signed THEN T.bits - 1 ELSE T.bits
    BY <1>7, Limits, WidthsBounded, HalfFacts DEF Values, digits
  <1>13. U = make_unsigned(T) /\ u = StaticCast(make_unsigned(T), x) /\ y \in Int /\ c = StaticCast(T, n)
         /\ p = 2 ^ y /\ (meant <=> y \in 0 .. T.bits - 1)
    BY <1>4
  <1> HIDE DEF T, x, y, s, meant, n, z, checked, clamped, U, u, p, c
  (* What the shift makes of a count that has a meaning. *)
  <1>14. ASSUME meant
         PROVE  /\ n \in Int /\ c \in Values(T) /\ c \in Int
                /\ s = y /\ s \in Nat /\ s < T.bits
                /\ s < digits(T) \/ (T.signed /\ s = digits(T))
                /\ s < digits(T) => (c \div p = x <=> n \in Values(T))
                /\ n \in Values(T) => c = n
                /\ StaticCast(T, x * p) = c
                /\ StaticCast(T, StaticCast(U, x * p)) = c
                /\ StaticCast(T, u * p) = c
                /\ StaticCast(T, StaticCast(U, u * p)) = c
                /\ x = 0 => n = 0
                /\ x > 0 => n > 0
                /\ x < 0 => n < 0
                /\ ~(s < digits(T)) => (x > 0 => n > max(T)) /\ (x < 0 => n <= lowest(T))
    <2>1. s < T.bits /\ s = y /\ s \in Nat
      BY <1>8, <1>14
    <2>2. p \in Nat \ {0}
      BY <1>7, <1>13, <2>1, ShiftPower
    <2>3. n \in Int
      BY <1>11, <1>12, <2>2
    <2>4. c \in Values(T) /\ c \in Int /\ (n \in Values(T) => c = n)
      BY <1>7, <1>13, <2>3, Cast1
    <2>5. /\ StaticCast(T, StaticCast(U, x * p)) = c
          /\ StaticCast(T, u * p) = c
          /\ StaticCast(T, StaticCast(U, u * p)) = c
      BY <1>7, <1>11, <1>13, <2>2, ShiftedUnsigned
    <2>6. StaticCast(T, x * p) = c
      BY <1>11, <1>13
    <2>7. s < digits(T) \/ (T.signed /\ s = digits(T))
      <3>1. CASE T.signed
        <4>1. digits(T) = T.bits - 1
          BY <1>12, <3>1
        <4> QED
          BY <1>12, <2>1, <3>1, <4>1
      <3>2. CASE ~T.signed
        <4>1. digits(T) = T.bits
          BY <1>12, <3>2
        <4> QED
          BY <2>1, <4>1
      <3> QED
        BY <3>1, <3>2
    <2>8. s < digits(T) => (c \div p = x <=> n \in Values(T))
      BY <1>7, <1>11, <1>13, <2>1, <2>4, ShiftedBack
    <2>9. /\ x = 0 => n = 0
          /\ x > 0 => n > 0
          /\ x < 0 => n < 0
      <3>1. /\ x = 0 => x * p = 0
            /\ x > 0 => x * p > 0
            /\ x < 0 => x * p < 0
        BY <1>12, <2>2, SMTT(30)
      <3> QED
        BY <1>11, <3>1
    <2>10. ASSUME ~(s < digits(T))
           PROVE  (x > 0 => n > max(T)) /\ (x < 0 => n <= lowest(T))
      <3>1. T.signed /\ p = 2 ^ digits(T)
        BY <1>13, <2>1, <2>7, <2>10
      <3> QED
        BY <1>7, <1>11, <3>1, ShiftedFar
    <2> QED
      BY <2>1, <2>3, <2>4, <2>5, <2>6, <2>7, <2>8, <2>9, <2>10
  <1>15. ASSUME meant, x >= 0
         PROVE  n \in Int /\ Typed(checked) /\ Exactly(T, checked, n)
    <2>1. CASE s < digits(T)
      <3>1. checked = Outcome(c \div p = x, c)
        <4>1. 2 ^ s = p
          BY <1>13, <1>14, <1>15
        <4>2. CASE T.bits < IntWidth
          BY <1>9, <1>14, <1>15, <2>1, <4>1, <4>2
        <4>3. CASE ~(T.bits < IntWidth)
          BY <1>9, <1>14, <1>15, <2>1, <4>1, <4>3
        <4> QED
          BY <4>2, <4>3
      <3>2. checked.ok = (c \div p = x) /\ checked.result = c
        BY <3>1 DEF Outcome
      <3> QED
        BY <1>14, <1>15, <2>1, <3>2 DEF Typed, Exactly
    <2>2. CASE ~(s < digits(T))
      <3>1. checked = Outcome(T.signed /\ x = 0 /\ s = digits(T), 0)
        BY <1>9, <2>2
      <3>2. checked.ok = (T.signed /\ x = 0 /\ s = digits(T)) /\ checked.result = 0
        BY <3>1 DEF Outcome
      <3>3. checked.ok <=> x = 0
        BY <1>14, <1>15, <2>2, <3>2
      <3>4. n \in Values(T) <=> x = 0
        BY <1>12, <1>14, <1>15, <2>2 DEF Values
      <3> QED
        BY <1>14, <1>15, <3>2, <3>3, <3>4 DEF Typed, Exactly
    <2> QED
      BY <2>1, <2>2
  <1>16. ASSUME ~(meant /\ x >= 0)
         PROVE  Typed(checked) /\ ~checked.ok
    <2>1. ~(x >= 0 /\ s < digits(T)) /\ ~(T.signed /\ x = 0 /\ s = digits(T))
      BY <1>8, <1>12, <1>16
    <2>2. checked = Outcome(T.signed /\ x = 0 /\ s = digits(T), 0)
      BY <1>9, <2>1
    <2>3. checked.ok = (T.signed /\ x = 0 /\ s = digits(T)) /\ checked.result = 0
      BY <2>2 DEF Outcome
    <2>4. ~checked.ok
      BY <2>1, <2>3
    <2>5. checked.ok \in BOOLEAN
      BY <2>3
    <2>6. checked.result \in Int
      BY <2>3
    <2> QED
      BY <2>4, <2>5, <2>6 DEF Typed
  <1> DEFINE limit == IF x = 0 THEN 0 ELSE Limit(T, x < 0)
  <1>17. limit = z /\ z \in Int /\ Nearest(T, z) = z /\ StaticCast(T, z) = z
    <2> DEFINE isMin == x < 0
    <2>1. Limit(T, x < 0) = IF x < 0 THEN lowest(T) ELSE max(T)
      <3>1. Limit(T, isMin) = IF isMin THEN lowest(T) ELSE max(T)
        <4>1. isMin \in BOOLEAN
          OBVIOUS
        <4> HIDE DEF isMin
        <4> QED
          BY <1>7, <4>1, LimitIs
      <3> QED
        BY <3>1
    <2>2. limit = z
      BY <1>11, <1>12, <2>1
    <2>3. z \in Int /\ lowest(T) <= z /\ z <= max(T)
      BY <1>11, <1>12
    <2>4. z \in Values(T)
      BY <1>12, <2>3 DEF Values
    <2> HIDE DEF limit
    <2> QED
      BY <1>7, <1>12, <2>2, <2>3, <2>4, Cast1 DEF Nearest
  <1> HIDE DEF limit
  <1>18. ASSUME ~r.type.signed, meant
         PROVE  clamped \in Int /\ Nearest(T, n) = StaticCast(T, clamped)
    <2>1. /\ y < digits(T) /\ c \div p = x => clamped = c
          /\ ~(y < digits(T) /\ c \div p = x) => clamped = limit
      <3>1. CASE T.bits < IntWidth
        BY <1>10, <1>13, <1>14, <1>18, <3>1 DEF limit
      <3>2. CASE ~(T.bits < IntWidth)
        BY <1>10, <1>13, <1>14, <1>18, <3>2 DEF limit
      <3> QED
        BY <3>1, <3>2
    <2>2. CASE y < digits(T) /\ c \div p = x
      <3>1. clamped = n /\ n \in Values(T)
        BY <1>14, <1>18, <2>1, <2>2
      <3>2. StaticCast(T, n) = n /\ Nearest(T, n) = n
        BY <1>7, <1>12, <1>14, <1>18, <3>1, Cast1 DEF Nearest, Values
      <3> QED
        BY <1>14, <1>18, <3>1, <3>2
    <2>3. CASE ~(y < digits(T) /\ c \div p = x)
      <3>1. clamped = z
        BY <1>17, <2>1, <2>3
      <3>2. Nearest(T, n) = z
        <4>1. CASE x = 0
          <5>1. n = 0 /\ z = 0
            BY <1>11, <1>12, <1>14, <1>18, <4>1
          <5> QED
            BY <1>17, <5>1
        <4>2. CASE x > 0
          <5>1. n > max(T)
            <6>1. CASE y < digits(T)
              BY <1>12, <1>14, <1>18, <2>3, <4>2, <6>1 DEF Values
            <6>2. CASE ~(y < digits(T))
              BY <1>14, <1>18, <4>2, <6>2
            <6> QED
              BY <6>1, <6>2
          <5>2. z = max(T)
            BY <1>11, <1>12, <4>2
          <5> QED
            BY <1>12, <1>14, <1>18, <5>1, <5>2 DEF Nearest
        <4>3. CASE x < 0
          <5>1. n <= lowest(T)
            <6>1. CASE y < digits(T)
              BY <1>12, <1>14, <1>18, <2>3, <4>3, <6>1 DEF Values
            <6>2. CASE ~(y < digits(T))
              BY <1>14, <1>18, <4>3, <6>2
            <6> QED
              BY <6>1, <6>2
          <5>2. z = lowest(T)
            BY <1>11, <1>12, <4>3
          <5> QED
            BY <1>12, <1>14, <1>18, <5>1, <5>2 DEF Nearest
        <4> QED
          BY <1>12, <4>1, <4>2, <4>3
      <3> QED
        BY <1>17, <3>1, <3>2
    <2> QED
      BY <2>2, <2>3
  <1>19. ASSUME ~r.type.signed, ~meant
         PROVE  z \in Int /\ clamped \in Int /\ Nearest(T, z) = StaticCast(T, clamped)
    <2>1. ~(y < digits(T))
      BY <1>8, <1>12, <1>13, <1>19
    <2>2. clamped = limit
      BY <1>10, <2>1 DEF limit
    <2> QED
      BY <1>17, <2>2
  <1> HIDE DEF shifted, far
  <1>20. ASSUME CheckedMathOp(checked, r, T0, IF meant /\ x >= 0 THEN shifted ELSE {}, "agree")
         PROVE  IInv'
    <2>1. CASE meant /\ x >= 0
      <3>1. CheckedMathOp(checked, r, T0, shifted, "agree")
        BY <1>20, <2>1
      <3>2. n \in Int /\ Typed(checked) /\ Exactly(T0, checked, n) /\ Sound(T0, checked, n)
        BY <1>15, <2>1 DEF Sound, Exactly, T
      <3> QED
        BY <1>3, <1>4, <1>5, <3>1, <3>2, CheckedExactStep
    <2>2. CASE ~(meant /\ x >= 0)
      <3>1. CheckedMathOp(checked, r, T0, {}, "agree")
        BY <1>20, <2>2
      <3> QED
        BY <1>3, <1>4, <1>16, <2>2, <3>1, RefusedStep
    <2> QED
      BY <2>1, <2>2
  <1>21. ASSUME ~r.type.signed,
                ClampedMathOp(clamped, r, T0, IF meant THEN shifted ELSE far, "agree")
         PROVE  IInv'
    <2>1. number.valid /\ r.valid
      BY <1>4, <1>21 DEF ClampedMathOp, IsClamped
    <2>2. CASE meant
      <3>1. ClampedMathOp(clamped, r, T0, {n}, "agree")
        BY <1>5, <1>21, <2>1, <2>2
      <3>2. n \in Int
        BY <1>14, <2>2
      <3> QED
        BY <1>3, <1>4, <1>18, <1>21, <2>2, <3>1, <3>2, ClampedExactStep DEF T
    <2>3. CASE ~meant
      <3>1. ClampedMathOp(clamped, r, T0, {z}, "agree")
        BY <1>6, <1>21, <2>1, <2>3
      <3> QED
        BY <1>3, <1>4, <1>19, <1>21, <2>3, <3>1, ClampedExactStep DEF T
    <2> QED
      BY <2>2, <2>3
  <1> QED
    BY <1>1, <1>20, <1>21 DEF meant, shifted, far, checked, clamped, x

-----------------------------------------------------------------------------
(* The theorems. *)

LEMMA InitIInv ==
  ASSUME Init
  PROVE  IInv
  <1>1. PICK T \in Types, r \in Operands :
          /\ r.valid
          /\ \/ number = Checked(T, r.type, r.value, TRUE) /\ ideal = Fitting(T, {r.value})
             \/ number = Clamped(T, r.type, r.value) /\ ideal = Clamp(T, {r.value})
    BY DEF Init
  <1>2. build \in Builds /\ astray = FALSE /\ running = TRUE
    BY DEF Init
  <1>3. r.type \in Types /\ r.value \in Values(r.type) /\ r.value \in Int
    BY <1>1, OperandsTyped, Limits
  <1>4. CASE number = Checked(T, r.type, r.value, TRUE) /\ ideal = Fitting(T, {r.value})
    <2> DEFINE valid == TRUE
               fits == r.value \in Values(T)
               n == StaticCast(T, r.value)
    <2>1. valid \in BOOLEAN /\ fits \in BOOLEAN /\ fits = (valid /\ r.value \in Values(T))
      OBVIOUS
    <2>2. n \in Values(T) /\ n \in Int /\ (fits => n = r.value)
      BY <1>1, <1>3, Cast1
    <2>3. ideal = IF fits THEN {n} ELSE {}
      BY <1>4, <2>2 DEF Fitting
    <2>4. number = Checked(T, r.type, r.value, valid)
      BY <1>4
    <2>5. ideal \in SUBSET Int
      BY <2>2, <2>3
    <2> HIDE DEF valid, fits, n
    <2>6. Checked(T, r.type, r.value, valid) = Object("CheckedNumeric", T, StaticCast(T, r.value), fits)
      BY <1>1, <1>3, <2>1, CheckedConverted
    <2>7. number = Object("CheckedNumeric", T, n, fits)
      BY <2>4, <2>6 DEF n
    <2> QED
      BY <1>1, <1>2, <2>1, <2>2, <2>3, <2>5, <2>7 DEF IInv, TypeOK, Agreement, Agrees, Object
  <1>5. CASE number = Clamped(T, r.type, r.value) /\ ideal = Clamp(T, {r.value})
    <2> DEFINE n == Nearest(T, r.value)
    <2>1. number = Object("ClampedNumeric", T, n, TRUE) /\ n \in Values(T) /\ n \in Int
      BY <1>1, <1>3, <1>5, ClampedConverted, Limits
    <2>2. ideal = {n} /\ ideal \in SUBSET Int
      BY <1>5, <2>1 DEF Clamp
    <2> HIDE DEF n
    <2> QED
      BY <1>1, <1>2, <2>1, <2>2 DEF IInv, TypeOK, Agreement, Agrees, Object
  <1> QED
    BY <1>1, <1>4, <1>5

LEMMA NextIInv ==
  ASSUME IInv, [Next]_vars
  PROVE  IInv'
  <1>1. CASE Add
    BY <1>1, AddKeeps
  <1>2. CASE Sub
    BY <1>2, SubKeeps
  <1>3. CASE Mul
    BY <1>3, MulKeeps
  <1>4. CASE Div
    BY <1>4, DivKeeps
  <1>5. CASE Mod
    BY <1>5, ModKeeps
  <1>6. CASE ModTraps
    BY <1>6, ModTrapsKeeps
  <1>7. CASE Lsh
    BY <1>7, LshKeeps
  <1>8. CASE Rsh
    BY <1>8, RshKeeps
  <1>9. CASE AndWith
    BY <1>9, AndWithKeeps
  <1>10. CASE OrWith
    BY <1>10, OrWithKeeps
  <1>11. CASE XorWith
    BY <1>11, XorWithKeeps
  <1>12. CASE MaxWith
    BY <1>12, MaxWithKeeps
  <1>13. CASE MinWith
    BY <1>13, MinWithKeeps
  <1>14. CASE Negate
    BY <1>14, NegateKeeps
  <1>15. CASE AbsOf
    BY <1>15, AbsOfKeeps
  <1>16. CASE UnsignedAbs
    BY <1>16, UnsignedAbsKeeps
  <1>17. CASE Invert
    BY <1>17, InvertKeeps
  <1>18. CASE \E D \in Types : Cast(D)
    BY <1>18, CastKeeps
  <1>19. CASE UNCHANGED vars
    BY <1>19 DEF vars, IInv, TypeOK, Agreement, Agrees
  <1> QED
    BY <1>1, <1>2, <1>3, <1>4, <1>5, <1>6, <1>7, <1>8, <1>9, <1>10, <1>11, <1>12, <1>13, <1>14,
       <1>15, <1>16, <1>17, <1>18, <1>19 DEF Next

(* Whatever an object has been through, ideal is known: it is the value    *)
(* of a valid object and empty for an invalid one, unless the object has   *)
(* been given up; and a ClampedNumeric is never invalid.                   *)
THEOREM ObjectsAgree == Spec => []IInv
  <1>1. Init => IInv
    BY InitIInv
  <1>2. IInv /\ [Next]_vars => IInv'
    BY NextIInv
  <1> QED
    BY <1>1, <1>2, PTL DEF Spec

(* An object holds a value of its type after every chain of operations.    *)
THEOREM ObjectsTyped == Spec => []TypeOK
  <1>1. IInv => TypeOK
    BY DEF IInv
  <1> QED
    BY <1>1, ObjectsAgree, PTL

(* A CheckedNumeric that says it is valid has the value of exact           *)
(* arithmetic, and gives it out in exactly the types it fits.              *)
THEOREM CheckedObjectsSound == Spec => []CheckedSound
  <1>1. IInv => CheckedSound
    <2>1. SUFFICES ASSUME IInv, number.valid, ~astray
                   PROVE  /\ ideal = {number.value}
                          /\ \A D \in Types :
                               IsValueInRangeForNumericType(D, number.type, number.value)
                                 <=> ideal \subseteq Values(D)
      BY DEF CheckedSound
    <2>2. ideal = {number.value}
      BY <2>1 DEF IInv, Agreement, Agrees
    <2>3. number.type \in Types /\ number.value \in Values(number.type)
      BY <2>1 DEF IInv, TypeOK
    <2>4. ASSUME NEW D \in Types
          PROVE  IsValueInRangeForNumericType(D, number.type, number.value) <=> ideal \subseteq Values(D)
      <3>1. IsValueInRangeForNumericType(D, number.type, number.value) <=> number.value \in Values(D)
        BY <2>3, InRangeExact
      <3> QED
        BY <2>2, <3>1
    <2> QED
      BY <2>2, <2>4
  <1> QED
    BY <1>1, ObjectsAgree, PTL

(* A CheckedNumeric is invalid only where exact arithmetic has no value    *)
(* that fits: no operation held to ideal refuses a result it could hold.   *)
THEOREM CheckedObjectsComplete == Spec => []CheckedComplete
  <1>1. IInv => CheckedComplete
    BY DEF IInv, TypeOK, Agreement, Agrees, CheckedComplete
  <1> QED
    BY <1>1, ObjectsAgree, PTL

(* A ClampedNumeric has the nearest value after each operation, and so     *)
(* after every chain of them.                                              *)
THEOREM ClampedObjectsNearest == Spec => []ClampedNearest
  <1>1. IInv => ClampedNearest
    BY DEF IInv, Agreement, Agrees, ClampedNearest
  <1> QED
    BY <1>1, ObjectsAgree, PTL

(* The range checks, saturations and comparisons of a held value are exact *)
(* in every state an object can reach.                                     *)
THEOREM ConversionsStayExact == Spec => []ConversionsExact
  <1>1. TypeOK => ConversionsExact
    BY ConversionsAreExact
  <1> QED
    BY <1>1, ObjectsTyped, PTL
===============================================================================
