------------------------------ MODULE Numerics ------------------------------
(***************************************************************************)
(* The conversions and comparisons of base/numerics/safe_conversions.h and *)
(* safe_conversions_impl.h, for integers.                                  *)
(*                                                                         *)
(* A C++ integer type is a record of its signedness and its width, a value *)
(* is an integer in the range of its type, and static_cast is what two's   *)
(* complement makes of a value that is out of range.  Operands narrower    *)
(* than int become int before the built-in operators see them.             *)
(***************************************************************************)
EXTENDS Integers

CONSTANTS
  Widths,       \* the widths of the integer types, each twice the one before
  IntWidth,     \* IntegerBitsPlusSign<int>
  IntmaxWidth   \* IntegerBitsPlusSign<intmax_t>

ASSUME WidthsAssumption ==
  /\ Widths \subseteq Nat \ {0, 1}
  /\ IntWidth \in Widths
  /\ IntmaxWidth \in Widths
  /\ \A w \in Widths \ {IntmaxWidth} : 2 * w <= IntmaxWidth /\ 2 * w \in Widths

(* What a power of two is, which the provers do not know of themselves.    *)
ASSUME PowersAssumption == \A n \in 0 .. IntmaxWidth - 1 : 2 ^ (n + 1) = 2 * 2 ^ n

Types == [signed : BOOLEAN, bits : Widths]
int == [signed |-> TRUE, bits |-> IntWidth]

Half(T) == 2 ^ (T.bits - 1)
lowest(T) == IF T.signed THEN -Half(T) ELSE 0
max(T) == IF T.signed THEN Half(T) - 1 ELSE 2 * Half(T) - 1
Values(T) == lowest(T) .. max(T)
digits(T) == IF T.signed THEN T.bits - 1 ELSE T.bits

(* Mutant: no sign extension. *)
ZeroExtended(T, v) == v % (2 * Half(T))

StaticCast(T, v) == lowest(T) + ((v - lowest(T)) % (2 * Half(T)))

make_unsigned(T) == [T EXCEPT !.signed = FALSE]
make_signed(T) == [T EXCEPT !.signed = TRUE]

(* The type of x + y: the wider of the promoted types, or the unsigned one *)
(* of two that are equally wide.                                           *)
Promoted(T) == IF T.bits < IntWidth THEN int ELSE T
Common(T, U) ==
  LET P == Promoted(T)
      Q == Promoted(U)
  IN  IF P.bits > Q.bits \/ (P.bits = Q.bits /\ ~P.signed) THEN P ELSE Q

-----------------------------------------------------------------------------
(* Which type contains which. *)

MaxExponent(T) == digits(T) + 1

StaticDstRangeRelationToSrcRange(Dst, Src) ==
  \/ Dst.signed = Src.signed /\ MaxExponent(Dst) >= MaxExponent(Src)
  \/ Dst.signed /\ ~Src.signed /\ MaxExponent(Dst) > MaxExponent(Src)

(* A signed and an unsigned type are compared in the type of their sum,    *)
(* which takes a negative value for a large one if it is unsigned.         *)
DstRangeRelationToSrcRange(Dst, Src, v) ==
  LET P == Common(Src, Dst)
      AtMostMax(x) == StaticCast(P, x) <= StaticCast(P, max(Dst))
      Within(low, high) == [underflow |-> ~low, overflow |-> ~high]
  IN  CASE StaticDstRangeRelationToSrcRange(Dst, Src) ->
             Within(\/ StaticCast(Dst, lowest(Src)) >= lowest(Dst)
                    \/ StaticCast(Dst, v) >= lowest(Dst),
                    \/ StaticCast(Dst, max(Src)) <= max(Dst)
                    \/ StaticCast(Dst, v) <= max(Dst))
        [] OTHER ->
             Within(\/ ~Src.signed
                    \/ v >= lowest(Dst),
                    \/ Dst.signed = Src.signed /\ v <= max(Dst)
                    \/ Dst.signed /\ ~Src.signed /\ AtMostMax(v)
                    \/ ~Dst.signed /\ Src.signed
                       /\ (AtMostMax(max(Src)) \/ AtMostMax(v)))

IsValid(check) == ~check.underflow /\ ~check.overflow
IsUnderflow(check) == check.underflow /\ ~check.overflow
IsOverflow(check) == check.overflow /\ ~check.underflow

-----------------------------------------------------------------------------
(* Comparisons of values of different types. *)

Converted(L, R, x) == StaticCast(Common(L, R), x)

Compare(C, l, r, x, y) ==
  CASE C = "IsLess" -> IsUnderflow(l) \/ IsOverflow(r) \/ (l = r /\ x < y)
    [] C = "IsLessOrEqual" -> IsUnderflow(l) \/ IsOverflow(r) \/ (l = r /\ x <= y)
    [] C = "IsGreater" -> IsOverflow(l) \/ IsUnderflow(r) \/ (l = r /\ x > y)
    [] C = "IsGreaterOrEqual" -> IsOverflow(l) \/ IsUnderflow(r) \/ (l = r /\ x >= y)
    [] C = "IsEqual" -> l = r /\ x = y
    [] C = "IsNotEqual" -> l # r \/ x # y

(* C<L, R>::Test. *)
Test(C, L, R, x, y) ==
  Compare(C, DstRangeRelationToSrcRange(R, L, x), DstRangeRelationToSrcRange(L, R, y),
          Converted(L, R, x), Converted(L, R, y))

IsLess(L, R, x, y) == Test("IsLess", L, R, x, y)
IsLessOrEqual(L, R, x, y) == Test("IsLessOrEqual", L, R, x, y)
IsGreater(L, R, x, y) == Test("IsGreater", L, R, x, y)
IsGreaterOrEqual(L, R, x, y) == Test("IsGreaterOrEqual", L, R, x, y)

-----------------------------------------------------------------------------
(* Range checks and saturation. *)

IsMaxInRangeForNumericType(Dst, Src) == IsGreaterOrEqual(Dst, Src, max(Dst), max(Src))
IsMinInRangeForNumericType(Dst, Src) == IsLessOrEqual(Dst, Src, lowest(Dst), lowest(Src))
CommonMax(Dst, Src) ==
  IF IsMaxInRangeForNumericType(Dst, Src) THEN StaticCast(Dst, max(Src)) ELSE max(Dst)
CommonMin(Dst, Src) ==
  IF IsMinInRangeForNumericType(Dst, Src) THEN StaticCast(Dst, lowest(Src)) ELSE lowest(Dst)
CommonMaxOrMin(Dst, Src, isMin) == IF isMin THEN CommonMin(Dst, Src) ELSE CommonMax(Dst, Src)

IsValueInRangeForNumericType(Dst, Src, v) ==
  LET U == make_unsigned(Src)
  IN  CASE StaticDstRangeRelationToSrcRange(Dst, Src) \/ ~Src.signed ->
             IsValid(DstRangeRelationToSrcRange(Dst, Src, v))
        [] Dst.signed /\ Src.signed /\ ~StaticDstRangeRelationToSrcRange(Dst, Src) ->
             v = StaticCast(Dst, v)
        [] ~Dst.signed /\ Src.signed ->
             StaticCast(U, v) <= StaticCast(U, CommonMax(Src, Dst))

(* saturated_cast of a value the compiler knows, and of one it does not.   *)
saturated_cast_impl(Dst, Src, v) ==
  LET check == DstRangeRelationToSrcRange(Dst, Src, v)
  IN  CASE check.overflow -> max(Dst)
        [] check.underflow /\ ~check.overflow -> lowest(Dst)
        [] OTHER -> StaticCast(Dst, v)

(* Mutant: an unsigned destination overflows upwards only. *)
NeverBelow(Dst, Src, v) ==
  IF IsValueInRangeForNumericType(Dst, Src, v)
  THEN StaticCast(Dst, v)
  ELSE CommonMaxOrMin(Dst, Src, IsMaxInRangeForNumericType(Dst, Src))

SaturateFastOp(Dst, Src, v) ==
  LET isMin == \/ IsMaxInRangeForNumericType(Dst, Src)
               \/ ~IsMinInRangeForNumericType(Dst, Src) /\ v < 0
  IN  IF IsValueInRangeForNumericType(Dst, Src, v)
      THEN StaticCast(Dst, v)
      ELSE CommonMaxOrMin(Dst, Src, isMin)

-----------------------------------------------------------------------------
(* The types in which arithmetic is done. *)

MaxExponentPromotion(L, R) == IF MaxExponent(L) > MaxExponent(R) THEN L ELSE R

LowestValuePromotion(L, R) ==
  CASE L.signed /\ R.signed -> IF MaxExponent(L) > MaxExponent(R) THEN L ELSE R
    [] ~L.signed /\ ~R.signed -> IF MaxExponent(L) < MaxExponent(R) THEN L ELSE R
    [] OTHER -> IF L.signed THEN L ELSE R

TwiceWiderInteger(T, signed) == [signed |-> signed, bits |-> 2 * T.bits]

MaxExponentContains(L, R) ==
  LET P == MaxExponentPromotion(L, R)
  IN  StaticDstRangeRelationToSrcRange(P, L) /\ StaticDstRangeRelationToSrcRange(P, R)

(* No type holds the operands when the widest unsigned type meets a signed *)
(* one: is_contained is false and the unsigned type has to do.             *)
IsContained(L, R) == MaxExponentContains(L, R) \/ MaxExponentPromotion(L, R).bits # IntmaxWidth

BigEnoughPromotion(L, R) ==
  LET P == MaxExponentPromotion(L, R)
  IN  IF MaxExponentContains(L, R) \/ P.bits = IntmaxWidth
      THEN P
      ELSE TwiceWiderInteger(P, L.signed \/ R.signed)

IsIntegerArithmeticSafe(T, L, R) ==
  \A S \in {L, R} : (S.signed => T.signed) /\ T.bits >= 2 * S.bits

FastIntegerArithmeticPromotion(L, R) ==
  LET P == MaxExponentPromotion(L, R)
      widest == [signed |-> L.signed \/ R.signed, bits |-> IntmaxWidth]
  IN  IF IsIntegerArithmeticSafe(widest, P, P)
      THEN TwiceWiderInteger(P, L.signed \/ R.signed)
      ELSE BigEnoughPromotion(L, R)

SafeCompare(C, L, R, x, y) ==
  LET Big == BigEnoughPromotion(L, R)
  IN  IF IsContained(L, R)
      THEN Test(C, Big, Big, StaticCast(Big, x), StaticCast(Big, y))
      ELSE Test(C, L, R, x, y)
=============================================================================
