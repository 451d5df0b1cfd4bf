----------------------------- MODULE CheckedMath -----------------------------
(***************************************************************************)
(* The arithmetic of base/numerics/checked_math_impl.h and                 *)
(* clamped_math_impl.h on integers: the operation itself, the answer       *)
(* whether it can be trusted and, in the saturating form, what stands in   *)
(* for a result that cannot be.                                            *)
(*                                                                         *)
(* A build B has a compiler and the width of intptr_t.  clang and gcc      *)
(* answer with __builtin_*_overflow (safe_math_clang_gcc_impl.h); another  *)
(* compiler takes the portable path.                                       *)
(***************************************************************************)
EXTENDS Numerics, FiniteSetsExt

Builds == [compiler : {"clang", "other"}, intptr : {IntWidth, IntmaxWidth}]
          \cup [compiler : {"gcc"}, intptr : {IntmaxWidth}]

(* What Do answers: whether the result is right, and *result.              *)
Outcome(ok, result) == [ok |-> ok, result |-> result]
Refused == Outcome(FALSE, 0)
Narrowed(V, P, isValid, presult) ==
  Outcome(isValid /\ IsValueInRangeForNumericType(V, P, presult), StaticCast(V, presult))

(* __builtin_add_overflow and its kind: exact, then stored in *result.     *)
Builtin(V, n) == Outcome(n \in Values(V), StaticCast(V, n))

SignBit(T, u) == u >= Half(T)
IsValueNegative(v) == v < 0
SafeUnsignedAbs(T, v) ==
  LET U == make_unsigned(T)
  IN  IF v < 0 THEN StaticCast(U, 0 - StaticCast(U, v)) ELSE StaticCast(U, v)
NegateWrapper(T, v) == StaticCast(T, 0 - StaticCast(make_unsigned(T), v))

-----------------------------------------------------------------------------
(* Addition and subtraction: wrap in the unsigned type, then look at the   *)
(* signs.                                                                  *)

CheckedAddImpl(T, x, y) ==
  LET U == make_unsigned(T)
      ux == StaticCast(U, x)
      uy == StaticCast(U, y)
      uresult == StaticCast(U, ux + uy)
      signs == {SignBit(T, ux), SignBit(T, uy)}
  IN  Outcome(IF T.signed THEN SignBit(T, uresult) \in signs ELSE uresult >= uy,
              StaticCast(T, uresult))

(* Mutant: the sign of the result against that of y. *)
SubImplOtherSign(T, x, y) ==
  LET U == make_unsigned(T)
      ux == StaticCast(U, x)
      uy == StaticCast(U, y)
      uresult == StaticCast(U, ux - uy)
      sameSign(u, v) == SignBit(T, u) <=> SignBit(T, v)
  IN  Outcome(IF T.signed THEN sameSign(uresult, uy) \/ sameSign(ux, uy) ELSE x >= y,
              StaticCast(T, uresult))

CheckedSubImpl(T, x, y) ==
  LET U == make_unsigned(T)
      ux == StaticCast(U, x)
      uy == StaticCast(U, y)
      uresult == StaticCast(U, ux - uy)
      sameSign(u, v) == SignBit(T, u) <=> SignBit(T, v)
  IN  Outcome(IF T.signed THEN sameSign(uresult, ux) \/ sameSign(ux, uy) ELSE x >= y,
              StaticCast(T, uresult))

Promotion(B, T, U) ==
  LET fast == FastIntegerArithmeticPromotion(T, U)
  IN  IF fast.bits > B.intptr THEN BigEnoughPromotion(T, U) ELSE fast

BothInRange(P, T, U, x, y) ==
  IsValueInRangeForNumericType(P, T, x) /\ IsValueInRangeForNumericType(P, U, y)

Portable(B, T, U, V, x, y, plain, impl) ==
  LET P == Promotion(B, T, U)
      presult == IF IsIntegerArithmeticSafe(P, T, U) THEN Outcome(TRUE, StaticCast(P, plain)) ELSE impl
  IN  IF BothInRange(P, T, U, x, y)
      THEN Narrowed(V, P, presult.ok, presult.result)
      ELSE Refused

CheckedAddOp(B, T, U, V, x, y) ==
  LET P == Promotion(B, T, U)
      px == StaticCast(P, x)
      py == StaticCast(P, y)
  IN  IF B.compiler # "other"
      THEN Builtin(V, x + y)
      ELSE Portable(B, T, U, V, x, y, px + py, CheckedAddImpl(P, px, py))

CheckedSubOp(B, T, U, V, x, y) ==
  LET P == Promotion(B, T, U)
      px == StaticCast(P, x)
      py == StaticCast(P, y)
  IN  IF B.compiler # "other"
      THEN Builtin(V, x - y)
      ELSE Portable(B, T, U, V, x, y, px - py, CheckedSubImpl(P, px, py))

-----------------------------------------------------------------------------
(* Multiplication. *)

(* Mutant: lowest() is refused. *)
MulImplSymmetric(T, x, y) ==
  LET U == make_unsigned(T)
      ux == SafeUnsignedAbs(T, x)
      uy == SafeUnsignedAbs(T, y)
      uresult == StaticCast(U, ux * uy)
      isNegative == T.signed /\ (x < 0) # (y < 0)
      one(b) == IF b THEN 1 ELSE 0
  IN  Outcome(\/ uy <= one(~T.signed \/ isNegative)
              \/ ux <= max(T) \div uy,
              StaticCast(T, IF isNegative THEN 0 - uresult ELSE uresult))

CheckedMulImpl(T, x, y) ==
  LET U == make_unsigned(T)
      ux == SafeUnsignedAbs(T, x)
      uy == SafeUnsignedAbs(T, y)
      uresult == StaticCast(U, ux * uy)
      isNegative == T.signed /\ (x < 0) # (y < 0)
      one(b) == IF b THEN 1 ELSE 0
  IN  Outcome(\/ uy <= one(~T.signed \/ isNegative)
              \/ ux <= (max(T) + one(isNegative)) \div uy,
              StaticCast(T, IF isNegative THEN 0 - uresult ELSE uresult))

(* clang's runtime has no full-width multiplication of mixed signs.        *)
MulFastOpSupported(B, T, U) ==
  \/ B.compiler = "gcc"
  \/ B.compiler = "clang"
     /\ \E signed \in BOOLEAN : \A S \in {T, U} :
          StaticDstRangeRelationToSrcRange([signed |-> signed, bits |-> B.intptr], S)

CheckedMulOp(B, T, U, V, x, y) ==
  LET P == FastIntegerArithmeticPromotion(T, U)
      px == StaticCast(P, x)
      py == StaticCast(P, y)
      presult == IF MulFastOpSupported(B, P, P) THEN Builtin(P, x * y)
                 ELSE IF IsIntegerArithmeticSafe(P, T, U) THEN Outcome(TRUE, StaticCast(P, px * py))
                 ELSE CheckedMulImpl(P, px, py)
  IN  IF MulFastOpSupported(B, T, U) THEN Builtin(V, x * y)
      ELSE IF BothInRange(P, T, U, x, y) \/ x = 0 \/ y = 0
           THEN Narrowed(V, P, presult.ok, presult.result)
           ELSE Refused

-----------------------------------------------------------------------------
(* Division and remainder, which C++ rounds towards zero. *)

Abs(n) == IF n < 0 THEN -n ELSE n
Quotient(x, y) == (IF (x < 0) = (y < 0) THEN 1 ELSE -1) * (Abs(x) \div Abs(y))
Remainder(x, y) == x - y * Quotient(x, y)

CheckedDivOp(B, T, U, V, x, y) ==
  LET P == BigEnoughPromotion(T, U)
  IN  CASE \/ y = 0
           \/ /\ T.signed /\ U.signed /\ StaticDstRangeRelationToSrcRange(T, P)
              /\ StaticCast(P, x) = lowest(P) /\ y = StaticCast(U, -1)
           \/ ~BothInRange(P, T, U, x, y) /\ x # 0 -> Refused
        [] OTHER -> Narrowed(V, P, TRUE, StaticCast(P, Quotient(StaticCast(P, x), StaticCast(P, y))))

CheckedModOp(B, T, U, V, x, y) ==
  LET P == BigEnoughPromotion(T, U)
  IN  IF y = 0
      THEN Refused
      ELSE Narrowed(V, P, TRUE, Remainder(StaticCast(P, x), StaticCast(P, y)))

(* lowest() % -1 is undefined in C++; processors that raise an exception   *)
(* for the division raise it for the remainder.                            *)
ModUndefined(T, U, x, y) ==
  LET P == BigEnoughPromotion(T, U)
  IN  P.signed /\ P.bits >= IntWidth /\ x = lowest(P) /\ y = -1

-----------------------------------------------------------------------------
(* Shifts and bits. *)

CheckedLshOp(B, T, U, V, x, shift) ==
  LET s == StaticCast(make_unsigned(U), shift)
      wide == IF T.bits < IntWidth THEN x * 2 ^ s ELSE StaticCast(make_unsigned(T), x * 2 ^ s)
      result == StaticCast(V, wide)
  IN  CASE x >= 0 /\ s < digits(T) -> Outcome(result \div 2 ^ s = x, result)
        [] OTHER -> Outcome(T.signed /\ x = 0 /\ s = digits(T), 0)

CheckedRshOp(B, T, U, V, x, shift) ==
  LET s == StaticCast(make_unsigned(U), shift)
  IN  IF s < T.bits THEN Narrowed(V, T, TRUE, x \div 2 ^ s) ELSE Refused

Bits(T, v) == {i \in 0 .. T.bits - 1 : (v \div 2 ^ i) % 2 = 1}
OfBits(bits) ==
  LET below[n \in 0 .. IntmaxWidth] ==
        IF n = 0 THEN 0 ELSE below[n - 1] + (IF n - 1 \in bits THEN 2 ^ (n - 1) ELSE 0)
  IN  below[IntmaxWidth]
BitsType(T, U) == make_unsigned(MaxExponentPromotion(T, U))
BitsOf(T, U, v) == Bits(BitsType(T, U), StaticCast(BitsType(T, U), v))

And(T, U, x, y) == OfBits(BitsOf(T, U, x) \cap BitsOf(T, U, y))
Or(T, U, x, y) == OfBits(BitsOf(T, U, x) \cup BitsOf(T, U, y))
Xor(T, U, x, y) == OfBits(SymDiff(BitsOf(T, U, x), BitsOf(T, U, y)))

(* Checked, the result must fit; clamped, it is converted all the same.    *)
CheckedAndOp(B, T, U, V, x, y) == Narrowed(V, BitsType(T, U), TRUE, And(T, U, x, y))
CheckedOrOp(B, T, U, V, x, y) == Narrowed(V, BitsType(T, U), TRUE, Or(T, U, x, y))
CheckedXorOp(B, T, U, V, x, y) == Narrowed(V, BitsType(T, U), TRUE, Xor(T, U, x, y))
ClampedAndOp(B, T, U, V, x, y) == StaticCast(V, And(T, U, x, y))
ClampedOrOp(B, T, U, V, x, y) == StaticCast(V, Or(T, U, x, y))
ClampedXorOp(B, T, U, V, x, y) == StaticCast(V, Xor(T, U, x, y))

CheckedMaxOp(B, T, U, V, x, y) ==
  LET P == MaxExponentPromotion(T, U)
  IN  Narrowed(V, P, TRUE, StaticCast(P, IF IsGreater(T, U, x, y) THEN x ELSE y))
CheckedMinOp(B, T, U, V, x, y) ==
  LET P == LowestValuePromotion(T, U)
  IN  Narrowed(V, P, TRUE, StaticCast(P, IF IsLess(T, U, x, y) THEN x ELSE y))

-----------------------------------------------------------------------------
(* Saturation. *)

Otherwise(do, saturated) == IF do.ok THEN do.result ELSE saturated
Limit(V, isMin) == CommonMaxOrMin(V, V, isMin)

ClampedAddOp(B, T, U, V, x, y) ==
  Otherwise(CheckedAddOp(B, T, U, V, x, y), Limit(V, IsValueNegative(y)))

(* Mutant: the limit on the side of addition. *)
SubToAddLimit(B, T, U, V, x, y) ==
  Otherwise(CheckedSubOp(B, T, U, V, x, y), Limit(V, IsValueNegative(y)))

ClampedSubOp(B, T, U, V, x, y) ==
  Otherwise(CheckedSubOp(B, T, U, V, x, y), Limit(V, ~IsValueNegative(y)))
ClampedMulOp(B, T, U, V, x, y) ==
  Otherwise(CheckedMulOp(B, T, U, V, x, y), Limit(V, IsValueNegative(x) # IsValueNegative(y)))
ClampedDivOp(B, T, U, V, x, y) ==
  Otherwise(CheckedDivOp(B, T, U, V, x, y),
            IF x = 0 THEN 0 ELSE Limit(V, IsValueNegative(x) # IsValueNegative(y)))
ClampedModOp(B, T, U, V, x, y) ==
  Otherwise(CheckedModOp(B, T, U, V, x, y), StaticCast(V, x))

(* ClampedAddOp and ClampedSubOp compile only where the sign of the second *)
(* operand tells which limit to take.                                      *)
SaturationDetermined(T, U, V) ==
  V = MaxExponentPromotion(T, U) \/ StaticDstRangeRelationToSrcRange(U, V)

ClampedLshOp(B, T, U, V, x, shift) ==
  LET unsigned == StaticCast(make_unsigned(T), x)
      wide == IF T.bits < IntWidth
              THEN unsigned * 2 ^ shift
              ELSE StaticCast(make_unsigned(T), unsigned * 2 ^ shift)
      result == StaticCast(V, wide)
  IN  CASE shift < digits(T) /\ result \div 2 ^ shift = x -> result
        [] OTHER -> IF x = 0 THEN 0 ELSE Limit(V, IsValueNegative(x))

ClampedRshOp(B, T, U, V, x, shift) ==
  IF shift < T.bits
  THEN SaturateFastOp(V, Promoted(T), x \div 2 ^ shift)
  ELSE IF x < 0 THEN StaticCast(V, -1) ELSE 0

ClampedMaxOp(B, T, U, V, x, y) ==
  IF IsGreater(T, U, x, y) THEN SaturateFastOp(V, T, x) ELSE SaturateFastOp(V, U, y)
ClampedMinOp(B, T, U, V, x, y) ==
  IF IsLess(T, U, x, y) THEN SaturateFastOp(V, T, x) ELSE SaturateFastOp(V, U, y)

SaturatedNegWrapper(T, v) ==
  CASE ~T.signed -> 0
    [] T.signed /\ NegateWrapper(T, v) # lowest(T) -> NegateWrapper(T, v)
    [] T.signed /\ NegateWrapper(T, v) = lowest(T) -> max(T)

SaturatedAbsWrapper(T, v) ==
  LET u == SafeUnsignedAbs(T, v)
  IN  StaticCast(T, IF StaticCast(T, u) < 0 THEN u - 1 ELSE u)
=============================================================================
