---------------------------- MODULE SafeNumerics ----------------------------
(***************************************************************************)
(* CheckedNumeric (base/numerics/checked_math.h) and ClampedNumeric        *)
(* (clamped_math.h) as their users see them: an object that goes through a *)
(* sequence of operations with operands of any integer type and takes      *)
(* their result type on the way.  A CheckedNumeric remembers whether any   *)
(* of them failed; a ClampedNumeric goes on with the nearest value.        *)
(*                                                                         *)
(* The ghost ideal is what exact arithmetic makes of the same operations:  *)
(* the set of one value, or no value once a result has no meaning or does  *)
(* not fit.  It is computed from itself and never looks at the object.     *)
(***************************************************************************)
EXTENDS CheckedMath

CONSTANT EdgeWidth   \* bound: operands are this close to a limit of their type or to 0,
                     \* and objects are followed while that close to a limit of any type

ASSUME EdgeWidthAssumption == EdgeWidth \in Nat \ {0}

VARIABLES
  build,
  number,    \* the object: its class template, type, value_ and is_valid_
  ideal,
  astray,    \* whether an operation known to part from ideal has done so
  running

vars == <<build, number, ideal, astray, running>>

Near(n) == n - EdgeWidth .. n + EdgeWidth
Operand(T, v, valid) == [type |-> T, value |-> v, valid |-> valid]
Edges(T) == Near(lowest(T)) \cup Near(0) \cup Near(max(T))
AllEdges == UNION {Edges(T) : T \in Types}
Operands ==
  (UNION {{Operand(T, v, TRUE) : v \in Values(T) \cap Edges(T)} : T \in Types})
  \cup {Operand(int, 0, FALSE)}

Nearest(V, n) == CASE n < lowest(V) -> lowest(V) [] n > max(V) -> max(V) [] OTHER -> n
Fitting(V, S) == S \cap Values(V)
Clamp(V, S) == {Nearest(V, n) : n \in S}

Object(class, T, v, valid) == [class |-> class, type |-> T, value |-> v, valid |-> valid]

(* CheckedNumericState(value, is_valid) of a value of another type, and    *)
(* the constructors of ClampedNumeric.                                     *)
Checked(T, Src, v, valid) ==
  Object("CheckedNumeric", T, StaticCast(T, v), valid /\ IsValueInRangeForNumericType(T, Src, v))
Clamped(T, Src, v) == Object("ClampedNumeric", T, SaturateFastOp(T, Src, v), TRUE)

Init ==
  /\ build \in Builds
  /\ \E T \in Types, r \in Operands :
       /\ r.valid
       /\ \/ number = Checked(T, r.type, r.value, TRUE) /\ ideal = Fitting(T, {r.value})
          \/ number = Clamped(T, r.type, r.value) /\ ideal = Clamp(T, {r.value})
  /\ astray = FALSE
  /\ running = TRUE

T0 == number.type
v0 == number.value
Followed == running /\ ~astray /\ v0 \in AllEdges
IsChecked == number.class = "CheckedNumeric" /\ Followed
IsClamped == number.class = "ClampedNumeric" /\ Followed

(* The operations that are not held to ideal may "refuse" a result that    *)
(* fits, or "differ" from it.  Where one does, the object is given up.     *)
Follow(S, may) ==
  LET agrees == IF number'.valid THEN S = {number'.value} ELSE S = {}
      allowed == CASE may = "agree" -> FALSE [] may = "refuse" -> ~number'.valid [] may = "differ" -> TRUE
  IN  /\ astray' = (allowed /\ ~agrees)
      /\ ideal' = IF astray' THEN {} ELSE S
      /\ UNCHANGED <<build, running>>

(* A ClampedNumeric has no invalid operands.                               *)
Arguments == {r \in Operands : number.class = "CheckedNumeric" \/ r.valid}

MayIf(b, may) == IF b THEN may ELSE "agree"

(* The values the operands should have; there are none to compute with     *)
(* once one of the two is invalid.                                         *)
Operated(r) == IF r.valid THEN ideal ELSE {}

-----------------------------------------------------------------------------
(* Binary operations.  lhs op= rhs keeps the type of the object; lhs op    *)
(* rhs makes one of the operation's result_type.                           *)

CheckedResult(V, r, do) ==
  LET valid == number.valid /\ r.valid
  IN  Checked(V, V, IF valid THEN do.result ELSE 0, valid /\ do.ok)
ClampedResult(V, do) == Clamped(V, V, do)

CheckedMathOp(do, r, V, exact, may) ==
  /\ IsChecked
  /\ number' = CheckedResult(V, r, do)
  /\ Follow(Fitting(V, exact), may)

ClampedMathOp(do, r, V, exact, may) ==
  /\ IsClamped
  /\ number' = ClampedResult(V, do)
  /\ Follow(Clamp(V, exact), may)

ResultTypes(result_type) == {T0, result_type}
NoPromotion(r) == ~IsContained(T0, r.type)

(* A negative value plus an unsigned one saturates to the wrong limit of   *)
(* the unsigned result_type: to max, by the sign of the second operand.    *)
Add == \E r \in Arguments : \E V \in ResultTypes(MaxExponentPromotion(T0, r.type)) :
  LET sum == {a + r.value : a \in Operated(r)}
      partial == NoPromotion(r) /\ build.compiler = "other"
      wrongLimit == ~V.signed /\ v0 < 0
      checked == CheckedAddOp(build, T0, r.type, V, v0, r.value)
      clamped == ClampedAddOp(build, T0, r.type, V, v0, r.value)
  IN  \/ CheckedMathOp(checked, r, V, sum, MayIf(partial, "refuse"))
      \/ /\ SaturationDetermined(T0, r.type, V)
         /\ ClampedMathOp(clamped, r, V, sum, MayIf(partial \/ wrongLimit, "differ"))

Sub == \E r \in Arguments : \E V \in ResultTypes(MaxExponentPromotion(T0, r.type)) :
  LET difference == {a - r.value : a \in Operated(r)}
      partial == NoPromotion(r) /\ build.compiler = "other"
      checked == CheckedSubOp(build, T0, r.type, V, v0, r.value)
      clamped == ClampedSubOp(build, T0, r.type, V, v0, r.value)
  IN  \/ CheckedMathOp(checked, r, V, difference, MayIf(partial, "refuse"))
      \/ /\ SaturationDetermined(T0, r.type, V)
         /\ ClampedMathOp(clamped, r, V, difference, MayIf(partial, "differ"))

Mul == \E r \in Arguments : \E V \in ResultTypes(MaxExponentPromotion(T0, r.type)) :
  LET product == {a * r.value : a \in Operated(r)}
      partial == NoPromotion(r) /\ ~MulFastOpSupported(build, T0, r.type)
      checked == CheckedMulOp(build, T0, r.type, V, v0, r.value)
      clamped == ClampedMulOp(build, T0, r.type, V, v0, r.value)
  IN  \/ CheckedMathOp(checked, r, V, product, MayIf(partial, "refuse"))
      \/ ClampedMathOp(clamped, r, V, product, MayIf(partial, "differ"))

(* Saturated, the quotient by zero is max, min or zero.                    *)
Div == \E r \in Arguments : \E V \in ResultTypes(MaxExponentPromotion(T0, r.type)) :
  LET quotient == IF r.value = 0 THEN {} ELSE {Quotient(a, r.value) : a \in Operated(r)}
      beyond == {CASE a > 0 -> max(V) [] a = 0 -> 0 [] a < 0 -> lowest(V) : a \in ideal}
      checked == CheckedDivOp(build, T0, r.type, V, v0, r.value)
      clamped == ClampedDivOp(build, T0, r.type, V, v0, r.value)
  IN  \/ CheckedMathOp(checked, r, V, quotient, MayIf(NoPromotion(r), "refuse"))
      \/ ClampedMathOp(clamped, r, V, IF r.value = 0 THEN beyond ELSE quotient,
                       MayIf(NoPromotion(r), "differ"))

(* A remainder is not saturated: where it does not fit, or there is none,  *)
(* the first operand is converted instead.                                 *)
Mod == \E r \in Arguments : \E V \in ResultTypes(MaxExponentPromotion(T0, r.type)) :
  LET remainder == IF r.value = 0 THEN {} ELSE {Remainder(a, r.value) : a \in Operated(r)}
      fits == r.value # 0 /\ Remainder(v0, r.value) \in Values(V)
      checked == CheckedModOp(build, T0, r.type, V, v0, r.value)
      clamped == ClampedModOp(build, T0, r.type, V, v0, r.value)
  IN  \/ CheckedMathOp(checked, r, V, remainder, MayIf(NoPromotion(r), "differ"))
      \/ ClampedMathOp(clamped, r, V, remainder, MayIf(NoPromotion(r) \/ ~fits, "differ"))

ModTraps == \E r \in Arguments :
  /\ Followed /\ number.valid /\ r.valid
  /\ ModUndefined(T0, r.type, v0, r.value)
  /\ running' = FALSE
  /\ UNCHANGED <<build, number, ideal, astray>>

(* As unsigned, every negative shift is beyond the width of any type: 2^7  *)
(* is more than 64.  Narrower types than the code has would differ.        *)
ShiftCount(r) == r.value >= 0 \/ StaticCast(make_unsigned(r.type), r.value) > IntmaxWidth

(* A checked shift of a negative value, or by less than none or more than  *)
(* all bits, has no meaning; a saturating one goes on to the limit.        *)
Lsh == \E r \in {o \in Arguments : ShiftCount(o)} :
  LET meant == r.value \in 0 .. T0.bits - 1
      shifted == {a * 2 ^ r.value : a \in Operated(r)}
      far == {CASE a > 0 -> max(T0) [] a = 0 -> 0 [] a < 0 -> lowest(T0) : a \in ideal}
      checked == CheckedLshOp(build, T0, r.type, T0, v0, r.value)
      clamped == ClampedLshOp(build, T0, r.type, T0, v0, r.value)
  IN  \/ CheckedMathOp(checked, r, T0, IF meant /\ v0 >= 0 THEN shifted ELSE {}, "agree")
      \/ /\ ~r.type.signed
         /\ ClampedMathOp(clamped, r, T0, IF meant THEN shifted ELSE far, "agree")

Rsh == \E r \in {o \in Arguments : ShiftCount(o)} :
  LET meant == r.value \in 0 .. T0.bits - 1
      shifted == {a \div 2 ^ r.value : a \in Operated(r)}
      far == {IF a < 0 THEN -1 ELSE 0 : a \in ideal}
      checked == CheckedRshOp(build, T0, r.type, T0, v0, r.value)
      clamped == ClampedRshOp(build, T0, r.type, T0, v0, r.value)
  IN  \/ CheckedMathOp(checked, r, T0, IF meant THEN shifted ELSE {}, "agree")
      \/ /\ ~r.type.signed
         /\ ClampedMathOp(clamped, r, T0, IF meant THEN shifted ELSE far, "agree")

(* The bits of negative values are those of two's complement.              *)
BitOp(checked, clamped, bits, r, V) ==
  \/ CheckedMathOp(checked, r, V, bits, "agree")
  \/ ClampedMathOp(clamped, r, V, {StaticCast(V, n) : n \in bits}, "agree")

AndWith == \E r \in Arguments : \E V \in ResultTypes(BitsType(T0, r.type)) :
  LET W == BitsType(T0, r.type)
      bits == {OfBits(Bits(W, a) \cap Bits(W, r.value)) : a \in Operated(r)}
      checked == CheckedAndOp(build, T0, r.type, V, v0, r.value)
      clamped == ClampedAndOp(build, T0, r.type, V, v0, r.value)
  IN  BitOp(checked, clamped, bits, r, V)

OrWith == \E r \in Arguments : \E V \in ResultTypes(BitsType(T0, r.type)) :
  LET W == BitsType(T0, r.type)
      bits == {OfBits(Bits(W, a) \cup Bits(W, r.value)) : a \in Operated(r)}
      checked == CheckedOrOp(build, T0, r.type, V, v0, r.value)
      clamped == ClampedOrOp(build, T0, r.type, V, v0, r.value)
  IN  BitOp(checked, clamped, bits, r, V)

XorWith == \E r \in Arguments : \E V \in ResultTypes(BitsType(T0, r.type)) :
  LET W == BitsType(T0, r.type)
      bits == {OfBits(SymDiff(Bits(W, a), Bits(W, r.value))) : a \in Operated(r)}
      checked == CheckedXorOp(build, T0, r.type, V, v0, r.value)
      clamped == ClampedXorOp(build, T0, r.type, V, v0, r.value)
  IN  BitOp(checked, clamped, bits, r, V)

(* CheckMax, CheckMin and the saturating forms, and the member functions   *)
(* CheckedNumeric::Max and Min, whose ?: converts both operands to one     *)
(* type before one of them is picked.                                      *)
Picked(V, r, first, exact) ==
  LET picked == Converted(T0, r.type, IF first THEN v0 ELSE r.value)
  IN  /\ IsChecked
      /\ number' = Checked(V, V, StaticCast(V, picked), number.valid /\ r.valid)
      /\ Follow(exact, "agree")

MaxWith == \E r \in Arguments :
  LET V == MaxExponentPromotion(T0, r.type)
      larger == {IF a > r.value THEN a ELSE r.value : a \in Operated(r)}
      checked == CheckedMaxOp(build, T0, r.type, V, v0, r.value)
      clamped == ClampedMaxOp(build, T0, r.type, V, v0, r.value)
  IN  \/ CheckedMathOp(checked, r, V, larger, "agree")
      \/ Picked(V, r, IsGreater(T0, r.type, v0, r.value), larger)
      \/ ClampedMathOp(clamped, r, V, larger, "agree")

MinWith == \E r \in Arguments :
  LET V == LowestValuePromotion(T0, r.type)
      smaller == {IF a < r.value THEN a ELSE r.value : a \in Operated(r)}
      checked == CheckedMinOp(build, T0, r.type, V, v0, r.value)
      clamped == ClampedMinOp(build, T0, r.type, V, v0, r.value)
  IN  \/ CheckedMathOp(checked, r, V, smaller, "agree")
      \/ Picked(V, r, IsLess(T0, r.type, v0, r.value), smaller)
      \/ ClampedMathOp(clamped, r, V, smaller, "agree")

-----------------------------------------------------------------------------
(* Unary operations and conversions. *)

(* operator- wraps on an unsigned type, and the result is valid.  When the *)
(* compiler knows the value it takes the path that negates in unsigned.    *)
Negation(T) ==
  LET do == CheckedSubOp(build, T, T, T, 0, v0)
      known == Checked(T, T, NegateWrapper(T, v0),
                       number.valid /\ (T.signed => NegateWrapper(T, v0) # lowest(T)))
  IN  {known} \cup (IF T.signed THEN {Checked(T, T, do.result, number.valid /\ do.ok)} ELSE {})

Negate ==
  \/ /\ IsChecked
     /\ number' \in Negation(T0)
     /\ Follow(Fitting(T0, {IF T0.signed THEN -a ELSE StaticCast(T0, -a) : a \in ideal}), "agree")
  \/ /\ IsClamped
     /\ number' = Clamped(T0, T0, SaturatedNegWrapper(T0, v0))
     /\ Follow(Clamp(T0, {-a : a \in ideal}), "agree")

AbsOf ==
  \/ /\ IsChecked
     /\ number' \in IF IsValueNegative(v0) THEN Negation(T0) ELSE {number}
     /\ Follow(Fitting(T0, {Abs(a) : a \in ideal}), "agree")
  \/ /\ IsClamped
     /\ number' = Clamped(T0, T0, SaturatedAbsWrapper(T0, v0))
     /\ Follow(Clamp(T0, {Abs(a) : a \in ideal}), "agree")

UnsignedAbs ==
  LET U == make_unsigned(T0)
  IN  /\ \/ IsChecked /\ number' = Checked(U, U, SafeUnsignedAbs(T0, v0), number.valid)
         \/ IsClamped /\ number' = Clamped(U, U, SafeUnsignedAbs(T0, v0))
      /\ Follow({Abs(a) : a \in ideal}, "agree")

(* ~ of a signed value is an unsigned one that then has to fit.            *)
Invert ==
  LET U == make_unsigned(T0)
      inverted == StaticCast(U, -v0 - 1)
      exact == {IF T0.signed THEN -a - 1 ELSE max(T0) - a : a \in ideal}
      partial == T0.signed /\ v0 >= 0
  IN  \/ /\ IsChecked
         /\ number' = Checked(T0, U, inverted, number.valid)
         /\ Follow(exact, MayIf(partial, "refuse"))
      \/ /\ IsClamped
         /\ number' = Clamped(T0, U, inverted)
         /\ Follow(exact, MayIf(partial, "differ"))

(* Cast<D> and the conversion from one CheckedNumeric to another.          *)
Cast(D) ==
  \/ /\ IsChecked
     /\ number' = Checked(D, T0, v0, number.valid)
     /\ Follow(Fitting(D, ideal), "agree")
  \/ /\ IsClamped
     /\ number' = Clamped(D, T0, v0)
     /\ Follow(Clamp(D, ideal), "agree")

Next ==
  \/ Add \/ Sub \/ Mul \/ Div \/ Mod \/ ModTraps
  \/ Lsh \/ Rsh \/ AndWith \/ OrWith \/ XorWith \/ MaxWith \/ MinWith
  \/ Negate \/ AbsOf \/ UnsignedAbs \/ Invert
  \/ \E D \in Types : Cast(D)

Spec == Init /\ [][Next]_vars

-----------------------------------------------------------------------------

(* The object holds a value of its type, whatever it has been through.     *)
TypeOK ==
  /\ build \in Builds
  /\ number \in [class : {"CheckedNumeric", "ClampedNumeric"}, type : Types,
                 value : Int, valid : BOOLEAN]
  /\ number.value \in Values(number.type)
  /\ ideal \in SUBSET Int
  /\ astray \in BOOLEAN
  /\ running \in BOOLEAN

(* A CheckedNumeric that says it is valid has the value of exact           *)
(* arithmetic, through every chain of operations on mixed types, and gives *)
(* it out in a type exactly when it fits there (IsValid<D>, AssignIfValid). *)
CheckedSound ==
  number.class = "CheckedNumeric" /\ number.valid /\ ~astray =>
    /\ ideal = {number.value}
    /\ \A D \in Types :
         IsValueInRangeForNumericType(D, number.type, number.value) <=> ideal \subseteq Values(D)

(* A CheckedNumeric is not invalid without a reason: the operations whose  *)
(* operands have a common promotion refuse no result that fits.            *)
CheckedComplete ==
  number.class = "CheckedNumeric" /\ ~astray /\ ideal # {} => number.valid

(* A ClampedNumeric has the representable value nearest to the result of   *)
(* each operation whose operands have a common promotion.                  *)
ClampedNearest ==
  number.class = "ClampedNumeric" /\ ~astray => ideal = {number.value}

(* Range checks and both forms of saturated_cast agree with the integers   *)
(* for every destination, and so do the comparisons with every operand.    *)
ConversionsExact ==
  LET T == number.type
      v == number.value
  IN  /\ \A D \in Types :
           /\ IsValueInRangeForNumericType(D, T, v) <=> v \in Values(D)
           /\ IsValid(DstRangeRelationToSrcRange(D, T, v)) <=> v \in Values(D)
           /\ saturated_cast_impl(D, T, v) = Nearest(D, v)
           /\ SaturateFastOp(D, T, v) = Nearest(D, v)
      /\ \A r \in Operands :
           /\ SafeCompare("IsLess", T, r.type, v, r.value) <=> v < r.value
           /\ SafeCompare("IsLessOrEqual", T, r.type, v, r.value) <=> v <= r.value
           /\ SafeCompare("IsGreater", T, r.type, v, r.value) <=> v > r.value
           /\ SafeCompare("IsGreaterOrEqual", T, r.type, v, r.value) <=> v >= r.value
           /\ SafeCompare("IsEqual", T, r.type, v, r.value) <=> v = r.value
           /\ SafeCompare("IsNotEqual", T, r.type, v, r.value) <=> v # r.value
=============================================================================
