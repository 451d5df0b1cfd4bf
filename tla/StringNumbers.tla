--------------------------- MODULE StringNumbers ---------------------------
(***************************************************************************)
(* base/strings/string_number_conversions.cc: numerals of a sign and       *)
(* digits, read into an integer of Width bits.                             *)
(*                                                                         *)
(* A text is a sequence of characters.  Digit gives the characters that    *)
(* are digits in some base their value; of the others, white space, the    *)
(* signs and x are told apart.                                             *)
(***************************************************************************)
EXTENDS Integers, Sequences, SequencesExt

CONSTANTS
  Width,           \* bits of the integer types
  Digit,           \* [character -> value], of every base
  Whitespace       \* the characters isspace accepts

-----------------------------------------------------------------------------
(* The traits: the integer type of the output, and the limits that the     *)
(* bounds are checked against, which for HexStringToInt are not the same.  *)
IntTraits == [kBase |-> 10, signed |-> TRUE,
              min |-> -2^(Width - 1), max |-> 2^(Width - 1) - 1]
UintTraits == [kBase |-> 10, signed |-> FALSE, min |-> 0, max |-> 2^Width - 1]
HexIntTraits == [IntTraits EXCEPT !.kBase = 16, !.max = UintTraits.max]

(* What the output holds when it is assigned n.  (A signed sum that leaves *)
(* the type is undefined; every build wraps it.)                           *)
Wrapped(traits, n) ==
  LET bits == n % 2^Width
  IN  IF traits.signed /\ bits >= 2^(Width - 1) THEN bits - 2^Width ELSE bits

IsDigit(traits, c) == c \in DOMAIN Digit /\ Digit[c] < traits.kBase

(* Division that rounds to zero, and its remainder. *)
Quotient(n, d) == IF n < 0 THEN -((-n) \div d) ELSE n \div d
Remainder(n, d) == n - d * Quotient(n, d)

(* Positive and Negative: which way the digits count, and whether a next   *)
(* digit would carry the number past its limit.                            *)
Furthest(traits, sign) == IF sign = 1 THEN traits.max ELSE traits.min

(* Mutant: the last digit is not looked at. *)
WithoutLastDigit(traits, sign, output, digit) ==
  IF sign = 1 THEN output <= Quotient(traits.max, traits.kBase)
  ELSE output >= Quotient(traits.min, traits.kBase)

CheckBounds(traits, sign, output, digit) ==
  LET most == Wrapped(traits, Quotient(Furthest(traits, sign), traits.kBase))
      lastDigit == sign * Remainder(Furthest(traits, sign), traits.kBase)
  IN  /\ sign * output <= sign * most
      /\ output = most => digit <= lastDigit

(* The loop over the digits from begin on; the first is not checked.  The  *)
(* number is valid as long as the loop goes on.                            *)
Digits(traits, sign, text, begin) ==
  LET after[i \in 0 .. Len(text)] ==
        IF i < begin THEN [valid |-> TRUE, output |-> 0]
        ELSE LET before == after[i - 1]
                 output == before.output
             IN  IF ~before.valid THEN before
                 ELSE IF ~IsDigit(traits, text[i]) THEN [valid |-> FALSE, output |-> output]
                 ELSE IF i > begin /\ ~CheckBounds(traits, sign, output, Digit[text[i]])
                   THEN [valid |-> FALSE, output |-> Wrapped(traits, Furthest(traits, sign))]
                 ELSE [valid |-> TRUE,
                       output |-> Wrapped(traits,
                                          (IF i > begin THEN output * traits.kBase ELSE output)
                                          + sign * Digit[text[i]])]
  IN  after[Len(text)]

CharacterAt(text, i) == IF i <= Len(text) THEN text[i] ELSE "end"

(* Base<Sign>::Invoke: the number that begins at position i. *)
SignedNumber(traits, sign, text, i) ==
  LET prefixed == /\ traits.kBase = 16
                  /\ CharacterAt(text, i) = "0" /\ CharacterAt(text, i + 1) = "x"
  IN  IF i > Len(text) THEN [valid |-> FALSE, output |-> 0]
      ELSE Digits(traits, sign, text, IF prefixed THEN i + 2 ELSE i)

(* The first character that is not white space. *)
Start(text) == CHOOSE i \in 1 .. Len(text) + 1 :
                 /\ \A j \in 1 .. i - 1 : text[j] \in Whitespace
                 /\ i <= Len(text) => text[i] \notin Whitespace

(* IteratorRangeToNumber::Invoke. *)
Number(traits, text) ==
  LET start == Start(text)
      c == CharacterAt(text, start)
      number == IF c = "-" THEN SignedNumber(traits, -1, text, start + 1)
                ELSE SignedNumber(traits, 1, text, IF c = "+" THEN start + 1 ELSE start)
  IN  [number EXCEPT !.valid = @ /\ start = 1]

StringToInt(text) == Number(IntTraits, text)
StringToUint(text) == Number(UintTraits, text)
HexStringToInt(text) == Number(HexIntTraits, text)

(* The bytes that HexStringToBytes appends to its output, in pairs of      *)
(* digits, as far as they are good.                                        *)
HexStringToBytes(text) ==
  LET pairs == IF Len(text) % 2 = 0 THEN Len(text) \div 2 ELSE 0
      Good(n) == \A i \in 1 .. 2 * n : IsDigit(HexIntTraits, text[i])
      count == CHOOSE n \in 0 .. pairs : Good(n) /\ (n < pairs => ~Good(n + 1))
  IN  [valid |-> pairs > 0 /\ count = pairs,
       output |-> [n \in 1 .. count |-> 16 * Digit[text[2 * n - 1]] + Digit[text[2 * n]]]]

-----------------------------------------------------------------------------
(* The digits from first on end at a character that is not one.            *)
End(traits, text, first) ==
  CHOOSE e \in first .. Len(text) + 1 :
    /\ \A j \in first .. e - 1 : IsDigit(traits, text[j])
    /\ e <= Len(text) => ~IsDigit(traits, text[e])

(* The number that the digits from first up to end say, but for its sign. *)
Value(traits, text, first, end) ==
  LET value[i \in 0 .. end - 1] ==
        IF i < first THEN 0 ELSE value[i - 1] * traits.kBase + Digit[text[i]]
  IN  value[end - 1]

(* What a text says: the sign and the digits, up to a character that is    *)
(* not one, behind the white space.                                        *)
ReadsNumeral(traits, text) ==
  LET start == Start(text)
      sign == IF CharacterAt(text, start) = "-" THEN -1 ELSE 1
      digits == IF CharacterAt(text, start) \in {"-", "+"} THEN start + 1 ELSE start
      prefixed == /\ traits.kBase = 16 /\ CharacterAt(text, digits) = "0"
                  /\ CharacterAt(text, digits + 1) = "x"
      first == IF prefixed THEN digits + 2 ELSE digits
      end == End(traits, text, first)
      value == sign * Value(traits, text, first, end)
      wellFormed == start = 1 /\ end > Len(text) /\ digits <= Len(text)
      inRange == value \in traits.min .. traits.max
      wraps == IF traits.signed THEN traits.kBase = 16 /\ value > IntTraits.max ELSE value < 0
      result == Number(traits, text)
  IN  IF wraps
        THEN result.valid => wellFormed /\ (result.output - value) % 2^Width = 0
        ELSE /\ result.valid <=> wellFormed /\ inRange
             /\ result.output = IF inRange THEN value ELSE Furthest(traits, sign)

(* The bytes of all pairs of digits; or false, and those in front of what  *)
(* is not one.                                                             *)
ReadsBytes(text) ==
  LET result == HexStringToBytes(text)
      read == SubSeq(text, 1, 2 * Len(result.output))
  IN  /\ \A i \in DOMAIN read : IsDigit(HexIntTraits, read[i])
      /\ \A n \in DOMAIN result.output :
           /\ result.output[n] \div 16 = Digit[read[2 * n - 1]]
           /\ result.output[n] % 16 = Digit[read[2 * n]]
      /\ result.valid <=> read = text /\ text # <<>>
=============================================================================
