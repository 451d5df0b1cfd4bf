-------------------------------- MODULE Utf --------------------------------
(***************************************************************************)
(* Conversions between UTF-8 and UTF-16 (base/strings/utf_string_*.cc and  *)
(* the macros of base/third_party/icu/icu_utf.h).                          *)
(*                                                                         *)
(* Texts are sequences of code units, which are numbers; so are code       *)
(* points.  Offsets count from 1.                                          *)
(***************************************************************************)
EXTENDS Integers, Sequences

CBU_SENTINEL == -1
ReplacementCharacter == 65533          \* U+FFFD
Bit(bits, n) == (bits \div 2^n) % 2 = 1
Low(n, bits) == n % 2^bits             \* n & (2^bits - 1)
High(n, bits) == n \div 2^bits         \* n >> bits

IsValidCodepoint(code_point) ==
  0 <= code_point /\ (code_point < 55296 \/ (57344 <= code_point /\ code_point <= 1114111))

-----------------------------------------------------------------------------
(* CBU8_LEAD3_T1_BITS and CBU8_LEAD4_T1_BITS *)
LEAD3_T1_BITS == [lead \in 0 .. 15 |-> CASE lead = 0 -> 32 [] lead = 13 -> 16 [] OTHER -> 48]
LEAD4_T1_BITS == [t1 \in 0 .. 15 |-> CASE t1 = 8 -> 30 [] t1 \in 9 .. 11 -> 15 [] OTHER -> 0]

IsTrail8(byte) == High(byte, 6) = 2

(* Mutant: only the form of the first trail byte is looked at. *)
AnyTrail(c, byte) == c >= 194 /\ c < 245 /\ IsTrail8(byte)

(* Whether byte may follow the lead c. *)
FirstTrail(c, byte) ==
  \/ c \in 194 .. 223 /\ IsTrail8(byte)
  \/ c \in 224 .. 239 /\ Bit(LEAD3_T1_BITS[Low(c, 4)], High(byte, 5))
  \/ c \in 240 .. 244 /\ Bit(LEAD4_T1_BITS[High(byte, 4)], Low(c, 3))

Trails(c) == IF c < 194 \/ c > 244 THEN 0 ELSE IF c < 224 THEN 1 ELSE IF c < 240 THEN 2 ELSE 3

(* How many trail bytes stand behind the lead at i, up to a bad one. *)
GoodTrails(src, i) ==
  LET Good(n) ==
        \A k \in 1 .. n :
          /\ i + k <= Len(src)
          /\ IF k = 1 THEN FirstTrail(src[i], src[i + 1]) ELSE IsTrail8(src[i + k])
  IN  CHOOSE n \in 0 .. Trails(src[i]) : Good(n) /\ (n < Trails(src[i]) => ~Good(n + 1))

(* The lead's own bits, and six of each trail byte. *)
Assembled(src, i) ==
  IF src[i] < 224 THEN 64 * Low(src[i], 5) + Low(src[i + 1], 6)
  ELSE IF src[i] < 240 THEN 2^12 * Low(src[i], 4) + 64 * Low(src[i + 1], 6) + Low(src[i + 2], 6)
  ELSE 2^18 * Low(src[i], 3) + 2^12 * Low(src[i + 1], 6)
       + 64 * Low(src[i + 2], 6) + Low(src[i + 3], 6)

(* CBU8_NEXT: the code point at i, or CBU_SENTINEL, and the offset behind  *)
(* what was read.                                                          *)
Next8(src, i) ==
  LET good == GoodTrails(src, i)
  IN  [code_point |-> IF src[i] < 128 THEN src[i]
                      ELSE IF Trails(src[i]) > 0 /\ good = Trails(src[i])
                        THEN Assembled(src, i)
                      ELSE CBU_SENTINEL,
       next |-> i + 1 + good]

IsLead16(unit) == High(unit, 10) = 54
IsTrail16(unit) == High(unit, 10) = 55
IsSurrogate(unit) == IsLead16(unit) \/ IsTrail16(unit)

(* The character at i of UTF-16.  An unpaired surrogate is read alone. *)
Next16(src, i) ==
  IF ~IsSurrogate(src[i]) THEN [code_point |-> src[i], next |-> i + 1]
  ELSE IF IsLead16(src[i]) /\ i + 1 <= Len(src) /\ IsTrail16(src[i + 1])
    THEN [code_point |-> 2^10 * src[i] + src[i + 1] - (2^10 * 55296 + 56320 - 65536),
          next |-> i + 2]
  ELSE [code_point |-> CBU_SENTINEL, next |-> i + 1]

(* A character in UTF-8, by CBU8_APPEND_UNSAFE, and in UTF-16. *)
Written8(c) ==
  LET Trail(shift) == 128 + Low(High(c, shift), 6)
  IN  IF c <= 127 THEN <<c>>
      ELSE IF c <= 2047 THEN <<192 + High(c, 6), Trail(0)>>
      ELSE IF c <= 65535 THEN <<224 + High(c, 12), Trail(6), Trail(0)>>
      ELSE <<240 + High(c, 18), Trail(12), Trail(6), Trail(0)>>

Written16(c) ==
  IF c <= 65535 THEN <<c>> ELSE <<High(c, 10) + 55232, 56320 + Low(c, 10)>>

(* The overloads for the two encodings, of units of 8 or 16 bits. *)
ReadUnicodeCharacter(bits, src, i) == IF bits = 8 THEN Next8(src, i) ELSE Next16(src, i)
WriteUnicodeCharacter(bits, c) == IF bits = 8 THEN Written8(c) ELSE Written16(c)

-----------------------------------------------------------------------------
(* ConvertUnicode: one more character, or U+FFFD for what is not one. *)
Readable(read) == IF IsValidCodepoint(read.code_point) THEN read.code_point
                  ELSE ReplacementCharacter

Nothing == [success |-> TRUE, output |-> <<>>]
Converted(read, written, rest) ==
  [success |-> IsValidCodepoint(read.code_point) /\ rest.success, output |-> written \o rest.output]

ConvertUnicode(from, to, src) ==
  LET converted[i \in 1 .. Len(src) + 1] ==
        LET read == ReadUnicodeCharacter(from, src, i)
        IN  IF i > Len(src) THEN Nothing
            ELSE Converted(read, WriteUnicodeCharacter(to, Readable(read)), converted[read.next])
  IN  converted[1]

UTF8ToUTF16(src) == ConvertUnicode(8, 16, src)
UTF16ToUTF8(src) == ConvertUnicode(16, 8, src)
=============================================================================
