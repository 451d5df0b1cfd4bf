------------------------------ MODULE Strings ------------------------------
(***************************************************************************)
(* The string functions of base, on every short text over the characters   *)
(* that matter to them.                                                    *)
(*                                                                         *)
(* A caller writes a text, one character after the other, and then passes  *)
(* it, or its two halves at any place, to the functions of one module.     *)
(* These keep no state: what they promise is said of each text.            *)
(***************************************************************************)
EXTENDS Integers, Sequences, SequencesExt

CONSTANTS
  Alphabet,        \* per topic, the characters of its texts
  MaxLength,       \* per topic, how long a text may be
  Width,           \* bits of the integers that numerals are read into
  Digit,           \* [character -> value] of the digits, of base 16 and below
  Whitespace,      \* the characters isspace accepts
  ByteBits,        \* bits of a byte
  SizeValues       \* how many values a size_t has

ASSUME StringsAssumption ==
  /\ \A t \in DOMAIN Alphabet : MaxLength[t] \in Nat
  /\ Width \in Nat /\ Width >= 5            \* an integer has every digit
  /\ Digit \in [DOMAIN Digit -> 0 .. 15]
  /\ ByteBits \in Nat
  /\ SizeValues \in Nat /\ SizeValues >= 16
  /\ "path" \in DOMAIN Alphabet => MaxLength["path"] < SizeValues   \* max_size()
  /\ "utf8" \in DOMAIN Alphabet => \A unit \in Alphabet["utf8"] : unit \in Nat /\ unit < 256
  /\ "utf16" \in DOMAIN Alphabet => \A unit \in Alphabet["utf16"] : unit \in Nat /\ unit < 65536
  /\ "bytes" \in DOMAIN Alphabet => Alphabet["bytes"] \subseteq 0 .. 2 ^ ByteBits - 1

(* What a power of two is, which the provers do not know of themselves.    *)
ASSUME PowersAssumption ==
  \A n \in (0 .. Width) \cup (0 .. 8 * ByteBits) : 2 ^ (n + 1) = 2 * 2 ^ n

VARIABLES topic, text

stringVars == <<topic, text>>

Topics == DOMAIN Alphabet

Lowercase == [c \in {"c", "C"} |-> "c"]
Paths == INSTANCE FilePath WITH Lower <- Lowercase

Numbers == INSTANCE StringNumbers
Patterns == INSTANCE Pattern
Unicode == INSTANCE Utf
Bytes == INSTANCE ByteOrder

StringsInit == topic \in Topics \cup {"none"} /\ text = <<>>

Write(character) ==
  /\ Len(text) < MaxLength[topic]
  /\ text' = Append(text, character)
  /\ UNCHANGED topic

StringsNext == topic \in Topics /\ \E character \in Alphabet[topic] : Write(character)

StringsSpec == StringsInit /\ [][StringsNext]_stringVars

StringsTypeOK ==
  /\ topic \in Topics \cup {"none"}
  /\ topic \in Topics => text \in Seq(Alphabet[topic]) /\ Len(text) <= MaxLength[topic]

-----------------------------------------------------------------------------
Before(n) == SubSeq(text, 1, n)
After(n) == SubSeq(text, n + 1, Len(text))

OtherCase(path) == [path EXCEPT ![1] = IF @ = "c" THEN "C" ELSE @]

(* DirName and BaseName take a path apart into its directory and its last  *)
(* name, FinalExtension and RemoveFinalExtension at its extension, and     *)
(* Append puts names behind a path, through roots, alternate roots,        *)
(* drives, trailing separators and NULs; none of this depends on the case  *)
(* of a drive (file_path.cc, lines 36-284).                                *)
PathsTakenApart ==
  topic = "path" =>
    \A n \in 0 .. Len(text) :
      LET path == Paths!WithoutNuls(Before(n)) IN
      \A build \in Paths!Builds :
        /\ n = Len(text) =>
             /\ Paths!TakenApart(build, path) /\ Paths!CutAtExtension(build, path)
             /\ Paths!Drive(build, path) # <<>> =>
                  Paths!SameButForCase(build, path, OtherCase(path))
        /\ Paths!PutTogether(build, path, After(n))

(* The number that a text says, where that is well-formed and the type has *)
(* it; otherwise false, with the nearest number of the type for the digits *)
(* in front of whatever is wrong.  A "-" in front of an unsigned number    *)
(* and hexadecimal digits in excess of an int wrap around instead, and     *)
(* what is then called valid is right modulo 2^Width (all of               *)
(* string_number_conversions.cc).                                          *)
NumbersRead ==
  topic = "number" =>
    /\ Numbers!ReadsNumeral(Numbers!IntTraits, text)
    /\ Numbers!ReadsNumeral(Numbers!UintTraits, text)
    /\ Numbers!ReadsNumeral(Numbers!HexIntTraits, text)
    /\ Numbers!ReadsBytes(text)

(* MatchPattern finds a match only where the pattern means one, and finds  *)
(* it unless a bounded sequence of wildcards stands behind another one; a  *)
(* backslash at the end of the pattern means nothing or itself, unless the *)
(* text that it ends begins with one, too (pattern.cc, lines 24-123).      *)
MatchesMeant ==
  topic = "pattern" =>
    \A n \in 0 .. Len(text) :
      LET pattern == Before(n)
          matches == Patterns!MatchPattern(After(n), pattern)
          means == Patterns!Means(pattern, After(n))
      IN  IF Patterns!DanglingEscape(pattern)
            THEN matches /\ ~Patterns!RestartsEscaped(pattern) =>
                   means \/ Patterns!Means(Front(pattern), After(n))
            ELSE IF Patterns!NeedsBacktracking(pattern) THEN matches => means
            ELSE matches <=> means

(* "? matches 0 or 1 character, while * matches 0 or more characters"      *)
(* (pattern.h, line 16).                                                   *)
WildcardsMatch ==
  topic = "pattern" =>
    \A n \in 0 .. Len(text) :
      ~Patterns!DanglingEscape(Before(n)) =>
        (Patterns!MatchPattern(After(n), Before(n)) <=> Patterns!Means(Before(n), After(n)))

(* The number that bytes are with the most significant one first. *)
NumberOf(bytes) ==
  LET number[i \in 0 .. Len(bytes)] ==
        IF i = 0 THEN 0 ELSE number[i - 1] * 2 ^ ByteBits + bytes[i]
  IN  number[Len(bytes)]

(* A conversion succeeds exactly when converting back gives the text that  *)
(* it was given, its result is always well-formed, and a damaged character *)
(* takes nothing of the characters next to it with it: where a character   *)
(* may begin, a text can be converted in two pieces (utf_string_*.cc).     *)
(* Bytes become an integer and the same bytes again in either order, the   *)
(* most significant first in the one that is the reverse of the other, and *)
(* a host's integers go to the network in that one (byte_conversions.h).   *)
ConversionsAreLossless ==
  /\ topic = "utf8" =>
       LET there == Unicode!UTF8ToUTF16(text)
           back == Unicode!UTF16ToUTF8(there.output)
       IN  /\ back.success /\ (there.success <=> back.output = text)
           /\ \A n \in 1 .. Len(text) - 1 :
                ~Unicode!IsTrail8(text[n + 1]) =>
                  there.output = Unicode!UTF8ToUTF16(Before(n)).output
                                 \o Unicode!UTF8ToUTF16(After(n)).output
  /\ topic = "utf16" =>
       LET there == Unicode!UTF16ToUTF8(text)
           back == Unicode!UTF8ToUTF16(there.output)
       IN  /\ back.success /\ (there.success <=> back.output = text)
           /\ \A n \in 1 .. Len(text) - 1 :
                ~Unicode!IsTrail16(text[n + 1]) =>
                  there.output = Unicode!UTF16ToUTF8(Before(n)).output
                                 \o Unicode!UTF16ToUTF8(After(n)).output
  /\ topic = "bytes" /\ Len(text) \in {1, 2, 4, 8} =>
       LET size == Len(text)
           value == NumberOf(text)
       IN  /\ Bytes!FromBigEndian(text) = value /\ Bytes!ToBigEndian(size, value) = text
           /\ Bytes!FromLittleEndian(Reverse(text)) = value
           /\ Bytes!ToLittleEndian(size, value) = Reverse(text)
           /\ Bytes!ToNativeEndian(size, Bytes!HostToNet(size, value)) = text
           /\ Bytes!NetToHost(size, Bytes!FromNativeEndian(text)) = value
=============================================================================
