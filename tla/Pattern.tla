------------------------------ MODULE Pattern ------------------------------
(***************************************************************************)
(* base::MatchPattern (base/strings/pattern.cc).                           *)
(*                                                                         *)
(* A string is a sequence of what NextCharUTF8 or NextCharUTF16 yield: the *)
(* characters, and CBU_SENTINEL where the encoding is bad.  A cursor is    *)
(* the position of the next character, one past the last at the end.       *)
(***************************************************************************)
EXTENDS Integers, Sequences

CBU_SENTINEL == "bad"

IsWildcard(character) == character \in {"*", "?"}

Infinite == -1     \* the maximum distance of a sequence with a "*"

(* The wildcards of the pattern from p on: how far they reach, and the     *)
(* cursor behind them.                                                     *)
EatWildcards(pattern, p) ==
  LET end == CHOOSE e \in p .. Len(pattern) + 1 :
               /\ \A i \in p .. e - 1 : IsWildcard(pattern[i])
               /\ e <= Len(pattern) => ~IsWildcard(pattern[e])
      has_asterisk == \E i \in p .. end - 1 : pattern[i] = "*"
  IN  [distance |-> IF has_asterisk THEN Infinite ELSE end - p, pattern |-> end]

(* A search for the text of the pattern up to its next wildcard, as the    *)
(* code's variables: where the attempt started, where it is, whether the   *)
(* last character was an escape, and how often it may still start again.   *)
Search(pattern_start, string_start, maximum_distance) ==
  [pattern_start |-> pattern_start, string_start |-> string_start,
   pattern |-> pattern_start, string |-> string_start,
   escape |-> FALSE, maximum_distance |-> maximum_distance]

(* Mutant: the attempt goes on from where the mismatch was found. *)
RestartAtMismatch(search) ==
  [search EXCEPT !.maximum_distance = @ - 1,
                 !.pattern = search.pattern_start,
                 !.string_start = search.string + 1,
                 !.string = search.string + 1]

Restart(search) ==
  [search EXCEPT !.maximum_distance = @ - 1,
                 !.pattern = search.pattern_start,
                 !.string_start = search.string_start + 1,
                 !.string = search.string_start + 1]

NotFound == [found |-> FALSE]
FoundAt(search) == [found |-> TRUE, pattern |-> search.pattern, string |-> search.string]

(* The cursors of a pattern or a string, and the searches with such. *)
Cursors(characters) == 1 .. Len(characters) + 1

Searches(string, pattern) ==
  {search \in [pattern_start : Cursors(pattern), string_start : Cursors(string),
               pattern : Cursors(pattern), string : Cursors(string),
               escape : BOOLEAN, maximum_distance : Int] :
     search.pattern_start <= search.pattern /\ search.string_start <= search.string}

SearchForChars(string, pattern, started) ==
  LET from[search \in Searches(string, pattern)] ==
        LET p == search.pattern
            s == search.string
            patternEnds == p > Len(pattern)
            stringEnds == s > Len(string)
            isSpecial == ~patternEnds /\ ~search.escape
            Mismatch(escape) ==
              IF search.maximum_distance = 0 THEN NotFound
              ELSE from[Restart([search EXCEPT !.escape = escape])]
        IN  IF patternEnds THEN IF stringEnds THEN FoundAt(search) ELSE Mismatch(search.escape)
            ELSE IF isSpecial /\ IsWildcard(pattern[p]) THEN FoundAt(search)
            ELSE IF isSpecial /\ pattern[p] = "\\"
              THEN from[[search EXCEPT !.escape = TRUE, !.pattern = @ + 1]]
            ELSE IF stringEnds THEN NotFound
            ELSE IF pattern[p] = string[s] /\ pattern[p] # CBU_SENTINEL
              THEN from[[search EXCEPT !.escape = FALSE, !.pattern = @ + 1, !.string = @ + 1]]
            ELSE Mismatch(FALSE)
  IN  from[started]

MatchPatternT(string, pattern) ==
  LET from[at \in [pattern : Cursors(pattern), string : Cursors(string)]] ==
        LET wildcards == EatWildcards(pattern, at.pattern)
            result == SearchForChars(string, pattern,
                                     Search(wildcards.pattern, at.string, wildcards.distance))
        IN  /\ result.found
            /\ result.pattern <= Len(pattern) =>
                 from[[pattern |-> result.pattern, string |-> result.string]]
  IN  from[[pattern |-> 1, string |-> 1]]

MatchPattern(string, pattern) == MatchPatternT(string, pattern)

-----------------------------------------------------------------------------
(* Behind an odd number of backslashes. *)
Escaped(pattern, i) ==
  LET run == {j \in 1 .. i : \A k \in j .. i - 1 : pattern[k] = "\\"}
      first == CHOOSE j \in run : \A k \in run : j <= k
  IN  (i - first) % 2 = 1

WildcardAt(pattern, i) == IsWildcard(pattern[i]) /\ ~Escaped(pattern, i)
EscapeAt(pattern, i) == pattern[i] = "\\" /\ ~Escaped(pattern, i) /\ i < Len(pattern)

(* What pattern.h says a pattern matches: "*" 0 or more characters, "?" 0  *)
(* or 1, and any other character itself, as does one behind a backslash.   *)
Stands(pattern, i, string, s, t) ==
  IF EscapeAt(pattern, i) THEN t = s
  ELSE IF WildcardAt(pattern, i)
    THEN s <= t /\ (pattern[i] = "?" => t <= s + 1)
  ELSE t = s + 1 /\ s <= Len(string) /\ string[s] = pattern[i] /\ string[s] # CBU_SENTINEL

(* Where in the string the first i characters of the pattern can end. *)
Means(pattern, string) ==
  LET reached[i \in 0 .. Len(pattern)] ==
        IF i = 0 THEN {1}
        ELSE {t \in Cursors(string) : \E s \in reached[i - 1] : Stands(pattern, i, string, s, t)}
  IN  Len(string) + 1 \in reached[Len(pattern)]

(* A backslash that escapes nothing. *)
DanglingEscape(pattern) ==
  /\ pattern # <<>> /\ pattern[Len(pattern)] = "\\"
  /\ ~Escaped(pattern, Len(pattern))

(* A last text between such a backslash and another one, which is read     *)
(* differently when it is looked for again.                                *)
RestartsEscaped(pattern) ==
  /\ DanglingEscape(pattern)
  /\ \E i \in 2 .. Len(pattern) :
       /\ WildcardAt(pattern, i - 1) /\ EscapeAt(pattern, i)
       /\ \A j \in i .. Len(pattern) : ~WildcardAt(pattern, j)

(* A bounded sequence of wildcards, "?"s only, behind an earlier sequence: *)
(* the search that found the text between them does not look for another.  *)
NeedsBacktracking(pattern) ==
  \E i \in DOMAIN pattern :
    /\ WildcardAt(pattern, i)
    /\ i > 1 /\ ~WildcardAt(pattern, i - 1)
    /\ \E j \in 1 .. i - 2 : WildcardAt(pattern, j)
    /\ EatWildcards(pattern, i).distance # Infinite
=============================================================================
