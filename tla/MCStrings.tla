----------------------------- MODULE MCStrings ----------------------------
EXTENDS Strings

(* In UTF-8, the ends of the ranges of leads and trails, and leads and     *)
(* trails whose bits decide; in UTF-16, the ends of the surrogates.        *)
Characters ==
  [path |-> {"c", ".", "/", ":", "nul"},
   number |-> {"-", "+", " ", "0", "1", "2", "3", "5", "6", "7", "x", "F"},
   pattern |-> {"a", "b", "*", "?", "\\", "bad"},
   utf8 |-> {65, 143, 144, 159, 160, 193, 194, 224, 237, 240, 244, 245},
   utf16 |-> {65, 55295, 55296, 56319, 56320, 57343, 57344, 65533, 65535},
   bytes |-> {0, 1, 3}]

Digits16 == [c \in {"0", "1", "2", "3", "5", "6", "7", "F"} |->
               CASE c = "0" -> 0 [] c = "1" -> 1 [] c = "2" -> 2 [] c = "3" -> 3
                 [] c = "5" -> 5 [] c = "6" -> 6 [] c = "7" -> 7 [] c = "F" -> 15]

Lengths == [path |-> 6, number |-> 4, pattern |-> 6, utf8 |-> 4, utf16 |-> 4, bytes |-> 8]

PatternCharacters == [pattern |-> {"a", "b", "*", "?"}]
PatternLengths == [pattern |-> 8]
=============================================================================
