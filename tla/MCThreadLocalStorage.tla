------------------------ MODULE MCThreadLocalStorage ------------------------
EXTENDS ThreadLocalStorage, TLC

(* Nothing but equality distinguishes the members of these sets. *)
Symmetry == Permutations(Threads) \cup Permutations(Slots)
              \cup Permutations(Values) \cup Permutations(Keys)
=============================================================================
