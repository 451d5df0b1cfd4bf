---------------------------- MODULE ThreadValues ----------------------------
(***************************************************************************)
(* What base::ThreadLocalStorage promises its callers: every thread has    *)
(* one value of its own per index, NULL at first.  How a thread's values   *)
(* are kept in memory, and the key they hang off, are not part of it.      *)
(***************************************************************************)
CONSTANTS Threads, Index, Values, NULL

VARIABLES
  value,    \* value[t][i]: what thread t has stored at index i
  cleanup   \* the indices whose values a destructor disposes of

Init ==
  /\ value = [t \in Threads |-> [i \in Index |-> NULL]]
  /\ cleanup = {}

(* A slot gets an index at which no thread has a value. *)
Register(i) ==
  /\ i \notin cleanup
  /\ \A t \in Threads : value[t][i] = NULL
  /\ cleanup' = cleanup \cup {i}
  /\ UNCHANGED value

Unregister(i) ==
  /\ i \in cleanup
  /\ cleanup' = cleanup \ {i}
  /\ UNCHANGED value

Set(t, i, v) ==
  /\ value' = [value EXCEPT ![t][i] = v]
  /\ UNCHANGED cleanup

(* A destructor takes over one value of an exiting thread. *)
Destroy(t, i) ==
  /\ i \in cleanup
  /\ value' = [value EXCEPT ![t][i] = NULL]
  /\ UNCHANGED cleanup

(* A thread's values go all at once only if none of them needs a destructor. *)
Discard(t) ==
  /\ \A i \in cleanup : value[t][i] = NULL
  /\ value' = [value EXCEPT ![t] = [i \in Index |-> NULL]]
  /\ UNCHANGED cleanup

Next ==
  \/ \E i \in Index : Register(i) \/ Unregister(i)
  \/ \E t \in Threads :
       \/ Discard(t)
       \/ \E i \in Index :
            Destroy(t, i) \/ \E v \in Values \cup {NULL} : Set(t, i, v)

Spec == Init /\ [][Next]_<<value, cleanup>>
=============================================================================
