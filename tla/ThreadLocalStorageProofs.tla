---------------------- MODULE ThreadLocalStorageProofs ----------------------
(***************************************************************************)
(* The invariants of ThreadLocalStorage hold for any number of threads,    *)
(* slots, values and keys and any sizes of the tables.  The inductive      *)
(* invariant is layered: each layer is preserved given the ones before it. *)
(***************************************************************************)
EXTENDS ThreadLocalStorage, TLAPS

Constructing == {"alloc_key", "realloc_key", "cas_key", "install", "new"}

(* Types, and which locals mean something where. *)
LocalsOK ==
  \A t \in Threads :
    /\ pc[t] \in Constructing => op[t] \in Call
    /\ pc[t] \in {"call", "destructor"} => slot[t] \in Index \ {0}

TypeInv == Typed /\ LocalsOK

(* Who owns which index: an object has one of its own from the moment it   *)
(* claims it, and until then, and until it has registered, nobody else     *)
(* works on the object.                                                    *)
IndexInv ==
  /\ \A o \in Slots : slotOf[o] <= lastUsed
  /\ \A o, other \in Slots : slotOf[o] = slotOf[other] /\ slotOf[o] # 0 => o = other

ClaimInv ==
  \A t \in Threads : claiming[t] # NULL =>
    /\ slotOf[claiming[t]] # 0
    /\ ~initialized[claiming[t]]
    /\ \A u \in Threads : claiming[u] = claiming[t] => u = t

OpInv ==
  \A t \in Threads : op[t] # NULL =>
    /\ \A u \in Threads : claiming[u] # op[t].slot
    /\ initialized[op[t].slot] <=> op[t].fn # "Initialize"
    /\ op[t].fn = "Initialize" =>
         \A u \in Threads : op[u] # NULL /\ op[u].slot = op[t].slot => u = t

ObjectInv == SlotIdentity /\ IndexInv /\ ClaimInv /\ OpInv

(* The native key, wherever a thread relies on it. *)
KeyInv ==
  /\ KeyAccounting
  /\ \A t \in Threads :
       /\ pc[t] = "realloc_key" => key[t] = ReservedKey
       /\ pc[t] = "cas_key" => key[t] # ReservedKey
       /\ pc[t] \in {"install", "new"} \cup Exiting =>
            key[t] = nativeKey /\ nativeKey # ReservedKey

(* Where the vector of a thread is, at every label. *)
VectorWhere(t) ==
  /\ pc[t] # "recursion"
  /\ pc[t] \in {"alloc_key", "realloc_key", "cas_key", "install"} => CurrentVector(t) = NULL
  /\ pc[t] = "new" => CurrentVector(t) = "ctorStack"
  /\ pc[t] \in Exiting => CurrentVector(t) = "exitStack"
  /\ pc[t] \in {"idle", "os_exit", "dead"} => CurrentVector(t) \in {NULL, "heap"}
  /\ pc[t] # "undefined" => (heapLive[t] <=> CurrentVector(t) = "heap")

VectorInv == \A t \in Threads : VectorWhere(t)

(* An index that no object has ever worked with. *)
FreshIndex(i) ==
  i > lastUsed \/ \E u \in Threads : claiming[u] # NULL /\ slotOf[claiming[u]] = i

(* What a pass has walked over without calling a destructor is clean. *)
CleanOf(t) ==
  \A i \in Index :
    /\ destructors[i] # NULL
    /\ pc[t] = "remove" \/ (pc[t] = "scan" /\ ~needScan[t] /\ i > slot[t])
    => vector[t]["exitStack"][i] = NULL

CleanInv == \A t \in Threads : CleanOf(t)

(* A value is in one place at a time: in one vector at one index, with a   *)
(* call that is about to store it, or on its way to a destructor.          *)
Unique(f) ==
  \A u1, u2 \in Threads, w1, w2 \in Where, i1, i2 \in Index :
    f[u1][w1][i1] = f[u2][w2][i2] /\ f[u1][w1][i1] # NULL =>
      u1 = u2 /\ w1 = w2 /\ i1 = i2

NotIn(v, f) == \A u \in Threads, w \in Where, i \in Index : f[u][w][i] # v

(* g is f after the contents of one vector, or part of them, have moved to *)
(* another, or after some have been dropped (from = to).                   *)
Moves(f, g, t, from, to) ==
  /\ \A u \in Threads, w \in Where, i \in Index :
       u # t \/ w # to => g[u][w][i] \in {NULL, f[u][w][i]}
  /\ \A i \in Index : g[t][to][i] \in {NULL, f[t][from][i]}
  /\ from # to => \A i \in Index : g[t][from][i] = NULL

Stores(f, g, t, where, j, v) ==
  /\ g[t][where][j] = v
  /\ \A u \in Threads, w \in Where, i \in Index :
       u # t \/ w # where \/ i # j => g[u][w][i] = f[u][w][i]

PendingApart ==
  \A t \in Threads : pending[t] # NULL => NotIn(pending[t], vector)

OpApart ==
  \A t \in Threads : op[t] # NULL /\ op[t].value # NULL =>
    /\ NotIn(op[t].value, vector)
    /\ \A u \in Threads : pending[u] # op[t].value
    /\ \A u \in Threads : op[u] # NULL /\ op[u].value = op[t].value => u = t

PlaceInv == Unique(vector) /\ PendingApart /\ OpApart

-----------------------------------------------------------------------------
(* The OS value and the vector it points to are of their types. *)
LEMMA CurrentVectorType ==
  ASSUME Typed, NEW t \in Threads
  PROVE  CurrentVector(t) \in Where \cup {NULL}
  BY DEF Typed, CurrentVector

LEMMA BlankType == Blank \in Contents
  BY DEF Blank, Contents

LEMMA LabelTypes ==
  {"idle", "os_exit", "dead", "alloc_key", "realloc_key", "cas_key", "install", "new",
   "delete", "scan", "call", "destructor", "remove", "recursion", "undefined"}
    \subseteq Labels
  BY DEF Labels, Exiting, Stopped

LEMMA WhereTypes == {"ctorStack", "heap", "exitStack"} \subseteq Where
  BY DEF Where

LEMMA GotoType ==
  ASSUME Typed, NEW t \in Threads, NEW label \in Labels, Goto(t, label)
  PROVE  pc' \in [Threads -> Labels]
  BY DEF Typed, Goto

LEMMA SetTLSValueType ==
  ASSUME Typed, NEW t \in Threads, NEW k, NEW where \in Where \cup {NULL},
         SetTLSValue(t, k, where)
  PROVE  tls' \in [Threads -> [KeyPool -> Where \cup {NULL}]]
  BY DEF Typed, SetTLSValue

(* Every step keeps the types. *)
LEMMA TypedStep == TypeInv /\ [Next]_vars => Typed'
<1> SUFFICES ASSUME TypeInv PROVE [Next]_vars => Typed'
  OBVIOUS
<1> USE ConstantsAssumption, GotoType, SetTLSValueType, LabelTypes, WhereTypes
    DEF TypeInv, Typed, shared, memory, locals, scan
<1>1. ASSUME NEW t \in Threads, NEW o \in Slots, NEW v \in Values \cup {NULL},
             Set(t, o, v)
      PROVE  Typed'
  <2>1. CurrentVector(t) \in Where
    BY <1>1, CurrentVectorType DEF Set
  <2>2. vector' = [vector EXCEPT ![t][CurrentVector(t)][slotOf[o]] = v]
    BY <1>1 DEF Set
  <2>3. vector' \in [Threads -> [Where -> Contents]]
    <3> HIDE DEF CurrentVector
    <3>1. PICK w \in Where : w = CurrentVector(t)
      BY <2>1
    <3>2. vector[t][w] \in Contents
      OBVIOUS
    <3>3. [vector[t][w] EXCEPT ![slotOf[o]] = v] \in Contents
      <4> HIDE DEF TypeInv, Typed
      <4> QED
        BY <3>2 DEF Contents
    <3> QED
      BY <2>2, <3>1, <3>3
  <2>4. UNCHANGED <<shared, tls, heapLive, round, pc, locals, scan, crashed>>
    BY <1>1 DEF Set
  <2> QED
    BY <2>3, <2>4
<1>2. ASSUME NEW t \in Threads, NEW fn \in {"Get", "Set", "Initialize"},
             NEW o \in Slots, NEW v \in Values \cup {NULL},
             CallWithoutVector(t, fn, o, v)
      PROVE  Typed'
  <2>1. op' \in [Threads -> Call \cup {NULL}]
    BY <1>2 DEF CallWithoutVector, Call, MayCall, Callbacks
  <2>2. pc' \in [Threads -> Labels]
    BY <1>2 DEF CallWithoutVector
  <2> QED
    BY <1>2, <2>1, <2>2 DEF CallWithoutVector
<1>3. ASSUME NEW t \in Threads, NEW o \in Slots, Initialize(t, o) PROVE Typed'
  BY <1>3 DEF Initialize, ClaimIndex, NewIndex
<1>4. ASSUME NEW t \in Threads, NEW o \in Slots, Free(t, o) PROVE Typed'
  BY <1>4 DEF Free, WipeDestructor, LastUsedAfterFree
<1>5. ASSUME NEW t \in Threads, BeginExit(t) \/ OtherKeysRound(t) \/ ThreadGone(t)
      PROVE  Typed'
  <2>1. CASE BeginExit(t)      BY <2>1 DEF BeginExit
  <2>2. CASE OtherKeysRound(t) BY <2>2 DEF OtherKeysRound
  <2>3. CASE ThreadGone(t)     BY <2>3 DEF ThreadGone
  <2> QED BY <1>5, <2>1, <2>2, <2>3
<1>6. ASSUME NEW t \in Threads, RegisterDestructor(t) PROVE Typed'
  <2>1. destructors' \in [Index -> Slots \cup {NULL}]
    BY <1>6 DEF RegisterDestructor
  <2>2. initialized' \in [Slots -> BOOLEAN]
    BY <1>6 DEF RegisterDestructor
  <2>3. crashed' \in BOOLEAN
    BY <1>6 DEF RegisterDestructor
  <2>4. claiming' \in [Threads -> Slots \cup {NULL}]
    BY <1>6 DEF RegisterDestructor
  <2>5. UNCHANGED <<nativeKey, lastUsed, slotOf, osKeys, memory, round, pc, key, op, scan>>
    BY <1>6 DEF RegisterDestructor
  <2> QED
    BY <2>1, <2>2, <2>3, <2>4, <2>5
<1>7. ASSUME NEW t \in Threads, AllocKey(t) \/ ReallocKey(t) \/ CompareAndSwapKey(t)
      PROVE  Typed'
  <2>1. osKeys' \subseteq KeyPool
    BY <1>7 DEF AllocKey, ReallocKey, CompareAndSwapKey, KeyExhausted
  <2>2. key' \in [Threads -> KeyPool]
    BY <1>7 DEF AllocKey, ReallocKey, CompareAndSwapKey, KeyExhausted
  <2>3. pc' \in [Threads -> Labels]
    BY <1>7 DEF AllocKey, ReallocKey, CompareAndSwapKey, KeyExhausted
  <2>4. crashed' \in BOOLEAN
    BY <1>7 DEF AllocKey, ReallocKey, CompareAndSwapKey, KeyExhausted
  <2>6. nativeKey' \in KeyPool
    BY <1>7 DEF AllocKey, ReallocKey, CompareAndSwapKey
  <2>5. UNCHANGED <<lastUsed, destructors, slotOf, initialized, memory, round, op, claiming, scan>>
    BY <1>7 DEF AllocKey, ReallocKey, CompareAndSwapKey
  <2> QED
    BY <2>1, <2>2, <2>3, <2>4, <2>5, <2>6
<1>8. ASSUME NEW t \in Threads, InstallStackVector(t) PROVE Typed'
  <2>1. vector' \in [Threads -> [Where -> Contents]]
    <3>1. [vector EXCEPT ![t]["ctorStack"] = Blank] \in [Threads -> [Where -> Contents]]
      BY BlankType
    <3> QED BY <1>8, <3>1 DEF InstallStackVector
  <2>2. tls' \in [Threads -> [KeyPool -> Where \cup {NULL}]]
    BY <1>8 DEF InstallStackVector
  <2>3. pc' \in [Threads -> Labels] /\ crashed' \in BOOLEAN
    BY <1>8 DEF InstallStackVector
  <2>4. UNCHANGED <<shared, heapLive, round, locals, scan>>
    BY <1>8 DEF InstallStackVector
  <2> QED
    BY <2>1, <2>2, <2>3, <2>4
<1>9. ASSUME NEW t \in Threads, InstallHeapVector(t) PROVE Typed'
  <2>1. op[t] \in Call
    BY <1>9 DEF InstallHeapVector, LocalsOK, Constructing, At
  <2>2. vector' \in [Threads -> [Where -> Contents]]
    <3> DEFINE installed == [vector EXCEPT ![t]["heap"] = NewHeap(t), ![t]["ctorStack"] = Blank]
    <3>1. installed \in [Threads -> [Where -> Contents]]
      BY BlankType DEF NewHeap
    <3>2. op[t].value \in Values \cup {NULL}
      BY <2>1 DEF Call
    <3>3. [installed EXCEPT ![t]["heap"][slotOf[op[t].slot]] = op[t].value] \in [Threads -> [Where -> Contents]]
      <4> HIDE DEF installed
      <4> QED BY <3>1, <3>2 DEF Contents
    <3>4. vector' = installed \/ vector' = [installed EXCEPT ![t]["heap"][slotOf[op[t].slot]] = op[t].value]
      BY <1>9 DEF InstallHeapVector
    <3> QED BY <3>1, <3>3, <3>4
  <2>3. tls' \in [Threads -> [KeyPool -> Where \cup {NULL}]]
    BY <1>9 DEF InstallHeapVector
  <2>4. slotOf' \in [Slots -> Nat] /\ lastUsed' \in Nat
    BY <1>9 DEF InstallHeapVector, ClaimIndex, NewIndex
  <2>8. claiming' \in [Threads -> Slots \cup {NULL}]
    BY <1>9, <2>1 DEF InstallHeapVector, ClaimIndex, Call
  <2>5. heapLive' \in [Threads -> BOOLEAN] /\ op' \in [Threads -> Call \cup {NULL}]
    BY <1>9 DEF InstallHeapVector
  <2>6. pc' \in [Threads -> Labels]
    BY <1>9, <2>1 DEF InstallHeapVector, Call
  <2>7. UNCHANGED <<nativeKey, destructors, initialized, osKeys, round, key, scan, crashed>>
    BY <1>9 DEF InstallHeapVector
  <2> QED
    BY <2>2, <2>3, <2>4, <2>5, <2>6, <2>7, <2>8
<1>10. ASSUME NEW t \in Threads, OnThreadExit(t) PROVE Typed'
  <2>1. vector' \in [Threads -> [Where -> Contents]]
    <3>1. CurrentVector(t) \in Where
      BY <1>10, CurrentVectorType DEF OnThreadExit, ExitCallbackDue
    <3>2. NewExitVector(t, CurrentVector(t)) \in Contents
      BY <3>1 DEF NewExitVector
    <3>3. vector' = [vector EXCEPT ![t]["exitStack"] = NewExitVector(t, CurrentVector(t)),
                                   ![t]["heap"] = Blank]
      BY <1>10 DEF OnThreadExit
    <3> HIDE DEF CurrentVector, NewExitVector
    <3> QED
      BY <3>2, <3>3, BlankType
  <2>2. tls' \in [Threads -> [KeyPool -> Where \cup {NULL}]]
    BY <1>10 DEF OnThreadExit
  <2>3. key' \in [Threads -> KeyPool] /\ heapLive' \in [Threads -> BOOLEAN]
    BY <1>10 DEF OnThreadExit
  <2>4. round' \in [Threads -> 0 .. ExitRounds] /\ pc' \in [Threads -> Labels]
    BY <1>10 DEF OnThreadExit, ExitCallbackDue
  <2>5. UNCHANGED <<shared, op, claiming, scan, crashed>>
    BY <1>10 DEF OnThreadExit
  <2> QED
    BY <2>1, <2>2, <2>3, <2>4, <2>5
<1>11. ASSUME NEW t \in Threads, DeleteReturns(t) PROVE Typed'
  BY <1>11 DEF DeleteReturns, BeginPass
<1>12. ASSUME NEW t \in Threads, EndPass(t) PROVE Typed'
  <2>1. attempts' \in [Threads -> Int] /\ crashed' \in BOOLEAN
    BY <1>12 DEF EndPass, RemainingAttempts
  <2>2. slot' \in [Threads -> Nat] /\ needScan' \in [Threads -> BOOLEAN]
    <3>1. \/ UNCHANGED <<slot, needScan>>
          \/ /\ needScan' = [needScan EXCEPT ![t] = FALSE]
             /\ slot' = [slot EXCEPT ![t] = lastUsed]
      BY <1>12 DEF EndPass, BeginPass
    <3>2. slot \in [Threads -> Nat] /\ lastUsed \in Nat /\ needScan \in [Threads -> BOOLEAN]
      OBVIOUS
    <3>3. CASE UNCHANGED <<slot, needScan>>
      BY <3>2, <3>3
    <3>4. CASE /\ needScan' = [needScan EXCEPT ![t] = FALSE]
               /\ slot' = [slot EXCEPT ![t] = lastUsed]
      BY <3>2, <3>4
    <3> QED
      BY <3>1, <3>3, <3>4
  <2>3. pc' \in [Threads -> Labels]
    BY <1>12 DEF EndPass, BeginPass
  <2>4. UNCHANGED <<shared, memory, round, locals, pending>>
    BY <1>12 DEF EndPass
  <2> QED
    BY <2>1, <2>2, <2>3, <2>4
<1>13. ASSUME NEW t \in Threads,
              SkipSlot(t) \/ ScanPastEnd(t) \/ CallDestructor(t) \/ DestructorReturns(t)
       PROVE  Typed'
  <2>1. CASE SkipSlot(t)          BY <2>1 DEF SkipSlot, InLoop
  <2>2. CASE ScanPastEnd(t)       BY <2>2 DEF ScanPastEnd
  <2>3. CASE CallDestructor(t)    BY <2>3 DEF CallDestructor
  <2>4. CASE DestructorReturns(t)
    <3>1. slot[t] \in Nat \ {0}
      BY <2>4 DEF DestructorReturns, LocalsOK, At, Index
    <3>2. slot' = [slot EXCEPT ![t] = slot[t] - 1]
      BY <2>4 DEF DestructorReturns
    <3>5. slot' \in [Threads -> Nat]
      <4>1. slot \in [Threads -> Nat] /\ slot[t] - 1 \in Nat
        BY <3>1
      <4> QED
        BY <3>2, <4>1
    <3>6. needScan' \in [Threads -> BOOLEAN]
      BY <2>4 DEF DestructorReturns, RequestRescan
    <3>3. pc' \in [Threads -> Labels]
      BY <2>4 DEF DestructorReturns
    <3>4. UNCHANGED <<shared, memory, round, locals, attempts, pending, crashed>>
      BY <2>4 DEF DestructorReturns
    <3> QED
      BY <3>3, <3>4, <3>5, <3>6
  <2> QED BY <1>13, <2>1, <2>2, <2>3, <2>4
<1>14. ASSUME NEW t \in Threads, TakeValue(t) PROVE Typed'
  BY <1>14 DEF TakeValue, PreClear, Contents
<1>15. ASSUME NEW t \in Threads, RemoveStackVector(t) PROVE Typed'
  BY <1>15, BlankType DEF RemoveStackVector
<1>16. ASSUME UNCHANGED vars PROVE Typed'
  BY <1>16 DEF vars
<1>17. ASSUME NEW t \in Threads, Use(t) \/ Work(t) PROVE Typed'
  <2> HIDE DEF TypeInv, Typed
  <2> QED
    BY <1>1, <1>2, <1>3, <1>4, <1>5, <1>6, <1>7, <1>8, <1>9, <1>10, <1>11, <1>12,
       <1>13, <1>14, <1>15, <1>17
       DEF Use, Work
<1> QED
  BY <1>16, <1>17 DEF Next, Done

(* A thread that enters ConstructTlsVector has its call recorded, and one  *)
(* that takes a value from a slot remembers which.                         *)
LEMMA LocalsStep == TypeInv /\ [Next]_vars => LocalsOK'
<1> SUFFICES ASSUME TypeInv PROVE [Next]_vars => LocalsOK'
  OBVIOUS
<1> USE DEF TypeInv, Typed, LocalsOK, Constructing, locals, scan, Goto, At
<1>1. ASSUME NEW t \in Threads, NEW o \in Slots, NEW v \in Values \cup {NULL},
             Set(t, o, v) \/ Initialize(t, o) \/ Free(t, o)
      PROVE  LocalsOK'
  BY <1>1 DEF Set, Initialize, Free
<1>2. ASSUME NEW t \in Threads, NEW fn \in {"Get", "Set", "Initialize"},
             NEW o \in Slots, NEW v \in Values \cup {NULL},
             CallWithoutVector(t, fn, o, v)
      PROVE  LocalsOK'
  <2>1. op'[t] \in Call
    BY <1>2 DEF CallWithoutVector, Call, MayCall, Callbacks
  <2>2. pc'[t] \notin {"call", "destructor"}
    BY <1>2 DEF CallWithoutVector
  <2> QED
    BY <1>2, <2>1, <2>2 DEF CallWithoutVector
<1>3. ASSUME NEW t \in Threads, BeginExit(t) \/ OtherKeysRound(t) \/ ThreadGone(t)
      PROVE  LocalsOK'
  BY <1>3 DEF BeginExit, OtherKeysRound, ThreadGone
<1>4. ASSUME NEW t \in Threads, RegisterDestructor(t) PROVE LocalsOK'
  BY <1>4 DEF RegisterDestructor
<1>5. ASSUME NEW t \in Threads, AllocKey(t) \/ ReallocKey(t) \/ CompareAndSwapKey(t)
      PROVE  LocalsOK'
  BY <1>5 DEF AllocKey, ReallocKey, CompareAndSwapKey, KeyExhausted
<1>6. ASSUME NEW t \in Threads, InstallStackVector(t) PROVE LocalsOK'
  BY <1>6 DEF InstallStackVector
<1>7. ASSUME NEW t \in Threads, InstallHeapVector(t) PROVE LocalsOK'
  <2>1. pc'[t] \in {"idle", "os_exit"}
    BY <1>7 DEF InstallHeapVector, Call
  <2> QED
    BY <1>7, <2>1 DEF InstallHeapVector
<1>8. ASSUME NEW t \in Threads, OnThreadExit(t) \/ RemoveStackVector(t) PROVE LocalsOK'
  BY <1>8 DEF OnThreadExit, RemoveStackVector
<1>9. ASSUME NEW t \in Threads, DeleteReturns(t) \/ EndPass(t) PROVE LocalsOK'
  <2>1. pc'[t] = pc[t] \/ pc'[t] \in {"scan", "remove"}
    BY <1>9 DEF DeleteReturns, EndPass, BeginPass
  <2>2. pc[t] \in {"scan", "delete"} /\ UNCHANGED op
    BY <1>9 DEF DeleteReturns, EndPass
  <2>3. \A u \in Threads \ {t} : pc'[u] = pc[u] /\ slot'[u] = slot[u]
    BY <1>9 DEF DeleteReturns, EndPass, BeginPass
  <2> QED
    BY <2>1, <2>2, <2>3
<1>10. ASSUME NEW t \in Threads, SkipSlot(t) \/ ScanPastEnd(t) PROVE LocalsOK'
  BY <1>10 DEF SkipSlot, ScanPastEnd
<1>11. ASSUME NEW t \in Threads, TakeValue(t) PROVE LocalsOK'
  BY <1>11 DEF TakeValue, InLoop
<1>12. ASSUME NEW t \in Threads, CallDestructor(t) \/ DestructorReturns(t)
       PROVE  LocalsOK'
  BY <1>12 DEF CallDestructor, DestructorReturns
<1>13. ASSUME UNCHANGED vars PROVE LocalsOK'
  BY <1>13 DEF vars
<1> QED
  BY <1>1, <1>2, <1>3, <1>4, <1>5, <1>6, <1>7, <1>8, <1>9, <1>10, <1>11, <1>12, <1>13
     DEF Next, Use, Work, Done

(* Every variable keeps to its range. *)
THEOREM TypesKept == Spec => []Typed /\ []TypeInv
<1>1. Init => TypeInv
  <2>1. ASSUME Init PROVE Typed
    <3>1. tls \in [Threads -> [KeyPool -> Where \cup {NULL}]]
      BY <2>1 DEF Init
    <3>2. vector \in [Threads -> [Where -> Contents]]
      BY <2>1, BlankType DEF Init
    <3>3. pc \in [Threads -> Labels]
      BY <2>1, LabelTypes DEF Init
    <3>4. round \in [Threads -> 0 .. ExitRounds] /\ key \in [Threads -> KeyPool]
      BY <2>1, ConstantsAssumption DEF Init, KeyPool
    <3>5. destructors \in [Index -> Slots \cup {NULL}]
      BY <2>1 DEF Init
    <3>6. heapLive \in [Threads -> BOOLEAN] /\ needScan \in [Threads -> BOOLEAN]
      BY <2>1 DEF Init
    <3>7. initialized \in [Slots -> BOOLEAN] /\ slotOf \in [Slots -> Nat]
      BY <2>1 DEF Init
    <3>8. /\ op \in [Threads -> Call \cup {NULL}]
          /\ claiming \in [Threads -> Slots \cup {NULL}]
          /\ pending \in [Threads -> Values \cup {NULL}]
      BY <2>1 DEF Init
    <3>9. slot \in [Threads -> Nat] /\ attempts \in [Threads -> Int]
      BY <2>1 DEF Init
    <3>10. nativeKey \in KeyPool /\ lastUsed \in Nat /\ osKeys \subseteq KeyPool
      BY <2>1 DEF Init, KeyPool
    <3>11. crashed \in BOOLEAN
      BY <2>1 DEF Init
    <3> QED
      BY <3>1, <3>2, <3>3, <3>4, <3>5, <3>6, <3>7, <3>8, <3>9, <3>10, <3>11 DEF Typed
  <2>2. Init => LocalsOK
    BY DEF Init, LocalsOK, Constructing
  <2> QED
    BY <2>1, <2>2 DEF TypeInv
<1>2. TypeInv /\ [Next]_vars => TypeInv'
  BY TypedStep, LocalsStep DEF TypeInv
<1>3. TypeInv => Typed
  BY DEF TypeInv
<1> QED
  BY <1>1, <1>2, <1>3, PTL DEF Spec

-----------------------------------------------------------------------------
(* ClaimIndex gives an object that nobody owns an index that nobody has. *)
LEMMA ClaimIndexStep ==
  ASSUME TypeInv, ObjectInv, NEW t \in Threads, NEW o \in Slots,
         ClaimIndex(t, o), claiming[t] = NULL, ~initialized[o],
         \A u \in Threads : claiming[u] # o,
         UNCHANGED <<destructors, initialized>>
  PROVE  SlotIdentity' /\ IndexInv' /\ ClaimInv'
<1> USE ConstantsAssumption DEF TypeInv, Typed, ObjectInv, ClaimIndex, NewIndex
<1>1. /\ lastUsed' = lastUsed + 1
      /\ slotOf' \in [Slots -> Nat]
      /\ slotOf'[o] = lastUsed + 1
      /\ \A other \in Slots \ {o} : slotOf'[other] = slotOf[other]
  OBVIOUS
<1>2. \A other \in Slots : slotOf[other] < lastUsed + 1
  BY DEF IndexInv
<1>3. IndexInv'
  BY <1>1, <1>2 DEF IndexInv
<1>4. SlotIdentity'
  BY <1>1, <1>2 DEF SlotIdentity
<1>5. ClaimInv'
  BY <1>1, <1>2 DEF ClaimInv
<1> QED
  BY <1>3, <1>4, <1>5

(* What a thread that is constructing its vector knows of its call. *)
LEMMA OpTypes ==
  ASSUME TypeInv, NEW t \in Threads, op[t] # NULL \/ pc[t] \in Constructing
  PROVE  /\ op[t] \in Call
         /\ op[t].slot \in Slots /\ op[t].value \in Values \cup {NULL}
         /\ op[t].fn \in {"Get", "Set", "Initialize"}
         /\ op[t].from \in {"idle", "os_exit"}
<1>1. op[t] \in Call
  BY DEF TypeInv, Typed, LocalsOK
<1> QED
  BY <1>1 DEF Call

(* Registering an object disturbs no recorded call. *)
LEMMA OpInvFrame ==
  ASSUME TypeInv, OpInv, NEW t \in Threads, claiming[t] \in Slots,
         claiming' = [claiming EXCEPT ![t] = NULL], UNCHANGED op,
         \/ UNCHANGED initialized
         \/ initialized' = [initialized EXCEPT ![claiming[t]] = TRUE]
  PROVE  OpInv'
<1>1. \A u \in Threads : op[u] # NULL =>
        op[u].slot \in Slots /\ op[u].slot # claiming[t] /\ op[u].slot # NULL
  BY OpTypes, ConstantsAssumption DEF OpInv
<1>2. \A u \in Threads : op[u] # NULL =>
        initialized'[op[u].slot] = initialized[op[u].slot]
  BY <1>1 DEF TypeInv, Typed
<1>3. \A u, w \in Threads : op[u] # NULL => claiming'[w] # op[u].slot
  BY <1>1 DEF OpInv, TypeInv, Typed
<1> QED
  BY <1>1, <1>2, <1>3 DEF OpInv

(* The indices stay in the hands of their objects. *)
LEMMA ObjectStep == TypeInv /\ ObjectInv /\ [Next]_vars => ObjectInv'
<1> SUFFICES ASSUME TypeInv, ObjectInv PROVE [Next]_vars => ObjectInv'
  OBVIOUS
<1> USE DEF TypeInv, ObjectInv
<1>1. ASSUME UNCHANGED <<destructors, slotOf, initialized, lastUsed, claiming, op>>
      PROVE  ObjectInv'
  BY <1>1 DEF SlotIdentity, IndexInv, ClaimInv, OpInv
<1>2. ASSUME NEW t \in Threads, NEW fn \in {"Get", "Set", "Initialize"},
             NEW o \in Slots, NEW v \in Values \cup {NULL},
             CallWithoutVector(t, fn, o, v)
      PROVE  ObjectInv'
  <2>1. UNCHANGED <<destructors, slotOf, initialized, lastUsed, claiming>>
    BY <1>2 DEF CallWithoutVector, shared
  <2>2. /\ op'[t].fn = fn /\ op'[t].slot = o
        /\ \A u \in Threads \ {t} : op'[u] = op[u]
    BY <1>2 DEF CallWithoutVector, Typed
  <2>3. initialized[o] <=> fn # "Initialize"
    BY <1>2 DEF CallWithoutVector, CanCall
  <2>4. \A u \in Threads : claiming[u] # o
    BY <1>2, <2>3, ConstantsAssumption DEF CallWithoutVector, CanCall, Unused, ClaimInv
  <2>5. \A u \in Threads \ {t} : op[u] # NULL /\ op[u].slot = o =>
           fn # "Initialize" /\ op[u].fn # "Initialize"
    BY <1>2, <2>3 DEF CallWithoutVector, CanCall, Unused, OpInv
  <2>6. OpInv'
    BY <2>1, <2>2, <2>3, <2>4, <2>5 DEF OpInv
  <2> QED
    BY <2>1, <2>6 DEF SlotIdentity, IndexInv, ClaimInv
<1>3. ASSUME NEW t \in Threads, NEW o \in Slots, Initialize(t, o) PROVE ObjectInv'
  <2>1. SlotIdentity' /\ IndexInv' /\ ClaimInv'
    BY <1>3, ClaimIndexStep DEF Initialize, MayCall, CanCall, Unused
  <2>2. OpInv'
    BY <1>3 DEF Initialize, ClaimIndex, CanCall, Unused, OpInv, Typed
  <2> QED
    BY <2>1, <2>2
<1>4. ASSUME NEW t \in Threads, NEW o \in Slots, Free(t, o) PROVE ObjectInv'
  <2>1. /\ initialized[o] /\ Unused(o)
        /\ destructors' = [destructors EXCEPT ![slotOf[o]] = NULL]
        /\ slotOf' = [slotOf EXCEPT ![o] = 0]
        /\ initialized' = [initialized EXCEPT ![o] = FALSE]
        /\ UNCHANGED <<lastUsed, claiming, op>>
    BY <1>4 DEF Free, WipeDestructor, LastUsedAfterFree, locals
  <2>2. SlotIdentity'
    BY <2>1 DEF SlotIdentity, Typed
  <2>3. IndexInv'
    BY <2>1 DEF IndexInv, Typed
  <2>4. ClaimInv'
    BY <2>1 DEF ClaimInv, Unused, Typed
  <2>5. OpInv'
    BY <2>1 DEF OpInv, Unused, Typed, Call
  <2> QED
    BY <2>2, <2>3, <2>4, <2>5
<1>5. ASSUME NEW t \in Threads, RegisterDestructor(t) PROVE ObjectInv'
  <2> DEFINE o == claiming[t]
  <2>1. o \in Slots /\ slotOf[o] \in Nat \ {0} /\ ~initialized[o]
    BY <1>5 DEF RegisterDestructor, ClaimInv, Typed
  <2>2. UNCHANGED <<slotOf, lastUsed, op>>
    BY <1>5 DEF RegisterDestructor
  <2>3. claiming' = [claiming EXCEPT ![t] = NULL]
    BY <1>5 DEF RegisterDestructor
  <2>4. IndexInv'
    BY <2>2 DEF IndexInv
  <2>5. CASE InTable(slotOf[o])
    <3>1. slotOf[o] \in Index \ {0}
      BY <2>1, <2>5, ConstantsAssumption DEF Index, InTable
    <3>2. PICK d \in {NULL, o} : destructors' = [destructors EXCEPT ![slotOf[o]] = d]
      BY <1>5, <2>5 DEF RegisterDestructor
    <3>3. initialized' = [initialized EXCEPT ![o] = TRUE]
      BY <1>5, <2>5 DEF RegisterDestructor
    <3>4. SlotIdentity'
      BY <2>1, <2>2, <3>1, <3>2, <3>3, ConstantsAssumption
         DEF SlotIdentity, IndexInv, Typed
    <3>5. ClaimInv'
      BY <2>1, <2>2, <2>3, <3>3 DEF ClaimInv, Typed
    <3>6. OpInv'
      BY <2>1, <2>2, <2>3, <3>3, OpInvFrame
    <3> QED
      BY <2>4, <3>4, <3>5, <3>6
  <2>6. CASE ~InTable(slotOf[o])
    <3>1. UNCHANGED <<destructors, initialized>>
      BY <1>5, <2>6 DEF RegisterDestructor
    <3>2. SlotIdentity'
      BY <2>2, <3>1 DEF SlotIdentity
    <3>3. ClaimInv'
      BY <2>2, <2>3, <3>1 DEF ClaimInv, Typed
    <3>4. OpInv'
      BY <2>1, <2>2, <2>3, <3>1, OpInvFrame
    <3> QED
      BY <2>4, <3>2, <3>3, <3>4
  <2> QED
    BY <2>5, <2>6
<1>6. ASSUME NEW t \in Threads, InstallHeapVector(t) PROVE ObjectInv'
  <2> DEFINE o == op[t].slot
  <2>1. op[t] # NULL /\ o \in Slots /\ claiming[t] = NULL
    BY <1>6, OpTypes, NoCallAssumption DEF InstallHeapVector, Constructing, At
  <2>2. op' = [op EXCEPT ![t] = NULL] /\ UNCHANGED <<destructors, initialized>>
    BY <1>6 DEF InstallHeapVector
  <2>3. CASE op[t].fn = "Initialize"
    <3>1. ClaimIndex(t, o)
      BY <1>6, <2>3 DEF InstallHeapVector
    <3>2. ~initialized[o] /\ \A u \in Threads : claiming[u] # o
      BY <2>1, <2>3 DEF OpInv
    <3>3. SlotIdentity' /\ IndexInv' /\ ClaimInv'
      BY <2>1, <2>2, <3>1, <3>2, ClaimIndexStep
    <3>4. \A u \in Threads \ {t} : op[u] # NULL => op[u].slot # o
      BY <2>1, <2>3 DEF OpInv
    <3>5. OpInv'
      BY <2>1, <2>2, <3>1, <3>4 DEF OpInv, ClaimIndex, Typed
    <3> QED
      BY <3>3, <3>5
  <2>4. CASE op[t].fn # "Initialize"
    <3>1. UNCHANGED <<lastUsed, slotOf, claiming>>
      BY <1>6, <2>4 DEF InstallHeapVector
    <3>2. SlotIdentity' /\ IndexInv' /\ ClaimInv'
      BY <2>2, <3>1 DEF SlotIdentity, IndexInv, ClaimInv
    <3>3. OpInv'
      BY <2>2, <3>1 DEF OpInv, Typed
    <3> QED
      BY <3>2, <3>3
  <2> QED
    BY <2>3, <2>4
<1>7. ASSUME NEW t \in Threads, NEW o \in Slots, NEW v \in Values \cup {NULL},
             Set(t, o, v)
      PROVE  ObjectInv'
  BY <1>1, <1>7 DEF Set, shared, locals
<1>8. ASSUME NEW t \in Threads,
             \/ BeginExit(t) \/ OtherKeysRound(t) \/ ThreadGone(t)
             \/ AllocKey(t) \/ ReallocKey(t) \/ CompareAndSwapKey(t)
             \/ InstallStackVector(t)
      PROVE  ObjectInv'
  BY <1>1, <1>8 DEF BeginExit, OtherKeysRound, ThreadGone, AllocKey, ReallocKey,
     CompareAndSwapKey, InstallStackVector, shared, locals
<1>9. ASSUME NEW t \in Threads,
             \/ OnThreadExit(t) \/ DeleteReturns(t) \/ SkipSlot(t) \/ TakeValue(t)
             \/ ScanPastEnd(t) \/ CallDestructor(t) \/ DestructorReturns(t)
             \/ EndPass(t) \/ RemoveStackVector(t)
      PROVE  ObjectInv'
  BY <1>1, <1>9 DEF OnThreadExit, DeleteReturns, SkipSlot, TakeValue, ScanPastEnd,
     CallDestructor, DestructorReturns, EndPass, RemoveStackVector, shared, locals
<1>10. ASSUME UNCHANGED vars PROVE ObjectInv'
  BY <1>1, <1>10 DEF vars, shared, locals
<1> QED
  BY <1>2, <1>3, <1>4, <1>5, <1>6, <1>7, <1>8, <1>9, <1>10
     DEF Next, Use, Work, Done

(* No two objects share an index, and no index calls a destructor that is  *)
(* not its object's.                                                       *)
THEOREM SlotIdentityHolds == Spec => []SlotIdentity /\ []ObjectInv
<1>1. Init => ObjectInv
  BY ConstantsAssumption
     DEF Init, ObjectInv, SlotIdentity, IndexInv, ClaimInv, OpInv
<1>2. ObjectInv => SlotIdentity
  BY DEF ObjectInv
<1> QED
  BY <1>1, <1>2, TypesKept, ObjectStep, PTL DEF Spec

-----------------------------------------------------------------------------
(* Steps that neither give out an index nor bring its check to an end.     *)
LEMMA IndexFrame ==
  ASSUME IndexChecked, ~crashed, UNCHANGED <<lastUsed, slotOf, claiming>>,
         \A t \in Threads : slot'[t] <= lastUsed
  PROVE  IndexChecked'
  BY DEF IndexChecked

(* The index that is given out has its check still to come. *)
LEMMA ClaimIndexChecked ==
  ASSUME TypeInv, IndexChecked, ~crashed, NEW t \in Threads, NEW o \in Slots,
         ClaimIndex(t, o), claiming[t] = NULL, \A u \in Threads : claiming[u] # o,
         UNCHANGED slot
  PROVE  IndexChecked'
<1> USE ConstantsAssumption DEF TypeInv, Typed, ClaimIndex, NewIndex
<1>1. /\ lastUsed' = lastUsed + 1
      /\ slotOf'[o] = lastUsed + 1
      /\ \A other \in Slots \ {o} : slotOf'[other] = slotOf[other]
      /\ claiming'[t] = o /\ o # NULL
      /\ \A u \in Threads \ {t} : claiming'[u] = claiming[u]
  OBVIOUS
<1>2. /\ \A other \in Slots : slotOf'[other] <= lastUsed'
      /\ \A u \in Threads : slot'[u] <= lastUsed'
  BY <1>1 DEF IndexChecked
<1>3. ASSUME NEW i \in kThreadLocalStorageSize .. lastUsed'
      PROVE  \E u \in Threads : claiming'[u] # NULL /\ slotOf'[claiming'[u]] = i
  <2>1. CASE i = lastUsed + 1
    BY <1>1, <2>1
  <2>2. CASE i # lastUsed + 1
    <3>1. i \in kThreadLocalStorageSize .. lastUsed
      BY <1>1, <1>3, <2>2
    <3>2. PICK u \in Threads : claiming[u] # NULL /\ slotOf[claiming[u]] = i
      BY <3>1 DEF IndexChecked
    <3>3. u # t /\ claiming'[u] = claiming[u] /\ claiming[u] \in Slots \ {o}
      BY <1>1, <3>2
    <3> QED
      BY <1>1, <3>2, <3>3
  <2> QED
    BY <2>1, <2>2
<1> QED
  BY <1>2, <1>3 DEF IndexChecked

(* A check that comes to an end was of an index of the table, or ends the  *)
(* process.                                                                *)
LEMMA RegisterChecked ==
  ASSUME TypeInv, IndexChecked, NEW t \in Threads, RegisterDestructor(t)
  PROVE  IndexChecked'
<1> USE ConstantsAssumption DEF TypeInv, Typed
<1> DEFINE o == claiming[t]
<1>1. /\ o \in Slots /\ ~crashed
      /\ UNCHANGED <<lastUsed, slotOf, slot>>
      /\ \A u \in Threads \ {t} : claiming'[u] = claiming[u]
  BY DEF RegisterDestructor, Over, scan
<1>2. crashed' \/ slotOf[o] < kThreadLocalStorageSize
  BY DEF RegisterDestructor, InTable
<1>3. ASSUME NEW i \in kThreadLocalStorageSize .. lastUsed, ~crashed'
      PROVE  \E u \in Threads : claiming'[u] # NULL /\ slotOf'[claiming'[u]] = i
  <2>1. PICK u \in Threads : claiming[u] # NULL /\ slotOf[claiming[u]] = i
    BY <1>1, <1>3 DEF IndexChecked
  <2>2. u # t
    BY <1>1, <1>2, <1>3, <2>1
  <2> QED
    BY <1>1, <2>1, <2>2
<1> QED
  BY <1>1, <1>3 DEF IndexChecked

(* An index past the end of the table stays with the Initialize whose      *)
(* check will refuse it.                                                   *)
LEMMA IndexCheckedStep ==
  TypeInv /\ ObjectInv /\ IndexChecked /\ [Next]_vars => IndexChecked'
<1> SUFFICES ASSUME TypeInv, ObjectInv, IndexChecked
             PROVE  [Next]_vars => IndexChecked'
  OBVIOUS
<1> USE DEF TypeInv, ObjectInv
<1>1. lastUsed \in Nat /\ \A t \in Threads : slot[t] <= lastUsed /\ slot[t] \in Nat
  BY DEF IndexChecked, Typed
<1>2. ASSUME NEW t \in Threads, NEW fn \in {"Get", "Set", "Initialize"},
             NEW o \in Slots, NEW v \in Values \cup {NULL},
             Set(t, o, v) \/ CallWithoutVector(t, fn, o, v)
      PROVE  IndexChecked'
  BY <1>1, <1>2, IndexFrame
     DEF Set, CallWithoutVector, MayCall, Over, shared, locals, scan
<1>3. ASSUME NEW t \in Threads, NEW o \in Slots, Initialize(t, o) PROVE IndexChecked'
  BY <1>3, ClaimIndexChecked DEF Initialize, MayCall, CanCall, Unused, Over, scan
<1>4. ASSUME NEW t \in Threads, NEW o \in Slots, Free(t, o) PROVE IndexChecked'
  <2>1. /\ ~crashed /\ slotOf' = [slotOf EXCEPT ![o] = 0]
        /\ \A u \in Threads : claiming[u] # o
        /\ UNCHANGED <<lastUsed, claiming, slot>>
    BY <1>4 DEF Free, MayCall, Over, Unused, LastUsedAfterFree, locals, scan
  <2>2. \A other \in Slots : slotOf'[other] <= lastUsed
    BY <2>1 DEF IndexChecked, Typed
  <2>3. \A u \in Threads : claiming[u] # NULL =>
          slotOf'[claiming[u]] = slotOf[claiming[u]]
    BY <2>1 DEF Typed
  <2> QED
    BY <2>1, <2>2, <2>3 DEF IndexChecked
<1>5. ASSUME NEW t \in Threads, RegisterDestructor(t) PROVE IndexChecked'
  BY <1>5, RegisterChecked
<1>6. ASSUME NEW t \in Threads, InstallHeapVector(t) PROVE IndexChecked'
  <2> DEFINE o == op[t].slot
  <2>1. /\ op[t] # NULL /\ o \in Slots /\ claiming[t] = NULL
        /\ ~crashed /\ UNCHANGED slot
    BY <1>6, OpTypes, NoCallAssumption
       DEF InstallHeapVector, Constructing, At, Over, scan
  <2>2. CASE op[t].fn = "Initialize"
    <3>1. ClaimIndex(t, o) /\ \A u \in Threads : claiming[u] # o
      BY <1>6, <2>1, <2>2 DEF InstallHeapVector, OpInv
    <3> QED
      BY <2>1, <3>1, ClaimIndexChecked
  <2>3. CASE op[t].fn # "Initialize"
    <3>1. UNCHANGED <<lastUsed, slotOf, claiming>>
      BY <1>6, <2>3 DEF InstallHeapVector
    <3> QED
      BY <1>1, <2>1, <3>1, IndexFrame
  <2> QED
    BY <2>2, <2>3
<1>7. ASSUME NEW t \in Threads,
             \/ BeginExit(t) \/ OtherKeysRound(t) \/ ThreadGone(t)
             \/ AllocKey(t) \/ ReallocKey(t) \/ CompareAndSwapKey(t)
             \/ InstallStackVector(t)
      PROVE  IndexChecked'
  BY <1>1, <1>7, IndexFrame
     DEF BeginExit, OtherKeysRound, ThreadGone, AllocKey, ReallocKey,
         CompareAndSwapKey, InstallStackVector, At, Over, shared, locals, scan
<1>8. ASSUME NEW t \in Threads,
             \/ OnThreadExit(t) \/ TakeValue(t) \/ ScanPastEnd(t)
             \/ CallDestructor(t) \/ RemoveStackVector(t)
      PROVE  IndexChecked'
  BY <1>1, <1>8, IndexFrame
     DEF OnThreadExit, TakeValue, ScanPastEnd, CallDestructor, RemoveStackVector,
         At, Over, shared, locals, scan
<1>9. ASSUME NEW t \in Threads,
             DeleteReturns(t) \/ SkipSlot(t) \/ DestructorReturns(t) \/ EndPass(t)
      PROVE  IndexChecked'
  <2>1. ~crashed /\ UNCHANGED <<lastUsed, slotOf, claiming>>
    BY <1>9 DEF DeleteReturns, SkipSlot, DestructorReturns, EndPass, At, Over,
       shared, locals
  <2>2. \/ UNCHANGED slot
        \/ slot' = [slot EXCEPT ![t] = lastUsed]
        \/ slot' = [slot EXCEPT ![t] = @ - 1]
    BY <1>9 DEF DeleteReturns, SkipSlot, DestructorReturns, EndPass, BeginPass
  <2>3. \A u \in Threads : slot'[u] <= lastUsed
    <3>1. CASE UNCHANGED slot
      BY <1>1, <3>1
    <3>2. CASE slot' = [slot EXCEPT ![t] = lastUsed]
      <4>1. \A u \in Threads : slot'[u] = IF u = t THEN lastUsed ELSE slot[u]
        BY <3>2 DEF Typed
      <4> QED
        BY <1>1, <4>1
    <3>3. CASE slot' = [slot EXCEPT ![t] = @ - 1]
      <4>1. \A u \in Threads : slot'[u] = IF u = t THEN slot[u] - 1 ELSE slot[u]
        BY <3>3 DEF Typed
      <4> QED
        BY <1>1, <4>1
    <3> QED
      BY <2>2, <3>1, <3>2, <3>3
  <2> QED
    BY <2>1, <2>3, IndexFrame
<1>10. ASSUME UNCHANGED vars PROVE IndexChecked'
  BY <1>10 DEF vars, shared, locals, scan, IndexChecked
<1> QED
  BY <1>2, <1>3, <1>4, <1>5, <1>6, <1>7, <1>8, <1>9, <1>10 DEF Next, Use, Work, Done

(* Every variable keeps to its range, no object and no scan has an index   *)
(* that was not handed out, and as long as no CHECK has ended the process, *)
(* each index past the end of the table that was handed out belongs to an  *)
(* Initialize whose CHECK_LT is still to come (lines 145 and 210-213).     *)
THEOREM TypeCorrect == Spec => []TypeOK
<1>1. Init => IndexChecked
  BY ConstantsAssumption DEF Init, IndexChecked
<1>2. Typed /\ IndexChecked => TypeOK
  BY DEF TypeOK
<1> QED
  BY <1>1, <1>2, TypesKept, SlotIdentityHolds, IndexCheckedStep, PTL DEF Spec

-----------------------------------------------------------------------------
(* KeyAccounting's set of keys, key by key. *)
LEMMA OsKeysElements ==
  ASSUME KeyAccounting, NEW k
  PROVE  k \in osKeys <=> \/ \E t \in Threads : HoldsKey(t) /\ key[t] = k
                          \/ nativeKey # ReservedKey /\ k = nativeKey
  BY DEF KeyAccounting

LEMMA OsKeysFromElements ==
  ASSUME \A k : k \in osKeys' <=>
           \/ \E t \in Threads : HoldsKey(t)' /\ key'[t] = k
           \/ nativeKey' # ReservedKey /\ k = nativeKey'
  PROVE  osKeys' = {key'[t] : t \in {u \in Threads : HoldsKey(u)'}}
                     \cup (IF nativeKey' = ReservedKey THEN {} ELSE {nativeKey'})
  OBVIOUS

(* A step that neither takes nor gives back a key, and hangs no vector off *)
(* another key than the published one.                                     *)
LEMMA KeyQuietStep ==
  ASSUME KeyInv, NEW t \in Threads,
         UNCHANGED <<nativeKey, osKeys>>,
         \A u \in Threads \ {t} : pc'[u] = pc[u] /\ key'[u] = key[u],
         ~HoldsKey(t), ~HoldsKey(t)',
         pc'[t] \in {"install", "new"} \cup Exiting =>
           key'[t] = nativeKey /\ nativeKey # ReservedKey,
         \A u \in Threads, k \in KeyPool : tls'[u][k] # NULL =>
           tls[u][k] # NULL \/ (k = nativeKey /\ nativeKey # ReservedKey)
  PROVE  KeyInv'
<1>1. \A u \in Threads : HoldsKey(u)' <=> HoldsKey(u)
  BY DEF HoldsKey
<1>2. \A u \in Threads : HoldsKey(u) => u # t /\ key'[u] = key[u]
  OBVIOUS
<1>3. osKeys' = {key'[u] : u \in {w \in Threads : HoldsKey(w)'}}
                  \cup (IF nativeKey' = ReservedKey THEN {} ELSE {nativeKey'})
  <2>1. \A k : k \in osKeys' <=>
          \/ \E u \in Threads : HoldsKey(u)' /\ key'[u] = k
          \/ nativeKey' # ReservedKey /\ k = nativeKey'
    BY <1>1, <1>2, OsKeysElements DEF KeyInv
  <2> QED
    BY <2>1, OsKeysFromElements
<1>4. KeyAccounting'
  BY <1>1, <1>2, <1>3 DEF KeyInv, KeyAccounting
<1> QED
  BY <1>4 DEF KeyInv, HoldsKey

(* The OS hands a constructing thread a key nobody else has. *)
LEMMA TakeKeyStep ==
  ASSUME TypeInv, KeyInv, NEW t \in Threads, NEW k \in KeyPool \ osKeys,
         UNCHANGED <<nativeKey, tls>>,
         key' = [key EXCEPT ![t] = k],
         \/ /\ pc[t] = "alloc_key"
            /\ osKeys' = osKeys \cup {k}
            /\ Goto(t, IF k = ReservedKey THEN "realloc_key" ELSE "cas_key")
         \/ /\ pc[t] = "realloc_key" /\ k # ReservedKey
            /\ osKeys' = (osKeys \cup {k}) \ {key[t]}
            /\ Goto(t, "cas_key")
  PROVE  KeyInv'
<1> USE DEF TypeInv, Typed
<1>1. /\ key'[t] = k /\ HoldsKey(t)'
      /\ pc'[t] = IF k = ReservedKey THEN "realloc_key" ELSE "cas_key"
      /\ \A u \in Threads \ {t} :
           pc'[u] = pc[u] /\ key'[u] = key[u] /\ (HoldsKey(u)' <=> HoldsKey(u))
  BY DEF Goto, HoldsKey
<1>2. \A u \in Threads : HoldsKey(u) => key[u] \in osKeys
  BY OsKeysElements DEF KeyInv
<1>3. nativeKey # ReservedKey => nativeKey \in osKeys
  BY OsKeysElements DEF KeyInv
<1>4. \A x : x \in osKeys' <=>
        \/ \E u \in Threads : HoldsKey(u)' /\ key'[u] = x
        \/ nativeKey' # ReservedKey /\ x = nativeKey'
  <2>1. CASE pc[t] = "alloc_key"
    <3>1. ~HoldsKey(t) /\ osKeys' = osKeys \cup {k}
      BY <2>1 DEF HoldsKey
    <3>2. \A u \in Threads : HoldsKey(u)' => key'[u] \in osKeys'
      BY <1>1, <1>2, <3>1
    <3>3. nativeKey' # ReservedKey => nativeKey' \in osKeys'
      BY <1>3, <3>1
    <3>4. ASSUME NEW x, x \in osKeys'
          PROVE  \/ \E u \in Threads : HoldsKey(u)' /\ key'[u] = x
                 \/ nativeKey' # ReservedKey /\ x = nativeKey'
      <4>1. CASE x = k
        BY <1>1, <4>1
      <4>2. CASE x \in osKeys
        <5>1. CASE \E u \in Threads : HoldsKey(u) /\ key[u] = x
          BY <1>1, <3>1, <5>1
        <5>2. CASE nativeKey # ReservedKey /\ x = nativeKey
          BY <5>2
        <5> QED
          BY <4>2, <5>1, <5>2, OsKeysElements DEF KeyInv
      <4> QED
        BY <3>1, <3>4, <4>1, <4>2
    <3> QED
      BY <3>2, <3>3, <3>4
  <2>2. CASE pc[t] = "realloc_key"
    <3>1. HoldsKey(t) /\ osKeys' = (osKeys \cup {k}) \ {key[t]}
      BY <2>2 DEF HoldsKey
    <3>2. k # key[t]
      BY <1>2, <3>1
    <3>3. \A u \in Threads \ {t} : HoldsKey(u) => key[u] # key[t]
      BY <3>1 DEF KeyInv, KeyAccounting
    <3>4. nativeKey # ReservedKey => nativeKey # key[t]
      BY <3>1 DEF KeyInv, KeyAccounting
    <3>5. ASSUME NEW x, x \in osKeys'
          PROVE  \/ \E u \in Threads : HoldsKey(u)' /\ key'[u] = x
                 \/ nativeKey' # ReservedKey /\ x = nativeKey'
      <4>1. CASE x = k
        BY <1>1, <4>1
      <4>2. CASE x # k
        <5>1. x \in osKeys /\ x # key[t]
          BY <3>1, <3>5, <4>2
        <5> QED
          BY <1>1, <5>1, OsKeysElements DEF KeyInv
      <4> QED
        BY <4>1, <4>2
    <3>6. ASSUME NEW u \in Threads, HoldsKey(u)' PROVE key'[u] \in osKeys'
      <4>1. CASE u = t
        BY <1>1, <3>1, <3>2, <4>1
      <4>2. CASE u # t
        BY <1>1, <1>2, <3>1, <3>3, <3>6, <4>2
      <4> QED
        BY <4>1, <4>2
    <3>7. nativeKey' # ReservedKey => nativeKey' \in osKeys'
      BY <1>3, <3>1, <3>4
    <3> QED
      BY <3>5, <3>6, <3>7
  <2> QED
    BY <2>1, <2>2
<1>5. osKeys' = {key'[u] : u \in {w \in Threads : HoldsKey(w)'}}
                  \cup (IF nativeKey' = ReservedKey THEN {} ELSE {nativeKey'})
  BY <1>4, OsKeysFromElements
<1>6. \A u, w \in Threads : HoldsKey(u)' /\ HoldsKey(w)' /\ key'[u] = key'[w] => u = w
  BY <1>1, <1>2 DEF KeyInv, KeyAccounting
<1>7. \A u \in Threads : HoldsKey(u)' /\ nativeKey # ReservedKey => key'[u] # nativeKey
  BY <1>1, <1>3 DEF KeyInv, KeyAccounting
<1>8. KeyAccounting'
  BY <1>5, <1>6, <1>7 DEF KeyInv, KeyAccounting
<1> QED
  BY <1>1, <1>8 DEF KeyInv, Exiting

(* The compare-and-swap publishes the thread's key or gives it back. *)
LEMMA SwapStep ==
  ASSUME TypeInv, KeyInv, NEW t \in Threads, CompareAndSwapKey(t)
  PROVE  KeyInv'
<1> USE DEF TypeInv, Typed
<1>1. /\ HoldsKey(t) /\ ~HoldsKey(t)' /\ pc'[t] = "install" /\ UNCHANGED tls
      /\ key[t] # ReservedKey
      /\ \A u \in Threads \ {t} :
           pc'[u] = pc[u] /\ key'[u] = key[u] /\ (HoldsKey(u)' <=> HoldsKey(u))
  BY DEF CompareAndSwapKey, Goto, At, HoldsKey, memory, KeyInv
<1>2. \A u \in Threads \ {t} : HoldsKey(u) => key[u] # key[t]
  BY <1>1 DEF KeyInv, KeyAccounting
<1>3. /\ nativeKey' # ReservedKey /\ key'[t] = nativeKey'
      /\ IF nativeKey = ReservedKey
           THEN nativeKey' = key[t] /\ UNCHANGED osKeys
           ELSE nativeKey' = nativeKey /\ osKeys' = osKeys \ {key[t]}
  BY <1>1 DEF CompareAndSwapKey, SwapSucceeds
<1>4. nativeKey # ReservedKey => nativeKey # key[t]
  BY <1>1 DEF KeyInv, KeyAccounting
<1>5. \A x : x \in osKeys' <=>
        \/ \E u \in Threads : HoldsKey(u)' /\ key'[u] = x
        \/ nativeKey' # ReservedKey /\ x = nativeKey'
  <2>1. ASSUME NEW x, x \in osKeys'
        PROVE  \/ \E u \in Threads : HoldsKey(u)' /\ key'[u] = x
               \/ nativeKey' # ReservedKey /\ x = nativeKey'
    <3>1. x \in osKeys /\ (nativeKey # ReservedKey => x # key[t])
      BY <1>3, <2>1
    <3>2. CASE \E u \in Threads : HoldsKey(u) /\ key[u] = x
      <4>1. PICK u \in Threads : HoldsKey(u) /\ key[u] = x
        BY <3>2
      <4>2. CASE u = t
        BY <1>3, <3>1, <4>1, <4>2
      <4>3. CASE u # t
        BY <1>1, <4>1, <4>3
      <4> QED
        BY <4>2, <4>3
    <3>3. CASE nativeKey # ReservedKey /\ x = nativeKey
      BY <1>3, <3>3
    <3> QED
      BY <3>1, <3>2, <3>3, OsKeysElements DEF KeyInv
  <2>2. ASSUME NEW u \in Threads, HoldsKey(u)' PROVE key'[u] \in osKeys'
    <3>1. u # t /\ key'[u] = key[u] /\ key[u] \in osKeys
      BY <1>1, <2>2, OsKeysElements DEF KeyInv
    <3> QED
      BY <1>2, <1>1, <1>3, <2>2, <3>1
  <2>3. nativeKey' \in osKeys'
    <3>1. key[t] \in osKeys /\ (nativeKey # ReservedKey => nativeKey \in osKeys)
      BY <1>1, OsKeysElements DEF KeyInv
    <3> QED
      BY <1>3, <1>4, <3>1
  <2> QED
    BY <2>1, <2>2, <2>3
<1>6. osKeys' = {key'[u] : u \in {w \in Threads : HoldsKey(w)'}}
                  \cup (IF nativeKey' = ReservedKey THEN {} ELSE {nativeKey'})
  BY <1>5, OsKeysFromElements
<1>7. \A u \in Threads : HoldsKey(u)' => key'[u] # nativeKey'
  BY <1>1, <1>2, <1>3 DEF KeyInv, KeyAccounting
<1>8. \A u \in Threads, k \in KeyPool : tls'[u][k] # NULL => k = nativeKey'
  BY <1>1, <1>3 DEF KeyInv, KeyAccounting
<1>11. \A u, w \in Threads : HoldsKey(u)' /\ HoldsKey(w)' /\ key'[u] = key'[w] => u = w
  BY <1>1 DEF KeyInv, KeyAccounting
<1>9. KeyAccounting'
  <2> HIDE DEF TypeInv, Typed
  <2> QED
    BY <1>3, <1>6, <1>7, <1>8, <1>11 DEF KeyAccounting
<1>10. \A u \in Threads \ {t} : pc[u] \in {"install", "new"} \cup Exiting =>
         key'[u] = nativeKey'
  BY <1>1, <1>3 DEF KeyInv
<1> QED
  BY <1>1, <1>3, <1>9, <1>10 DEF KeyInv

(* No key is lost, shared or published twice. *)
LEMMA KeyStep == TypeInv /\ KeyInv /\ [Next]_vars => KeyInv'
<1> SUFFICES ASSUME TypeInv, KeyInv PROVE [Next]_vars => KeyInv'
  OBVIOUS
<1> USE DEF TypeInv, Typed
<1>1. ASSUME UNCHANGED <<nativeKey, osKeys, key, pc, tls>> PROVE KeyInv'
  BY <1>1 DEF KeyInv, KeyAccounting, HoldsKey
<1>2. ASSUME NEW t \in Threads, NEW o \in Slots, NEW v \in Values \cup {NULL},
             Set(t, o, v) \/ Initialize(t, o) \/ Free(t, o)
      PROVE  KeyInv'
  BY <1>1, <1>2 DEF Set, Initialize, Free, shared, memory, locals
<1>3. ASSUME NEW t \in Threads, RegisterDestructor(t) \/ OtherKeysRound(t) \/ SkipSlot(t)
      PROVE  KeyInv'
  BY <1>1, <1>3 DEF RegisterDestructor, OtherKeysRound, SkipSlot, shared, memory, locals
<1>4. ASSUME NEW t \in Threads, NEW fn \in {"Get", "Set", "Initialize"},
             NEW o \in Slots, NEW v \in Values \cup {NULL},
             CallWithoutVector(t, fn, o, v)
      PROVE  KeyInv'
  <2>1. ~HoldsKey(t) /\ ~HoldsKey(t)' /\ pc'[t] \notin {"new"} \cup Exiting
    BY <1>4 DEF CallWithoutVector, MayCall, Callbacks, HoldsKey, Goto, Exiting
  <2>6. pc'[t] = "install" => key'[t] = nativeKey /\ nativeKey # ReservedKey
    BY <1>4 DEF CallWithoutVector, MayCall, Callbacks, HoldsKey, Goto, Exiting
  <2>2. \A u \in Threads \ {t} : pc'[u] = pc[u] /\ key'[u] = key[u]
    BY <1>4 DEF CallWithoutVector, Goto
  <2>3. UNCHANGED <<nativeKey, osKeys, tls>>
    BY <1>4 DEF CallWithoutVector, shared, memory
  <2>4. pc'[t] \in {"install", "new"} \cup Exiting =>
          key'[t] = nativeKey /\ nativeKey # ReservedKey
    BY <2>1, <2>6
  <2> HIDE DEF TypeInv, Typed
  <2> QED
    BY <2>1, <2>2, <2>3, <2>4, KeyQuietStep
<1>5. ASSUME NEW t \in Threads, InstallStackVector(t) PROVE KeyInv'
  <2>1. ~HoldsKey(t) /\ key[t] = nativeKey /\ nativeKey # ReservedKey
    BY <1>5 DEF InstallStackVector, At, HoldsKey, KeyInv
  <2>2. pc'[t] \in {"install", "new"} /\ \A u \in Threads \ {t} : pc'[u] = pc[u]
    BY <1>5 DEF InstallStackVector, At, Goto
  <2>3. \A u \in Threads, k \in KeyPool : tls'[u][k] = tls[u][k] \/ k = nativeKey
    <3>1. tls' = tls \/ tls' = [tls EXCEPT ![t][nativeKey] = "ctorStack"]
      BY <1>5, <2>1 DEF InstallStackVector, SetTLSValue
    <3>2. CASE tls' = tls
      BY <3>2
    <3>3. CASE tls' = [tls EXCEPT ![t][nativeKey] = "ctorStack"]
      BY <3>3
    <3> QED
      BY <3>1, <3>2, <3>3
  <2>4. ~HoldsKey(t)'
    BY <2>2 DEF HoldsKey
  <2>5. UNCHANGED <<nativeKey, osKeys, key>>
    BY <1>5 DEF InstallStackVector, shared, locals
  <2> QED
    BY <2>1, <2>2, <2>3, <2>4, <2>5, KeyQuietStep
<1>6. ASSUME NEW t \in Threads, InstallHeapVector(t) PROVE KeyInv'
  <2>1. ~HoldsKey(t) /\ key[t] = nativeKey /\ nativeKey # ReservedKey
    BY <1>6 DEF InstallHeapVector, At, HoldsKey, KeyInv
  <2>2. /\ pc'[t] \in {"idle", "os_exit"}
        /\ \A u \in Threads \ {t} : pc'[u] = pc[u]
    BY <1>6, OpTypes DEF InstallHeapVector, Goto, At, Constructing
  <2>3. \A u \in Threads, k \in KeyPool : tls'[u][k] = tls[u][k] \/ k = nativeKey
    BY <1>6, <2>1 DEF InstallHeapVector, SetTLSValue
  <2>4. ~HoldsKey(t)' /\ pc'[t] \notin {"install", "new"} \cup Exiting
    BY <2>2 DEF HoldsKey, Exiting
  <2>5. UNCHANGED <<nativeKey, osKeys, key>>
    BY <1>6 DEF InstallHeapVector
  <2> QED
    BY <2>1, <2>2, <2>3, <2>4, <2>5, KeyQuietStep
<1>7. ASSUME NEW t \in Threads, AllocKey(t) PROVE KeyInv'
  <2>1. CASE KeyExhausted
    BY <1>1, <1>7, <2>1 DEF AllocKey, KeyExhausted, memory
  <2>2. CASE ~KeyExhausted
    <3>1. PICK k \in KeyPool \ osKeys :
            /\ osKeys' = osKeys \cup {k}
            /\ key' = [key EXCEPT ![t] = k]
            /\ Goto(t, IF k = ReservedKey THEN "realloc_key" ELSE "cas_key")
      BY <1>7, <2>2 DEF AllocKey
    <3> QED
      BY <1>7, <3>1, TakeKeyStep DEF AllocKey, At, memory
  <2> QED
    BY <2>1, <2>2
<1>8. ASSUME NEW t \in Threads, ReallocKey(t) PROVE KeyInv'
  <2>1. CASE KeyExhausted
    BY <1>1, <1>8, <2>1 DEF ReallocKey, KeyExhausted, memory
  <2>2. CASE ~KeyExhausted
    <3>1. PICK k \in KeyPool \ (osKeys \cup {ReservedKey}) :
            /\ osKeys' = (osKeys \cup {k}) \ {key[t]}
            /\ key' = [key EXCEPT ![t] = k]
            /\ Goto(t, "cas_key")
      BY <1>8, <2>2 DEF ReallocKey
    <3> QED
      BY <1>8, <3>1, TakeKeyStep DEF ReallocKey, At, memory
  <2> QED
    BY <2>1, <2>2
<1>9. ASSUME NEW t \in Threads, CompareAndSwapKey(t) PROVE KeyInv'
  BY <1>9, SwapStep
<1>10. ASSUME NEW t \in Threads, BeginExit(t) \/ ThreadGone(t) PROVE KeyInv'
  <2>1. ~HoldsKey(t) /\ ~HoldsKey(t)' /\ pc'[t] \notin {"install", "new"} \cup Exiting
    BY <1>10 DEF BeginExit, ThreadGone, HoldsKey, Goto, At, Exiting
  <2>2. \A u \in Threads \ {t} : pc'[u] = pc[u]
    BY <1>10 DEF BeginExit, ThreadGone, Goto
  <2>3. UNCHANGED <<nativeKey, osKeys, key, tls>>
    BY <1>10 DEF BeginExit, ThreadGone, shared, memory, locals
  <2>4. pc'[t] \in {"install", "new"} \cup Exiting =>
          key'[t] = nativeKey /\ nativeKey # ReservedKey
    BY <2>1
  <2> HIDE DEF TypeInv, Typed
  <2> QED
    BY <2>1, <2>2, <2>3, <2>4, KeyQuietStep
<1>11. ASSUME NEW t \in Threads, OnThreadExit(t) PROVE KeyInv'
  <2>1. nativeKey # ReservedKey
    BY <1>11 DEF OnThreadExit, ExitCallbackDue, CurrentVector, KeyInv, KeyAccounting
  <2>2. ~HoldsKey(t) /\ ~HoldsKey(t)' /\ key'[t] = nativeKey
    BY <1>11 DEF OnThreadExit, HoldsKey, Goto, At
  <2>3. \A u \in Threads, k \in KeyPool : tls'[u][k] = tls[u][k] \/ k = nativeKey
    BY <1>11 DEF OnThreadExit, SetTLSValue
  <2>4. \A u \in Threads \ {t} : pc'[u] = pc[u] /\ key'[u] = key[u]
    BY <1>11 DEF OnThreadExit, Goto
  <2>5. UNCHANGED <<nativeKey, osKeys>>
    BY <1>11 DEF OnThreadExit, shared
  <2> QED
    BY <2>1, <2>2, <2>3, <2>4, <2>5, KeyQuietStep
<1>12. ASSUME NEW t \in Threads,
              \/ DeleteReturns(t) \/ TakeValue(t) \/ ScanPastEnd(t)
              \/ CallDestructor(t) \/ DestructorReturns(t) \/ EndPass(t)
       PROVE  KeyInv'
  <2>1. pc[t] \in Exiting /\ ~HoldsKey(t)
    BY <1>12 DEF DeleteReturns, TakeValue, ScanPastEnd, CallDestructor,
       DestructorReturns, EndPass, HoldsKey, At, Exiting
  <2>2. ~HoldsKey(t)'
    BY <1>12 DEF DeleteReturns, TakeValue, ScanPastEnd, CallDestructor,
       DestructorReturns, EndPass, BeginPass, HoldsKey, At, Goto
  <2>3. \A u \in Threads \ {t} : pc'[u] = pc[u]
    BY <1>12 DEF DeleteReturns, TakeValue, ScanPastEnd, CallDestructor,
       DestructorReturns, EndPass, BeginPass, Goto
  <2>4. UNCHANGED <<nativeKey, osKeys, key, tls>>
    BY <1>12 DEF DeleteReturns, TakeValue, ScanPastEnd, CallDestructor,
       DestructorReturns, EndPass, shared, memory, locals
  <2>5. key'[t] = nativeKey /\ nativeKey # ReservedKey
    BY <2>1, <2>4 DEF KeyInv
  <2> QED
    BY <2>1, <2>2, <2>3, <2>4, <2>5, KeyQuietStep
<1>13. ASSUME NEW t \in Threads, RemoveStackVector(t) PROVE KeyInv'
  <2>1. ~HoldsKey(t) /\ ~HoldsKey(t)' /\ pc'[t] \notin {"install", "new"} \cup Exiting
    BY <1>13 DEF RemoveStackVector, HoldsKey, Goto, At, Exiting
  <2>2. \A u \in Threads, k \in KeyPool : tls'[u][k] # NULL => tls[u][k] # NULL
    BY <1>13 DEF RemoveStackVector, SetTLSValue
  <2>3. \A u \in Threads \ {t} : pc'[u] = pc[u]
    BY <1>13 DEF RemoveStackVector, Goto
  <2>4. UNCHANGED <<nativeKey, osKeys, key>>
    BY <1>13 DEF RemoveStackVector, shared, locals
  <2>5. pc'[t] \in {"install", "new"} \cup Exiting =>
          key'[t] = nativeKey /\ nativeKey # ReservedKey
    BY <2>1
  <2> HIDE DEF TypeInv, Typed
  <2> QED
    BY <2>1, <2>2, <2>3, <2>4, <2>5, KeyQuietStep
<1>14. ASSUME UNCHANGED vars PROVE KeyInv'
  BY <1>1, <1>14 DEF vars, shared, memory, locals
<1> QED
  BY <1>2, <1>3, <1>4, <1>5, <1>6, <1>7, <1>8, <1>9, <1>10, <1>11, <1>12, <1>13, <1>14
     DEF Next, Use, Work, Done

(* Whatever threads race to create it, one native key survives, and no     *)
(* other key the OS handed out is forgotten or used.                       *)
THEOREM KeyAccountingHolds == Spec => []KeyAccounting /\ []KeyInv
<1>1. Init => KeyInv
  <2>1. ASSUME Init PROVE KeyAccounting
    BY <2>1 DEF Init, KeyAccounting, HoldsKey
  <2>2. ASSUME Init, NEW t \in Threads PROVE pc[t] = "idle"
    BY <2>2 DEF Init
  <2> QED
    BY <2>1, <2>2 DEF KeyInv, Exiting
<1>2. KeyInv => KeyAccounting
  BY DEF KeyInv
<1> QED
  BY <1>1, <1>2, TypesKept, KeyStep, PTL DEF Spec
-----------------------------------------------------------------------------
(* A step of one thread that leaves the published key alone. *)
LEMMA VectorFrame ==
  ASSUME VectorInv, NEW t \in Threads, VectorWhere(t)', UNCHANGED nativeKey,
         \A u \in Threads \ {t} :
           pc'[u] = pc[u] /\ tls'[u] = tls[u] /\ heapLive'[u] = heapLive[u]
  PROVE  VectorInv'
<1> SUFFICES ASSUME NEW u \in Threads PROVE VectorWhere(u)'
  BY DEF VectorInv
<1>1. CASE u = t
  BY <1>1
<1>2. CASE u # t
  BY <1>2 DEF VectorInv, VectorWhere, CurrentVector
<1> QED
  BY <1>1, <1>2

(* Wherever the vector of a thread is, it is somewhere. *)
LEMMA WhereNotNull == "heap" # NULL /\ "ctorStack" # NULL /\ "exitStack" # NULL
  BY ConstantsAssumption DEF Where

LEMMA VectorStep == TypeInv /\ KeyInv /\ VectorInv /\ [Next]_vars => VectorInv'
<1> SUFFICES ASSUME TypeInv, KeyInv, VectorInv PROVE [Next]_vars => VectorInv'
  OBVIOUS
<1> USE WhereNotNull DEF TypeInv, Typed
<1>1. ASSUME UNCHANGED <<nativeKey, pc, tls, heapLive>> PROVE VectorInv'
  BY <1>1 DEF VectorInv, VectorWhere, CurrentVector
<1>2. ASSUME NEW t \in Threads, NEW o \in Slots, NEW v \in Values \cup {NULL},
             Set(t, o, v) \/ Initialize(t, o) \/ Free(t, o)
      PROVE  VectorInv'
  BY <1>1, <1>2 DEF Set, Initialize, Free, shared, memory, locals
<1>3. ASSUME NEW t \in Threads, RegisterDestructor(t) \/ OtherKeysRound(t) \/ SkipSlot(t)
      PROVE  VectorInv'
  BY <1>1, <1>3 DEF RegisterDestructor, OtherKeysRound, SkipSlot, shared, memory, locals
<1>4. ASSUME NEW t \in Threads, NEW fn \in {"Get", "Set", "Initialize"},
             NEW o \in Slots, NEW v \in Values \cup {NULL},
             CallWithoutVector(t, fn, o, v)
      PROVE  VectorInv'
  <2>1. VectorWhere(t) /\ CurrentVector(t) = NULL
    BY <1>4 DEF VectorInv, CallWithoutVector
  <2>2. pc[t] \in {"idle", "os_exit"}
    BY <1>4, <2>1 DEF CallWithoutVector, MayCall, Callbacks, VectorWhere, Exiting
  <2>3. UNCHANGED <<nativeKey, tls, heapLive>>
    BY <1>4 DEF CallWithoutVector, shared, memory
  <2>4. pc'[t] \in {"alloc_key", "install"} /\ \A u \in Threads \ {t} : pc'[u] = pc[u]
    BY <1>4, <2>2 DEF CallWithoutVector, Goto, Callbacks
  <2>5. VectorWhere(t)'
    BY <2>1, <2>2, <2>3, <2>4 DEF VectorWhere, CurrentVector, Exiting
  <2> QED
    BY <2>3, <2>4, <2>5, VectorFrame
<1>5. ASSUME NEW t \in Threads, AllocKey(t) \/ ReallocKey(t) PROVE VectorInv'
  <2>1. UNCHANGED <<nativeKey, tls, heapLive>>
    BY <1>5 DEF AllocKey, ReallocKey, memory
  <2>2. pc[t] \in {"alloc_key", "realloc_key"}
    BY <1>5 DEF AllocKey, ReallocKey, At
  <2>3. \/ UNCHANGED pc
        \/ \E l \in {"realloc_key", "cas_key"} : pc' = [pc EXCEPT ![t] = l]
    BY <1>5 DEF AllocKey, ReallocKey, KeyExhausted, Goto
  <2>4. CASE UNCHANGED pc
    BY <1>1, <2>1, <2>4
  <2>5. CASE \E l \in {"realloc_key", "cas_key"} : pc' = [pc EXCEPT ![t] = l]
    <3>1. pc'[t] \in {"realloc_key", "cas_key"} /\ \A u \in Threads \ {t} : pc'[u] = pc[u]
      BY <2>5
    <3>2. VectorWhere(t)'
      BY <2>1, <2>2, <3>1 DEF VectorInv, VectorWhere, CurrentVector, Exiting
    <3> QED
      BY <2>1, <3>1, <3>2, VectorFrame
  <2> QED
    BY <2>3, <2>4, <2>5
<1>6. ASSUME NEW t \in Threads, CompareAndSwapKey(t) PROVE VectorInv'
  <2>1. UNCHANGED <<tls, heapLive>> /\ nativeKey' \in KeyPool
    BY <1>6 DEF CompareAndSwapKey, memory
  <2>2. /\ pc[t] = "cas_key" /\ pc'[t] = "install"
        /\ \A u \in Threads \ {t} : pc'[u] = pc[u]
    BY <1>6 DEF CompareAndSwapKey, At, Goto
  <2>3. nativeKey # ReservedKey => nativeKey' = nativeKey
    BY <1>6 DEF CompareAndSwapKey, SwapSucceeds
  <2>4. nativeKey = ReservedKey => \A u \in Threads, k \in KeyPool : tls[u][k] = NULL
    BY DEF KeyInv, KeyAccounting
  <2>5. \A u \in Threads : CurrentVector(u)' = CurrentVector(u)
    BY <2>1, <2>3, <2>4 DEF CurrentVector
  <2>6. ASSUME NEW u \in Threads PROVE VectorWhere(u)'
    <3>1. CASE u = t
      BY <2>1, <2>2, <2>5, <3>1 DEF VectorInv, VectorWhere, Exiting
    <3>2. CASE u # t
      BY <2>1, <2>2, <2>5, <3>2 DEF VectorInv, VectorWhere
    <3> QED
      BY <3>1, <3>2
  <2> QED
    BY <2>6 DEF VectorInv
<1>7. ASSUME NEW t \in Threads, InstallStackVector(t) PROVE VectorInv'
  <2>1. /\ pc[t] = "install" /\ key[t] = nativeKey
        /\ UNCHANGED <<nativeKey, heapLive>>
    BY <1>7 DEF InstallStackVector, At, KeyInv, shared
  <2>2. tls[t][key[t]] = NULL
    BY <2>1 DEF VectorInv, VectorWhere, CurrentVector
  <2>3. /\ tls' = [tls EXCEPT ![t][key[t]] = "ctorStack"]
        /\ pc' = [pc EXCEPT ![t] = "new"]
    BY <1>7, <2>2 DEF InstallStackVector, SetTLSValue, Goto
  <2>4. /\ CurrentVector(t)' = "ctorStack" /\ pc'[t] = "new"
        /\ \A u \in Threads \ {t} : pc'[u] = pc[u] /\ tls'[u] = tls[u]
    BY <2>1, <2>3 DEF CurrentVector
  <2>5. VectorWhere(t)'
    BY <2>1, <2>2, <2>4 DEF VectorInv, VectorWhere, CurrentVector, Exiting
  <2> QED
    BY <2>1, <2>4, <2>5, VectorFrame
<1>8. ASSUME NEW t \in Threads, InstallHeapVector(t) PROVE VectorInv'
  <2>1. key[t] = nativeKey /\ nativeKey' = nativeKey /\ pc[t] = "new"
    BY <1>8 DEF InstallHeapVector, At, KeyInv
  <2>2. op[t].from \in {"idle", "os_exit"}
    BY <1>8, OpTypes DEF InstallHeapVector, At, Constructing
  <2>3. /\ CurrentVector(t)' = "heap" /\ heapLive'[t]
        /\ pc'[t] \in {"idle", "os_exit"}
    BY <1>8, <2>1, <2>2 DEF InstallHeapVector, SetTLSValue, Goto, CurrentVector
  <2>4. \A u \in Threads \ {t} :
          pc'[u] = pc[u] /\ tls'[u] = tls[u] /\ heapLive'[u] = heapLive[u]
    BY <1>8 DEF InstallHeapVector, SetTLSValue, Goto
  <2>5. VectorWhere(t)'
    BY <2>3 DEF VectorWhere, Exiting
  <2> QED
    BY <2>1, <2>4, <2>5, VectorFrame
<1>9. ASSUME NEW t \in Threads, BeginExit(t) \/ ThreadGone(t) PROVE VectorInv'
  <2>1. /\ pc[t] \in {"idle", "os_exit"} /\ pc'[t] \in {"os_exit", "dead"}
        /\ \A u \in Threads \ {t} : pc'[u] = pc[u]
    BY <1>9 DEF BeginExit, ThreadGone, At, Goto
  <2>2. UNCHANGED <<nativeKey, tls, heapLive>>
    BY <1>9 DEF BeginExit, ThreadGone, shared, memory
  <2>3. VectorWhere(t)'
    BY <2>1, <2>2 DEF VectorInv, VectorWhere, CurrentVector, Exiting
  <2> QED
    BY <2>1, <2>2, <2>3, VectorFrame
<1>10. ASSUME NEW t \in Threads, OnThreadExit(t) PROVE VectorInv'
  <2>1. /\ pc'[t] = "delete" /\ CurrentVector(t)' = "exitStack" /\ ~heapLive'[t]
        /\ nativeKey' = nativeKey
    BY <1>10 DEF OnThreadExit, SetTLSValue, Goto, CurrentVector, shared
  <2>2. \A u \in Threads \ {t} :
          pc'[u] = pc[u] /\ tls'[u] = tls[u] /\ heapLive'[u] = heapLive[u]
    BY <1>10 DEF OnThreadExit, SetTLSValue, Goto
  <2>3. VectorWhere(t)'
    BY <2>1 DEF VectorWhere, Exiting
  <2> QED
    BY <2>1, <2>2, <2>3, VectorFrame
<1>11. ASSUME NEW t \in Threads,
              \/ DeleteReturns(t) \/ TakeValue(t) \/ ScanPastEnd(t)
              \/ CallDestructor(t) \/ DestructorReturns(t) \/ EndPass(t)
       PROVE  VectorInv'
  <2>1. pc[t] \in Exiting
    BY <1>11 DEF DeleteReturns, TakeValue, ScanPastEnd, CallDestructor,
       DestructorReturns, EndPass, At, Exiting
  <2>2. pc'[t] \in Exiting \cup {"undefined"}
    BY <1>11 DEF DeleteReturns, TakeValue, ScanPastEnd, CallDestructor,
       DestructorReturns, EndPass, BeginPass, At, Goto, Exiting
  <2>3. \A u \in Threads \ {t} : pc'[u] = pc[u]
    BY <1>11 DEF DeleteReturns, TakeValue, ScanPastEnd, CallDestructor,
       DestructorReturns, EndPass, BeginPass, Goto
  <2>4. UNCHANGED <<nativeKey, tls, heapLive>>
    BY <1>11 DEF DeleteReturns, TakeValue, ScanPastEnd, CallDestructor,
       DestructorReturns, EndPass, shared, memory
  <2>5. VectorWhere(t)'
    BY <2>1, <2>2, <2>4 DEF VectorInv, VectorWhere, CurrentVector, Exiting
  <2> QED
    BY <2>3, <2>4, <2>5, VectorFrame
<1>12. ASSUME NEW t \in Threads, RemoveStackVector(t) PROVE VectorInv'
  <2>1. key[t] = nativeKey /\ nativeKey' = nativeKey /\ pc[t] = "remove"
    BY <1>12 DEF RemoveStackVector, At, KeyInv, Exiting, shared
  <2>2. /\ CurrentVector(t)' = NULL /\ heapLive' = heapLive /\ pc'[t] = "os_exit"
        /\ \A u \in Threads \ {t} : pc'[u] = pc[u] /\ tls'[u] = tls[u]
    BY <1>12, <2>1 DEF RemoveStackVector, SetTLSValue, Goto, CurrentVector
  <2>3. VectorWhere(t)'
    BY <2>1, <2>2 DEF VectorInv, VectorWhere, Exiting
  <2> QED
    BY <2>1, <2>2, <2>3, VectorFrame
<1>13. ASSUME UNCHANGED vars PROVE VectorInv'
  BY <1>1, <1>13 DEF vars, shared, memory
<1> QED
  BY <1>2, <1>3, <1>4, <1>5, <1>6, <1>7, <1>8, <1>9, <1>10, <1>11, <1>12, <1>13
     DEF Next, Use, Work, Done

(* The pointer the OS holds never dangles, and neither the allocator nor a  *)
(* destructor is ever made to build a second vector.                       *)
THEOREM VectorLiveHolds == Spec => []VectorLive /\ []NoRecursion /\ []VectorInv
<1>1. Init => VectorInv
  <2> SUFFICES ASSUME Init, NEW t \in Threads PROVE VectorWhere(t)
    BY DEF VectorInv
  <2>1. pc[t] = "idle" /\ heapLive[t] = FALSE
    BY DEF Init
  <2>2. CurrentVector(t) = NULL
    BY DEF Init, CurrentVector, KeyPool
  <2> QED
    BY <2>1, <2>2, WhereNotNull DEF VectorWhere, Exiting
<1>2. Typed /\ VectorInv => VectorLive
  <2> SUFFICES ASSUME Typed, VectorInv, NEW t \in Threads, pc[t] \notin Stopped
               PROVE  /\ CurrentVector(t) = "ctorStack" => pc[t] = "new"
                      /\ CurrentVector(t) = "exitStack" => pc[t] \in Exiting
                      /\ heapLive[t] <=> CurrentVector(t) = "heap"
    BY DEF VectorLive
  <2>1. pc[t] \in Labels /\ VectorWhere(t)
    BY DEF Typed, VectorInv
  <2> QED
    BY <2>1, WhereNotNull DEF VectorWhere, Labels, Stopped, Exiting
<1>3. VectorInv => NoRecursion
  BY DEF VectorInv, VectorWhere, NoRecursion
<1>4. TypeInv => Typed
  BY DEF TypeInv
<1> QED
  BY <1>1, <1>2, <1>3, <1>4, TypesKept, KeyAccountingHolds, VectorStep, PTL DEF Spec

(* Neither the allocator, when it calls Get for the first time, nor a       *)
(* destructor makes ConstructTlsVector come back into itself.              *)
THEOREM NoRecursionHolds == Spec => []NoRecursion
<1> QED
  BY VectorLiveHolds, PTL

-----------------------------------------------------------------------------
(* An object's index is no longer fresh by the time it is in use. *)
LEMMA InitializedNotFresh ==
  ASSUME TypeInv, ObjectInv, NEW o \in Slots, initialized[o]
  PROVE  slotOf[o] \in Index \ {0} /\ ~FreshIndex(slotOf[o])
<1>1. slotOf[o] \in Index \ {0} /\ slotOf[o] <= lastUsed
  BY DEF ObjectInv, SlotIdentity, IndexInv
<1>2. \A u \in Threads : claiming[u] # NULL => claiming[u] \in Slots \ {o}
  BY DEF TypeInv, Typed, ObjectInv, ClaimInv
<1>3. \A u \in Threads : claiming[u] # NULL => slotOf[claiming[u]] # slotOf[o]
  BY <1>2 DEF ObjectInv, SlotIdentity
<1>4. lastUsed \in Nat /\ slotOf[o] \in Nat
  BY DEF TypeInv, Typed
<1> QED
  BY <1>1, <1>3, <1>4 DEF FreshIndex

(* A step that makes no index fresh, and stores only at indices in use.    *)
LEMMA FreshFrame ==
  ASSUME FreshSlotsAreNull,
         \A i \in Index : FreshIndex(i)' => FreshIndex(i),
         \A u \in Threads, w \in Where, i \in Index :
           \/ vector'[u][w][i] = NULL
           \/ \E x \in Where : vector'[u][w][i] = vector[u][x][i]
           \/ ~FreshIndex(i)
  PROVE  FreshSlotsAreNull'
  BY DEF FreshSlotsAreNull, FreshIndex

LEMMA FreshQuiet ==
  ASSUME UNCHANGED <<lastUsed, claiming, slotOf>>
  PROVE  \A i \in Index : FreshIndex(i)' => FreshIndex(i)
  BY DEF FreshIndex

LEMMA ClaimIndexFresh ==
  ASSUME TypeInv, NEW t \in Threads, NEW o \in Slots, ClaimIndex(t, o)
  PROVE  \A i \in Index : FreshIndex(i)' => FreshIndex(i)
<1> SUFFICES ASSUME NEW i \in Index, FreshIndex(i)' PROVE FreshIndex(i)
  OBVIOUS
<1>1. i \in Int /\ lastUsed \in Nat /\ lastUsed' = lastUsed + 1
  BY DEF TypeInv, Typed, Index, ClaimIndex, NewIndex
<1>2. CASE i > lastUsed'
  BY <1>1, <1>2 DEF FreshIndex
<1>3. CASE \E u \in Threads : claiming'[u] # NULL /\ slotOf'[claiming'[u]] = i
  <2>1. PICK u \in Threads : claiming'[u] # NULL /\ slotOf'[claiming'[u]] = i
    BY <1>3
  <2>2. /\ slotOf' = [slotOf EXCEPT ![o] = lastUsed + 1]
        /\ claiming' = [claiming EXCEPT ![t] = o]
    BY DEF ClaimIndex, NewIndex
  <2>3. CASE claiming'[u] = o
    BY <1>1, <2>1, <2>2, <2>3 DEF TypeInv, Typed, FreshIndex
  <2>4. CASE claiming'[u] # o
    BY <2>1, <2>2, <2>4 DEF TypeInv, Typed, FreshIndex
  <2> QED
    BY <2>3, <2>4
<1> QED
  BY <1>2, <1>3 DEF FreshIndex

LEMMA FreshStep ==
  TypeInv /\ ObjectInv /\ FreshSlotsAreNull /\ [Next]_vars => FreshSlotsAreNull'
<1> SUFFICES ASSUME TypeInv, ObjectInv, FreshSlotsAreNull
             PROVE  [Next]_vars => FreshSlotsAreNull'
  OBVIOUS
<1>1. ASSUME UNCHANGED vector, \A i \in Index : FreshIndex(i)' => FreshIndex(i)
      PROVE  FreshSlotsAreNull'
  BY <1>1 DEF FreshSlotsAreNull, FreshIndex
<1>2. ASSUME UNCHANGED <<vector, lastUsed, claiming, slotOf>> PROVE FreshSlotsAreNull'
  BY <1>1, <1>2, FreshQuiet
<1>3. ASSUME NEW t \in Threads, NEW o \in Slots, NEW v \in Values \cup {NULL}, Set(t, o, v)
      PROVE  FreshSlotsAreNull'
  <2>1. UNCHANGED <<lastUsed, claiming, slotOf>> /\ initialized[o]
    BY <1>3 DEF Set, CanCall, shared, locals
  <2>2. vector' = [vector EXCEPT ![t][CurrentVector(t)][slotOf[o]] = v]
    BY <1>3 DEF Set
  <2>3. \A u \in Threads, w \in Where, i \in Index :
          i # slotOf[o] => vector'[u][w][i] = vector[u][w][i]
    BY <2>2 DEF TypeInv, Typed, Contents
  <2> QED
    BY <2>1, <2>3, InitializedNotFresh, FreshQuiet, FreshFrame
<1>4. ASSUME NEW t \in Threads, NEW o \in Slots, Initialize(t, o) PROVE FreshSlotsAreNull'
  BY <1>1, <1>4, ClaimIndexFresh DEF Initialize, memory
<1>5. ASSUME NEW t \in Threads, NEW o \in Slots, Free(t, o) PROVE FreshSlotsAreNull'
  <2>1. /\ UNCHANGED <<vector, lastUsed, claiming>>
        /\ slotOf' = [slotOf EXCEPT ![o] = 0]
        /\ \A u \in Threads : claiming[u] # o
    BY <1>5 DEF Free, LastUsedAfterFree, Unused, memory, locals
  <2>2. \A u \in Threads : claiming[u] # NULL =>
          slotOf'[claiming[u]] = slotOf[claiming[u]]
    BY <2>1 DEF TypeInv, Typed
  <2>3. \A i \in Index : FreshIndex(i)' => FreshIndex(i)
    BY <2>1, <2>2 DEF FreshIndex
  <2> QED
    BY <1>1, <2>1, <2>3
<1>6. ASSUME NEW t \in Threads, RegisterDestructor(t) PROVE FreshSlotsAreNull'
  <2>1. UNCHANGED <<vector, lastUsed, slotOf>> /\ claiming' = [claiming EXCEPT ![t] = NULL]
    BY <1>6 DEF RegisterDestructor, memory
  <2>2. \A u \in Threads : claiming'[u] # NULL => claiming'[u] = claiming[u]
    BY <2>1 DEF TypeInv, Typed
  <2>3. \A i \in Index : FreshIndex(i)' => FreshIndex(i)
    BY <2>1, <2>2 DEF FreshIndex
  <2> QED
    BY <1>1, <2>1, <2>3
<1>7. ASSUME NEW t \in Threads, InstallStackVector(t) PROVE FreshSlotsAreNull'
  <2>1. UNCHANGED <<lastUsed, claiming, slotOf>>
    BY <1>7 DEF InstallStackVector, shared, locals
  <2>2. vector' \in {vector, [vector EXCEPT ![t]["ctorStack"] = Blank]}
    BY <1>7 DEF InstallStackVector
  <2>3. \A u \in Threads, w \in Where, i \in Index :
          vector'[u][w][i] = NULL \/ vector'[u][w][i] = vector[u][w][i]
    <3>1. CASE vector' = vector
      BY <3>1
    <3>2. CASE vector' = [vector EXCEPT ![t]["ctorStack"] = Blank]
      BY <3>2 DEF TypeInv, Typed, Contents, Blank
    <3> QED
      BY <2>2, <3>1, <3>2
  <2> QED
    BY <2>1, <2>3, FreshQuiet, FreshFrame
<1>8. ASSUME NEW t \in Threads, InstallHeapVector(t) PROVE FreshSlotsAreNull'
  <2>1. op[t] \in Call
    BY <1>8 DEF InstallHeapVector, At, TypeInv, LocalsOK, Constructing
  <2>2. \A i \in Index : FreshIndex(i)' => FreshIndex(i)
    <3>1. CASE op[t].fn = "Initialize"
      BY <1>8, <2>1, <3>1, ClaimIndexFresh DEF InstallHeapVector, Call
    <3>2. CASE op[t].fn # "Initialize"
      BY <1>8, <3>2, FreshQuiet DEF InstallHeapVector
    <3> QED
      BY <3>1, <3>2
  <2>3. PICK installed : installed = [vector EXCEPT ![t]["heap"] = vector[t]["ctorStack"],
                                                    ![t]["ctorStack"] = Blank]
    OBVIOUS
  <2>4. \A u \in Threads, w \in Where, i \in Index :
          \/ installed[u][w][i] = NULL
          \/ \E x \in Where : installed[u][w][i] = vector[u][x][i]
    BY <2>3, WhereTypes DEF TypeInv, Typed, Contents, Blank
  <2>5. CASE op[t].fn = "Set"
    <3>1. vector' = [installed EXCEPT ![t]["heap"][slotOf[op[t].slot]] = op[t].value]
      BY <1>8, <2>3, <2>5 DEF InstallHeapVector, NewHeap
    <3>2. initialized[op[t].slot] /\ op[t].slot \in Slots
      BY <2>1, <2>5, NoCallAssumption DEF ObjectInv, OpInv, Call
    <3>3. \A u \in Threads, w \in Where, i \in Index :
            i # slotOf[op[t].slot] => vector'[u][w][i] = installed[u][w][i]
      BY <2>3, <3>1 DEF TypeInv, Typed, Contents, Blank
    <3> QED
      BY <2>2, <2>4, <3>2, <3>3, InitializedNotFresh, FreshFrame
  <2>6. CASE op[t].fn # "Set"
    <3>1. vector' = installed
      BY <1>8, <2>3, <2>6 DEF InstallHeapVector, NewHeap
    <3> QED
      BY <2>2, <2>4, <3>1, FreshFrame
  <2> QED
    BY <2>5, <2>6
<1>9. ASSUME NEW t \in Threads, OnThreadExit(t) PROVE FreshSlotsAreNull'
  <2>1. UNCHANGED <<lastUsed, claiming, slotOf>> /\ CurrentVector(t) \in Where
    BY <1>9, CurrentVectorType DEF OnThreadExit, ExitCallbackDue, TypeInv, shared
  <2>2. vector' = [vector EXCEPT ![t]["exitStack"] = vector[t][CurrentVector(t)],
                                 ![t]["heap"] = Blank]
    BY <1>9 DEF OnThreadExit, NewExitVector
  <2>3. \A u \in Threads, w \in Where, i \in Index :
          \/ vector'[u][w][i] = NULL
          \/ \E x \in Where : vector'[u][w][i] = vector[u][x][i]
    BY <2>1, <2>2, WhereTypes DEF TypeInv, Typed, Contents, Blank
  <2> QED
    BY <2>1, <2>3, FreshQuiet, FreshFrame
<1>10. ASSUME NEW t \in Threads, TakeValue(t) PROVE FreshSlotsAreNull'
  <2>1. UNCHANGED <<lastUsed, claiming, slotOf>>
    BY <1>10 DEF TakeValue, shared, locals
  <2>2. vector' = [vector EXCEPT ![t]["exitStack"][slot[t]] = NULL]
    BY <1>10 DEF TakeValue, PreClear
  <2>3. \A u \in Threads, w \in Where, i \in Index :
          vector'[u][w][i] = NULL \/ vector'[u][w][i] = vector[u][w][i]
    BY <2>2 DEF TypeInv, Typed, Contents
  <2> QED
    BY <2>1, <2>3, FreshQuiet, FreshFrame
<1>11. ASSUME NEW t \in Threads, RemoveStackVector(t) PROVE FreshSlotsAreNull'
  <2>1. UNCHANGED <<lastUsed, claiming, slotOf>>
    BY <1>11 DEF RemoveStackVector, shared, locals
  <2>2. vector' = [vector EXCEPT ![t]["exitStack"] = Blank]
    BY <1>11 DEF RemoveStackVector
  <2>3. \A u \in Threads, w \in Where, i \in Index :
          vector'[u][w][i] = NULL \/ vector'[u][w][i] = vector[u][w][i]
    BY <2>2 DEF TypeInv, Typed, Contents, Blank
  <2> QED
    BY <2>1, <2>3, FreshQuiet, FreshFrame
<1>12. ASSUME NEW t \in Threads, NEW fn \in {"Get", "Set", "Initialize"},
              NEW o \in Slots, NEW v \in Values \cup {NULL},
              CallWithoutVector(t, fn, o, v)
       PROVE  FreshSlotsAreNull'
  BY <1>2, <1>12 DEF CallWithoutVector, shared, memory
<1>13. ASSUME NEW t \in Threads, AllocKey(t) \/ ReallocKey(t) \/ CompareAndSwapKey(t)
       PROVE  FreshSlotsAreNull'
  BY <1>2, <1>13 DEF AllocKey, ReallocKey, CompareAndSwapKey, memory
<1>14. ASSUME NEW t \in Threads, BeginExit(t) \/ OtherKeysRound(t) \/ ThreadGone(t)
       PROVE  FreshSlotsAreNull'
  BY <1>2, <1>14 DEF BeginExit, OtherKeysRound, ThreadGone, shared, memory, locals
<1>15. ASSUME NEW t \in Threads,
              \/ DeleteReturns(t) \/ SkipSlot(t) \/ ScanPastEnd(t) \/ CallDestructor(t)
              \/ DestructorReturns(t) \/ EndPass(t)
       PROVE  FreshSlotsAreNull'
  BY <1>2, <1>15 DEF DeleteReturns, SkipSlot, ScanPastEnd, CallDestructor,
     DestructorReturns, EndPass, shared, memory, locals
<1>16. ASSUME UNCHANGED vars PROVE FreshSlotsAreNull'
  BY <1>2, <1>16 DEF vars, shared, memory, locals
<1> QED
  BY <1>3, <1>4, <1>5, <1>6, <1>7, <1>8, <1>9, <1>10, <1>11, <1>12, <1>13, <1>14,
     <1>15, <1>16
     DEF Next, Use, Work, Done

(* A slot starts out zero on every thread, however many slots had its place *)
(* in the objects' memory before it.                                       *)
THEOREM FreshSlotsAreNullHolds == Spec => []FreshSlotsAreNull
<1>1. Init => FreshSlotsAreNull
  BY DEF Init, FreshSlotsAreNull, Blank
<1> QED
  BY <1>1, TypesKept, SlotIdentityHolds, FreshStep, PTL DEF Spec

-----------------------------------------------------------------------------
(* A step that gives a destructor only to a fresh index, and scans nothing. *)
LEMMA CleanQuiet ==
  ASSUME FreshSlotsAreNull, CleanInv, UNCHANGED <<pc, slot, needScan, vector>>,
         \A i \in Index : destructors'[i] # NULL => destructors[i] # NULL \/ FreshIndex(i)
  PROVE  CleanInv'
<1> SUFFICES ASSUME NEW t \in Threads, NEW i \in Index, destructors'[i] # NULL,
                    pc[t] = "remove" \/ (pc[t] = "scan" /\ ~needScan[t] /\ i > slot[t])
             PROVE  vector[t]["exitStack"][i] = NULL
  BY DEF CleanInv, CleanOf
<1>1. CASE destructors[i] # NULL
  BY <1>1 DEF CleanInv, CleanOf
<1>2. CASE FreshIndex(i)
  BY <1>2, WhereTypes DEF FreshSlotsAreNull, FreshIndex
<1> QED
  BY <1>1, <1>2

(* A step of one thread that leaves the destructors alone. *)
LEMMA CleanFrame ==
  ASSUME CleanInv, NEW t \in Threads, CleanOf(t)', UNCHANGED destructors,
         \A u \in Threads \ {t} :
           /\ pc'[u] = pc[u] /\ slot'[u] = slot[u] /\ needScan'[u] = needScan[u]
           /\ vector'[u] = vector[u]
  PROVE  CleanInv'
<1> SUFFICES ASSUME NEW u \in Threads PROVE CleanOf(u)'
  BY DEF CleanInv
<1>1. CASE u = t
  BY <1>1
<1>2. CASE u # t
  BY <1>2 DEF CleanInv, CleanOf
<1> QED
  BY <1>1, <1>2

(* A pass starts above every index in use. *)
LEMMA BeginPassClean ==
  ASSUME TypeInv, FreshSlotsAreNull, NEW t \in Threads, BeginPass(t),
         UNCHANGED <<vector, destructors>>
  PROVE  CleanOf(t)'
<1>1. pc'[t] = "scan" /\ slot'[t] = lastUsed
  BY DEF BeginPass, Goto, TypeInv, Typed
<1>2. \A i \in Index : i > lastUsed => vector[t]["exitStack"][i] = NULL
  BY WhereTypes DEF FreshSlotsAreNull
<1> QED
  BY <1>1, <1>2 DEF CleanOf

LEMMA CleanStep ==
  TypeInv /\ ObjectInv /\ FreshSlotsAreNull /\ CleanInv /\ [Next]_vars => CleanInv'
<1> SUFFICES ASSUME TypeInv, ObjectInv, FreshSlotsAreNull, CleanInv
             PROVE  [Next]_vars => CleanInv'
  OBVIOUS
<1>1. ASSUME UNCHANGED <<pc, slot, needScan, vector, destructors>> PROVE CleanInv'
  BY <1>1, CleanQuiet
<1>2. ASSUME NEW t \in Threads, RegisterDestructor(t) PROVE CleanInv'
  <2>1. claiming[t] # NULL /\ UNCHANGED <<pc, slot, needScan, vector>>
    BY <1>2 DEF RegisterDestructor, memory, scan
  <2>2. \A i \in Index : destructors'[i] # NULL =>
          destructors[i] # NULL \/ i = slotOf[claiming[t]]
    <3>1. \/ destructors' = destructors
          \/ \E d : destructors' = [destructors EXCEPT ![slotOf[claiming[t]]] = d]
      BY <1>2 DEF RegisterDestructor
    <3> QED
      BY <3>1 DEF TypeInv, Typed
  <2>3. FreshIndex(slotOf[claiming[t]])
    BY <2>1 DEF FreshIndex
  <2> QED
    BY <2>1, <2>2, <2>3, CleanQuiet
<1>3. ASSUME NEW t \in Threads, NEW o \in Slots, Free(t, o) PROVE CleanInv'
  <2>1. /\ UNCHANGED <<pc, slot, needScan, vector>>
        /\ destructors' = [destructors EXCEPT ![slotOf[o]] = NULL]
    BY <1>3 DEF Free, WipeDestructor, memory, scan
  <2>2. \A i \in Index : destructors'[i] # NULL => destructors[i] # NULL
    BY <2>1 DEF TypeInv, Typed
  <2> QED
    BY <2>1, <2>2, CleanQuiet
<1>4. ASSUME NEW t \in Threads, NEW o \in Slots, NEW v \in Values \cup {NULL}, Set(t, o, v)
      PROVE  CleanInv'
  <2>1. UNCHANGED <<pc, slot, needScan, destructors>>
    BY <1>4 DEF Set, shared, scan
  <2>2. pc'[t] \notin {"scan", "remove"}
    BY <1>4, <2>1 DEF Set, MayCall, Callbacks
  <2>3. \A u \in Threads \ {t} : vector'[u] = vector[u]
    BY <1>4 DEF Set, TypeInv, Typed
  <2>4. CleanOf(t)'
    BY <2>2 DEF CleanOf
  <2> QED
    BY <2>1, <2>3, <2>4, CleanFrame
<1>5. ASSUME NEW t \in Threads, NEW o \in Slots, Initialize(t, o) PROVE CleanInv'
  BY <1>1, <1>5 DEF Initialize, memory, scan
<1>6. ASSUME NEW t \in Threads, NEW fn \in {"Get", "Set", "Initialize"},
             NEW o \in Slots, NEW v \in Values \cup {NULL},
             CallWithoutVector(t, fn, o, v)
      PROVE  CleanInv'
  <2>1. UNCHANGED <<slot, needScan, destructors, vector>>
    BY <1>6 DEF CallWithoutVector, shared, memory, scan
  <2>2. /\ pc'[t] \notin {"scan", "remove"}
        /\ \A u \in Threads \ {t} : pc'[u] = pc[u]
    BY <1>6 DEF CallWithoutVector, Goto, TypeInv, Typed
  <2>3. CleanOf(t)'
    BY <2>2 DEF CleanOf
  <2> QED
    BY <2>1, <2>2, <2>3, CleanFrame
<1>7. ASSUME NEW t \in Threads,
             AllocKey(t) \/ ReallocKey(t) \/ CompareAndSwapKey(t)
      PROVE  CleanInv'
  <2>1. UNCHANGED <<slot, needScan, destructors, vector>>
    BY <1>7 DEF AllocKey, ReallocKey, CompareAndSwapKey, memory, scan
  <2>2. pc[t] \notin {"scan", "remove"}
    BY <1>7 DEF AllocKey, ReallocKey, CompareAndSwapKey, At
  <2>3. \/ UNCHANGED pc
        \/ \E l \in {"realloc_key", "cas_key", "install"} : pc' = [pc EXCEPT ![t] = l]
    BY <1>7 DEF AllocKey, ReallocKey, CompareAndSwapKey, KeyExhausted, Goto
  <2>4. pc'[t] \notin {"scan", "remove"} /\ \A u \in Threads \ {t} : pc'[u] = pc[u]
    BY <2>2, <2>3 DEF TypeInv, Typed
  <2>5. CleanOf(t)'
    BY <2>4 DEF CleanOf
  <2> QED
    BY <2>1, <2>4, <2>5, CleanFrame
<1>8. ASSUME NEW t \in Threads, InstallStackVector(t) \/ InstallHeapVector(t) PROVE CleanInv'
  <2>1. UNCHANGED <<slot, needScan, destructors>>
    BY <1>8 DEF InstallStackVector, InstallHeapVector, shared, scan
  <2>2. op[t] \in Call /\ pc[t] \in {"install", "new"}
    BY <1>8 DEF InstallStackVector, InstallHeapVector, At, TypeInv, LocalsOK, Constructing
  <2>3. \A u \in Threads \ {t} : pc'[u] = pc[u] /\ vector'[u] = vector[u]
    <3>1. CASE InstallStackVector(t)
      BY <3>1 DEF InstallStackVector, Goto, TypeInv, Typed
    <3>2. CASE InstallHeapVector(t)
      BY <3>2 DEF InstallHeapVector, Goto, TypeInv, Typed
    <3> QED
      BY <1>8, <3>1, <3>2
  <2>4. pc'[t] \notin {"scan", "remove"}
    BY <1>8, <2>2 DEF InstallStackVector, InstallHeapVector, Goto, Call, TypeInv, Typed
  <2>5. CleanOf(t)'
    BY <2>4 DEF CleanOf
  <2> QED
    BY <2>1, <2>3, <2>5, CleanFrame
<1>9. ASSUME NEW t \in Threads, BeginExit(t) \/ ThreadGone(t) PROVE CleanInv'
  <2>1. UNCHANGED <<slot, needScan, destructors, vector>>
    BY <1>9 DEF BeginExit, ThreadGone, shared, memory, scan
  <2>2. /\ pc'[t] \notin {"scan", "remove"}
        /\ \A u \in Threads \ {t} : pc'[u] = pc[u]
    BY <1>9 DEF BeginExit, ThreadGone, Goto, TypeInv, Typed
  <2>3. CleanOf(t)'
    BY <2>2 DEF CleanOf
  <2> QED
    BY <2>1, <2>2, <2>3, CleanFrame
<1>10. ASSUME NEW t \in Threads, OnThreadExit(t) \/ RemoveStackVector(t) PROVE CleanInv'
  <2>1. UNCHANGED <<slot, needScan, destructors>>
    BY <1>10 DEF OnThreadExit, RemoveStackVector, shared, scan
  <2>2. /\ pc'[t] \notin {"scan", "remove"}
        /\ \A u \in Threads \ {t} : pc'[u] = pc[u] /\ vector'[u] = vector[u]
    BY <1>10 DEF OnThreadExit, RemoveStackVector, Goto, TypeInv, Typed
  <2>3. CleanOf(t)'
    BY <2>2 DEF CleanOf
  <2> QED
    BY <2>1, <2>2, <2>3, CleanFrame
<1>11. ASSUME NEW t \in Threads, OtherKeysRound(t) PROVE CleanInv'
  BY <1>1, <1>11 DEF OtherKeysRound, shared, memory, scan
<1>12. ASSUME NEW t \in Threads, DeleteReturns(t) PROVE CleanInv'
  <2>1. BeginPass(t) /\ UNCHANGED <<destructors, vector>>
    BY <1>12 DEF DeleteReturns, shared, memory
  <2>2. \A u \in Threads \ {t} :
          pc'[u] = pc[u] /\ slot'[u] = slot[u] /\ needScan'[u] = needScan[u]
    BY <2>1 DEF BeginPass, Goto, TypeInv, Typed
  <2> QED
    BY <2>1, <2>2, BeginPassClean, CleanFrame
<1>13. ASSUME NEW t \in Threads, SkipSlot(t) PROVE CleanInv'
  <2>1. UNCHANGED <<pc, needScan, destructors, vector>> /\ slot' = [slot EXCEPT ![t] = @ - 1]
    BY <1>13 DEF SkipSlot, shared, memory
  <2>2. destructors[slot[t]] # NULL => vector[t]["exitStack"][slot[t]] = NULL
    BY <1>13 DEF SkipSlot, HasWork
  <2>3. \A i \in Index : i > slot'[t] => i > slot[t] \/ i = slot[t]
    BY <2>1 DEF TypeInv, Typed, Index
  <2>4. CleanOf(t)'
    BY <2>1, <2>2, <2>3 DEF CleanInv, CleanOf
  <2>5. \A u \in Threads \ {t} : slot'[u] = slot[u]
    BY <2>1 DEF TypeInv, Typed
  <2> QED
    BY <2>1, <2>4, <2>5, CleanFrame
<1>14. ASSUME NEW t \in Threads, TakeValue(t) \/ ScanPastEnd(t) \/ CallDestructor(t)
       PROVE  CleanInv'
  <2>1. UNCHANGED <<slot, needScan, destructors>>
    BY <1>14 DEF TakeValue, ScanPastEnd, CallDestructor, shared, scan
  <2>2. /\ pc'[t] \notin {"scan", "remove"}
        /\ \A u \in Threads \ {t} : pc'[u] = pc[u]
    BY <1>14 DEF TakeValue, ScanPastEnd, CallDestructor, Goto, TypeInv, Typed
  <2>3. \A u \in Threads \ {t} : vector'[u] = vector[u]
    BY <1>14 DEF TakeValue, PreClear, ScanPastEnd, CallDestructor, memory, TypeInv, Typed
  <2>4. CleanOf(t)'
    BY <2>2 DEF CleanOf
  <2> QED
    BY <2>1, <2>2, <2>3, <2>4, CleanFrame
<1>15. ASSUME NEW t \in Threads, DestructorReturns(t) PROVE CleanInv'
  <2>1. pc'[t] = "scan" /\ needScan'[t] /\ UNCHANGED <<destructors, vector>>
    BY <1>15 DEF DestructorReturns, RequestRescan, Goto, shared, memory, TypeInv, Typed
  <2>2. \A u \in Threads \ {t} :
          pc'[u] = pc[u] /\ slot'[u] = slot[u] /\ needScan'[u] = needScan[u]
    BY <1>15 DEF DestructorReturns, RequestRescan, Goto, TypeInv, Typed
  <2>3. CleanOf(t)'
    BY <2>1 DEF CleanOf
  <2> QED
    BY <2>1, <2>2, <2>3, CleanFrame
<1>16. ASSUME NEW t \in Threads, EndPass(t) PROVE CleanInv'
  <2>1. pc[t] = "scan" /\ slot[t] = 0 /\ UNCHANGED <<destructors, vector>>
    BY <1>16 DEF EndPass, At, shared, memory
  <2>2. CASE BeginPass(t)
    <3>1. \A u \in Threads \ {t} :
            pc'[u] = pc[u] /\ slot'[u] = slot[u] /\ needScan'[u] = needScan[u]
      BY <2>2 DEF BeginPass, Goto, TypeInv, Typed
    <3> QED
      BY <2>1, <2>2, <3>1, BeginPassClean, CleanFrame
  <2>3. CASE ~needScan[t] /\ Goto(t, "remove") /\ UNCHANGED <<slot, needScan>>
    <3>1. destructors[0] = NULL
      BY ConstantsAssumption DEF ObjectInv, SlotIdentity, Index, TypeInv, Typed
    <3>2. \A i \in Index : i = 0 \/ i > slot[t]
      BY <2>1 DEF Index
    <3>3. pc'[t] = "remove" /\ \A u \in Threads \ {t} : pc'[u] = pc[u]
      BY <2>3 DEF Goto, TypeInv, Typed
    <3>4. CleanOf(t)'
      BY <2>1, <2>3, <3>1, <3>2, <3>3 DEF CleanInv, CleanOf
    <3> QED
      BY <2>1, <2>3, <3>3, <3>4, CleanFrame
  <2>4. CASE UNCHANGED <<pc, slot, needScan>>
    BY <1>1, <2>1, <2>4
  <2> QED
    BY <1>16, <2>2, <2>3, <2>4 DEF EndPass
<1>17. ASSUME UNCHANGED vars PROVE CleanInv'
  BY <1>1, <1>17 DEF vars, shared, memory, scan
<1> QED
  BY <1>2, <1>3, <1>4, <1>5, <1>6, <1>7, <1>8, <1>9, <1>10, <1>11, <1>12, <1>13,
     <1>14, <1>15, <1>16, <1>17
     DEF Next, Use, Work, Done

(* A thread that drops its vector has handed every value that had a        *)
(* destructor to it, whatever the destructors stored meanwhile.            *)
THEOREM CleanExitHolds == Spec => []CleanExit
<1>1. Init => CleanInv
  BY DEF Init, CleanInv, CleanOf
<1>2. CleanInv => CleanExit
  BY DEF CleanInv, CleanOf, CleanExit
<1> QED
  BY <1>1, <1>2, TypesKept, SlotIdentityHolds, FreshSlotsAreNullHolds, CleanStep, PTL
     DEF Spec

-----------------------------------------------------------------------------
(* Moving a vector's contents, and dropping contents, keeps values unique. *)
LEMMA MoveUnique ==
  ASSUME NEW f, NEW g, Unique(f), NEW t \in Threads, NEW from \in Where, NEW to \in Where,
         Moves(f, g, t, from, to)
  PROVE  Unique(g) /\ \A v : v # NULL /\ NotIn(v, f) => NotIn(v, g)
<1>1. Unique(g)
  <2> SUFFICES ASSUME NEW u1 \in Threads, NEW u2 \in Threads, NEW w1 \in Where,
                      NEW w2 \in Where, NEW i1 \in Index, NEW i2 \in Index,
                      g[u1][w1][i1] = g[u2][w2][i2], g[u1][w1][i1] # NULL
               PROVE  u1 = u2 /\ w1 = w2 /\ i1 = i2
    BY DEF Unique
  <2>1. CASE (u1 = t /\ w1 = to) /\ (u2 = t /\ w2 = to)
    BY <2>1 DEF Unique, Moves
  <2>2. CASE (u1 = t /\ w1 = to) /\ ~(u2 = t /\ w2 = to)
    BY <2>2 DEF Unique, Moves
  <2>3. CASE ~(u1 = t /\ w1 = to) /\ (u2 = t /\ w2 = to)
    BY <2>3 DEF Unique, Moves
  <2>4. CASE ~(u1 = t /\ w1 = to) /\ ~(u2 = t /\ w2 = to)
    BY <2>4 DEF Unique, Moves
  <2> QED
    BY <2>1, <2>2, <2>3, <2>4
<1>2. ASSUME NEW v, v # NULL, NotIn(v, f), NEW u \in Threads, NEW w \in Where, NEW i \in Index
      PROVE  g[u][w][i] # v
  <2>1. CASE u = t /\ w = to
    BY <1>2, <2>1 DEF NotIn, Moves
  <2>2. CASE ~(u = t /\ w = to)
    BY <1>2, <2>2 DEF NotIn, Moves
  <2> QED
    BY <2>1, <2>2
<1> QED
  BY <1>1, <1>2 DEF NotIn

(* Storing a value that is nowhere else keeps values unique. *)
LEMMA StoreUnique ==
  ASSUME NEW f, NEW g, Unique(f), NEW t \in Threads, NEW where \in Where, NEW j \in Index,
         NEW v, v # NULL => NotIn(v, f), Stores(f, g, t, where, j, v)
  PROVE  Unique(g) /\ \A x : x \notin {NULL, v} /\ NotIn(x, f) => NotIn(x, g)
<1>1. g[t][where][j] = v
  BY DEF Stores
<1>2. \A u \in Threads, w \in Where, i \in Index :
        u # t \/ w # where \/ i # j => g[u][w][i] = f[u][w][i]
  BY DEF Stores
<1>3. Unique(g)
  <2> SUFFICES ASSUME NEW u1 \in Threads, NEW u2 \in Threads, NEW w1 \in Where,
                      NEW w2 \in Where, NEW i1 \in Index, NEW i2 \in Index,
                      g[u1][w1][i1] = g[u2][w2][i2], g[u1][w1][i1] # NULL
               PROVE  u1 = u2 /\ w1 = w2 /\ i1 = i2
    BY DEF Unique
  <2> DEFINE Here(u, w, i) == u = t /\ w = where /\ i = j
  <2>1. CASE Here(u1, w1, i1) /\ Here(u2, w2, i2)
    BY <2>1
  <2>2. CASE Here(u1, w1, i1) /\ ~Here(u2, w2, i2)
    BY <1>1, <1>2, <2>2 DEF NotIn
  <2>3. CASE ~Here(u1, w1, i1) /\ Here(u2, w2, i2)
    BY <1>1, <1>2, <2>3 DEF NotIn
  <2>4. CASE ~Here(u1, w1, i1) /\ ~Here(u2, w2, i2)
    BY <1>2, <2>4 DEF Unique
  <2> QED
    BY <2>1, <2>2, <2>3, <2>4
<1>4. \A x : x \notin {NULL, v} /\ NotIn(x, f) => NotIn(x, g)
  BY <1>1, <1>2 DEF NotIn
<1> QED
  BY <1>3, <1>4

(* A step that moves or drops stored values and leaves the rest alone. *)
LEMMA PlaceFrame ==
  ASSUME PlaceInv, UNCHANGED pending, Unique(vector'),
         \A t \in Threads : op'[t] = op[t] \/ op'[t] = NULL,
         \A v : v # NULL /\ NotIn(v, vector) => NotIn(v, vector')
  PROVE  PlaceInv'
  BY DEF PlaceInv, PendingApart, OpApart

LEMMA PlaceStep ==
  TypeInv /\ ObjectInv /\ VectorInv /\ PlaceInv /\ [Next]_vars => PlaceInv'
<1> SUFFICES ASSUME TypeInv, ObjectInv, VectorInv, PlaceInv PROVE [Next]_vars => PlaceInv'
  OBVIOUS
<1>0. vector \in [Threads -> [Where -> Contents]] /\ Unique(vector)
  BY DEF TypeInv, Typed, PlaceInv
<1>1. ASSUME UNCHANGED <<vector, op, pending>> PROVE PlaceInv'
  BY <1>1 DEF PlaceInv, PendingApart, OpApart, Unique, NotIn
<1>2. ASSUME NEW v \in Storable \ {NULL}
      PROVE  /\ NotIn(v, vector)
             /\ \A u \in Threads : pending[u] # v
             /\ \A u \in Threads : op[u] # NULL => op[u].value # v
  BY <1>2 DEF Storable, NotIn
<1>3. ASSUME NEW t \in Threads, NEW o \in Slots, NEW v \in Values \cup {NULL}, Set(t, o, v)
      PROVE  PlaceInv'
  <2>1. /\ UNCHANGED <<op, pending>> /\ initialized[o] /\ v \in Storable
        /\ CurrentVector(t) \in Where
        /\ vector' = [vector EXCEPT ![t][CurrentVector(t)][slotOf[o]] = v]
    BY <1>3, CurrentVectorType DEF Set, CanCall, locals, scan, TypeInv
  <2>2. slotOf[o] \in Index
    BY <2>1, InitializedNotFresh
  <2>3. v # NULL => NotIn(v, vector)
    BY <1>2, <2>1
  <2>4. Unique(vector') /\ \A x : x \notin {NULL, v} /\ NotIn(x, vector) => NotIn(x, vector')
    <3>1. Stores(vector, vector', t, CurrentVector(t), slotOf[o], v)
      BY <1>0, <2>1, <2>2 DEF Stores, Contents
    <3> QED
      BY <1>0, <2>1, <2>2, <2>3, <3>1, StoreUnique
  <2>5. PendingApart'
    BY <1>2, <2>1, <2>4 DEF PlaceInv, PendingApart
  <2>6. OpApart'
    BY <1>2, <2>1, <2>4 DEF PlaceInv, OpApart
  <2> QED
    BY <2>4, <2>5, <2>6 DEF PlaceInv
<1>4. ASSUME NEW t \in Threads, NEW fn \in {"Get", "Set", "Initialize"},
             NEW o \in Slots, NEW v \in Values \cup {NULL},
             CallWithoutVector(t, fn, o, v)
      PROVE  PlaceInv'
  <2>1. v \in Storable \cup {NULL} /\ UNCHANGED <<vector, pending>>
    BY <1>4 DEF CallWithoutVector, memory, scan
  <2>2. op'[t].value = v /\ \A u \in Threads \ {t} : op'[u] = op[u]
    BY <1>4 DEF CallWithoutVector, TypeInv, Typed
  <2>3. OpApart'
    <3> SUFFICES ASSUME NEW u \in Threads, op'[u] # NULL, op'[u].value # NULL
                 PROVE  /\ NotIn(op'[u].value, vector)
                        /\ \A w \in Threads : pending[w] # op'[u].value
                        /\ \A w \in Threads : op'[w] # NULL /\ op'[w].value = op'[u].value
                             => w = u
      BY <2>1 DEF OpApart, NotIn
    <3>1. CASE u = t
      BY <1>2, <2>1, <2>2, <3>1
    <3>2. CASE u # t
      BY <1>2, <2>1, <2>2, <3>2 DEF PlaceInv, OpApart
    <3> QED
      BY <3>1, <3>2
  <2>4. Unique(vector') /\ PendingApart'
    BY <2>1 DEF PlaceInv, Unique, PendingApart, NotIn
  <2> QED
    BY <2>3, <2>4 DEF PlaceInv
<1>5. ASSUME NEW t \in Threads, InstallStackVector(t) PROVE PlaceInv'
  <2>1. UNCHANGED <<op, pending>>
    BY <1>5 DEF InstallStackVector, locals, scan
  <2>2. \A u \in Threads, w \in Where, i \in Index :
          vector'[u][w][i] \in {NULL, vector[u][w][i]}
    <3>1. CASE vector' = vector
      BY <3>1
    <3>2. CASE vector' = [vector EXCEPT ![t]["ctorStack"] = Blank]
      BY <1>0, <3>2 DEF Contents, Blank
    <3> QED
      BY <1>5, <3>1, <3>2 DEF InstallStackVector
  <2>3. Moves(vector, vector', t, "ctorStack", "ctorStack")
    BY <2>2, WhereTypes DEF Moves
  <2>4. Unique(vector') /\ \A v : v # NULL /\ NotIn(v, vector) => NotIn(v, vector')
    BY <1>0, <2>3, WhereTypes, MoveUnique
  <2> QED
    BY <2>1, <2>4, PlaceFrame
<1>6. ASSUME NEW t \in Threads, InstallHeapVector(t) PROVE PlaceInv'
  <2>1. /\ op[t] \in Call /\ UNCHANGED pending
        /\ op' = [op EXCEPT ![t] = NULL]
    BY <1>6 DEF InstallHeapVector, At, TypeInv, LocalsOK, Constructing, scan
  <2>2. PICK installed : installed = [vector EXCEPT ![t]["heap"] = vector[t]["ctorStack"],
                                                    ![t]["ctorStack"] = Blank]
    OBVIOUS
  <2>3. /\ Unique(installed)
        /\ \A v : v # NULL /\ NotIn(v, vector) => NotIn(v, installed)
    <3>1. \A u \in Threads, w \in Where, i \in Index :
            u # t \/ w # "heap" => installed[u][w][i] \in {NULL, vector[u][w][i]}
      BY <1>0, <2>2 DEF Contents, Blank
    <3>2. \A i \in Index : /\ installed[t]["heap"][i] = vector[t]["ctorStack"][i]
                          /\ installed[t]["ctorStack"][i] = NULL
      BY <1>0, <2>2, WhereTypes DEF Contents, Blank
    <3>3. Moves(vector, installed, t, "ctorStack", "heap")
      BY <3>1, <3>2 DEF Moves
    <3> QED
      BY <1>0, <3>3, WhereTypes, MoveUnique
  <2>4. \A u \in Threads : op'[u] = op[u] \/ op'[u] = NULL
    BY <2>1 DEF TypeInv, Typed
  <2>5. CASE op[t].fn = "Set"
    <3> DEFINE v == op[t].value
    <3>1. vector' = [installed EXCEPT ![t]["heap"][slotOf[op[t].slot]] = v]
      BY <1>6, <2>2, <2>5 DEF InstallHeapVector, NewHeap
    <3>2. op[t] # NULL /\ op[t].slot \in Slots /\ v \in Values \cup {NULL}
      BY <2>1, NoCallAssumption DEF Call
    <3>3. slotOf[op[t].slot] \in Index
      BY <2>5, <3>2, InitializedNotFresh DEF ObjectInv, OpInv
    <3>4. v # NULL => NotIn(v, installed)
      BY <2>3, <3>2 DEF PlaceInv, OpApart
    <3>5. installed \in [Threads -> [Where -> Contents]]
      BY <1>0, <2>2, BlankType, WhereTypes
    <3>6. /\ Unique(vector')
          /\ \A x : x \notin {NULL, v} /\ NotIn(x, installed) => NotIn(x, vector')
      <4> HIDE DEF v
      <4>1. Stores(installed, vector', t, "heap", slotOf[op[t].slot], v)
        BY <3>1, <3>3, <3>5, WhereTypes DEF Stores, Contents
      <4> QED
        BY <2>3, <3>3, <3>4, <4>1, WhereTypes, StoreUnique
    <3>7. PendingApart'
      <4> SUFFICES ASSUME NEW u \in Threads, pending[u] # NULL
                   PROVE  NotIn(pending[u], vector')
        BY <2>1 DEF PendingApart, NotIn
      <4>1. NotIn(pending[u], vector) /\ pending[u] # v
        BY <3>2 DEF PlaceInv, PendingApart, OpApart
      <4> QED
        BY <2>3, <3>6, <4>1
    <3>8. OpApart'
      <4> SUFFICES ASSUME NEW u \in Threads, op'[u] # NULL, op'[u].value # NULL
                   PROVE  /\ NotIn(op'[u].value, vector')
                          /\ \A w \in Threads : pending[w] # op'[u].value
                          /\ \A w \in Threads : op'[w] # NULL /\ op'[w].value = op'[u].value
                               => w = u
        BY <2>1 DEF OpApart, NotIn
      <4>1. u # t /\ op'[u] = op[u]
        BY <2>1 DEF TypeInv, Typed
      <4>2. NotIn(op[u].value, vector) /\ op[u].value # v
        BY <3>2, <4>1 DEF PlaceInv, OpApart
      <4>3. \A w \in Threads : op'[w] # NULL => op'[w] = op[w]
        BY <2>4
      <4> QED
        BY <2>3, <3>6, <4>1, <4>2, <4>3 DEF PlaceInv, OpApart
    <3> QED
      BY <3>6, <3>7, <3>8 DEF PlaceInv
  <2>6. CASE op[t].fn # "Set"
    <3>1. vector' = installed
      BY <1>6, <2>2, <2>6 DEF InstallHeapVector, NewHeap
    <3> QED
      BY <2>1, <2>3, <2>4, <3>1, PlaceFrame
  <2> QED
    BY <2>5, <2>6
<1>7. ASSUME NEW t \in Threads, OnThreadExit(t) PROVE PlaceInv'
  <2>1. UNCHANGED <<op, pending>> /\ CurrentVector(t) = "heap"
    BY <1>7, WhereNotNull
       DEF OnThreadExit, At, ExitCallbackDue, VectorInv, VectorWhere, scan
  <2>2. vector' = [vector EXCEPT ![t]["exitStack"] = vector[t]["heap"],
                                 ![t]["heap"] = Blank]
    BY <1>7, <2>1 DEF OnThreadExit, NewExitVector
  <2>3. \A u \in Threads, w \in Where, i \in Index :
          u # t \/ w # "exitStack" => vector'[u][w][i] \in {NULL, vector[u][w][i]}
    BY <1>0, <2>2 DEF Contents, Blank
  <2>4. \A i \in Index : /\ vector'[t]["exitStack"][i] = vector[t]["heap"][i]
                        /\ vector'[t]["heap"][i] = NULL
    BY <1>0, <2>2, WhereTypes DEF Contents, Blank
  <2>5. Unique(vector') /\ \A v : v # NULL /\ NotIn(v, vector) => NotIn(v, vector')
    <3>1. Moves(vector, vector', t, "heap", "exitStack")
      BY <2>3, <2>4 DEF Moves
    <3> QED
      BY <1>0, <3>1, WhereTypes, MoveUnique
  <2> QED
    BY <2>1, <2>5, PlaceFrame
<1>8. ASSUME NEW t \in Threads, TakeValue(t) PROVE PlaceInv'
  <2> DEFINE v == vector[t]["exitStack"][slot[t]]
  <2>1. /\ UNCHANGED op /\ slot[t] \in Index /\ v # NULL
        /\ pending' = [pending EXCEPT ![t] = v]
        /\ vector' = [vector EXCEPT ![t]["exitStack"][slot[t]] = NULL]
    BY <1>8 DEF TakeValue, PreClear, HasWork, locals
  <2>2. vector'[t]["exitStack"][slot[t]] = NULL
    BY <1>0, <2>1, WhereTypes DEF Contents
  <2>3. \A u \in Threads, w \in Where, i \in Index :
          u # t \/ w # "exitStack" \/ i # slot[t] => vector'[u][w][i] = vector[u][w][i]
    BY <1>0, <2>1 DEF Contents
  <2>4. Unique(vector') /\ \A x : x # NULL /\ NotIn(x, vector) => NotIn(x, vector')
    <3>1. \A u \in Threads, w \in Where, i \in Index :
            vector'[u][w][i] \in {NULL, vector[u][w][i]}
      BY <2>2, <2>3
    <3>2. Moves(vector, vector', t, "exitStack", "exitStack")
      BY <3>1, WhereTypes DEF Moves
    <3> QED
      BY <1>0, <3>2, WhereTypes, MoveUnique
  <2>5. NotIn(v, vector')
    BY <1>0, <2>1, <2>2, <2>3, WhereTypes DEF NotIn, Unique
  <2>6. \A u \in Threads : pending'[u] = v \/ pending'[u] = pending[u]
    BY <2>1 DEF TypeInv, Typed
  <2>7. PendingApart'
    <3> HIDE DEF v
    <3> QED
      BY <2>4, <2>5, <2>6 DEF PlaceInv, PendingApart
  <2>8. OpApart'
    <3>1. \A u \in Threads : op[u] # NULL /\ op[u].value # NULL => op[u].value # v
      BY <2>1, WhereTypes DEF PlaceInv, OpApart, NotIn
    <3>2. UNCHANGED op
      BY <2>1
    <3> HIDE DEF v
    <3> QED
      BY <2>4, <2>6, <3>1, <3>2 DEF PlaceInv, OpApart
  <2> QED
    BY <2>4, <2>7, <2>8 DEF PlaceInv
<1>9. ASSUME NEW t \in Threads, CallDestructor(t) PROVE PlaceInv'
  <2>1. UNCHANGED <<op, vector>> /\ pending' = [pending EXCEPT ![t] = NULL]
    BY <1>9 DEF CallDestructor, memory, locals
  <2>2. \A u \in Threads : pending'[u] = NULL \/ pending'[u] = pending[u]
    BY <2>1 DEF TypeInv, Typed
  <2> QED
    BY <2>1, <2>2 DEF PlaceInv, PendingApart, OpApart, Unique, NotIn
<1>10. ASSUME NEW t \in Threads, RemoveStackVector(t) PROVE PlaceInv'
  <2>1. UNCHANGED <<op, pending>> /\ vector' = [vector EXCEPT ![t]["exitStack"] = Blank]
    BY <1>10 DEF RemoveStackVector, locals, scan
  <2>2. \A u \in Threads, w \in Where, i \in Index :
          vector'[u][w][i] \in {NULL, vector[u][w][i]}
    BY <1>0, <2>1 DEF Contents, Blank
  <2>3. Moves(vector, vector', t, "exitStack", "exitStack")
    BY <2>2, WhereTypes DEF Moves
  <2>4. Unique(vector') /\ \A v : v # NULL /\ NotIn(v, vector) => NotIn(v, vector')
    BY <1>0, <2>3, WhereTypes, MoveUnique
  <2> QED
    BY <2>1, <2>4, PlaceFrame
<1>11. ASSUME NEW t \in Threads, NEW o \in Slots, Initialize(t, o) \/ Free(t, o)
       PROVE  PlaceInv'
  BY <1>1, <1>11 DEF Initialize, Free, memory, locals, scan
<1>12. ASSUME NEW t \in Threads,
              \/ RegisterDestructor(t)
              \/ AllocKey(t) \/ ReallocKey(t) \/ CompareAndSwapKey(t)
       PROVE  PlaceInv'
  BY <1>1, <1>12 DEF RegisterDestructor, AllocKey, ReallocKey, CompareAndSwapKey,
     memory, scan
<1>13. ASSUME NEW t \in Threads,
              \/ BeginExit(t) \/ OtherKeysRound(t) \/ ThreadGone(t) \/ DeleteReturns(t)
              \/ SkipSlot(t) \/ ScanPastEnd(t) \/ DestructorReturns(t) \/ EndPass(t)
       PROVE  PlaceInv'
  BY <1>1, <1>13 DEF BeginExit, OtherKeysRound, ThreadGone, DeleteReturns, SkipSlot,
     ScanPastEnd, DestructorReturns, EndPass, memory, locals, scan
<1>14. ASSUME UNCHANGED vars PROVE PlaceInv'
  BY <1>1, <1>14 DEF vars, memory, locals, scan
<1> QED
  BY <1>3, <1>4, <1>5, <1>6, <1>7, <1>8, <1>9, <1>10, <1>11, <1>12, <1>13, <1>14
     DEF Next, Use, Work, Done

(* No destructor can find, through any slot of any thread, the value it is *)
(* about to dispose of.                                                    *)
THEOREM NotStoredWhenDestroyedHolds == Spec => []NotStoredWhenDestroyed
<1>1. Init => PlaceInv
  BY DEF Init, PlaceInv, PendingApart, OpApart, Unique, Blank
<1>2. PlaceInv => NotStoredWhenDestroyed
  BY DEF PlaceInv, PendingApart, NotIn, NotStoredWhenDestroyed
<1> QED
  BY <1>1, <1>2, TypesKept, SlotIdentityHolds, VectorLiveHolds, PlaceStep, PTL DEF Spec
-----------------------------------------------------------------------------
(* ThreadLocalStorage implements ThreadValues: what a step does to the     *)
(* values and destructors that callers can see is one of the abstract      *)
(* steps, or nothing.                                                      *)

(* The abstract variables, as ThreadValuesInstance defines them. *)
value == [t \in Threads |-> Content(t)]
cleanup == {i \in Index : destructors[i] # NULL}

(* What the steps need of the invariants. *)
Safe == TypeInv /\ ObjectInv /\ KeyInv /\ VectorInv /\ FreshSlotsAreNull /\ CleanInv

AbstractStep == [ThreadValuesInstance!Next]_<<value, cleanup>>

-----------------------------------------------------------------------------
(* A step callers cannot see. *)
LEMMA Invisible ==
  ASSUME UNCHANGED destructors, \A u \in Threads : Content(u)' = Content(u)
  PROVE  AbstractStep
<1>1. UNCHANGED <<value, cleanup>>
  BY DEF value, cleanup
<1> QED
  BY <1>1 DEF AbstractStep

LEMMA InvisibleFrame ==
  ASSUME UNCHANGED <<destructors, nativeKey, tls, vector>>
  PROVE  AbstractStep
<1>1. \A u \in Threads : Content(u)' = Content(u)
  BY DEF Content, CurrentVector, Blank
<1> QED
  BY <1>1, Invisible

(* One value of one thread changes. *)
LEMMA VisibleStore ==
  ASSUME TypeInv, NEW t \in Threads, NEW i \in Index, NEW v \in Values \cup {NULL},
         UNCHANGED destructors,
         Content(t)' = [Content(t) EXCEPT ![i] = v],
         \A u \in Threads \ {t} : Content(u)' = Content(u)
  PROVE  AbstractStep
<1>1. value' = [value EXCEPT ![t][i] = v]
  BY DEF value
<1>2. UNCHANGED cleanup
  BY DEF cleanup
<1>3. ThreadValuesInstance!Set(t, i, v)
  BY <1>1, <1>2 DEF ThreadValuesInstance!Set, value, cleanup
<1> QED
  BY <1>3 DEF AbstractStep, ThreadValuesInstance!Next

-----------------------------------------------------------------------------
LEMMA RefinementStep == Safe /\ [Next]_vars => AbstractStep
<1> SUFFICES ASSUME Safe PROVE [Next]_vars => AbstractStep
  OBVIOUS
<1>0. TypeInv /\ ObjectInv /\ KeyInv /\ VectorInv /\ FreshSlotsAreNull /\ CleanInv
  BY DEF Safe
<1>1. vector \in [Threads -> [Where -> Contents]]
  BY <1>0 DEF TypeInv, Typed
<1>2. ASSUME NEW t \in Threads, NEW o \in Slots, NEW v \in Values \cup {NULL}, Set(t, o, v)
      PROVE  AbstractStep
  <2>1. /\ UNCHANGED <<nativeKey, destructors, tls>> /\ initialized[o]
        /\ CurrentVector(t) \in Where /\ CurrentVector(t) # NULL
        /\ vector' = [vector EXCEPT ![t][CurrentVector(t)][slotOf[o]] = v]
    BY <1>0, <1>2, CurrentVectorType DEF Set, CanCall, shared, TypeInv
  <2>2. slotOf[o] \in Index
    BY <1>0, <2>1, InitializedNotFresh
  <2>3. \A u \in Threads : CurrentVector(u)' = CurrentVector(u)
    BY <2>1 DEF CurrentVector
  <2>4. vector'[t][CurrentVector(t)] = [vector[t][CurrentVector(t)] EXCEPT ![slotOf[o]] = v]
    BY <1>1, <2>1
  <2>5. \A u \in Threads \ {t} : vector'[u] = vector[u]
    BY <1>1, <2>1
  <2>6. Content(t)' = [Content(t) EXCEPT ![slotOf[o]] = v]
    BY <2>1, <2>3, <2>4 DEF Content
  <2>7. \A u \in Threads \ {t} : Content(u)' = Content(u)
    BY <2>3, <2>5 DEF Content, Blank
  <2> QED
    BY <1>0, <2>1, <2>2, <2>6, <2>7, VisibleStore
<1>3. ASSUME NEW t \in Threads, RegisterDestructor(t) PROVE AbstractStep
  <2> DEFINE o == claiming[t]
             i == slotOf[o]
  <2>1. UNCHANGED <<nativeKey, tls, vector>> /\ o \in Slots
    BY <1>0, <1>3 DEF RegisterDestructor, memory, TypeInv, Typed
  <2>2. CASE UNCHANGED destructors
    BY <2>1, <2>2, InvisibleFrame
  <2>3. CASE InTable(i)
             /\ \E d \in {NULL, o} : destructors' = [destructors EXCEPT ![i] = d]
    <3>1. i \in Index /\ ~initialized[o]
      BY <1>0, <1>3, <2>3, ConstantsAssumption
         DEF RegisterDestructor, TypeInv, Typed, Index, InTable, ObjectInv, ClaimInv
    <3>2. destructors[i] = NULL
      BY <1>0, <2>1, <3>1 DEF ObjectInv, SlotIdentity, IndexInv, TypeInv, Typed, ClaimInv
    <3>3. destructors \in [Index -> Slots \cup {NULL}]
      BY <1>0 DEF TypeInv, Typed
    <3>4. CASE destructors' = [destructors EXCEPT ![i] = NULL]
      <4>1. UNCHANGED destructors
        BY <3>2, <3>3, <3>4
      <4> QED
        BY <4>1, <2>2
    <3>5. CASE destructors' = [destructors EXCEPT ![i] = o]
      <4>1. o # NULL
        BY <1>3 DEF RegisterDestructor
      <4> PICK n \in Index : n = i
        BY <3>1
      <4>2. cleanup' = cleanup \cup {n}
        BY <3>1, <3>3, <3>5, <4>1 DEF cleanup
      <4>3. n \notin cleanup
        BY <3>2 DEF cleanup
      <4>4. \A u \in Threads : Content(u)' = Content(u)
        BY <2>1 DEF Content, CurrentVector, Blank
      <4>5. \A u \in Threads : Content(u)[n] = NULL
        <5>1. FreshIndex(n)
          BY <4>1 DEF FreshIndex
        <5>2. \A u \in Threads, w \in Where : vector[u][w][n] = NULL
          BY <1>0, <5>1 DEF FreshSlotsAreNull, FreshIndex
        <5>3. \A u \in Threads : CurrentVector(u) \in Where \cup {NULL}
          BY <1>0, CurrentVectorType DEF TypeInv
        <5> QED
          BY <5>2, <5>3 DEF Content, Blank
      <4>6. UNCHANGED value
        BY <4>4 DEF value
      <4>7. \A u \in Threads : value[u][n] = NULL
        BY <4>5 DEF value
      <4>8. ThreadValuesInstance!Register(n)
        BY <4>2, <4>3, <4>6, <4>7 DEF ThreadValuesInstance!Register, value, cleanup
      <4> QED
        BY <4>8 DEF AbstractStep, ThreadValuesInstance!Next
    <3> QED
      BY <2>3, <3>4, <3>5
  <2> QED
    BY <1>3, <2>2, <2>3 DEF RegisterDestructor
<1>4. ASSUME NEW t \in Threads, NEW o \in Slots, Free(t, o) PROVE AbstractStep
  <2> DEFINE i == slotOf[o]
  <2>1. /\ UNCHANGED <<nativeKey, tls, vector>> /\ initialized[o]
        /\ destructors' = [destructors EXCEPT ![i] = NULL]
    BY <1>4 DEF Free, WipeDestructor, memory
  <2>2. i \in Index /\ destructors \in [Index -> Slots \cup {NULL}]
    BY <1>0, <2>1, InitializedNotFresh DEF TypeInv, Typed
  <2>3. CASE destructors[i] = NULL
    <3>1. UNCHANGED destructors
      BY <2>1, <2>2, <2>3
    <3> QED
      BY <2>1, <3>1, InvisibleFrame
  <2>4. CASE destructors[i] # NULL
    <3> PICK n \in Index : n = i
      BY <2>2
    <3>1. n \in cleanup /\ cleanup' = cleanup \ {n}
      BY <2>1, <2>2, <2>4 DEF cleanup
    <3>2. UNCHANGED value
      BY <2>1 DEF value, Content, CurrentVector, Blank
    <3>3. ThreadValuesInstance!Unregister(n)
      BY <3>1, <3>2 DEF ThreadValuesInstance!Unregister, value, cleanup
    <3> QED
      BY <3>3 DEF AbstractStep, ThreadValuesInstance!Next
  <2> QED
    BY <2>3, <2>4
<1>5. ASSUME NEW t \in Threads, CompareAndSwapKey(t) PROVE AbstractStep
  <2>1. UNCHANGED <<tls, vector, destructors>> /\ nativeKey' \in KeyPool
    BY <1>0, <1>5 DEF CompareAndSwapKey, memory, TypeInv, Typed
  <2>2. nativeKey # ReservedKey => nativeKey' = nativeKey
    BY <1>5 DEF CompareAndSwapKey, SwapSucceeds
  <2>3. nativeKey = ReservedKey => \A u \in Threads, k \in KeyPool : tls[u][k] = NULL
    BY <1>0 DEF KeyInv, KeyAccounting
  <2>4. \A u \in Threads : CurrentVector(u)' = CurrentVector(u)
    BY <1>0, <2>1, <2>2, <2>3 DEF CurrentVector, TypeInv, Typed
  <2>5. \A u \in Threads : Content(u)' = Content(u)
    BY <2>1, <2>4 DEF Content, Blank
  <2> QED
    BY <2>1, <2>5, Invisible
<1>6. ASSUME NEW t \in Threads, InstallStackVector(t) PROVE AbstractStep
  <2>1. /\ pc[t] = "install" /\ key[t] = nativeKey
        /\ UNCHANGED <<nativeKey, destructors>>
    BY <1>0, <1>6 DEF InstallStackVector, At, KeyInv, shared
  <2>2. CurrentVector(t) = NULL /\ tls[t][key[t]] = NULL
    BY <1>0, <2>1 DEF VectorInv, VectorWhere, CurrentVector
  <2>3. /\ tls' = [tls EXCEPT ![t][key[t]] = "ctorStack"]
        /\ vector' = [vector EXCEPT ![t]["ctorStack"] = Blank]
    BY <1>6, <2>2 DEF InstallStackVector, SetTLSValue
  <2>4. CurrentVector(t)' = "ctorStack"
    BY <1>0, <2>1, <2>3 DEF CurrentVector, TypeInv, Typed
  <2>5. vector'[t]["ctorStack"] = Blank
    BY <1>1, <2>3, WhereTypes
  <2>6. Content(t)' = Content(t)
    BY <2>2, <2>4, <2>5, WhereNotNull DEF Content, Blank
  <2>7. \A u \in Threads \ {t} : tls'[u] = tls[u] /\ vector'[u] = vector[u]
    BY <1>0, <1>1, <2>3 DEF TypeInv, Typed
  <2>8. \A u \in Threads \ {t} : Content(u)' = Content(u)
    BY <2>1, <2>7 DEF Content, CurrentVector, Blank
  <2> QED
    BY <2>1, <2>6, <2>8, Invisible
<1>7. ASSUME NEW t \in Threads, InstallHeapVector(t) PROVE AbstractStep
  <2>1. /\ pc[t] = "new" /\ key[t] = nativeKey /\ op[t] \in Call
        /\ UNCHANGED <<nativeKey, destructors>>
        /\ tls' = [tls EXCEPT ![t][key[t]] = "heap"]
    BY <1>0, <1>7 DEF InstallHeapVector, At, KeyInv, TypeInv, LocalsOK, Constructing,
       SetTLSValue
  <2>2. CurrentVector(t) = "ctorStack"
    BY <1>0, <2>1 DEF VectorInv, VectorWhere
  <2>3. CurrentVector(t)' = "heap"
    BY <1>0, <2>1 DEF CurrentVector, TypeInv, Typed
  <2>4. PICK installed : installed = [vector EXCEPT ![t]["heap"] = vector[t]["ctorStack"],
                                                    ![t]["ctorStack"] = Blank]
    OBVIOUS
  <2>5. installed[t]["heap"] = Content(t) /\ Content(t)' = vector'[t]["heap"]
    BY <1>1, <2>2, <2>3, <2>4, WhereTypes, WhereNotNull DEF Content
  <2>6. \A u \in Threads \ {t} : tls'[u] = tls[u] /\ vector'[u] = vector[u]
    BY <1>0, <1>1, <1>7, <2>1 DEF InstallHeapVector, TypeInv, Typed
  <2>7. \A u \in Threads \ {t} : Content(u)' = Content(u)
    BY <2>1, <2>6 DEF Content, CurrentVector, Blank
  <2>8. CASE op[t].fn = "Set"
    <3>1. vector' = [installed EXCEPT ![t]["heap"][slotOf[op[t].slot]] = op[t].value]
      BY <1>7, <2>4, <2>8 DEF InstallHeapVector, NewHeap
    <3>2. op[t].slot \in Slots /\ op[t].value \in Values \cup {NULL} /\ op[t] # NULL
      BY <2>1, NoCallAssumption DEF Call
    <3>3. slotOf[op[t].slot] \in Index
      BY <1>0, <2>8, <3>2, InitializedNotFresh DEF ObjectInv, OpInv
    <3>4. installed \in [Threads -> [Where -> Contents]]
      BY <1>1, <2>4, BlankType, WhereTypes
    <3>5. vector'[t]["heap"] = [installed[t]["heap"] EXCEPT ![slotOf[op[t].slot]] = op[t].value]
      BY <3>1, <3>4, WhereTypes
    <3> QED
      BY <1>0, <2>1, <2>5, <2>7, <3>2, <3>3, <3>5, VisibleStore
  <2>9. CASE op[t].fn # "Set"
    <3>1. vector' = installed
      BY <1>7, <2>4, <2>9 DEF InstallHeapVector, NewHeap
    <3> QED
      BY <2>1, <2>5, <2>7, <3>1, Invisible
  <2> QED
    BY <2>8, <2>9
<1>8. ASSUME NEW t \in Threads, OnThreadExit(t) PROVE AbstractStep
  <2>1. /\ CurrentVector(t) \in Where /\ CurrentVector(t) # NULL
        /\ UNCHANGED <<nativeKey, destructors>>
        /\ tls' = [tls EXCEPT ![t][nativeKey] = "exitStack"]
    BY <1>0, <1>8, CurrentVectorType
       DEF OnThreadExit, ExitCallbackDue, SetTLSValue, shared, TypeInv
  <2>2. vector' = [vector EXCEPT ![t]["exitStack"] = vector[t][CurrentVector(t)],
                                 ![t]["heap"] = Blank]
    BY <1>8 DEF OnThreadExit, NewExitVector
  <2>3. CurrentVector(t)' = "exitStack"
    BY <1>0, <2>1 DEF CurrentVector, TypeInv, Typed
  <2>4. vector'[t]["exitStack"] = vector[t][CurrentVector(t)]
    BY <1>1, <2>2, WhereTypes
  <2>5. Content(t)' = Content(t)
    BY <2>1, <2>3, <2>4, WhereNotNull DEF Content
  <2>6. \A u \in Threads \ {t} : tls'[u] = tls[u] /\ vector'[u] = vector[u]
    BY <1>0, <1>1, <2>1, <2>2 DEF TypeInv, Typed
  <2>7. \A u \in Threads \ {t} : Content(u)' = Content(u)
    BY <2>1, <2>6 DEF Content, CurrentVector, Blank
  <2> QED
    BY <2>1, <2>5, <2>7, Invisible
<1>9. ASSUME NEW t \in Threads, TakeValue(t) PROVE AbstractStep
  <2>1. /\ UNCHANGED <<nativeKey, destructors, tls>>
        /\ slot[t] \in Index /\ destructors[slot[t]] # NULL
        /\ vector' = [vector EXCEPT ![t]["exitStack"][slot[t]] = NULL]
    BY <1>9 DEF TakeValue, HasWork, PreClear, shared
  <2>2. CurrentVector(t) = "exitStack" /\ CurrentVector(t)' = "exitStack"
    BY <1>0, <1>9, <2>1 DEF TakeValue, At, VectorInv, VectorWhere, Exiting, CurrentVector
  <2>3. vector'[t]["exitStack"] = [vector[t]["exitStack"] EXCEPT ![slot[t]] = NULL]
    BY <1>1, <2>1, WhereTypes
  <2>4. Content(t)' = [Content(t) EXCEPT ![slot[t]] = NULL]
    BY <2>2, <2>3, WhereNotNull DEF Content
  <2>5. \A u \in Threads \ {t} : Content(u)' = Content(u)
    <3>1. \A u \in Threads \ {t} : vector'[u] = vector[u]
      BY <1>1, <2>1
    <3> QED
      BY <2>1, <3>1 DEF Content, CurrentVector, Blank
  <2> QED
    BY <1>0, <2>1, <2>4, <2>5, VisibleStore
<1>10. ASSUME NEW t \in Threads, RemoveStackVector(t) PROVE AbstractStep
  <2>1. /\ pc[t] = "remove" /\ key[t] = nativeKey
        /\ UNCHANGED <<nativeKey, destructors>>
        /\ tls' = [tls EXCEPT ![t][key[t]] = NULL]
        /\ vector' = [vector EXCEPT ![t]["exitStack"] = Blank]
    BY <1>0, <1>10 DEF RemoveStackVector, At, KeyInv, Exiting, SetTLSValue, shared
  <2>2. CurrentVector(t) = "exitStack" /\ CurrentVector(t)' = NULL
    BY <1>0, <2>1 DEF VectorInv, VectorWhere, Exiting, CurrentVector, TypeInv, Typed
  <2>3. Content(t)' = Blank /\ Content(t) = vector[t]["exitStack"]
    BY <2>2, WhereNotNull DEF Content, Blank
  <2>4. \A u \in Threads \ {t} : tls'[u] = tls[u] /\ vector'[u] = vector[u]
    BY <1>0, <1>1, <2>1 DEF TypeInv, Typed
  <2>5. \A u \in Threads \ {t} : Content(u)' = Content(u)
    BY <2>1, <2>4 DEF Content, CurrentVector, Blank
  <2>6. value' = [value EXCEPT ![t] = [i \in Index |-> NULL]]
    BY <2>3, <2>5 DEF value, Blank
  <2>7. \A i \in cleanup : value[t][i] = NULL
    BY <1>0, <2>1, <2>3 DEF CleanInv, CleanOf, cleanup, value
  <2>8. UNCHANGED cleanup
    BY <2>1 DEF cleanup
  <2>9. ThreadValuesInstance!Discard(t)
    BY <2>6, <2>7, <2>8 DEF ThreadValuesInstance!Discard, value, cleanup
  <2> QED
    BY <2>9 DEF AbstractStep, ThreadValuesInstance!Next
<1>11. ASSUME NEW t \in Threads, NEW o \in Slots, NEW fn \in {"Get", "Set", "Initialize"},
              NEW v \in Values \cup {NULL},
              CallWithoutVector(t, fn, o, v) \/ Initialize(t, o)
       PROVE  AbstractStep
  BY <1>11, InvisibleFrame DEF CallWithoutVector, Initialize, shared, memory
<1>12. ASSUME NEW t \in Threads,
              \/ AllocKey(t) \/ ReallocKey(t) \/ BeginExit(t) \/ OtherKeysRound(t)
              \/ ThreadGone(t)
       PROVE  AbstractStep
  BY <1>12, InvisibleFrame
     DEF AllocKey, ReallocKey, BeginExit, OtherKeysRound, ThreadGone, shared, memory
<1>13. ASSUME NEW t \in Threads,
              \/ DeleteReturns(t) \/ SkipSlot(t) \/ ScanPastEnd(t) \/ CallDestructor(t)
              \/ DestructorReturns(t) \/ EndPass(t)
       PROVE  AbstractStep
  BY <1>13, InvisibleFrame
     DEF DeleteReturns, SkipSlot, ScanPastEnd, CallDestructor, DestructorReturns, EndPass,
     shared, memory
<1>14. ASSUME UNCHANGED vars PROVE AbstractStep
  BY <1>14, InvisibleFrame DEF vars, shared, memory
<1> QED
  BY <1>2, <1>3, <1>4, <1>5, <1>6, <1>7, <1>8, <1>9, <1>10, <1>11, <1>12, <1>13, <1>14
     DEF Next, Use, Work, Done

LEMMA RefinementInit == Init => ThreadValuesInstance!Init
<1> SUFFICES ASSUME Init PROVE ThreadValuesInstance!Init
  OBVIOUS
<1>1. \A t \in Threads : Content(t) = Blank
  BY DEF Init, Content, CurrentVector, KeyPool
<1>2. value = [t \in Threads |-> [i \in Index |-> NULL]]
  BY <1>1 DEF value, Blank
<1>3. cleanup = {}
  BY DEF Init, cleanup
<1> QED
  BY <1>2, <1>3 DEF ThreadValuesInstance!Init, value, cleanup

(* Whatever vectors come and go underneath, a thread finds in its slots    *)
(* what it stored there, and loses a value that has a destructor only to   *)
(* that destructor.                                                        *)
THEOREM Refinement == Spec => ImplementsThreadValues
<1>1. Safe /\ [Next]_vars =>
        [ThreadValuesInstance!Next]_<<[t \in Threads |-> Content(t)],
                                      {i \in Index : destructors[i] # NULL}>>
  BY RefinementStep DEF AbstractStep, value, cleanup
<1>2. Init => CleanInv
  BY DEF Init, CleanInv, CleanOf
<1>3. Spec => []Safe
  BY <1>2, TypesKept, SlotIdentityHolds, KeyAccountingHolds, VectorLiveHolds,
     FreshSlotsAreNullHolds, CleanStep, PTL DEF Spec, Safe
<1> QED
  BY <1>1, <1>3, RefinementInit, PTL
     DEF Spec, ImplementsThreadValues, ThreadValuesInstance!Spec
=============================================================================
