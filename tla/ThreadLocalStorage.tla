------------------------- MODULE ThreadLocalStorage -------------------------
(***************************************************************************)
(* base::ThreadLocalStorage: many slots multiplexed over one OS-level TLS  *)
(* key (base/threading/thread_local_storage.cc, _posix.cc and _win.cc).    *)
(*                                                                         *)
(* A label of pc names the place where a thread is; a step is as large as  *)
(* the code between two points at which another thread, the allocator or a *)
(* destructor can interfere.  At four labels code from outside runs on the *)
(* thread and may call the slots: "new" and "delete" (the allocator),      *)
(* "destructor" (a slot's) and "os_exit" (other libraries' exit code).     *)
(***************************************************************************)
EXTENDS Integers

CONSTANTS
  Threads,                  \* the threads of the process
  Slots,                    \* the StaticSlot objects
  Values,                   \* non-null values stored in slots
  Keys,                     \* OS TLS keys other than the reserved one
  ReservedKey,              \* TLS_KEY_OUT_OF_INDEXES
  NULL,
  kThreadLocalStorageSize,
  kMaxDestructorIterations,
  ExitRounds                \* PTHREAD_DESTRUCTOR_ITERATIONS; 1 on Windows

(* Where a vector of slots can live.  Each thread has its own of each. *)
Where == {"ctorStack", "heap", "exitStack"}

ASSUME ConstantsAssumption ==
  /\ ReservedKey \notin Keys
  /\ NULL \notin Values \cup Slots \cup Where
  /\ kThreadLocalStorageSize \in Nat \ {0}
  /\ kMaxDestructorIterations \in Nat \ {0}
  /\ ExitRounds \in Nat

KeyPool == Keys \cup {ReservedKey}
Index == 0 .. kThreadLocalStorageSize - 1
Contents == [Index -> Values \cup {NULL}]
Blank == [i \in Index |-> NULL]

VARIABLES
  nativeKey,    \* g_native_tls_key
  lastUsed,     \* g_last_used_tls_key
  destructors,  \* g_tls_destructors: the slot object that registered, or NULL
  slotOf,       \* StaticSlot::slot_
  initialized,  \* StaticSlot::initialized_
  osKeys,       \* the keys AllocTLS has handed out
  tls,          \* the OS value of each key on each thread: a vector or NULL
  vector,       \* what the vectors of each thread hold
  heapLive,     \* whether the thread's heap vector is allocated
  round,        \* how often the OS has run the exit callbacks of a thread
  pc,
  key,          \* the local of that name, in ConstructTlsVector and at exit
  op,           \* the call that found no vector and is constructing one
  claiming,     \* the object whose Initialize has its index but no destructor
  slot, needScan, attempts,  \* the locals of OnThreadExitInternal
  pending,      \* tls_value, from the moment its slot is cleared
  crashed       \* the process has died of a failed CHECK

shared == <<nativeKey, lastUsed, destructors, slotOf, initialized, osKeys>>
memory == <<tls, vector, heapLive>>
locals == <<key, op, claiming>>
scan   == <<slot, needScan, attempts, pending>>
vars   == <<shared, memory, round, pc, locals, scan, crashed>>

Call == [fn : {"Get", "Set", "Initialize"}, slot : Slots,
         value : Values \cup {NULL}, from : {"idle", "os_exit"}]

ASSUME NoCallAssumption == NULL \notin Call

Callbacks == {"new", "delete", "destructor"}
Exiting == {"delete", "scan", "call", "destructor", "remove"}
Stopped == {"recursion", "undefined"}
Labels == {"idle", "os_exit", "dead", "alloc_key", "realloc_key", "cas_key",
           "install", "new"} \cup Exiting \cup Stopped

Init ==
  /\ nativeKey = ReservedKey
  /\ lastUsed = 0
  /\ destructors = [i \in Index |-> NULL]
  /\ slotOf = [o \in Slots |-> 0]
  /\ initialized = [o \in Slots |-> FALSE]
  /\ osKeys = {}
  /\ tls = [t \in Threads |-> [k \in KeyPool |-> NULL]]
  /\ vector = [t \in Threads |-> [w \in Where |-> Blank]]
  /\ heapLive = [t \in Threads |-> FALSE]
  /\ round = [t \in Threads |-> 0]
  /\ pc = [t \in Threads |-> "idle"]
  /\ key = [t \in Threads |-> ReservedKey]
  /\ op = [t \in Threads |-> NULL]
  /\ claiming = [t \in Threads |-> NULL]
  /\ slot = [t \in Threads |-> 0]
  /\ needScan = [t \in Threads |-> FALSE]
  /\ attempts = [t \in Threads |-> 0]
  /\ pending = [t \in Threads |-> NULL]
  /\ crashed = FALSE

-----------------------------------------------------------------------------
(* The process is over, or what it does is no longer defined. *)
Over == crashed \/ \E t \in Threads : pc[t] \in Stopped

At(t, label) == ~Over /\ pc[t] = label

Goto(t, label) == pc' = [pc EXCEPT ![t] = label]

(* GetTLSValue(NoBarrier_Load(&g_native_tls_key)). *)
CurrentVector(t) == tls[t][nativeKey]

(* Mutants of SetTLSValue: line 168 does nothing; line 106 does nothing. *)
SetTLSValueKeepingLast(t, k, where) ==
  tls' = IF where = NULL THEN tls ELSE [tls EXCEPT ![t][k] = where]
SetTLSValueAfterNew(t, k, where) ==
  tls' = IF where = "ctorStack" THEN tls ELSE [tls EXCEPT ![t][k] = where]

SetTLSValue(t, k, where) == tls' = [tls EXCEPT ![t][k] = where]

(* The thread executes code that is free to call a slot's methods. *)
MayCall(t) ==
  ~Over /\ pc[t] \in {"idle", "os_exit"} \cup Callbacks /\ claiming[t] = NULL

(* No call on o is under way.  Callers must not race Free or Initialize of *)
(* an object with other calls on it; thread exit does not touch objects.   *)
Unused(o) ==
  \A t \in Threads : claiming[t] # o /\ (op[t] # NULL => op[t].slot # o)

(* Callers own what they store: a value is stored in one place at a time.  *)
Storable ==
  {v \in Values : \A t \in Threads :
     /\ pending[t] # v
     /\ op[t] # NULL => op[t].value # v
     /\ \A w \in Where, i \in Index : vector[t][w][i] # v} \cup {NULL}

CanCall(fn, o) ==
  IF fn = "Initialize" THEN ~initialized[o] /\ Unused(o) ELSE initialized[o]

-----------------------------------------------------------------------------
(* Get and Set with the vector in place touch nothing shared.  Get reads   *)
(* and changes nothing, so only a Get that finds no vector is a step.      *)
Set(t, o, v) ==
  /\ MayCall(t)
  /\ CanCall("Set", o)
  /\ CurrentVector(t) # NULL
  /\ v \in Storable
  /\ vector' = [vector EXCEPT ![t][CurrentVector(t)][slotOf[o]] = v]
  /\ UNCHANGED <<shared, tls, heapLive, round, pc, locals, scan, crashed>>

(* Get, Set or Initialize finds no vector and enters ConstructTlsVector.   *)
(* From a callback that would be a second activation of it, or one during  *)
(* exit: the endless recursion the code is written to avoid.               *)
CallWithoutVector(t, fn, o, v) ==
  /\ MayCall(t)
  /\ CanCall(fn, o)
  /\ CurrentVector(t) = NULL
  /\ v \in IF fn = "Set" THEN Storable ELSE {NULL}
  /\ key' = [key EXCEPT ![t] = nativeKey]
  /\ op' = [op EXCEPT ![t] = [fn |-> fn, slot |-> o, value |-> v, from |->
                              IF pc[t] \in Callbacks THEN "idle" ELSE pc[t]]]
  /\ Goto(t, IF pc[t] \in Callbacks THEN "recursion"
             ELSE IF nativeKey = ReservedKey THEN "alloc_key" ELSE "install")
  /\ UNCHANGED <<shared, memory, round, claiming, scan, crashed>>

(* "Grab a new slot": the result of the atomic increment, line 211. *)
NewIndex == lastUsed + 1

ClaimIndex(t, o) ==
  /\ lastUsed' = lastUsed + 1
  /\ slotOf' = [slotOf EXCEPT ![o] = NewIndex]
  /\ claiming' = [claiming EXCEPT ![t] = o]

Initialize(t, o) ==
  /\ MayCall(t)
  /\ CanCall("Initialize", o)
  /\ CurrentVector(t) # NULL
  /\ ClaimIndex(t, o)
  /\ UNCHANGED <<nativeKey, destructors, initialized, osKeys, memory, round, pc,
                 key, op, scan, crashed>>

(* Mutant of CHECK_LT: the index just past the end is let through. *)
InTableOrAtEnd(i) == i <= kThreadLocalStorageSize

InTable(i) == i < kThreadLocalStorageSize

(* The rest of Initialize: CHECK_LT(slot_, kThreadLocalStorageSize), the   *)
(* destructor and the flag.                                                *)
RegisterDestructor(t) ==
  /\ ~Over /\ claiming[t] # NULL
  /\ LET o == claiming[t] IN
     \/ /\ InTable(slotOf[o])
        /\ \E d \in {NULL, o} : destructors' = [destructors EXCEPT ![slotOf[o]] = d]
        /\ initialized' = [initialized EXCEPT ![o] = TRUE]
        /\ UNCHANGED crashed
     \/ /\ ~InTable(slotOf[o])
        /\ crashed' = TRUE
        /\ UNCHANGED <<destructors, initialized>>
  /\ claiming' = [claiming EXCEPT ![t] = NULL]
  /\ UNCHANGED <<nativeKey, lastUsed, slotOf, osKeys, memory, round, pc, key, op,
                 scan>>

(* Mutants of Free: the destructor stays; the index is given back. *)
KeepDestructor(o) == UNCHANGED destructors
Reclaimed == lastUsed - 1

WipeDestructor(o) == destructors' = [destructors EXCEPT ![slotOf[o]] = NULL]

(* "We don't reclaim old indices for TLS slots." *)
LastUsedAfterFree == lastUsed

Free(t, o) ==
  /\ MayCall(t)
  /\ initialized[o] /\ Unused(o)
  /\ WipeDestructor(o)
  /\ lastUsed' = LastUsedAfterFree
  /\ slotOf' = [slotOf EXCEPT ![o] = 0]
  /\ initialized' = [initialized EXCEPT ![o] = FALSE]
  /\ UNCHANGED <<nativeKey, osKeys, memory, round, pc, locals, scan, crashed>>

-----------------------------------------------------------------------------
(* ConstructTlsVector.  CHECK(AllocTLS(&key)): the OS hands out any key    *)
(* that is free, or has none left for us.  A failed CHECK ends the process *)
(* (LogMessageFatal).                                                      *)
KeyExhausted == crashed' = TRUE /\ UNCHANGED <<osKeys, key, pc>>

AllocKey(t) ==
  /\ At(t, "alloc_key")
  /\ \/ KeyExhausted
     \/ \E k \in KeyPool \ osKeys :
          /\ osKeys' = osKeys \cup {k}
          /\ key' = [key EXCEPT ![t] = k]
          /\ Goto(t, IF k = ReservedKey THEN "realloc_key" ELSE "cas_key")
          /\ UNCHANGED crashed
  /\ UNCHANGED <<nativeKey, lastUsed, destructors, slotOf, initialized, memory,
                 round, op, claiming, scan>>

(* The OS handed out the value that means "no key": take another one, which *)
(* must differ, and give the first back.                                   *)
ReallocKey(t) ==
  /\ At(t, "realloc_key")
  /\ \/ KeyExhausted
     \/ \E k \in KeyPool \ (osKeys \cup {ReservedKey}) :
          /\ osKeys' = (osKeys \cup {k}) \ {key[t]}
          /\ key' = [key EXCEPT ![t] = k]
          /\ Goto(t, "cas_key")
          /\ UNCHANGED crashed
  /\ UNCHANGED <<nativeKey, lastUsed, destructors, slotOf, initialized, memory,
                 round, op, claiming, scan>>

(* Mutant: a plain store in place of the compare-and-swap. *)
StoreSucceeds == TRUE

SwapSucceeds == nativeKey = ReservedKey

(* Publish our key, or free it and use the one another thread published.   *)
CompareAndSwapKey(t) ==
  /\ At(t, "cas_key")
  /\ IF SwapSucceeds
       THEN nativeKey' = key[t] /\ UNCHANGED <<osKeys, key>>
       ELSE /\ osKeys' = osKeys \ {key[t]}
            /\ key' = [key EXCEPT ![t] = nativeKey]
            /\ UNCHANGED nativeKey
  /\ Goto(t, "install")
  /\ UNCHANGED <<lastUsed, destructors, slotOf, initialized, memory, round, op,
                 claiming, scan, crashed>>

(* CHECK(!GetTLSValue(key)), then the stack vector goes in before `new`. *)
InstallStackVector(t) ==
  /\ At(t, "install")
  /\ IF tls[t][key[t]] # NULL
       THEN crashed' = TRUE /\ UNCHANGED <<vector, tls, pc>>
       ELSE /\ vector' = [vector EXCEPT ![t]["ctorStack"] = Blank]
            /\ SetTLSValue(t, key[t], "ctorStack")
            /\ Goto(t, "new")
            /\ UNCHANGED crashed
  /\ UNCHANGED <<shared, heapLive, round, locals, scan>>

(* memcpy: what `new` stored in the stack vector moves along. *)
NewHeap(t) == vector[t]["ctorStack"]

(* `new` returned; the call that needed the vector runs to its end.  (The  *)
(* contents of storage whose lifetime ends are forgotten.)                 *)
InstallHeapVector(t) ==
  /\ At(t, "new") /\ claiming[t] = NULL
  /\ heapLive' = [heapLive EXCEPT ![t] = TRUE]
  /\ SetTLSValue(t, key[t], "heap")
  /\ LET installed == [vector EXCEPT ![t]["heap"] = NewHeap(t),
                                     ![t]["ctorStack"] = Blank]
     IN vector' = IF op[t].fn = "Set"
          THEN [installed EXCEPT ![t]["heap"][slotOf[op[t].slot]] = op[t].value]
          ELSE installed
  /\ IF op[t].fn = "Initialize" THEN ClaimIndex(t, op[t].slot)
     ELSE UNCHANGED <<lastUsed, slotOf, claiming>>
  /\ Goto(t, op[t].from)
  /\ op' = [op EXCEPT ![t] = NULL]
  /\ UNCHANGED <<nativeKey, destructors, initialized, osKeys, round, key, scan,
                 crashed>>

-----------------------------------------------------------------------------
(* Thread exit *)
BeginExit(t) ==
  /\ At(t, "idle") /\ claiming[t] = NULL
  /\ Goto(t, "os_exit")
  /\ UNCHANGED <<shared, memory, round, locals, scan, crashed>>

(* Mutant: the stack vector starts out zeroed. *)
BlankExitVector(t, where) == Blank

(* memcpy, line 128. *)
NewExitVector(t, where) == vector[t][where]

(* The OS calls OnThreadExit for a key that has a value, and passes it (on *)
(* POSIX, after clearing it) or lets the code fetch it (Windows).          *)
ExitCallbackDue(t) == round[t] < ExitRounds /\ CurrentVector(t) # NULL

(* OnThreadExitInternal switches the thread to a copy on the stack before  *)
(* it gives the heap vector back.                                          *)
OnThreadExit(t) ==
  /\ At(t, "os_exit") /\ claiming[t] = NULL
  /\ ExitCallbackDue(t)
  /\ vector' = [vector EXCEPT ![t]["exitStack"] = NewExitVector(t, CurrentVector(t)),
                              ![t]["heap"] = Blank]
  /\ key' = [key EXCEPT ![t] = nativeKey]
  /\ SetTLSValue(t, nativeKey, "exitStack")
  /\ heapLive' = [heapLive EXCEPT ![t] = FALSE]
  /\ round' = [round EXCEPT ![t] = @ + 1]
  /\ Goto(t, "delete")
  /\ UNCHANGED <<shared, op, claiming, scan, crashed>>

(* A round of the OS's loop in which only other libraries' keys had work. *)
OtherKeysRound(t) ==
  /\ At(t, "os_exit") /\ claiming[t] = NULL
  /\ round[t] < ExitRounds
  /\ CurrentVector(t) = NULL
  /\ round' = [round EXCEPT ![t] = @ + 1]
  /\ UNCHANGED <<shared, memory, pc, locals, scan, crashed>>

ThreadGone(t) ==
  /\ At(t, "os_exit") /\ claiming[t] = NULL
  /\ round[t] = ExitRounds \/ CurrentVector(t) = NULL
  /\ Goto(t, "dead")
  /\ UNCHANGED <<shared, memory, round, locals, scan, crashed>>

(* Lines 138-147: a pass runs from the newest slot down. *)
BeginPass(t) ==
  /\ needScan' = [needScan EXCEPT ![t] = FALSE]
  /\ slot' = [slot EXCEPT ![t] = lastUsed]
  /\ Goto(t, "scan")

DeleteReturns(t) ==
  /\ At(t, "delete") /\ claiming[t] = NULL
  /\ attempts' = [attempts EXCEPT ![t] = kMaxDestructorIterations]
  /\ BeginPass(t)
  /\ UNCHANGED <<shared, memory, round, locals, pending, crashed>>

InLoop(i) == i > 0

HasWork(t, i) == vector[t]["exitStack"][i] # NULL /\ destructors[i] # NULL

SkipSlot(t) ==
  /\ At(t, "scan") /\ InLoop(slot[t]) /\ slot[t] \in Index
  /\ ~HasWork(t, slot[t])
  /\ slot' = [slot EXCEPT ![t] = @ - 1]
  /\ UNCHANGED <<shared, memory, round, pc, locals, needScan, attempts, pending,
                 crashed>>

(* Mutant: the slot keeps its value during the call. *)
NoPreClear(t) == UNCHANGED vector

PreClear(t) == vector' = [vector EXCEPT ![t]["exitStack"][slot[t]] = NULL]

(* Read the value and, once, the destructor; pre-clear the slot. *)
TakeValue(t) ==
  /\ At(t, "scan") /\ InLoop(slot[t]) /\ slot[t] \in Index
  /\ HasWork(t, slot[t])
  /\ pending' = [pending EXCEPT ![t] = vector[t]["exitStack"][slot[t]]]
  /\ PreClear(t)
  /\ Goto(t, "call")
  /\ UNCHANGED <<shared, tls, heapLive, round, locals, slot, needScan, attempts,
                 crashed>>

(* slot >= kThreadLocalStorageSize: the reads are past the end of the arrays. *)
ScanPastEnd(t) ==
  /\ At(t, "scan") /\ slot[t] >= kThreadLocalStorageSize
  /\ Goto(t, "undefined")
  /\ UNCHANGED <<shared, memory, round, locals, scan, crashed>>

CallDestructor(t) ==
  /\ At(t, "call")
  /\ pending' = [pending EXCEPT ![t] = NULL]
  /\ Goto(t, "destructor")
  /\ UNCHANGED <<shared, memory, round, locals, slot, needScan, attempts, crashed>>

(* Mutant: what a destructor stored is not looked for. *)
NoRescan(t) == UNCHANGED needScan

RequestRescan(t) == needScan' = [needScan EXCEPT ![t] = TRUE]

DestructorReturns(t) ==
  /\ At(t, "destructor") /\ claiming[t] = NULL
  /\ RequestRescan(t)
  /\ slot' = [slot EXCEPT ![t] = @ - 1]
  /\ Goto(t, "scan")
  /\ UNCHANGED <<shared, memory, round, locals, attempts, pending, crashed>>

(* Mutant: the passes are not counted. *)
UncountedAttempts(t) == attempts[t]

RemainingAttempts(t) == attempts[t] - 1

(* CHECK_GT(--remaining_attempts, 0), then the loop's condition. *)
EndPass(t) ==
  /\ At(t, "scan") /\ slot[t] = 0
  /\ attempts' = [attempts EXCEPT ![t] = RemainingAttempts(t)]
  /\ IF RemainingAttempts(t) > 0
       THEN IF needScan[t] THEN BeginPass(t)
            ELSE Goto(t, "remove") /\ UNCHANGED <<slot, needScan>>
       ELSE UNCHANGED <<pc, slot, needScan>>
  /\ crashed' = (RemainingAttempts(t) <= 0)
  /\ UNCHANGED <<shared, memory, round, locals, pending>>

RemoveStackVector(t) ==
  /\ At(t, "remove")
  /\ SetTLSValue(t, key[t], NULL)
  /\ vector' = [vector EXCEPT ![t]["exitStack"] = Blank]
  /\ Goto(t, "os_exit")
  /\ UNCHANGED <<shared, heapLive, round, locals, scan, crashed>>

-----------------------------------------------------------------------------
(* What callers and callbacks may do, and what the code does by itself. *)
Use(t) ==
  \/ \E o \in Slots :
       \/ \E v \in Values \cup {NULL} : Set(t, o, v)
       \/ \E fn \in {"Get", "Set", "Initialize"}, v \in Values \cup {NULL} :
            CallWithoutVector(t, fn, o, v)
       \/ Initialize(t, o)
       \/ Free(t, o)
  \/ BeginExit(t)
  \/ OtherKeysRound(t)

Work(t) ==
  \/ RegisterDestructor(t)
  \/ AllocKey(t) \/ ReallocKey(t) \/ CompareAndSwapKey(t)
  \/ InstallStackVector(t) \/ InstallHeapVector(t)
  \/ OnThreadExit(t) \/ ThreadGone(t) \/ DeleteReturns(t) \/ SkipSlot(t)
  \/ TakeValue(t) \/ ScanPastEnd(t) \/ CallDestructor(t) \/ DestructorReturns(t)
  \/ EndPass(t) \/ RemoveStackVector(t)

Done == (Over \/ \A t \in Threads : pc[t] = "dead") /\ UNCHANGED vars

Next == (\E t \in Threads : Use(t) \/ Work(t)) \/ Done

Spec == Init /\ [][Next]_vars

(* The scheduler runs every thread, and the allocator and the destructors  *)
(* return.  Nothing makes callers call.                                    *)
FairSpec == Spec /\ \A t \in Threads : WF_vars(Work(t))

-----------------------------------------------------------------------------
(* Every variable keeps to its range.                                      *)
Typed ==
  /\ nativeKey \in KeyPool
  /\ lastUsed \in Nat
  /\ destructors \in [Index -> Slots \cup {NULL}]
  /\ slotOf \in [Slots -> Nat]
  /\ initialized \in [Slots -> BOOLEAN]
  /\ osKeys \subseteq KeyPool
  /\ tls \in [Threads -> [KeyPool -> Where \cup {NULL}]]
  /\ vector \in [Threads -> [Where -> Contents]]
  /\ heapLive \in [Threads -> BOOLEAN]
  /\ pc \in [Threads -> Labels]
  /\ key \in [Threads -> KeyPool]
  /\ op \in [Threads -> Call \cup {NULL}]
  /\ claiming \in [Threads -> Slots \cup {NULL}]
  /\ slot \in [Threads -> Nat]
  /\ needScan \in [Threads -> BOOLEAN]
  /\ attempts \in [Threads -> Int]
  /\ pending \in [Threads -> Values \cup {NULL}]
  /\ round \in [Threads -> 0 .. ExitRounds]
  /\ crashed \in BOOLEAN

(* No object and no scan works with an index that was not handed out, and  *)
(* each index past the end of the table belongs to an Initialize whose     *)
(* CHECK_LT is still to come, until one of those ends the process (lines   *)
(* 210-213).                                                               *)
IndexChecked ==
  /\ \A o \in Slots : slotOf[o] <= lastUsed
  /\ \A t \in Threads : slot[t] <= lastUsed
  /\ crashed \/ \A i \in kThreadLocalStorageSize .. lastUsed :
       \E t \in Threads : claiming[t] # NULL /\ slotOf[claiming[t]] = i

(* Every variable keeps to its range, and the three kinds of indices (the  *)
(* high-water mark, an object's and a scan's), which may pass the end of   *)
(* the table, do so only while the CHECK_LT that will refuse the index is  *)
(* still to come, or once it has ended the process.                        *)
TypeOK == Typed /\ IndexChecked

(* Of all the keys threads race to create exactly one survives: whatever   *)
(* the OS has handed out is the published key or is still in the hands of  *)
(* one thread that is about to publish it or give it back, the published   *)
(* key is never the reserved value once set, and only it carries vectors   *)
(* (ConstructTlsVector, lines 65-92).                                      *)
HoldsKey(t) == pc[t] \in {"realloc_key", "cas_key"}
KeyAccounting ==
  /\ osKeys = {key[t] : t \in {u \in Threads : HoldsKey(u)}}
                 \cup (IF nativeKey = ReservedKey THEN {} ELSE {nativeKey})
  /\ \A t, u \in Threads : HoldsKey(t) /\ HoldsKey(u) /\ key[t] = key[u] => t = u
  /\ \A t \in Threads : HoldsKey(t) /\ nativeKey # ReservedKey => key[t] # nativeKey
  /\ \A t \in Threads, k \in KeyPool :
       tls[t][k] # NULL => k = nativeKey /\ nativeKey # ReservedKey

(* The pointer the OS holds for a thread never dangles: a stack vector only *)
(* while the frame that owns it is active, the heap vector only while it is *)
(* allocated; and an allocated heap vector is always reachable, so that it *)
(* is freed exactly once (lines 103-112, 127-133, 168).                    *)
VectorLive ==
  \A t \in Threads : pc[t] \notin Stopped =>
    /\ CurrentVector(t) = "ctorStack" => pc[t] = "new"
    /\ CurrentVector(t) = "exitStack" => pc[t] \in Exiting
    /\ heapLive[t] <=> CurrentVector(t) = "heap"

(* Calls made by the allocator or by a destructor always find a vector:    *)
(* they never enter ConstructTlsVector while it, or the exit code, is      *)
(* active on the thread (comments at lines 95-102 and 118-126).            *)
NoRecursion == \A t \in Threads : pc[t] # "recursion"

(* Two slot objects never share an index, and an index calls no destructor *)
(* but its own object's: indices are never reclaimed (lines 211-226).      *)
SlotIdentity ==
  /\ \A o \in Slots : initialized[o] =>
       /\ slotOf[o] \in Index \ {0}
       /\ destructors[slotOf[o]] \in {o, NULL}
       /\ \A other \in Slots \ {o} : slotOf[other] # slotOf[o]
  /\ \A i \in Index : destructors[i] # NULL =>
       initialized[destructors[i]] /\ slotOf[destructors[i]] = i

(* "Values are guaranteed to initially be zero" (header, line 108): no     *)
(* thread has anything stored at an index that no object holds yet.        *)
FreshSlotsAreNull ==
  \A t \in Threads, i \in Index :
    (i > lastUsed \/ \E u \in Threads : claiming[u] # NULL /\ slotOf[claiming[u]] = i)
      => \A w \in Where : vector[t][w][i] = NULL

(* A value is gone from the slots by the time its destructor gets it, so   *)
(* that neither the destructor nor a later pass can reach it again         *)
(* (line 156).                                                             *)
NotStoredWhenDestroyed ==
  \A t \in Threads : pending[t] # NULL =>
    \A u \in Threads, w \in Where, i \in Index : vector[u][w][i] # pending[t]

(* The stack vector is dropped only when nothing that has a destructor is  *)
(* left in it, whatever destructors stored during the scan (lines 137-168). *)
CleanExit ==
  \A t \in Threads, i \in Index :
    pc[t] = "remove" /\ destructors[i] # NULL => vector[t]["exitStack"][i] = NULL

(* "Each allocation is an index into our g_tls_destructors[]" (cc:29): an   *)
(* exiting thread's scan starts from an index both arrays have.            *)
ScanInBounds ==
  \A t \in Threads : pc[t] = "scan" => slot[t] < kThreadLocalStorageSize

(* Free "removes the destructor so that remaining threads exiting will not *)
(* free data" (header, lines 102-104): the destructor an exiting thread is *)
(* about to call is still registered.                                      *)
FreeStopsDestructor ==
  \A t \in Threads : pc[t] = "call" => destructors[slot[t]] # NULL

-----------------------------------------------------------------------------
(* What a thread sees: the vector the OS holds for it. *)
Content(t) == IF CurrentVector(t) = NULL THEN Blank ELSE vector[t][CurrentVector(t)]

ThreadValuesInstance == INSTANCE ThreadValues WITH
  value <- [t \in Threads |-> Content(t)],
  cleanup <- {i \in Index : destructors[i] # NULL}

(* The moves between stack and heap are invisible: slot storage behaves as *)
(* one value per thread and index (header, lines 101-113).                 *)
ImplementsThreadValues == ThreadValuesInstance!Spec

(* Once the exit callback has started it ends, or the limit on passes ends *)
(* the process: destructors that keep storing values cannot keep the       *)
(* thread in it (line 164).                                                *)
ExitTerminates ==
  \A t \in Threads : pc[t] = "delete" ~> (pc[t] = "os_exit" \/ Over)
=============================================================================
