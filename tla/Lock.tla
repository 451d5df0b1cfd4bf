-------------------------------- MODULE Lock --------------------------------
(***************************************************************************)
(* base::Lock and base::ConditionVariable (base/synchronization) in a      *)
(* debug build, where Lock keeps a shadow of its owner and a failed DCHECK *)
(* ends the process.  A release build is the same without owning_thread_.  *)
(* A mistaken call reads owning_thread_ without the lock, in a race with   *)
(* the lock's holder: it may get any value that was there since the reader *)
(* last wrote it or got the native lock.                                   *)
(*                                                                         *)
(* Callers make the calls in any order, directly or through AutoLock and   *)
(* AutoUnlock, the mistakes included that the DCHECKs are there for.       *)
(***************************************************************************)
EXTENDS Naturals, Sequences

CONSTANTS
  Threads,
  NoThread         \* ThreadRefType()

ASSUME LockAssumption == NoThread \notin Threads

VARIABLES
  recursive,       \* the build: a Windows CRITICAL_SECTION, or an error-checking
                   \* pthread mutex, which alone has a ConditionVariable
  holder, depth,   \* the native lock: who has it, how often
  owning_thread_,
  visible,         \* the values of owning_thread_ that a thread may read
  waiters,         \* the threads asleep in Wait, in the order they began to
  pc,
  holds,           \* whether the calls a thread has made so far give it the lock
  misused,         \* whether its last call was a mistake
  crashed,         \* the process has died of a failed DCHECK
  destroyed

native == <<holder, depth>>
shadow == <<owning_thread_, visible>>
vars == <<recursive, native, shadow, waiters, pc, holds, misused, crashed, destroyed>>

(* "run" is the caller's own code; the others lie inside the calls. *)
Labels == {"run", "lock", "mark", "unlock", "cond_wait", "waiting", "woken"}

Init ==
  /\ recursive \in BOOLEAN
  /\ holder = NoThread
  /\ depth = 0
  /\ owning_thread_ = NoThread
  /\ visible = [t \in Threads |-> {NoThread}]
  /\ waiters = <<>>
  /\ pc = [t \in Threads |-> "run"]
  /\ holds = [t \in Threads |-> FALSE]
  /\ misused = [t \in Threads |-> FALSE]
  /\ crashed = FALSE
  /\ destroyed = FALSE

Over == crashed \/ destroyed

At(t, label) == ~Over /\ pc[t] = label

Goto(t, label) == pc' = [pc EXCEPT ![t] = label]

(* A call after which t has the lock, or not; to make it may be a mistake. *)
Calls(t, hold, mistake) ==
  /\ At(t, "run")
  /\ holds' = [holds EXCEPT ![t] = hold]
  /\ misused' = [misused EXCEPT ![t] = mistake]

-----------------------------------------------------------------------------
(* A write of owning_thread_: t itself reads nothing older any more, the   *)
(* others may read it or what they could read before.                      *)
SetOwner(t, owner) ==
  /\ owning_thread_' = owner
  /\ visible' = [u \in Threads |-> IF u = t THEN {owner} ELSE visible[u] \cup {owner}]

(* Mutant: the owner is left as it was. *)
KeepMark(t) == UNCHANGED shadow

ResetMark(t) == SetOwner(t, NoThread)

(* Mutants of CheckHeldAndUnmark: without the DCHECK; the call returns. *)
UnmarkUnchecked(t, label) == ResetMark(t) /\ Goto(t, label) /\ UNCHANGED crashed
UnmarkAndReturn(t, label) ==
  t \in visible[t] /\ ResetMark(t) /\ Goto(t, "run") /\ UNCHANGED crashed

(* CheckHeldAndUnmark; then the call goes on at label. *)
CheckHeldAndUnmark(t, label) ==
  \E owner \in visible[t] :
    \/ /\ owner = t
       /\ ResetMark(t)
       /\ Goto(t, label)
       /\ UNCHANGED crashed
    \/ /\ owner # t
       /\ crashed' = TRUE
       /\ UNCHANGED <<shadow, pc>>

(* Acquire: the call enters lock_.Lock(). *)
Acquire(t) ==
  /\ Calls(t, TRUE, holds[t])
  /\ Goto(t, "lock")
  /\ UNCHANGED <<native, shadow, waiters, crashed, destroyed, recursive>>

(* One hold more of the native lock.  It makes all that was written with   *)
(* the lock held visible.                                                  *)
NativeLock(t) ==
  /\ holder = NoThread \/ (recursive /\ holder = t)
  /\ holder' = t
  /\ depth' = depth + 1
  /\ visible' = [visible EXCEPT ![t] = {owning_thread_}]

(* On a lock that is its own already Try succeeds on Windows.  A Try that  *)
(* fails changes nothing.                                                  *)
Try(t) ==
  /\ Calls(t, TRUE, holds[t])
  /\ NativeLock(t)
  /\ Goto(t, "mark")
  /\ UNCHANGED <<owning_thread_, waiters, crashed, destroyed, recursive>>

(* lock_.Lock(), and the end of pthread_cond_wait.  An error-checking      *)
(* mutex reports EDEADLK to its owner, and DCHECK_EQ(rv, 0) fails.         *)
LockReturns(t) ==
  /\ At(t, "lock") \/ At(t, "woken")
  /\ \/ /\ NativeLock(t)
        /\ Goto(t, "mark")
        /\ UNCHANGED crashed
     \/ /\ holder = t /\ ~recursive
        /\ crashed' = TRUE
        /\ UNCHANGED <<native, visible, pc>>
  /\ UNCHANGED <<owning_thread_, waiters, holds, misused, destroyed, recursive>>

CheckUnheldAndMark(t) ==
  /\ At(t, "mark")
  /\ \E owner \in visible[t] :
       IF owner = NoThread
         THEN SetOwner(t, t) /\ Goto(t, "run") /\ UNCHANGED crashed
         ELSE crashed' = TRUE /\ UNCHANGED <<shadow, pc>>
  /\ UNCHANGED <<native, waiters, holds, misused, destroyed, recursive>>

(* Release checks and unmarks first, and then unlocks. *)
Release(t) ==
  /\ Calls(t, FALSE, ~holds[t])
  /\ CheckHeldAndUnmark(t, "unlock")
  /\ UNCHANGED <<native, waiters, destroyed, recursive>>

(* Mutant: the lock is given up twice. *)
UnlockTwice(t) == holder = t /\ depth' = depth - 2 /\ holder' = NoThread

(* One hold less of the native lock, which must be the thread's own. *)
NativeUnlock(t) ==
  /\ holder = t
  /\ depth' = depth - 1
  /\ holder' = IF depth = 1 THEN NoThread ELSE t

Unlock(t) ==
  /\ At(t, "unlock")
  /\ NativeUnlock(t)
  /\ Goto(t, "run")
  /\ UNCHANGED <<shadow, waiters, holds, misused, crashed, destroyed, recursive>>

(* Mutant: AssertAcquired does nothing. *)
NullAssert(t, owner) == TRUE

AssertPasses(t, owner) == owner = t

AssertAcquired(t) ==
  /\ Calls(t, holds[t], ~holds[t])
  /\ \E owner \in visible[t] : crashed' = ~AssertPasses(t, owner)
  /\ UNCHANGED <<native, shadow, waiters, pc, destroyed, recursive>>

(* ~Lock, when nobody is inside a call any more: the caller must know so,  *)
(* and so reads what the calls wrote last.                                 *)
Destroy(t) ==
  /\ \A u \in Threads : pc[u] = "run"
  /\ Calls(t, holds[t], \E u \in Threads : holds[u])
  /\ crashed' = (owning_thread_ # NoThread)
  /\ destroyed' = (owning_thread_ = NoThread)
  /\ UNCHANGED <<native, shadow, waiters, pc, recursive>>

-----------------------------------------------------------------------------
Wait(t) ==
  /\ ~recursive
  /\ Calls(t, TRUE, ~holds[t])
  /\ CheckHeldAndUnmark(t, "cond_wait")
  /\ UNCHANGED <<native, waiters, destroyed, recursive>>

(* pthread_cond_wait unlocks the mutex and goes to sleep in one step. *)
Sleep(t) ==
  /\ At(t, "cond_wait")
  /\ NativeUnlock(t)
  /\ waiters' = Append(waiters, t)
  /\ Goto(t, "waiting")
  /\ UNCHANGED <<shadow, holds, misused, crashed, destroyed, recursive>>

(* One waiter leaves pthread_cond_wait's queue and contends for the mutex. *)
WakeOne(i) ==
  /\ waiters' = [j \in 1 .. Len(waiters) - 1 |-> waiters[IF j < i THEN j ELSE j + 1]]
  /\ Goto(waiters[i], "woken")
  /\ UNCHANGED <<native, shadow, holds, misused, crashed, destroyed, recursive>>

(* pthread_cond_signal wakes whichever waiter it likes; callers need not   *)
(* hold the lock.  Without waiters nothing happens.                        *)
Signal(t) == At(t, "run") /\ \E i \in DOMAIN waiters : WakeOne(i)

Broadcast(t) ==
  /\ At(t, "run")
  /\ waiters # <<>>
  /\ waiters' = <<>>
  /\ pc' = [u \in Threads |-> IF pc[u] = "waiting" THEN "woken" ELSE pc[u]]
  /\ UNCHANGED <<native, shadow, holds, misused, crashed, destroyed, recursive>>

(* "Spurious signal events are possible." *)
SpuriousWakeup == ~Over /\ \E i \in DOMAIN waiters : WakeOne(i)

-----------------------------------------------------------------------------
Done == Over /\ UNCHANGED vars

Call(t) ==
  \/ Acquire(t) \/ Try(t) \/ Release(t) \/ AssertAcquired(t) \/ Destroy(t)
  \/ Wait(t) \/ Signal(t) \/ Broadcast(t)

Work(t) ==
  \/ LockReturns(t) \/ CheckUnheldAndMark(t) \/ Unlock(t) \/ Sleep(t)

Next == (\E t \in Threads : Call(t) \/ Work(t)) \/ SpuriousWakeup \/ Done

Spec == Init /\ [][Next]_vars

-----------------------------------------------------------------------------
(* Every variable keeps to its range; the native lock is not given up more *)
(* often than it was taken (lock_impl.h, lines 45-47).                     *)
TypeOK ==
  /\ recursive \in BOOLEAN
  /\ holder \in Threads \cup {NoThread}
  /\ depth \in Nat
  /\ owning_thread_ \in Threads \cup {NoThread}
  /\ visible \in [Threads -> SUBSET (Threads \cup {NoThread})]
  /\ waiters \in Seq(Threads)
  /\ pc \in [Threads -> Labels]
  /\ holds \in [Threads -> BOOLEAN]
  /\ misused \in [Threads -> BOOLEAN]
  /\ crashed \in BOOLEAN
  /\ destroyed \in BOOLEAN

(* What a thread's calls entitle it to is what the native lock gives it,   *)
(* through every wait and every hand-over; so no two threads are ever      *)
(* inside at once.                                                         *)
HoldsLock ==
  ~crashed => \A t \in Threads : pc[t] = "run" => (holds[t] <=> holder = t)

(* No DCHECK fires on callers that make no mistake (lock.cc, lines 32-48;  *)
(* condition_variable_posix.cc, lines 30-38).                              *)
NoFalseAlarm == crashed => \E t \in Threads : misused[t]

(* No mistaken call returns to its caller: the lock taken a second time,   *)
(* released, waited on or asserted without being held, whatever a race     *)
(* with the lock's holder lets it read (lock.h, lines 54-56).              *)
MisuseIsCaught == ~crashed => \A t \in Threads : misused[t] => pc[t] # "run"

(* A mistake is caught before it reaches the native lock: nobody unlocks,  *)
(* or goes to sleep on, a mutex that is another's or nobody's, or keeps it *)
(* asleep because it has it twice (lock_impl.h, lines 45-47).              *)
OnlyHolderUnlocks ==
  \A t \in Threads : pc[t] \in {"unlock", "cond_wait"} => holder = t /\ depth = 1

(* "The thread that most recently began to Wait() is selected by Signal to *)
(* revive" (condition_variable.h, lines 54-60).                            *)
SignalRevivesMostRecent ==
  [][\A t \in Threads : Signal(t) => waiters' = SubSeq(waiters, 1, Len(waiters) - 1)]_vars
=============================================================================
