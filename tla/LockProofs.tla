----------------------------- MODULE LockProofs -----------------------------
(***************************************************************************)
(* In a debug build Lock gives the lock to one thread at a time, reports   *)
(* every mistake it is there to report and nothing else, for any number of *)
(* threads and both kinds of native lock.                                  *)
(***************************************************************************)
EXTENDS Lock, TLAPS

(* Where a thread may be when it has the native lock, and when its name is *)
(* in owning_thread_; inside Wait it has neither.                          *)
Ownership ==
  /\ owning_thread_ # NoThread => holder = owning_thread_
  /\ \A t \in Threads :
       /\ pc[t] \in {"mark", "unlock", "cond_wait"} => holder = t
       /\ pc[t] \in {"waiting", "woken"} => holder # t
       /\ pc[t] \in {"unlock", "cond_wait"} => owning_thread_ = NoThread
       /\ pc[t] \in {"run", "lock"} /\ holder = t => owning_thread_ = t

(* The native lock is held once, unless its holder is about to fail the    *)
(* DCHECK for having taken it twice.                                       *)
DepthInv ==
  /\ holder = NoThread => depth = 0
  /\ \A t \in Threads :
       /\ holder = t /\ pc[t] # "mark" => depth = 1
       /\ pc[t] = "mark" /\ owning_thread_ = NoThread => depth = 1

(* What callers know, and what counts as a mistake, agrees with the shadow. *)
CallerInv ==
  \A t \in Threads :
    /\ ~crashed /\ pc[t] = "run" => (holds[t] <=> owning_thread_ = t) /\ ~misused[t]
    /\ pc[t] = "lock" => (misused[t] <=> holder = t)
    /\ pc[t] = "mark" => (misused[t] <=> owning_thread_ # NoThread)
    /\ pc[t] \in {"unlock", "cond_wait", "waiting", "woken"} => ~misused[t]
    /\ pc[t] # "run" => (holds[t] <=> pc[t] # "unlock")

QueueInv ==
  /\ \A i \in 1 .. Len(waiters) : pc[waiters[i]] = "waiting"
  /\ \A i, j \in 1 .. Len(waiters) : waiters[i] = waiters[j] => i = j

(* The holder of the native lock reads owning_thread_ as it is, and nobody *)
(* reads a name of its own there that is no longer true.                   *)
VisibleInv ==
  \A t \in Threads :
    /\ owning_thread_ \in visible[t]
    /\ t \in visible[t] => owning_thread_ = t
    /\ holder = t => visible[t] = {owning_thread_}

IInv ==
  TypeOK /\ Ownership /\ DepthInv /\ CallerInv /\ QueueInv /\ VisibleInv /\ NoFalseAlarm

-----------------------------------------------------------------------------
(* A DCHECK of the calling thread's own name tells the truth. *)
LEMMA ReadsOwnName ==
  ASSUME IInv, NEW t \in Threads, NEW owner \in visible[t]
  PROVE  /\ owner = t <=> owning_thread_ = t
         /\ holder = t => owner = owning_thread_
  BY LockAssumption DEF IInv, VisibleInv, Ownership

LEMMA CheckHeldExact ==
  ASSUME IInv, NEW t \in Threads, NEW label, CheckHeldAndUnmark(t, label)
  PROVE  \/ /\ owning_thread_ = t
            /\ ResetMark(t) /\ Goto(t, label) /\ UNCHANGED crashed
         \/ /\ owning_thread_ # t
            /\ crashed' = TRUE /\ UNCHANGED <<shadow, pc>>
  BY ReadsOwnName DEF CheckHeldAndUnmark

LEMMA CheckUnheldExact ==
  ASSUME IInv, NEW t \in Threads, CheckUnheldAndMark(t)
  PROVE  \/ /\ owning_thread_ = NoThread
            /\ SetOwner(t, t) /\ Goto(t, "run") /\ UNCHANGED crashed
         \/ /\ owning_thread_ # NoThread
            /\ crashed' = TRUE /\ UNCHANGED <<shadow, pc>>
  <1>1. holder = t
    BY DEF IInv, Ownership, CheckUnheldAndMark, At
  <1>2. \A owner \in visible[t] : owner = owning_thread_
    BY <1>1, ReadsOwnName
  <1> QED
    BY <1>2 DEF CheckUnheldAndMark

LEMMA SetOwnerType ==
  ASSUME IInv, NEW t \in Threads, NEW owner \in {t, NoThread}, SetOwner(t, owner)
  PROVE  /\ owning_thread_' \in Threads \cup {NoThread}
         /\ visible' \in [Threads -> SUBSET (Threads \cup {NoThread})]
  BY DEF SetOwner, IInv, TypeOK

(* A write of owning_thread_ by the native lock's holder, which hides its  *)
(* own name from itself or shows it.                                       *)
LEMMA SetOwnerVisible ==
  ASSUME IInv, NEW t \in Threads, NEW owner \in {t, NoThread}, SetOwner(t, owner),
         holder = t, owning_thread_ \in {t, NoThread}, UNCHANGED holder
  PROVE  VisibleInv'
  <1>1. \A u \in Threads : visible'[u] = IF u = t THEN {owner} ELSE visible[u] \cup {owner}
    BY DEF SetOwner
  <1> QED
    BY <1>1, LockAssumption DEF IInv, VisibleInv, SetOwner

-----------------------------------------------------------------------------
LEMMA AcquireKeeps ==
  ASSUME NEW t \in Threads, IInv, Acquire(t)
  PROVE  IInv'
  <1> USE LockAssumption DEF native, shadow, Over
  <1>1. TypeOK'
    BY DEF IInv, TypeOK, Labels, Acquire, Calls, At, Goto
  <1>2. Ownership'
    BY DEF IInv, TypeOK, Ownership, DepthInv, CallerInv, Acquire, Calls, At, Goto
  <1>3. DepthInv'
    BY DEF IInv, TypeOK, Ownership, DepthInv, CallerInv, Acquire, Calls, At, Goto
  <1>4. CallerInv'
    BY DEF IInv, TypeOK, Ownership, DepthInv, CallerInv, Acquire, Calls, At, Goto
  <1>5. QueueInv'
    BY DEF IInv, TypeOK, QueueInv, Acquire, Calls, At, Goto
  <1>6. NoFalseAlarm'
    BY DEF IInv, TypeOK, Ownership, CallerInv, NoFalseAlarm, Acquire, Calls, At, Goto
  <1>7. VisibleInv'
    BY DEF IInv, VisibleInv, Acquire
  <1> QED
    BY <1>1, <1>2, <1>3, <1>4, <1>5, <1>6, <1>7 DEF IInv

LEMMA TryKeeps ==
  ASSUME NEW t \in Threads, IInv, Try(t)
  PROVE  IInv'
  <1> USE LockAssumption DEF native, shadow, Over
  <1>1. TypeOK'
    BY DEF IInv, TypeOK, Labels, Try, NativeLock, Calls, At, Goto
  <1>2. Ownership'
    BY DEF IInv, TypeOK, Ownership, DepthInv, CallerInv, Try, NativeLock, Calls, At, Goto
  <1>3. DepthInv'
    BY DEF IInv, TypeOK, Ownership, DepthInv, CallerInv, Try, NativeLock, Calls, At, Goto
  <1>4. CallerInv'
    BY DEF IInv, TypeOK, Ownership, DepthInv, CallerInv, Try, NativeLock, Calls, At, Goto
  <1>5. QueueInv'
    BY DEF IInv, TypeOK, QueueInv, Try, NativeLock, Calls, At, Goto
  <1>6. NoFalseAlarm'
    BY DEF IInv, TypeOK, Ownership, CallerInv, NoFalseAlarm, Try, NativeLock, Calls, At, Goto
  <1>7. VisibleInv'
    BY DEF IInv, TypeOK, VisibleInv, Ownership, Try, NativeLock
  <1> QED
    BY <1>1, <1>2, <1>3, <1>4, <1>5, <1>6, <1>7 DEF IInv

LEMMA LockReturnsKeeps ==
  ASSUME NEW t \in Threads, IInv, LockReturns(t)
  PROVE  IInv'
  <1> USE LockAssumption DEF native, shadow, Over
  <1>1. TypeOK'
    <2>1. holder' \in Threads \cup {NoThread} /\ depth' \in Nat
      BY DEF IInv, TypeOK, LockReturns, NativeLock
    <2>2. pc' \in [Threads -> Labels] /\ crashed' \in BOOLEAN
      BY DEF IInv, TypeOK, Labels, LockReturns, NativeLock, Goto
    <2> QED
      BY <2>1, <2>2 DEF IInv, TypeOK, LockReturns, NativeLock
  <1>2. Ownership'
    BY DEF IInv, TypeOK, Ownership, DepthInv, CallerInv, LockReturns, NativeLock, At, Goto
  <1>3. DepthInv'
    BY DEF IInv, TypeOK, Ownership, DepthInv, CallerInv, LockReturns, NativeLock, At, Goto
  <1>4. CallerInv'
    BY DEF IInv, TypeOK, Ownership, DepthInv, CallerInv, LockReturns, NativeLock, At, Goto
  <1>5. QueueInv'
    BY DEF IInv, TypeOK, QueueInv, LockReturns, NativeLock, At, Goto
  <1>6. NoFalseAlarm'
    BY DEF IInv, TypeOK, Ownership, CallerInv, NoFalseAlarm, LockReturns, NativeLock, At, Goto
  <1>7. VisibleInv'
    BY DEF IInv, TypeOK, VisibleInv, Ownership, LockReturns, NativeLock
  <1> QED
    BY <1>1, <1>2, <1>3, <1>4, <1>5, <1>6, <1>7 DEF IInv

LEMMA CheckUnheldAndMarkKeeps ==
  ASSUME NEW t \in Threads, IInv, CheckUnheldAndMark(t)
  PROVE  IInv'
  <1> USE LockAssumption DEF native, shadow, Over
  <1>0. \/ /\ owning_thread_ = NoThread
           /\ SetOwner(t, t) /\ Goto(t, "run") /\ UNCHANGED crashed
        \/ /\ owning_thread_ # NoThread
           /\ crashed' = TRUE /\ UNCHANGED <<shadow, pc>>
    BY CheckUnheldExact
  <1>1. TypeOK'
    <2>1. /\ owning_thread_' \in Threads \cup {NoThread}
          /\ visible' \in [Threads -> SUBSET (Threads \cup {NoThread})]
      BY <1>0, SetOwnerType DEF IInv, TypeOK
    <2>2. pc' \in [Threads -> Labels] /\ crashed' \in BOOLEAN
      BY <1>0 DEF IInv, TypeOK, Labels, Goto
    <2> QED
      BY <2>1, <2>2 DEF IInv, TypeOK, CheckUnheldAndMark
  <1>2. Ownership'
    BY <1>0 DEF IInv, TypeOK, Ownership, DepthInv, CallerInv, CheckUnheldAndMark, SetOwner,
       At, Goto
  <1>3. DepthInv'
    BY <1>0 DEF IInv, TypeOK, Ownership, DepthInv, CallerInv, CheckUnheldAndMark, SetOwner,
       At, Goto
  <1>4. CallerInv'
    BY <1>0 DEF IInv, TypeOK, Ownership, DepthInv, CallerInv, CheckUnheldAndMark, SetOwner,
       At, Goto
  <1>5. QueueInv'
    BY <1>0 DEF IInv, TypeOK, QueueInv, CheckUnheldAndMark, SetOwner, At, Goto
  <1>6. NoFalseAlarm'
    BY <1>0 DEF IInv, TypeOK, Ownership, CallerInv, NoFalseAlarm, CheckUnheldAndMark,
       SetOwner, At, Goto
  <1>7. VisibleInv'
    <2>1. CASE owning_thread_ = NoThread
      BY <1>0, <2>1, SetOwnerVisible DEF CheckUnheldAndMark, IInv, Ownership, At
    <2>2. CASE owning_thread_ # NoThread
      BY <1>0, <2>2 DEF CheckUnheldAndMark, IInv, VisibleInv
    <2> QED
      BY <2>1, <2>2
  <1> QED
    BY <1>1, <1>2, <1>3, <1>4, <1>5, <1>6, <1>7 DEF IInv

LEMMA ReleaseKeeps ==
  ASSUME NEW t \in Threads, IInv, Release(t)
  PROVE  IInv'
  <1> USE LockAssumption DEF native, shadow, Over
  <1>0. \/ /\ owning_thread_ = t
           /\ ResetMark(t) /\ Goto(t, "unlock") /\ UNCHANGED crashed
        \/ /\ owning_thread_ # t
           /\ crashed' = TRUE /\ UNCHANGED <<shadow, pc>>
    BY CheckHeldExact DEF Release
  <1>1. TypeOK'
    <2>1. /\ owning_thread_' \in Threads \cup {NoThread}
          /\ visible' \in [Threads -> SUBSET (Threads \cup {NoThread})]
      BY <1>0, SetOwnerType DEF ResetMark, IInv, TypeOK
    <2>2. pc' \in [Threads -> Labels] /\ crashed' \in BOOLEAN
      BY <1>0 DEF IInv, TypeOK, Labels, Goto
    <2> QED
      BY <2>1, <2>2 DEF IInv, TypeOK, Release, Calls
  <1>2. Ownership'
    BY <1>0 DEF IInv, TypeOK, Ownership, DepthInv, CallerInv, Release, Calls, ResetMark,
       SetOwner, At, Goto
  <1>3. DepthInv'
    BY <1>0 DEF IInv, TypeOK, Ownership, DepthInv, CallerInv, Release, Calls, ResetMark,
       SetOwner, At, Goto
  <1>4. CallerInv'
    BY <1>0 DEF IInv, TypeOK, Ownership, DepthInv, CallerInv, Release, Calls, ResetMark,
       SetOwner, At, Goto
  <1>5. QueueInv'
    BY <1>0 DEF IInv, TypeOK, QueueInv, Release, Calls, ResetMark, SetOwner, At, Goto
  <1>6. NoFalseAlarm'
    BY <1>0 DEF IInv, TypeOK, Ownership, CallerInv, NoFalseAlarm, Release, Calls, ResetMark,
       SetOwner, At, Goto
  <1>7. VisibleInv'
    <2>1. CASE owning_thread_ = t
      BY <1>0, <2>1, SetOwnerVisible DEF Release, ResetMark, IInv, Ownership
    <2>2. CASE owning_thread_ # t
      BY <1>0, <2>2 DEF Release, IInv, VisibleInv
    <2> QED
      BY <2>1, <2>2
  <1> QED
    BY <1>1, <1>2, <1>3, <1>4, <1>5, <1>6, <1>7 DEF IInv

LEMMA UnlockKeeps ==
  ASSUME NEW t \in Threads, IInv, Unlock(t)
  PROVE  IInv'
  <1> USE LockAssumption DEF native, shadow, Over
  <1>1. TypeOK'
    BY DEF IInv, TypeOK, Labels, Ownership, DepthInv, Unlock, NativeUnlock, At, Goto
  <1>2. Ownership'
    BY DEF IInv, TypeOK, Ownership, DepthInv, CallerInv, Unlock, NativeUnlock, At, Goto
  <1>3. DepthInv'
    BY DEF IInv, TypeOK, Ownership, DepthInv, CallerInv, Unlock, NativeUnlock, At, Goto
  <1>4. CallerInv'
    BY DEF IInv, TypeOK, Ownership, DepthInv, CallerInv, Unlock, NativeUnlock, At, Goto
  <1>5. QueueInv'
    BY DEF IInv, TypeOK, QueueInv, Unlock, NativeUnlock, At, Goto
  <1>6. NoFalseAlarm'
    BY DEF IInv, TypeOK, Ownership, CallerInv, NoFalseAlarm, Unlock, NativeUnlock, At, Goto
  <1>7. VisibleInv'
    BY DEF IInv, VisibleInv, Unlock, NativeUnlock
  <1> QED
    BY <1>1, <1>2, <1>3, <1>4, <1>5, <1>6, <1>7 DEF IInv

LEMMA AssertAcquiredKeeps ==
  ASSUME NEW t \in Threads, IInv, AssertAcquired(t)
  PROVE  IInv'
  <1> USE LockAssumption DEF native, shadow, Over
  <1>0. crashed' = (owning_thread_ # t)
    BY ReadsOwnName DEF AssertAcquired, AssertPasses
  <1>1. TypeOK'
    BY <1>0 DEF IInv, TypeOK, Labels, AssertAcquired, Calls, At, Goto
  <1>2. Ownership'
    BY <1>0 DEF IInv, TypeOK, Ownership, DepthInv, CallerInv, AssertAcquired, Calls, At, Goto
  <1>3. DepthInv'
    BY <1>0 DEF IInv, TypeOK, Ownership, DepthInv, CallerInv, AssertAcquired, Calls, At, Goto
  <1>4. CallerInv'
    BY <1>0 DEF IInv, TypeOK, Ownership, DepthInv, CallerInv, AssertAcquired, Calls, At, Goto
  <1>5. QueueInv'
    BY <1>0 DEF IInv, TypeOK, QueueInv, AssertAcquired, Calls, At, Goto
  <1>6. NoFalseAlarm'
    BY <1>0 DEF IInv, TypeOK, Ownership, CallerInv, NoFalseAlarm, AssertAcquired, Calls, At,
       Goto
  <1>7. VisibleInv'
    BY DEF IInv, VisibleInv, AssertAcquired
  <1> QED
    BY <1>1, <1>2, <1>3, <1>4, <1>5, <1>6, <1>7 DEF IInv

LEMMA DestroyKeeps ==
  ASSUME NEW t \in Threads, IInv, Destroy(t)
  PROVE  IInv'
  <1> USE LockAssumption DEF native, shadow, Over
  <1>1. TypeOK'
    BY DEF IInv, TypeOK, Labels, Destroy, Calls, At, Goto
  <1>2. Ownership'
    BY DEF IInv, TypeOK, Ownership, DepthInv, CallerInv, Destroy, Calls, At, Goto
  <1>3. DepthInv'
    BY DEF IInv, TypeOK, Ownership, DepthInv, CallerInv, Destroy, Calls, At, Goto
  <1>4. CallerInv'
    BY DEF IInv, TypeOK, Ownership, DepthInv, CallerInv, Destroy, Calls, At, Goto
  <1>5. QueueInv'
    BY DEF IInv, TypeOK, QueueInv, Destroy, Calls, At, Goto
  <1>6. NoFalseAlarm'
    BY DEF IInv, TypeOK, Ownership, CallerInv, NoFalseAlarm, Destroy, Calls, At, Goto
  <1>7. VisibleInv'
    BY DEF IInv, VisibleInv, Destroy
  <1> QED
    BY <1>1, <1>2, <1>3, <1>4, <1>5, <1>6, <1>7 DEF IInv

LEMMA WaitKeeps ==
  ASSUME NEW t \in Threads, IInv, Wait(t)
  PROVE  IInv'
  <1> USE LockAssumption DEF native, shadow, Over
  <1>0. \/ /\ owning_thread_ = t
           /\ ResetMark(t) /\ Goto(t, "cond_wait") /\ UNCHANGED crashed
        \/ /\ owning_thread_ # t
           /\ crashed' = TRUE /\ UNCHANGED <<shadow, pc>>
    BY CheckHeldExact DEF Wait
  <1>1. TypeOK'
    <2>1. /\ owning_thread_' \in Threads \cup {NoThread}
          /\ visible' \in [Threads -> SUBSET (Threads \cup {NoThread})]
      BY <1>0, SetOwnerType DEF ResetMark, IInv, TypeOK
    <2>2. pc' \in [Threads -> Labels] /\ crashed' \in BOOLEAN
      BY <1>0 DEF IInv, TypeOK, Labels, Goto
    <2> QED
      BY <2>1, <2>2 DEF IInv, TypeOK, Wait, Calls
  <1>2. Ownership'
    BY <1>0 DEF IInv, TypeOK, Ownership, DepthInv, CallerInv, Wait, Calls, ResetMark,
       SetOwner, At, Goto
  <1>3. DepthInv'
    BY <1>0 DEF IInv, TypeOK, Ownership, DepthInv, CallerInv, Wait, Calls, ResetMark,
       SetOwner, At, Goto
  <1>4. CallerInv'
    BY <1>0 DEF IInv, TypeOK, Ownership, DepthInv, CallerInv, Wait, Calls, ResetMark,
       SetOwner, At, Goto
  <1>5. QueueInv'
    BY <1>0 DEF IInv, TypeOK, QueueInv, Wait, Calls, ResetMark, SetOwner, At, Goto
  <1>6. NoFalseAlarm'
    BY <1>0 DEF IInv, TypeOK, Ownership, CallerInv, NoFalseAlarm, Wait, Calls, ResetMark,
       SetOwner, At, Goto
  <1>7. VisibleInv'
    <2>1. CASE owning_thread_ = t
      BY <1>0, <2>1, SetOwnerVisible DEF Wait, ResetMark, IInv, Ownership
    <2>2. CASE owning_thread_ # t
      BY <1>0, <2>2 DEF Wait, IInv, VisibleInv
    <2> QED
      BY <2>1, <2>2
  <1> QED
    BY <1>1, <1>2, <1>3, <1>4, <1>5, <1>6, <1>7 DEF IInv

LEMMA SleepKeeps ==
  ASSUME NEW t \in Threads, IInv, Sleep(t)
  PROVE  IInv'
  <1> USE LockAssumption DEF native, shadow, Over
  <1>1. TypeOK'
    BY DEF IInv, TypeOK, Labels, Ownership, DepthInv, Sleep, NativeUnlock, At, Goto
  <1>2. Ownership'
    BY DEF IInv, TypeOK, Ownership, DepthInv, CallerInv, Sleep, NativeUnlock, At, Goto
  <1>3. DepthInv'
    BY DEF IInv, TypeOK, Ownership, DepthInv, CallerInv, Sleep, NativeUnlock, At, Goto
  <1>4. CallerInv'
    BY DEF IInv, TypeOK, Ownership, DepthInv, CallerInv, Sleep, NativeUnlock, At, Goto
  <1>5. QueueInv'
    BY DEF IInv, TypeOK, QueueInv, Sleep, NativeUnlock, At, Goto
  <1>6. NoFalseAlarm'
    BY DEF IInv, TypeOK, Ownership, CallerInv, NoFalseAlarm, Sleep, NativeUnlock, At, Goto
  <1>7. VisibleInv'
    BY DEF IInv, VisibleInv, Sleep, NativeUnlock
  <1> QED
    BY <1>1, <1>2, <1>3, <1>4, <1>5, <1>6, <1>7 DEF IInv

LEMMA WakeOneKeeps ==
  ASSUME IInv, ~Over, NEW i \in DOMAIN waiters, WakeOne(i)
  PROVE  IInv'
  <1> USE LockAssumption DEF native, shadow
  <1> DEFINE From(j) == IF j < i THEN j ELSE j + 1
  <1>1. /\ waiters[i] \in Threads /\ pc[waiters[i]] = "waiting"
        /\ i \in 1 .. Len(waiters)
        /\ pc' = [pc EXCEPT ![waiters[i]] = "woken"]
    BY DEF IInv, TypeOK, QueueInv, WakeOne, Goto
  <1>2. PICK u \in Threads : u = waiters[i]
    BY <1>1
  <1>3. pc[u] = "waiting" /\ pc' = [pc EXCEPT ![u] = "woken"]
    BY <1>1, <1>2
  <1>4. UNCHANGED <<recursive, holder, depth, owning_thread_, visible, holds, misused,
                    crashed, destroyed>>
    BY DEF WakeOne
  <1>5. /\ waiters' \in Seq(Threads) /\ Len(waiters') = Len(waiters) - 1
        /\ \A j \in 1 .. Len(waiters') :
             /\ waiters'[j] = waiters[From(j)]
             /\ From(j) \in 1 .. Len(waiters) /\ From(j) # i
    <2>1. waiters' = [j \in 1 .. Len(waiters) - 1 |-> waiters[From(j)]]
      BY DEF WakeOne
    <2>2. \A j \in 1 .. Len(waiters) - 1 : From(j) \in 1 .. Len(waiters) /\ From(j) # i
      BY <1>1
    <2>3. waiters \in Seq(Threads)
      BY DEF IInv, TypeOK
    <2>4. \A j \in 1 .. Len(waiters) - 1 : waiters[From(j)] \in Threads
      BY <2>2, <2>3
    <2>5. Len(waiters) - 1 \in Nat
      BY <1>1, <2>3
    <2>6. waiters' \in Seq(Threads) /\ Len(waiters') = Len(waiters) - 1
      BY <2>1, <2>4, <2>5
    <2> QED
      BY <2>1, <2>2, <2>6
  <1>6. TypeOK'
    BY <1>3, <1>4, <1>5 DEF IInv, TypeOK, Labels
  <1>7. Ownership'
    BY <1>3, <1>4 DEF IInv, TypeOK, Ownership
  <1>8. DepthInv'
    BY <1>3, <1>4 DEF IInv, TypeOK, Ownership, DepthInv
  <1>9. CallerInv'
    BY <1>3, <1>4 DEF IInv, TypeOK, CallerInv
  <1>10. QueueInv'
    <2>0. \A j, k \in 1 .. Len(waiters) : waiters[j] = waiters[k] => j = k
      BY DEF IInv, QueueInv
    <2>1. \A j \in 1 .. Len(waiters') : waiters'[j] \in Threads /\ waiters'[j] # u
      BY <1>1, <1>2, <1>5, <2>0
    <2>2. \A j \in 1 .. Len(waiters') : pc'[waiters'[j]] = "waiting"
      BY <2>1, <1>3, <1>5 DEF IInv, TypeOK, QueueInv
    <2>3. \A j, k \in 1 .. Len(waiters') : waiters'[j] = waiters'[k] => j = k
      <3> SUFFICES ASSUME NEW j \in 1 .. Len(waiters'), NEW k \in 1 .. Len(waiters'),
                          waiters'[j] = waiters'[k]
                   PROVE  j = k
        OBVIOUS
      <3>1. waiters[From(j)] = waiters[From(k)]
        BY <1>5
      <3>2. From(j) \in 1 .. Len(waiters) /\ From(k) \in 1 .. Len(waiters)
        BY <1>5
      <3>3. From(j) = From(k)
        BY <3>1, <3>2 DEF IInv, QueueInv
      <3> QED
        BY <3>3, <1>1
    <2> QED
      BY <2>2, <2>3 DEF QueueInv
  <1>11. NoFalseAlarm'
    BY <1>4 DEF IInv, NoFalseAlarm
  <1>12. VisibleInv'
    BY <1>4 DEF IInv, VisibleInv
  <1> QED
    BY <1>6, <1>7, <1>8, <1>9, <1>10, <1>11, <1>12 DEF IInv

LEMMA BroadcastKeeps ==
  ASSUME NEW t \in Threads, IInv, Broadcast(t)
  PROVE  IInv'
  <1> USE LockAssumption DEF native, shadow
  <1>1. TypeOK'
    BY DEF IInv, TypeOK, Labels, Broadcast
  <1>2. Ownership'
    BY DEF IInv, TypeOK, Ownership, Broadcast
  <1>3. DepthInv'
    BY DEF IInv, TypeOK, Ownership, DepthInv, Broadcast
  <1>4. CallerInv'
    BY DEF IInv, TypeOK, CallerInv, Broadcast
  <1>5. QueueInv'
    BY DEF QueueInv, Broadcast
  <1>6. NoFalseAlarm'
    BY DEF IInv, NoFalseAlarm, Broadcast
  <1>7. VisibleInv'
    BY DEF IInv, VisibleInv, Broadcast
  <1> QED
    BY <1>1, <1>2, <1>3, <1>4, <1>5, <1>6, <1>7 DEF IInv

LEMMA InitHolds == Init => IInv
  <1> SUFFICES ASSUME Init PROVE IInv
    OBVIOUS
  <1>1. TypeOK
    <2>1. waiters \in Seq(Threads)
      BY DEF Init
    <2>2. pc \in [Threads -> Labels]
      BY DEF Init, Labels
    <2> QED
      BY <2>1, <2>2 DEF Init, TypeOK
  <1>2. Ownership /\ DepthInv /\ CallerInv /\ VisibleInv /\ NoFalseAlarm
    BY LockAssumption DEF Init, Ownership, DepthInv, CallerInv, VisibleInv, NoFalseAlarm
  <1>3. QueueInv
    BY DEF Init, QueueInv
  <1> QED
    BY <1>1, <1>2, <1>3 DEF IInv

LEMMA StutterKeeps == IInv /\ UNCHANGED vars => IInv'
  <1> SUFFICES ASSUME IInv, UNCHANGED vars PROVE IInv'
    OBVIOUS
  <1> QED
    BY DEF vars, native, shadow, IInv, TypeOK, Ownership, DepthInv, CallerInv, QueueInv,
       VisibleInv, NoFalseAlarm

LEMMA NextKeeps == IInv /\ [Next]_vars => IInv'
  <1> SUFFICES ASSUME IInv, [Next]_vars PROVE IInv'
    OBVIOUS
  <1>1. ASSUME NEW t \in Threads, Call(t) PROVE IInv'
    <2>1. CASE Signal(t)
      BY <2>1, WakeOneKeeps DEF Signal, At
    <2> QED
      BY <1>1, <2>1, AcquireKeeps, TryKeeps, ReleaseKeeps, AssertAcquiredKeeps, DestroyKeeps,
         WaitKeeps, BroadcastKeeps DEF Call
  <1>2. ASSUME NEW t \in Threads, Work(t) PROVE IInv'
    BY <1>2, LockReturnsKeeps, CheckUnheldAndMarkKeeps, UnlockKeeps, SleepKeeps DEF Work
  <1>3. CASE SpuriousWakeup
    BY <1>3, WakeOneKeeps DEF SpuriousWakeup
  <1>4. CASE UNCHANGED vars
    BY <1>4, StutterKeeps
  <1> QED
    BY <1>1, <1>2, <1>3, <1>4 DEF Next, Done

-----------------------------------------------------------------------------
(* The inductive invariant holds in every reachable state; its first part  *)
(* is TypeOK.                                                              *)
THEOREM Invariance == Spec => []IInv
  <1> QED
    BY InitHolds, NextKeeps, PTL DEF Spec

(* The variables have their types, among them the count of the native      *)
(* lock's owner and the labels of the calls.                               *)
THEOREM TypeCorrect == Spec => []TypeOK
  <1>1. IInv => TypeOK
    BY DEF IInv
  <1> QED
    BY <1>1, Invariance, PTL

(* No DCHECK of lock.cc fires on callers that make no mistake, for any     *)
(* number of threads.                                                      *)
THEOREM NoFalseAlarmHolds == Spec => []NoFalseAlarm
  <1>1. IInv => NoFalseAlarm
    BY DEF IInv
  <1> QED
    BY <1>1, Invariance, PTL

(* A thread has the native lock exactly when its calls entitle it to, so   *)
(* the lock and the condition variable exclude all others.                 *)
THEOREM HoldsLockHolds == Spec => []HoldsLock
  <1>1. IInv => HoldsLock
    BY LockAssumption DEF IInv, TypeOK, Ownership, CallerInv, HoldsLock
  <1> QED
    BY <1>1, Invariance, PTL

(* No mistaken Acquire, Try, Release, Wait or AssertAcquired returns,      *)
(* whichever value of owning_thread_ it reads.                             *)
THEOREM MisuseIsCaughtHolds == Spec => []MisuseIsCaught
  <1>1. IInv => MisuseIsCaught
    BY DEF IInv, CallerInv, MisuseIsCaught
  <1> QED
    BY <1>1, Invariance, PTL

(* The native lock is unlocked and waited on by its one-time holder only.  *)
THEOREM OnlyHolderUnlocksHolds == Spec => []OnlyHolderUnlocks
  <1>1. IInv => OnlyHolderUnlocks
    BY DEF IInv, Ownership, DepthInv, OnlyHolderUnlocks
  <1> QED
    BY <1>1, Invariance, PTL
=============================================================================
