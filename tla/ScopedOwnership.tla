--------------------------- MODULE ScopedOwnership ---------------------------
(***************************************************************************)
(* Objects that own a resource: ScopedGeneric (base/scoped_generic.h), as  *)
(* ScopedFD (files/scoped_file.cc) and as ScopedMachSendRight              *)
(* (apple/scoped_mach_port.cc), and ScopedTypeRef                          *)
(* (apple/scoped_typeref.h).  The resource is external: a descriptor, of   *)
(* which there is one, or a send right or a CoreFoundation object, which   *)
(* count their references.                                                 *)
(*                                                                         *)
(* An owner is used by one thread at a time, but the resources are the     *)
(* process's: while one thread is inside close, others open and close.     *)
(***************************************************************************)
EXTENDS Integers, FiniteSets

CONSTANTS
  Owners,
  Resources,      \* their names, which are used again
  InvalidValue,   \* Traits::InvalidValue()
  MaxRaw          \* bound: references to one resource that callers hold themselves

ASSUME OwnershipAssumption ==
  /\ IsFiniteSet(Owners) /\ IsFiniteSet(Resources)
  /\ InvalidValue \notin Resources /\ MaxRaw \in Nat \ {0}

VARIABLES
  traits,   \* the class of the owners
  count,    \* references to each resource; none: it does not exist
  child,    \* the object that an object refers to
  dying,    \* objects that have been destroyed but have not yet let go of their child
  raw,      \* references of callers, outside any owner
  held,     \* data_.generic or object_ of each owner
  call,     \* the call running on each owner
  crashed

vars == <<traits, count, child, dying, raw, held, call, crashed>>
resources == <<count, child, dying>>

Values == Resources \cup {InvalidValue}
Classes == {"ScopedFD", "ScopedMachSendRight", "ScopedTypeRef"}
Generic == traits # "ScopedTypeRef"
Counted == traits # "ScopedFD"

NoCall == [at |-> "idle", value |-> InvalidValue, freed |-> FALSE]

Init ==
  /\ traits \in Classes
  /\ count = [r \in Resources |-> 0]
  /\ child = [r \in Resources |-> InvalidValue]
  /\ dying = {}
  /\ raw = [r \in Resources |-> 0]
  /\ held = [o \in Owners |-> InvalidValue]
  /\ call = [o \in Owners |-> [NoCall EXCEPT !.at = "none"]]
  /\ crashed = FALSE

Idle(o) == ~crashed /\ call[o].at = "idle"
Unborn(o) == ~crashed /\ call[o].at = "none"
At(o) == call[o].at

-----------------------------------------------------------------------------
(* The callers and the system. *)

(* open, mach_port_allocate, CFCreate...: a new resource, which may take   *)
(* a reference to an object that exists.                                   *)
Create(r, c) ==
  /\ ~crashed /\ count[r] = 0 /\ r \notin dying
  /\ c \in Resources => traits = "ScopedTypeRef" /\ count[c] > 0
  /\ count' = [s \in Resources |-> count[s] + (IF s \in {r, c} THEN 1 ELSE 0)]
  /\ child' = [child EXCEPT ![r] = c]
  /\ raw' = [raw EXCEPT ![r] = 1]
  /\ UNCHANGED <<traits, dying, held, call, crashed>>

(* Another reference to a counted resource. *)
Duplicate(r) ==
  /\ ~crashed /\ Counted /\ count[r] > 0 /\ raw[r] < MaxRaw
  /\ count' = [count EXCEPT ![r] = @ + 1]
  /\ raw' = [raw EXCEPT ![r] = @ + 1]
  /\ UNCHANGED <<traits, child, dying, held, call, crashed>>

(* What losing a reference does: the last one destroys the object, which   *)
(* then lets go of its child.                                              *)
Lose(r) ==
  /\ count' = [count EXCEPT ![r] = @ - 1]
  /\ dying' = IF count[r] = 1 /\ child[r] # InvalidValue THEN dying \cup {r} ELSE dying
  /\ UNCHANGED child

RawFree(r) ==
  /\ ~crashed /\ raw[r] > 0
  /\ raw' = [raw EXCEPT ![r] = @ - 1]
  /\ Lose(r)
  /\ UNCHANGED <<traits, held, call, crashed>>

LosesChild(r) ==
  /\ ~crashed /\ r \in dying
  /\ count' = [count EXCEPT ![child[r]] = @ - 1]
  /\ dying' = (dying \ {r})
       \cup {c \in {child[r]} : count[c] = 1 /\ child[c] # InvalidValue}
  /\ child' = [child EXCEPT ![r] = InvalidValue]
  /\ UNCHANGED <<traits, raw, held, call, crashed>>

-----------------------------------------------------------------------------
(* A value is passed with its ownership (ASSUME: a reference of the        *)
(* caller's) or borrowed (RETAIN: anything alive, maybe only because this  *)
(* owner, or what it holds, refers to it).                                 *)
Passable(value, policy) ==
  \/ value = InvalidValue
  \/ policy = "ASSUME" /\ value # InvalidValue /\ raw[value] > 0
  \/ policy = "RETAIN" /\ ~Generic /\ value # InvalidValue /\ count[value] > 0

Handed(value, policy) ==
  IF policy = "ASSUME" /\ value # InvalidValue
  THEN [raw EXCEPT ![value] = @ - 1] ELSE raw

(* Mutant: reset's default policy, ASSUME, for a value that is borrowed. *)
NotRetained(value, policy) == count

Retained(value, policy) ==
  IF policy = "RETAIN" /\ value # InvalidValue
  THEN [count EXCEPT ![value] = @ + 1] ELSE count

Construct(o, value, policy) ==
  /\ Unborn(o) /\ Passable(value, policy)
  /\ count' = Retained(value, policy)
  /\ raw' = Handed(value, policy)
  /\ held' = [held EXCEPT ![o] = value]
  /\ call' = [call EXCEPT ![o] = NoCall]
  /\ UNCHANGED <<traits, child, dying, crashed>>

(* Mutant: rvalue.get(). *)
Gotten(p) == held

(* rvalue.release() *)
Released(p) == [held EXCEPT ![p] = InvalidValue]

MoveConstruct(o, p) ==
  /\ Unborn(o) /\ Idle(p)
  /\ held' = [Released(p) EXCEPT ![o] = held[p]]
  /\ call' = [call EXCEPT ![o] = NoCall]
  /\ UNCHANGED <<traits, resources, raw, crashed>>

(* reset, of an owner that holds h[o]: ScopedGeneric aborts when it is     *)
(* given what it holds, even if that is another reference to it.  The old  *)
(* value is freed next, if there is one.                                   *)
StartReset(o, value, h) ==
  \/ /\ Generic /\ h[o] # InvalidValue /\ h[o] = value
     /\ crashed' = TRUE
     /\ held' = h
     /\ UNCHANGED call
  \/ /\ h[o] # InvalidValue /\ (Generic => h[o] # value)
     /\ call' = [call EXCEPT ![o] = [at |-> "reset", value |-> value, freed |-> FALSE]]
     /\ held' = h
     /\ UNCHANGED crashed
  \/ /\ h[o] = InvalidValue
     /\ held' = [h EXCEPT ![o] = value]
     /\ UNCHANGED <<call, crashed>>

(* A caller's mistake: reset(get()), for which ScopedGeneric aborts. *)
ResetToItself(o) ==
  /\ Idle(o) /\ Generic /\ held[o] # InvalidValue
  /\ StartReset(o, held[o], held)
  /\ UNCHANGED <<traits, resources, raw>>

Reset(o, value, policy) ==
  /\ Idle(o) /\ Passable(value, policy)
  /\ count' = Retained(value, policy)
  /\ raw' = Handed(value, policy)
  /\ StartReset(o, value, held)
  /\ UNCHANGED <<traits, child, dying>>

MoveAssign(o, p) ==
  /\ Idle(o) /\ Idle(p)
  /\ StartReset(o, held[p], Released(p))
  /\ UNCHANGED <<traits, resources, raw>>

(* InitializeInto: a callee stores a reference through the pointer. *)
InitializeInto(o, value) ==
  /\ Idle(o) /\ ~Generic /\ Passable(value, "ASSUME")
  /\ \/ /\ held[o] # InvalidValue
        /\ crashed' = TRUE
        /\ UNCHANGED <<raw, held>>
     \/ /\ held[o] = InvalidValue
        /\ held' = [held EXCEPT ![o] = value]
        /\ raw' = Handed(value, "ASSUME")
        /\ UNCHANGED crashed
  /\ UNCHANGED <<traits, resources, call>>

Swap(o, p) ==
  /\ Idle(o) /\ Idle(p) /\ o # p
  /\ held' = [held EXCEPT ![o] = held[p], ![p] = held[o]]
  /\ UNCHANGED <<traits, resources, raw, call, crashed>>

Release(o) ==
  /\ Idle(o)
  /\ \/ /\ held[o] = InvalidValue
        /\ UNCHANGED raw
     \/ /\ held[o] # InvalidValue
        /\ raw[held[o]] < MaxRaw
        /\ raw' = [raw EXCEPT ![held[o]] = @ + 1]
  /\ held' = Released(o)
  /\ UNCHANGED <<traits, resources, call, crashed>>

Destroy(o) ==
  /\ Idle(o)
  /\ call' = [call EXCEPT ![o].at = IF held[o] = InvalidValue THEN "none" ELSE "destroy"]
  /\ UNCHANGED <<traits, resources, raw, held, crashed>>

-----------------------------------------------------------------------------
(* Whatever error close returns, the descriptor is closed: the system call *)
(* that Darwin is made to use never returns EINTR before (mac/             *)
(* close_nocancel.cc).                                                     *)
Errors == IF traits = "ScopedFD" THEN {"none", "EINTR", "EIO"} ELSE {"none"}

(* Mutant: HANDLE_EINTR, which calls close again. *)
HANDLE_EINTR(error) == error # "EINTR"

(* Whether the call of close is the last one. *)
IGNORE_EINTR(error) == TRUE

(* Traits::Free or Release; ScopedFD's is PCHECK(IGNORE_EINTR(close(fd)) == 0). *)
Free(o, error) ==
  /\ ~crashed /\ At(o) \in {"reset", "destroy"} /\ ~call[o].freed
  /\ Lose(held[o])
  /\ call' = [call EXCEPT ![o].freed = IGNORE_EINTR(error)]
  /\ crashed' = (error = "EIO")
  /\ UNCHANGED <<traits, raw, held>>

(* The call returns, once the object it has destroyed is gone.  Until      *)
(* then the owner's member still names what it has freed.                  *)
Return(o) ==
  /\ ~crashed /\ call[o].freed /\ held[o] \notin dying
  /\ held' = [held EXCEPT ![o] = call[o].value]
  /\ call' = [call EXCEPT ![o] =
       [NoCall EXCEPT !.at = IF At(o) = "destroy" THEN "none" ELSE "idle"]]
  /\ UNCHANGED <<traits, resources, raw, crashed>>

Crashed == crashed /\ UNCHANGED vars

Next ==
  \/ \E r \in Resources, c \in Values : Create(r, c)
  \/ \E r \in Resources : Duplicate(r) \/ RawFree(r) \/ LosesChild(r)
  \/ \E o \in Owners, value \in Values, policy \in {"ASSUME", "RETAIN"} :
       Construct(o, value, policy) \/ Reset(o, value, policy)
  \/ \E o \in Owners, value \in Values : InitializeInto(o, value)
  \/ \E o, p \in Owners : MoveConstruct(o, p) \/ MoveAssign(o, p) \/ Swap(o, p)
  \/ \E o \in Owners : ResetToItself(o) \/ Release(o) \/ Destroy(o) \/ Return(o)
  \/ \E o \in Owners : \E error \in Errors : Free(o, error)
  \/ Crashed

Spec == Init /\ [][Next]_vars

-----------------------------------------------------------------------------
(* Nothing is freed that does not exist: no count falls below zero.  And a *)
(* descriptor is never opened twice.                                       *)
TypeOK ==
  /\ traits \in Classes
  /\ count \in [Resources -> Nat]
  /\ child \in [Resources -> Values]
  /\ dying \subseteq Resources
  /\ raw \in [Resources -> 0 .. MaxRaw]
  /\ held \in [Owners -> Values]
  /\ call \in [Owners -> [at : {"none", "idle", "reset", "destroy"},
                          value : Values, freed : BOOLEAN]]
  /\ crashed \in BOOLEAN
  /\ ~Counted => \A r \in Resources : count[r] <= 1

(* What an owner has a reference to: its member, except after its Free,    *)
(* and the value a reset is about to store.                                *)
OwnersOf(r) == {o \in Owners : held[o] = r /\ At(o) # "none" /\ ~call[o].freed}
Pending(r) == {o \in Owners : At(o) = "reset" /\ call[o].value = r}
Parents(r) == {s \in Resources : child[s] = r /\ (count[s] > 0 \/ s \in dying)}

(* Every reference has one holder and every holder has its own reference:  *)
(* nothing leaks, nothing is freed twice, and what is held is alive, after *)
(* any sequence of calls, through moves of an object to itself, copies of  *)
(* what only the owner kept alive, and interrupted calls of close          *)
(* (scoped_generic.h, lines 35-90; scoped_typeref.h, lines 24-135).        *)
Balanced ==
  ~crashed => \A r \in Resources :
    count[r] = raw[r] + Cardinality(OwnersOf(r)) + Cardinality(Pending(r))
                 + Cardinality(Parents(r))

(* A call of Free takes away the owner's own reference and nobody else's:  *)
(* whoever else holds one still holds one, as when another thread opens a  *)
(* descriptor of the same number while close has been interrupted          *)
(* (scoped_file.cc, line 23; close_nocancel.cc, lines 11-15).              *)
ClosesOnlyItsOwn ==
  [][\A o \in Owners, r \in Resources :
       call'[o].freed /\ ~call[o].freed =>
         count'[r] >= raw[r] + Cardinality(OwnersOf(r) \ {o})]_vars
=============================================================================
