---------------------------- MODULE ScopedMachVM ----------------------------
(***************************************************************************)
(* ScopedMachVM (base/apple/scoped_mach_vm.{h,cc}): an object that owns a  *)
(* region of pages.  Mach deallocates pages one by one, so an object may   *)
(* be reset to a part of its region, and what it no longer covers is       *)
(* deallocated.  Addresses and sizes count pages.                          *)
(***************************************************************************)
EXTENDS Integers, FiniteSetsExt

CONSTANTS
  Regions,         \* the ScopedMachVM objects
  LastPage         \* bound: pages of the address space

VARIABLES
  region,          \* [Regions -> address_ and size_]
  allocated,       \* the pages that Mach has allocated
  callers          \* of them, those that the program looks after itself

machVars == <<region, allocated, callers>>

Addresses == 1 .. LastPage
Pages(address, size) == address .. address + size - 1
Owned(r) == Pages(region[r].address_, region[r].size_)
None == [address_ |-> 0, size_ |-> 0]

MachInit == region = [r \in Regions |-> None] /\ allocated = {} /\ callers = {}

(* vm_allocate of a region, for the program. *)
vm_allocate(address, size) ==
  /\ Pages(address, size) \subseteq Addresses \ allocated
  /\ allocated' = allocated \cup Pages(address, size)
  /\ callers' = callers \cup Pages(address, size)
  /\ UNCHANGED region

(* Mutant: all of the old region is deallocated. *)
OldPages(address_, size_, address, size) == IF size_ > 0 THEN Pages(address_, size_) ELSE {}

(* What reset deallocates of the region it had. *)
Deallocated(address_, size_, address, size) ==
  LET below == IF address_ < address
                 THEN Pages(address_, Min({size_, address - address_})) ELSE {}
      deallocate_start == Max({address_, address + size})
      above == IF address_ + size_ > address + size
                 THEN deallocate_start .. address_ + size_ - 1 ELSE {}
  IN  IF size_ > 0 THEN below \cup above ELSE {}

(* reset to nothing, or to pages that the program has or the object has.   *)
reset(r, address, size) ==
  /\ Pages(address, size) \subseteq callers \cup Owned(r)
  /\ allocated' = allocated \ Deallocated(region[r].address_, region[r].size_, address, size)
  /\ region' = [region EXCEPT ![r] = [address_ |-> address, size_ |-> size]]
  /\ callers' = callers \ Pages(address, size)

(* release: the program looks after the pages. *)
release(r) ==
  /\ region' = [region EXCEPT ![r] = None]
  /\ callers' = callers \cup Owned(r)
  /\ UNCHANGED allocated

swap(r, that) ==
  /\ region' = [region EXCEPT ![r] = region[that], ![that] = region[r]]
  /\ UNCHANGED <<allocated, callers>>

(* The destructor; a new object, of no region, takes the place. *)
Destruct(r) ==
  /\ allocated' = IF region[r].size_ > 0 THEN allocated \ Owned(r) ELSE allocated
  /\ region' = [region EXCEPT ![r] = None]
  /\ UNCHANGED callers

MachNext ==
  \/ \E address \in Addresses, size \in 1 .. LastPage : vm_allocate(address, size)
  \/ \E r \in Regions :
       \/ \E address \in Addresses \cup {0}, size \in 0 .. LastPage : reset(r, address, size)
       \/ release(r) \/ Destruct(r)
       \/ \E that \in Regions : swap(r, that)

MachSpec == MachInit /\ [][MachNext]_machVars

-----------------------------------------------------------------------------
MachTypeOK ==
  /\ region \in [Regions -> [address_ : Nat, size_ : Nat]]
  /\ allocated \subseteq Addresses
  /\ callers \subseteq Addresses

(* Every allocated page has one owner, an object or the program, and every *)
(* owned page is allocated: reset neither leaks a page nor deallocates one *)
(* that is still owned, wherever the new region lies                       *)
(* (scoped_mach_vm.cc, lines 10-29).                                       *)
PagesOwned ==
  /\ allocated = callers \cup UNION {Owned(r) : r \in Regions}
  /\ \A r \in Regions :
       /\ Owned(r) \cap callers = {}
       /\ \A other \in Regions \ {r} : Owned(r) \cap Owned(other) = {}
=============================================================================
