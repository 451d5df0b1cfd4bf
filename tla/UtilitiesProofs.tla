--------------------------- MODULE UtilitiesProofs ----------------------------
(***************************************************************************)
(* The parts of base that a single caller uses: regions and blocks of      *)
(* memory, system calls, formatting, and what a behaviour of Utilities     *)
(* shows of each part, because it is one of that part too.                 *)
(***************************************************************************)
EXTENDS Utilities, StringsProofs, FiniteSetTheorems, TLAPS

-----------------------------------------------------------------------------
(* Pages and blocks of memory: none is leaked and none is freed while it   *)
(* is owned, for any number of objects and any address space.              *)

LEMMA MinOfTwo ==
  ASSUME NEW a \in Int, NEW b \in Int
  PROVE  Min({a, b}) = IF a <= b THEN a ELSE b
  BY DEF Min

LEMMA MaxOfTwo ==
  ASSUME NEW a \in Int, NEW b \in Int
  PROVE  Max({a, b}) = IF a >= b THEN a ELSE b
  BY DEF Max

(* reset deallocates the pages of the old region that the new one has not, *)
(* however the two lie (scoped_mach_vm.cc, lines 10-29).                   *)
THEOREM ResetFreesTheRest ==
  ASSUME NEW address_ \in Nat, NEW size_ \in Nat, NEW address \in Nat, NEW size \in Nat
  PROVE  Deallocated(address_, size_, address, size)
           = Pages(address_, size_) \ Pages(address, size)
  <1> DEFINE lower == Min({size_, address - address_})
             start == Max({address_, address + size})
  <1>1. lower = IF size_ <= address - address_ THEN size_ ELSE address - address_
    BY MinOfTwo
  <1>2. start = IF address_ >= address + size THEN address_ ELSE address + size
    BY MaxOfTwo
  <1>3. Deallocated(address_, size_, address, size) =
          IF size_ > 0
            THEN (IF address_ < address THEN Pages(address_, lower) ELSE {})
                   \cup (IF address_ + size_ > address + size
                           THEN start .. address_ + size_ - 1 ELSE {})
            ELSE {}
    BY DEF Deallocated
  <1> HIDE DEF lower, start
  <1> QED
    BY <1>1, <1>2, <1>3 DEF Pages

-----------------------------------------------------------------------------
PagesInv == MachTypeOK /\ PagesOwned

(* A page has one owner at most: what one region takes, no other has. *)
LEMMA PageOwners ==
  ASSUME PagesInv
  PROVE  /\ \A page : page \in allocated <=> (page \in callers \/ \E r \in Regions : page \in Owned(r))
         /\ \A r \in Regions : \A page \in Owned(r) :
              /\ page \notin callers
              /\ \A other \in Regions : page \in Owned(other) => other = r
  BY DEF PagesInv, PagesOwned

(* What is to be shown of the next state, page by page. *)
LEMMA OwnedPageByPage ==
  ASSUME \A page : page \in allocated' <=> (page \in callers' \/ \E r \in Regions : page \in Owned(r)'),
         \A r \in Regions : \A page \in Owned(r)' :
           /\ page \notin callers'
           /\ \A other \in Regions : page \in Owned(other)' => other = r
  PROVE  PagesOwned'
  BY DEF PagesOwned

LEMMA AllocateKeeps ==
  ASSUME PagesInv, NEW address \in Addresses, NEW size \in 1 .. LastPage, vm_allocate(address, size)
  PROVE  PagesInv'
  <1>1. /\ Pages(address, size) \subseteq Addresses \ allocated
        /\ allocated' = allocated \cup Pages(address, size)
        /\ callers' = callers \cup Pages(address, size)
        /\ region' = region
    BY DEF vm_allocate
  <1>2. \A r \in Regions : Owned(r)' = Owned(r)
    BY <1>1 DEF Owned
  <1>3. PagesOwned'
    BY <1>1, <1>2, PageOwners, OwnedPageByPage
  <1> QED
    BY <1>1, <1>3 DEF PagesInv, MachTypeOK

LEMMA ResetKeeps ==
  ASSUME PagesInv, NEW r \in Regions,
         NEW address \in Addresses \cup {0}, NEW size \in 0 .. LastPage,
         reset(r, address, size)
  PROVE  PagesInv'
  <1> DEFINE new == Pages(address, size)
  <1>1. address \in Nat /\ size \in Nat /\ region[r].address_ \in Nat /\ region[r].size_ \in Nat
    BY DEF Addresses, PagesInv, MachTypeOK
  <1>2. /\ new \subseteq callers \cup Owned(r)
        /\ allocated' = allocated \ (Owned(r) \ new)
        /\ callers' = callers \ new
    BY <1>1, ResetFreesTheRest DEF reset, Owned
  <1>3. /\ region' = [region EXCEPT ![r] = [address_ |-> address, size_ |-> size]]
        /\ region \in [Regions -> [address_ : Nat, size_ : Nat]]
    BY DEF reset, PagesInv, MachTypeOK
  <1>4. /\ Owned(r)' = new
        /\ \A other \in Regions \ {r} : Owned(other)' = Owned(other)
    BY <1>3 DEF Owned
  <1>5. MachTypeOK'
    BY <1>1, <1>2, <1>3 DEF PagesInv, MachTypeOK
  <1> HIDE DEF new
  <1>6. PagesOwned'
    <2>1. ASSUME NEW page
          PROVE  page \in allocated' <=> (page \in callers' \/ \E o \in Regions : page \in Owned(o)')
      BY <1>2, <1>4, PageOwners
    <2>2. ASSUME NEW o \in Regions, NEW page \in Owned(o)'
          PROVE  /\ page \notin callers'
                 /\ \A other \in Regions : page \in Owned(other)' => other = o
      BY <1>2, <1>4, PageOwners
    <2> QED
      BY <2>1, <2>2, OwnedPageByPage
  <1> QED
    BY <1>5, <1>6 DEF PagesInv

(* An object gives up its region, to the program or to nobody. *)
LEMMA GivenUp ==
  ASSUME PagesInv, NEW r \in Regions, region' = [region EXCEPT ![r] = None]
  PROVE  /\ region' \in [Regions -> [address_ : Nat, size_ : Nat]]
         /\ Owned(r)' = {}
         /\ \A other \in Regions \ {r} : Owned(other)' = Owned(other)
  BY DEF PagesInv, MachTypeOK, Owned, Pages, None

LEMMA ReleaseKeeps ==
  ASSUME PagesInv, NEW r \in Regions, release(r)
  PROVE  PagesInv'
  <1>1. /\ callers' = callers \cup Owned(r) /\ allocated' = allocated
        /\ region' = [region EXCEPT ![r] = None]
    BY DEF release
  <1>2. Owned(r) \subseteq allocated
    BY PageOwners
  <1>3. PagesOwned'
    <2>1. Owned(r)' = {} /\ \A other \in Regions \ {r} : Owned(other)' = Owned(other)
      BY <1>1, GivenUp
    <2>2. ASSUME NEW page
          PROVE  page \in allocated' <=> (page \in callers' \/ \E o \in Regions : page \in Owned(o)')
      BY <1>1, <2>1, PageOwners
    <2>3. ASSUME NEW o \in Regions, NEW page \in Owned(o)'
          PROVE  /\ page \notin callers'
                 /\ \A other \in Regions : page \in Owned(other)' => other = o
      BY <1>1, <2>1, PageOwners
    <2> QED
      BY <2>2, <2>3, OwnedPageByPage
  <1> QED
    BY <1>1, <1>2, <1>3, GivenUp DEF PagesInv, MachTypeOK

LEMMA DestructKeeps ==
  ASSUME PagesInv, NEW r \in Regions, Destruct(r)
  PROVE  PagesInv'
  <1>1. callers' = callers /\ region' = [region EXCEPT ![r] = None]
    BY DEF Destruct
  <1>2. allocated' = allocated \ Owned(r)
    <2>1. CASE region[r].size_ > 0
      BY <2>1 DEF Destruct
    <2>2. CASE ~(region[r].size_ > 0)
      <3>1. Owned(r) = {}
        BY <2>2 DEF PagesInv, MachTypeOK, Owned, Pages
      <3> QED
        BY <2>2, <3>1 DEF Destruct
    <2> QED
      BY <2>1, <2>2
  <1>3. PagesOwned'
    <2>1. Owned(r)' = {} /\ \A other \in Regions \ {r} : Owned(other)' = Owned(other)
      BY <1>1, GivenUp
    <2>2. ASSUME NEW page
          PROVE  page \in allocated' <=> (page \in callers' \/ \E o \in Regions : page \in Owned(o)')
      BY <1>1, <1>2, <2>1, PageOwners
    <2>3. ASSUME NEW o \in Regions, NEW page \in Owned(o)'
          PROVE  /\ page \notin callers'
                 /\ \A other \in Regions : page \in Owned(other)' => other = o
      BY <1>1, <1>2, <2>1, PageOwners
    <2> QED
      BY <2>2, <2>3, OwnedPageByPage
  <1> QED
    BY <1>1, <1>2, <1>3, GivenUp DEF PagesInv, MachTypeOK

LEMMA SwapKeeps ==
  ASSUME PagesInv, NEW r \in Regions, NEW that \in Regions, swap(r, that)
  PROVE  PagesInv'
  <1>1. /\ region' = [region EXCEPT ![r] = region[that], ![that] = region[r]]
        /\ allocated' = allocated /\ callers' = callers
        /\ region \in [Regions -> [address_ : Nat, size_ : Nat]]
    BY DEF swap, PagesInv, MachTypeOK
  <1>2. /\ Owned(r)' = Owned(that) /\ Owned(that)' = Owned(r)
        /\ \A other \in Regions \ {r, that} : Owned(other)' = Owned(other)
    BY <1>1 DEF Owned
  <1>3. PagesOwned'
    BY <1>1, <1>2, PageOwners, OwnedPageByPage
  <1>4. MachTypeOK'
    BY <1>1 DEF PagesInv, MachTypeOK
  <1> QED
    BY <1>3, <1>4 DEF PagesInv

-----------------------------------------------------------------------------
LEMMA PagesInvariant == MachSpec => []PagesInv
  <1>1. MachInit => PagesInv
    BY DEF MachInit, PagesInv, MachTypeOK, PagesOwned, Owned, Pages, None, Addresses
  <1>2. ASSUME PagesInv, [MachNext]_machVars
        PROVE  PagesInv'
    <2>1. CASE UNCHANGED machVars
      BY <1>2, <2>1 DEF machVars, PagesInv, MachTypeOK, PagesOwned, Owned
    <2>2. CASE MachNext
      BY <1>2, <2>2, AllocateKeeps, ResetKeeps, ReleaseKeeps, DestructKeeps, SwapKeeps
         DEF MachNext
    <2> QED
      BY <1>2, <2>1, <2>2
  <1> QED
    BY <1>1, <1>2, PTL DEF MachSpec

(* Every allocated page has one owner and every owned page is allocated,   *)
(* through every reset, release, swap and destruction.                     *)
THEOREM PagesAlwaysOwned == MachSpec => []PagesOwned
  <1>1. PagesInv => PagesOwned
    BY DEF PagesInv
  <1> QED
    BY PagesInvariant, <1>1, PTL

-----------------------------------------------------------------------------
(* The blocks lie behind each other, and none at the null pointer. *)
LEMMA AddressFacts ==
  ASSUME NEW b \in Blocks
  PROVE  /\ Address(b) \in Nat /\ Address(b) > nullptr
         /\ \A c \in Blocks : b < c => Address(b) + SizeModulus <= Address(c)
         /\ \A c \in Blocks : b < c \/ c < b \/ b = c
  <1> DEFINE M == SizeModulus
  <1>1. b \in Nat \ {0} /\ M \in Nat /\ M > 1 /\ Blocks \subseteq Nat \ {0}
    BY ContainersAssumption
  <1>2. b * M \in Nat /\ b * M > 0
    <2> HIDE DEF M
    <2> QED BY <1>1
  <1>3. ASSUME NEW c \in Blocks, b < c
        PROVE  b * M + M <= c * M
    <2>1. c \in Nat /\ c - b - 1 \in Nat
      BY <1>1, <1>3
    <2> HIDE DEF M
    <2>2. (c - b - 1) * M >= 0
      BY <1>1, <2>1
    <2>3. (c - b - 1) * M = c * M - b * M - M
      BY <1>1, <2>1
    <2>4. c * M \in Int /\ b * M \in Int
      BY <1>1, <2>1
    <2> DEFINE cM == c * M
               bM == b * M
    <2>5. bM + M <= cM
      <3>1. cM - bM - M >= 0 /\ cM \in Int /\ bM \in Int
        BY <2>2, <2>3, <2>4
      <3> HIDE DEF cM, bM
      <3> QED BY <1>1, <3>1
    <2> QED
      BY <2>5
  <1> QED
    BY <1>1, <1>2, <1>3 DEF Address, nullptr

LEMMA AddressesDiffer ==
  ASSUME NEW b \in Blocks, NEW c \in Blocks, Address(b) = Address(c)
  PROVE  b = c
  BY AddressFacts, ContainersAssumption

LEMMA SizeFacts ==
  /\ SizeModulus \in Nat /\ SizeModulus > 1 /\ MaxElements \in Nat
  /\ 2 * MaxElements < SizeModulus - 1
  /\ \A n : n \in Sizes <=> n \in Nat /\ n < SizeModulus
  /\ dynamic_extent \in Sizes /\ dynamic_extent = SizeModulus - 1
  /\ 0 .. MaxElements \subseteq Sizes
  BY ContainersAssumption DEF Sizes, dynamic_extent

-----------------------------------------------------------------------------
(* What the variables of the views are, whatever memory they lie in. *)
Spans == [data : Int, size : Nat]
Iterators == [start : Int, current : Int, end : Int]

ShapeInv ==
  /\ elements \in [Blocks -> Nat]
  /\ array \in [Arrays -> [data_ : Int, size_ : Nat]]
  /\ view \in Spans
  /\ {it, mark} \subseteq Iterators

(* An array has nothing or an allocated block, and no more of it than      *)
(* there is; so has each leaked pointer; no block is owned twice, and each *)
(* allocated one is owned.                                                 *)
ArrayInv ==
  /\ \A a \in Arrays : \/ array[a] = NoData
                       \/ \E b \in Blocks : /\ array[a].data_ = Address(b)
                                            /\ 0 < array[a].size_ /\ array[a].size_ <= elements[b]
  /\ \A ptr \in leaked : \E b \in Blocks : ptr = Address(b) /\ elements[b] > 0
  /\ \A a \in Arrays : array[a].data_ \notin leaked
  /\ \A a, c \in Arrays : array[a].data_ = array[c].data_ => a = c \/ array[a].data_ = nullptr
  /\ \A b \in Blocks : elements[b] > 0 =>
       Address(b) \in leaked \/ \E a \in Arrays : array[a].data_ = Address(b)

BlocksInv == ShapeInv /\ ArrayInv

LEMMA OwnersCounted ==
  ASSUME BlocksInv
  PROVE  BlocksOwned
  <1> USE DEF BlocksInv, ShapeInv
  <1> DEFINE Owners(b) == {a \in Arrays : array[a].data_ = Address(b)} \cup ({Address(b)} \cap leaked)
  <1>1. ASSUME NEW b \in Blocks
        PROVE  Cardinality(Owners(b)) = IF b \in Allocated THEN 1 ELSE 0
    <2>1. Address(b) # nullptr
      BY AddressFacts DEF nullptr
    <2>2. CASE b \in Allocated
      <3>1. elements[b] > 0
        BY <2>2 DEF Allocated
      <3>2. CASE Address(b) \in leaked
        <4>1. Owners(b) = {Address(b)}
          BY <3>2 DEF ArrayInv
        <4> QED
          BY <2>2, <4>1, FS_Singleton
      <3>3. CASE Address(b) \notin leaked
        <4>1. PICK a \in Arrays : array[a].data_ = Address(b)
          BY <3>1, <3>3 DEF ArrayInv
        <4>2. Owners(b) = {a}
          BY <2>1, <3>3, <4>1 DEF ArrayInv
        <4> QED
          BY <2>2, <4>2, FS_Singleton
      <3> QED
        BY <3>2, <3>3
    <2>3. CASE b \notin Allocated
      <3>1. ~ elements[b] > 0
        BY <2>3 DEF Allocated
      <3>2. Address(b) \notin leaked
        BY <3>1, AddressesDiffer DEF ArrayInv
      <3>3. ASSUME NEW a \in Arrays, array[a].data_ = Address(b)
            PROVE  FALSE
        <4>1. array[a] # NoData
          BY <2>1, <3>3 DEF NoData
        <4>2. PICK c \in Blocks : array[a].data_ = Address(c) /\ 0 < array[a].size_ /\ array[a].size_ <= elements[c]
          BY <4>1 DEF ArrayInv
        <4>3. c = b
          BY <3>3, <4>2, AddressesDiffer
        <4> QED
          BY <3>1, <4>2, <4>3
      <3>4. Owners(b) = {}
        BY <3>2, <3>3
      <3> QED
        BY <2>3, <3>4, FS_EmptySet
    <2> QED
      BY <2>2, <2>3
  <1>2. ASSUME NEW a \in Arrays
        PROVE  Within(as_span(a), elements)
    <2>1. CASE array[a] = NoData
      BY <2>1 DEF Within, as_span, Span, NoData
    <2>2. CASE \E b \in Blocks : /\ array[a].data_ = Address(b)
                                 /\ 0 < array[a].size_ /\ array[a].size_ <= elements[b]
      <3>1. PICK b \in Blocks : array[a].data_ = Address(b) /\ array[a].size_ <= elements[b]
        BY <2>2
      <3>2. /\ Address(b) \in Int /\ array[a].size_ \in Nat /\ elements[b] \in Nat
            /\ as_span(a) = [data |-> Address(b), size |-> array[a].size_]
        BY <3>1, AddressFacts DEF as_span, Span
      <3>3. Cells(Address(b), array[a].size_) \subseteq Cells(Address(b), elements[b])
        BY <3>1, <3>2 DEF Cells
      <3> QED
        BY <3>2, <3>3 DEF Within
    <2> QED
      BY <2>1, <2>2 DEF ArrayInv
  <1> QED
    BY <1>1, <1>2 DEF BlocksOwned

-----------------------------------------------------------------------------
(* The parts of a span are spans, and the moves of an iterator iterators. *)
LEMMA PartsAreSpans ==
  ASSUME NEW s \in Spans, NEW n \in Sizes, NEW m \in Sizes
  PROVE  /\ first(s, n) \subseteq Spans /\ last(s, n) \subseteq Spans
         /\ subspan(s, n, m) \subseteq Spans
  <1>1. /\ s.data \in Int /\ s.size \in Nat /\ n \in Nat /\ m \in Nat
        /\ Minus(s.size, n) \in Nat
    <2>1. s.size \in Nat /\ s.data \in Int /\ n \in Nat /\ m \in Nat
      BY SizeFacts DEF Spans
    <2>2. (s.size - n) % SizeModulus \in 0 .. SizeModulus - 1
      BY <2>1, SizeFacts
    <2> QED
      BY <2>1, <2>2 DEF Minus
  <1>2. \A d \in Int, z \in Nat : Span(d, z) \in Spans
    BY DEF Span, Spans
  <1>3. first(s, n) \subseteq {Span(s.data, n)}
    BY DEF first, Checked, Stopped
  <1>4. last(s, n) \subseteq {Span(s.data + Minus(s.size, n), n)}
    BY DEF last, Checked, Stopped
  <1>5. subspan(s, n, m) \subseteq {Span(s.data + n, m), Span(s.data + n, Minus(s.size, n))}
    BY DEF subspan, Checked, Stopped
  <1> QED
    BY <1>1, <1>2, <1>3, <1>4, <1>5

LEMMA ViewsAreSpans ==
  ASSUME NEW s \in Spans, Parts(s)
  PROVE  view' \in Spans
  <1>1. PICK n \in Sizes :
          \/ Views(first(s, n)) \/ Views(last(s, n))
          \/ \E m \in Sizes : Views(subspan(s, n, m))
          \/ \E halves \in split_at(s, n) : Views({halves[1], halves[2]})
    BY DEF Parts
  <1>2. \A halves \in split_at(s, n) : {halves[1], halves[2]} \subseteq Spans
    BY PartsAreSpans, SizeFacts DEF split_at
  <1> QED
    BY <1>1, <1>2, PartsAreSpans DEF Views

LEMMA IteratorsMove ==
  ASSUME NEW i \in Iterators, NEW n \in Int
  PROVE  /\ Increment(i) \subseteq Iterators /\ Decrement(i) \subseteq Iterators
         /\ Add(i, n) \subseteq Iterators /\ Subtract(i, n) \subseteq Iterators
  <1>1. \A k \in Int : [i EXCEPT !.current = k] \in Iterators
    BY DEF Iterators
  <1>2. i.current \in Int
    BY DEF Iterators
  <1>3. /\ Increment(i) \subseteq {[i EXCEPT !.current = i.current + 1]}
        /\ Decrement(i) \subseteq {[i EXCEPT !.current = i.current - 1]}
        /\ Add(i, n) \subseteq {[i EXCEPT !.current = i.current + n]}
        /\ Subtract(i, n) \subseteq {[i EXCEPT !.current = i.current - n]}
    BY DEF Increment, Decrement, Add, Subtract, Checked, Stopped
  <1> QED
    BY <1>1, <1>2, <1>3

LEMMA EndsAreIterators ==
  ASSUME NEW s \in Spans
  PROVE  begin(s) \subseteq Iterators /\ end_(s) \subseteq Iterators
  <1>1. s.data \in Int /\ s.size \in Nat
    BY DEF Spans
  <1>2. /\ begin(s) \subseteq {[start |-> s.data, current |-> s.data, end |-> s.data + s.size]}
        /\ end_(s) \subseteq {[start |-> s.data, current |-> s.data + s.size, end |-> s.data + s.size]}
    BY DEF begin, end_, Iterator, Checked, Stopped
  <1> QED
    BY <1>1, <1>2 DEF Iterators

LEMMA PairsAreSpans ==
  ASSUME NEW from \in Iterators, NEW upto \in Iterators
  PROVE  SpanOfPair(from, upto) \subseteq Spans
  <1>1. from.current \in Int /\ upto.current \in Int
    BY DEF Iterators
  <1>2. (upto.current - from.current) % SizeModulus \in 0 .. SizeModulus - 1
    BY <1>1, SizeFacts
  <1>3. SpanOfPair(from, upto) \subseteq {Span(from.current, Minus(upto.current, from.current))}
    BY DEF SpanOfPair, Checked, Stopped
  <1> QED
    BY <1>1, <1>2, <1>3, SizeFacts DEF Minus, Span, Spans

LEMMA Forgotten ==
  ASSUME ShapeInv, Forget
  PROVE  view' \in Spans /\ {it', mark'} \subseteq Iterators
  <1>1. EmptySpan \in Spans /\ NullIterator \in Iterators
    BY DEF EmptySpan, Span, Spans, NullIterator, Iterators, nullptr
  <1>2. view' \in {view, EmptySpan} /\ it' \in {it, NullIterator} /\ mark' \in {mark, NullIterator}
    BY DEF Forget
  <1> QED
    BY <1>1, <1>2 DEF ShapeInv

LEMMA ArraysAreSpans ==
  ASSUME ShapeInv, NEW a \in Arrays
  PROVE  as_span(a) \in Spans
  BY DEF ShapeInv, as_span, Span, Spans

-----------------------------------------------------------------------------
(* Steps that only look. *)
LEMMA LookingPreserves ==
  ASSUME BlocksInv, UNCHANGED <<elements, array, leaked>>,
         view' \in Spans, {it', mark'} \subseteq Iterators
  PROVE  BlocksInv'
  <1>1. ShapeInv'
    BY DEF BlocksInv, ShapeInv
  <1>2. ArrayInv'
    BY DEF BlocksInv, ArrayInv
  <1> QED
    BY <1>1, <1>2 DEF BlocksInv

LEMMA SpanPreserves ==
  ASSUME BlocksInv, SpanStep \/ FixedSpanStep
  PROVE  BlocksInv'
  <1>1. view \in Spans /\ {it, mark} \subseteq Iterators
    BY DEF BlocksInv, ShapeInv
  <1>2. ASSUME NEW s \in Spans, Parts(s)
        PROVE  BlocksInv'
    <2>1. UNCHANGED <<elements, array, leaked, it, mark>>
      BY <1>2 DEF Parts, Views
    <2> QED
      BY <1>1, <1>2, <2>1, ViewsAreSpans, LookingPreserves
  <1>3. CASE SpanStep
    BY <1>1, <1>2, <1>3 DEF SpanStep
  <1>4. CASE FixedSpanStep
    <2>1. PICK N \in Sizes : \E s \in FixedSpan(N, view) : Parts(s)
      BY <1>4 DEF FixedSpanStep
    <2>2. FixedSpan(N, view) \subseteq {Span(view.data, N)} /\ Span(view.data, N) \in Spans
      BY <1>1, SizeFacts DEF FixedSpan, Checked, Stopped, Span, Spans
    <2> QED
      BY <1>2, <2>1, <2>2
  <1> QED
    BY <1>3, <1>4

LEMMA IteratorPreserves ==
  ASSUME BlocksInv, IteratorStep
  PROVE  BlocksInv'
  <1>1. view \in Spans /\ it \in Iterators /\ mark \in Iterators
    BY DEF BlocksInv, ShapeInv
  <1>2. NullIterator \in Iterators
    BY DEF NullIterator, Iterators, nullptr
  <1>3. UNCHANGED <<elements, array, leaked>>
    BY DEF IteratorStep, Points, Views
  <1>4. /\ view' \in SpanOfPair(mark, it) \cup {view}
        /\ mark' \in {mark, it, NullIterator}
        /\ \/ it' = it
           \/ it' \in begin(view) \cup end_(view) \cup Increment(it) \cup Decrement(it)
           \/ \E n \in Differences : it' \in Add(it, n) \cup Subtract(it, n)
    BY DEF IteratorStep, Points, Views
  <1>5. Differences \subseteq Int
    BY SizeFacts DEF Differences
  <1>6. it' \in Iterators
    BY <1>1, <1>4, <1>5, EndsAreIterators, IteratorsMove
  <1>7. view' \in Spans
    BY <1>1, <1>4, PairsAreSpans
  <1> QED
    BY <1>1, <1>2, <1>3, <1>4, <1>6, <1>7, LookingPreserves

-----------------------------------------------------------------------------
(* Steps that change who owns what. *)
LEMMA DeletedFacts ==
  ASSUME ShapeInv, NEW pointer
  PROVE  /\ Deleted(pointer) \in [Blocks -> Nat]
         /\ \A b \in Blocks :
              Deleted(pointer)[b] = IF Address(b) = pointer THEN 0 ELSE elements[b]
  BY DEF ShapeInv, Deleted

(* An array that has no block, or one, and whose it then is. *)
LEMMA OwnerFacts ==
  ASSUME BlocksInv, NEW a \in Arrays
  PROVE  /\ array[a] \in [data_ : Int, size_ : Nat]
         /\ array[a].data_ \notin leaked
         /\ array[a].data_ = nullptr => array[a] = NoData
         /\ array[a].data_ # nullptr =>
              \E b \in Blocks : /\ array[a].data_ = Address(b)
                                /\ 0 < array[a].size_ /\ array[a].size_ <= elements[b]
  <1>1. \A b \in Blocks : Address(b) # nullptr
    BY AddressFacts DEF nullptr
  <1> QED
    BY <1>1 DEF BlocksInv, ShapeInv, ArrayInv, NoData

(* What is put into an array in the place of what it had, if that is no    *)
(* one's; and what it had is deleted.                                      *)
LEMMA AssignmentPreserves ==
  ASSUME BlocksInv, NEW a \in Arrays, NEW owned \in [data_ : Int, size_ : Nat],
         array' = [array EXCEPT ![a] = owned],
         elements' \in [Blocks -> Nat],
         leaked' \subseteq leaked, owned.data_ \notin leaked',
         \A c \in Arrays : array[c].data_ = owned.data_ => owned.data_ = nullptr,
         \A b \in Blocks : Address(b) # owned.data_ =>
           elements'[b] = IF Address(b) = array[a].data_ THEN 0 ELSE elements[b],
         \/ owned = NoData
         \/ \E b \in Blocks : /\ owned.data_ = Address(b)
                              /\ 0 < owned.size_ /\ owned.size_ <= elements'[b],
         \A ptr \in leaked : ptr \in leaked' \/ ptr = owned.data_
  PROVE  /\ ArrayInv'
         /\ array' \in [Arrays -> [data_ : Int, size_ : Nat]]
  <1>1. array \in [Arrays -> [data_ : Int, size_ : Nat]] /\ elements \in [Blocks -> Nat]
    BY DEF BlocksInv, ShapeInv
  <1>2. array'[a] = owned /\ \A c \in Arrays \ {a} : array'[c] = array[c]
    BY <1>1
  <1>3. \A b \in Blocks : Address(b) # nullptr
    BY AddressFacts DEF nullptr
  <1>4. NoData.data_ = nullptr
    BY DEF NoData
  <1>5. ASSUME NEW c \in Arrays
        PROVE  \/ array'[c] = NoData
               \/ \E b \in Blocks : /\ array'[c].data_ = Address(b)
                                    /\ 0 < array'[c].size_ /\ array'[c].size_ <= elements'[b]
    <2>1. CASE c = a
      BY <1>2, <2>1
    <2>2. CASE c # a /\ array[c] = NoData
      BY <1>2, <2>2
    <2>3. CASE c # a /\ array[c] # NoData
      <3>1. PICK b \in Blocks : /\ array[c].data_ = Address(b)
                                /\ 0 < array[c].size_ /\ array[c].size_ <= elements[b]
        BY <2>3 DEF BlocksInv, ArrayInv
      <3>2. Address(b) # owned.data_ /\ Address(b) # array[a].data_
        BY <1>3, <2>3, <3>1 DEF BlocksInv, ArrayInv
      <3>3. elements'[b] = elements[b]
        BY <3>2
      <3> QED
        BY <1>2, <2>3, <3>1, <3>3
    <2> QED
      BY <2>1, <2>2, <2>3
  <1>6. ASSUME NEW ptr \in leaked'
        PROVE  \E b \in Blocks : ptr = Address(b) /\ elements'[b] > 0
    <2>1. PICK b \in Blocks : ptr = Address(b) /\ elements[b] > 0
      BY <1>6 DEF BlocksInv, ArrayInv
    <2>2. Address(b) # owned.data_ /\ Address(b) # array[a].data_
      BY <1>6, <2>1 DEF BlocksInv, ArrayInv
    <2> QED
      BY <2>1, <2>2
  <1>7. \A c \in Arrays : array'[c].data_ \notin leaked'
    BY <1>2 DEF BlocksInv, ArrayInv
  <1>8. \A c, d \in Arrays : array'[c].data_ = array'[d].data_ => c = d \/ array'[c].data_ = nullptr
    BY <1>2 DEF BlocksInv, ArrayInv
  <1>9. ASSUME NEW b \in Blocks, elements'[b] > 0
        PROVE  Address(b) \in leaked' \/ \E c \in Arrays : array'[c].data_ = Address(b)
    <2>1. CASE Address(b) = owned.data_
      BY <1>2, <2>1
    <2>2. CASE Address(b) # owned.data_
      <3>1. Address(b) # array[a].data_ /\ elements[b] > 0
        BY <1>9, <2>2
      <3>2. Address(b) \in leaked \/ \E c \in Arrays : array[c].data_ = Address(b)
        BY <3>1 DEF BlocksInv, ArrayInv
      <3> QED
        BY <1>2, <2>2, <3>1, <3>2
    <2> QED
      BY <2>1, <2>2
  <1> QED
    BY <1>1, <1>5, <1>6, <1>7, <1>8, <1>9 DEF ArrayInv

LEMMA AssignNewPreserves ==
  ASSUME BlocksInv, NEW a \in Arrays, NEW size \in Nat, AssignNew(a, size), UNCHANGED leaked, Forget
  PROVE  BlocksInv'
  <1>1. ShapeInv /\ elements \in [Blocks -> Nat] /\ array \in [Arrays -> [data_ : Int, size_ : Nat]]
    BY DEF BlocksInv, ShapeInv
  <1>2. Deleted(array[a].data_) \in [Blocks -> Nat]
        /\ \A b \in Blocks : Deleted(array[a].data_)[b]
                               = IF Address(b) = array[a].data_ THEN 0 ELSE elements[b]
    BY <1>1, DeletedFacts
  <1>3. \A b \in Blocks : Address(b) \in Int /\ Address(b) # nullptr
    BY AddressFacts DEF nullptr
  <1>4. ASSUME elements' \in [Blocks -> Nat], ArrayInv', array' \in [Arrays -> [data_ : Int, size_ : Nat]]
        PROVE  BlocksInv'
    BY <1>1, <1>4, Forgotten DEF BlocksInv, ShapeInv
  <1>5. CASE size = 0
    <2>1. array' = [array EXCEPT ![a] = NoData] /\ elements' = Deleted(array[a].data_)
      BY <1>5 DEF AssignNew
    <2>2. NoData \in [data_ : Int, size_ : Nat] /\ NoData.data_ = nullptr
      BY DEF NoData, nullptr
    <2>3. nullptr \notin leaked
      BY <1>3 DEF BlocksInv, ArrayInv
    <2> QED
      BY <1>2, <1>3, <1>4, <2>1, <2>2, <2>3, AssignmentPreserves
  <1>6. CASE size # 0
    <2>1. PICK block \in Blocks \ Allocated :
            /\ array' = [array EXCEPT ![a] = [data_ |-> Address(block), size_ |-> size]]
            /\ elements' = [Deleted(array[a].data_) EXCEPT ![block] = size]
      BY <1>6 DEF AssignNew
    <2> DEFINE owned == [data_ |-> Address(block), size_ |-> size]
    <2>2. ~ elements[block] > 0
      BY <2>1 DEF Allocated
    <2>3. owned \in [data_ : Int, size_ : Nat] /\ owned.data_ = Address(block) /\ owned.size_ = size
      BY <1>3, <2>1
    <2>4. Address(block) \notin leaked
      BY <2>2, AddressesDiffer DEF BlocksInv, ArrayInv
    <2>5. \A c \in Arrays : array[c].data_ # Address(block)
      <3> SUFFICES ASSUME NEW c \in Arrays, array[c].data_ = Address(block)
                   PROVE  FALSE
        OBVIOUS
      <3>1. PICK b \in Blocks : /\ array[c].data_ = Address(b)
                                /\ 0 < array[c].size_ /\ array[c].size_ <= elements[b]
        BY <1>3, OwnerFacts
      <3>2. b = block
        BY <3>1, AddressesDiffer
      <3> QED
        BY <1>1, <2>2, <3>1, <3>2
    <2>6. /\ elements' \in [Blocks -> Nat] /\ elements'[block] = size
          /\ \A b \in Blocks : Address(b) # Address(block) =>
               elements'[b] = IF Address(b) = array[a].data_ THEN 0 ELSE elements[b]
      BY <1>2, <2>1
    <2>7. array' = [array EXCEPT ![a] = owned]
      BY <2>1
    <2> HIDE DEF owned
    <2>8. size > 0
      BY <1>6
    <2>9. \E b \in Blocks : /\ owned.data_ = Address(b)
                           /\ 0 < owned.size_ /\ owned.size_ <= elements'[b]
      BY <2>1, <2>3, <2>6, <2>8
    <2>10. /\ leaked' \subseteq leaked /\ owned.data_ \notin leaked'
           /\ \A c \in Arrays : array[c].data_ = owned.data_ => owned.data_ = nullptr
           /\ \A ptr \in leaked : ptr \in leaked' \/ ptr = owned.data_
           /\ \A b \in Blocks : Address(b) # owned.data_ =>
                elements'[b] = IF Address(b) = array[a].data_ THEN 0 ELSE elements[b]
      BY <2>3, <2>4, <2>5, <2>6
    <2>11. ArrayInv' /\ array' \in [Arrays -> [data_ : Int, size_ : Nat]]
      BY <2>3, <2>6, <2>7, <2>9, <2>10, AssignmentPreserves
    <2> QED
      BY <1>4, <2>6, <2>11
  <1> QED
    BY <1>5, <1>6

LEMMA FromOwningPointerPreserves ==
  ASSUME BlocksInv, NEW a \in Arrays, NEW ptr \in leaked, NEW size \in 1 .. MaxElements,
         FromOwningPointer(a, ptr, size)
  PROVE  BlocksInv'
  <1>1. ShapeInv /\ elements \in [Blocks -> Nat] /\ array \in [Arrays -> [data_ : Int, size_ : Nat]]
    BY DEF BlocksInv, ShapeInv
  <1> DEFINE owned == [data_ |-> ptr, size_ |-> size]
  <1>2. PICK block \in Blocks : ptr = Address(block) /\ elements[block] > 0
    BY DEF BlocksInv, ArrayInv
  <1>3. /\ \A b \in Blocks : Address(b) = ptr => size <= elements[b]
        /\ leaked' = leaked \ {ptr}
        /\ array' = [array EXCEPT ![a] = owned]
        /\ elements' = Deleted(array[a].data_)
        /\ Forget
    BY DEF FromOwningPointer
  <1>4. /\ elements' \in [Blocks -> Nat]
        /\ \A b \in Blocks : elements'[b] = IF Address(b) = array[a].data_ THEN 0 ELSE elements[b]
    BY <1>1, <1>3, DeletedFacts
  <1>5. size \in Nat /\ size > 0 /\ Address(block) \in Int
    BY SizeFacts, AddressFacts
  <1>6. owned \in [data_ : Int, size_ : Nat] /\ owned.data_ = ptr /\ owned.size_ = size
    BY <1>2, <1>5
  <1>7. \A c \in Arrays : array[c].data_ # ptr
    BY OwnerFacts
  <1>8. elements'[block] = elements[block] /\ size <= elements[block]
    BY <1>2, <1>3, <1>4, <1>7
  <1> HIDE DEF owned
  <1>9. \E b \in Blocks : /\ owned.data_ = Address(b)
                         /\ 0 < owned.size_ /\ owned.size_ <= elements'[b]
    BY <1>2, <1>5, <1>6, <1>8
  <1>10. /\ leaked' \subseteq leaked /\ owned.data_ \notin leaked'
         /\ \A c \in Arrays : array[c].data_ = owned.data_ => owned.data_ = nullptr
         /\ \A p \in leaked : p \in leaked' \/ p = owned.data_
         /\ \A b \in Blocks : Address(b) # owned.data_ =>
              elements'[b] = IF Address(b) = array[a].data_ THEN 0 ELSE elements[b]
    BY <1>3, <1>4, <1>6, <1>7
  <1>11. ArrayInv' /\ array' \in [Arrays -> [data_ : Int, size_ : Nat]]
    BY <1>3, <1>4, <1>6, <1>9, <1>10, AssignmentPreserves
  <1> QED
    BY <1>1, <1>3, <1>4, <1>11, Forgotten DEF BlocksInv, ShapeInv

LEMMA MoveAssignPreserves ==
  ASSUME BlocksInv, NEW a \in Arrays, NEW that \in Arrays, MoveAssign(a, that)
  PROVE  BlocksInv'
  <1>1. ShapeInv /\ elements \in [Blocks -> Nat] /\ array \in [Arrays -> [data_ : Int, size_ : Nat]]
    BY DEF BlocksInv, ShapeInv
  <1>2. Forget /\ UNCHANGED leaked
    BY DEF MoveAssign
  <1>3. view' \in Spans /\ {it', mark'} \subseteq Iterators
    BY <1>1, <1>2, Forgotten
  <1>4. CASE a = that
    BY <1>2, <1>3, <1>4, LookingPreserves DEF MoveAssign
  <1>5. CASE a # that
    <2>1. /\ array' = [array EXCEPT ![a] = array[that], ![that] = NoData]
          /\ elements' = Deleted(array[a].data_)
      BY <1>5 DEF MoveAssign, MovedFrom
    <2>2. /\ elements' \in [Blocks -> Nat]
          /\ \A b \in Blocks : elements'[b] = IF Address(b) = array[a].data_ THEN 0 ELSE elements[b]
      BY <1>1, <2>1, DeletedFacts
    <2>3. /\ array'[a] = array[that] /\ array'[that] = NoData
          /\ \A c \in Arrays \ {a, that} : array'[c] = array[c]
      BY <1>1, <1>5, <2>1
    <2>4. NoData \in [data_ : Int, size_ : Nat] /\ NoData.data_ = nullptr
      BY DEF NoData, nullptr
    <2>5. array' \in [Arrays -> [data_ : Int, size_ : Nat]]
      BY <1>1, <2>1, <2>4
    <2>6. \A b \in Blocks : Address(b) # nullptr
      BY AddressFacts DEF nullptr
    <2>7. ASSUME NEW c \in Arrays
          PROVE  \/ array'[c] = NoData
                 \/ \E b \in Blocks : /\ array'[c].data_ = Address(b)
                                      /\ 0 < array'[c].size_ /\ array'[c].size_ <= elements'[b]
      <3>1. PICK d \in Arrays \ {a} : array'[c] = NoData \/ array'[c] = array[d]
        BY <1>5, <2>3
      <3>2. CASE array[d].data_ # nullptr
        <4>1. PICK b \in Blocks : /\ array[d].data_ = Address(b)
                                  /\ 0 < array[d].size_ /\ array[d].size_ <= elements[b]
          BY <3>2, OwnerFacts
        <4>2. elements'[b] = elements[b]
          BY <2>2, <3>1, <3>2, <4>1 DEF BlocksInv, ArrayInv
        <4> QED
          BY <3>1, <4>1, <4>2
      <3> QED
        BY <3>1, <3>2, OwnerFacts
    <2>8. \A ptr \in leaked : \E b \in Blocks : ptr = Address(b) /\ elements'[b] > 0
      BY <2>2 DEF BlocksInv, ArrayInv
    <2>9. \A c \in Arrays : array'[c].data_ \notin leaked
      BY <2>3, <2>4, <2>6 DEF BlocksInv, ArrayInv
    <2>10. \A c, d \in Arrays : array'[c].data_ = array'[d].data_ => c = d \/ array'[c].data_ = nullptr
      BY <1>5, <2>3, <2>4 DEF BlocksInv, ArrayInv
    <2>11. ASSUME NEW b \in Blocks, elements'[b] > 0
           PROVE  Address(b) \in leaked \/ \E c \in Arrays : array'[c].data_ = Address(b)
      <3>1. Address(b) # array[a].data_ /\ elements[b] > 0
        BY <2>2, <2>11
      <3>2. Address(b) \in leaked \/ \E c \in Arrays \ {a} : array[c].data_ = Address(b)
        BY <3>1 DEF BlocksInv, ArrayInv
      <3> QED
        BY <2>3, <3>2
    <2>12. ArrayInv'
      BY <1>2, <2>7, <2>8, <2>9, <2>10, <2>11 DEF ArrayInv
    <2> QED
      BY <1>3, <2>2, <2>5, <2>12 DEF BlocksInv, ShapeInv
  <1> QED
    BY <1>4, <1>5

LEMMA LeakPreserves ==
  ASSUME BlocksInv, NEW a \in Arrays, leak(a)
  PROVE  BlocksInv'
  <1>1. ShapeInv /\ elements \in [Blocks -> Nat] /\ array \in [Arrays -> [data_ : Int, size_ : Nat]]
    BY DEF BlocksInv, ShapeInv
  <1>2. /\ array' = [array EXCEPT ![a] = NoData]
        /\ leaked' = leaked \cup ({array[a].data_} \ {nullptr})
        /\ view' = as_span(a) /\ UNCHANGED <<elements, it, mark>>
    BY DEF leak, MovedFrom
  <1>3. NoData \in [data_ : Int, size_ : Nat] /\ NoData.data_ = nullptr
    BY DEF NoData, nullptr
  <1>4. ShapeInv'
    BY <1>1, <1>2, <1>3, ArraysAreSpans DEF ShapeInv
  <1>5. array'[a] = NoData /\ \A c \in Arrays \ {a} : array'[c] = array[c]
    BY <1>1, <1>2
  <1>6. \A b \in Blocks : Address(b) # nullptr
    BY AddressFacts DEF nullptr
  <1>7. \A c \in Arrays : \/ array'[c] = NoData
                          \/ \E b \in Blocks : /\ array'[c].data_ = Address(b)
                                               /\ 0 < array'[c].size_ /\ array'[c].size_ <= elements[b]
    BY <1>5 DEF BlocksInv, ArrayInv
  <1>8. ASSUME NEW ptr \in leaked'
        PROVE  \E b \in Blocks : ptr = Address(b) /\ elements[b] > 0
    <2>1. CASE ptr \in leaked
      BY <2>1 DEF BlocksInv, ArrayInv
    <2>2. CASE ptr = array[a].data_ /\ ptr # nullptr
      <3>1. PICK b \in Blocks : /\ array[a].data_ = Address(b)
                                /\ 0 < array[a].size_ /\ array[a].size_ <= elements[b]
        BY <2>2, OwnerFacts
      <3>2. array[a].size_ \in Nat /\ elements[b] \in Nat
        BY <1>1
      <3>3. elements[b] > 0
        BY <3>1, <3>2
      <3> QED
        BY <2>2, <3>1, <3>3
    <2> QED
      BY <1>2, <2>1, <2>2
  <1>9. \A c \in Arrays : array'[c].data_ \notin leaked'
    BY <1>2, <1>3, <1>5, <1>6, <1>8 DEF BlocksInv, ArrayInv
  <1>10. \A c, d \in Arrays : array'[c].data_ = array'[d].data_ => c = d \/ array'[c].data_ = nullptr
    BY <1>3, <1>5 DEF BlocksInv, ArrayInv
  <1>11. \A b \in Blocks : elements[b] > 0 =>
           Address(b) \in leaked' \/ \E c \in Arrays : array'[c].data_ = Address(b)
    BY <1>2, <1>5, <1>6 DEF BlocksInv, ArrayInv
  <1>12. ArrayInv'
    BY <1>2, <1>7, <1>8, <1>9, <1>10, <1>11 DEF ArrayInv
  <1> QED
    BY <1>4, <1>12 DEF BlocksInv

LEMMA DeletePreserves ==
  ASSUME BlocksInv, NEW ptr \in leaked, DeleteLeakedData(ptr)
  PROVE  BlocksInv'
  <1>1. ShapeInv /\ elements \in [Blocks -> Nat]
    BY DEF BlocksInv, ShapeInv
  <1>2. leaked' = leaked \ {ptr} /\ elements' = Deleted(ptr) /\ UNCHANGED array /\ Forget
    BY DEF DeleteLeakedData
  <1>3. /\ elements' \in [Blocks -> Nat]
        /\ \A b \in Blocks : elements'[b] = IF Address(b) = ptr THEN 0 ELSE elements[b]
    BY <1>1, <1>2, DeletedFacts
  <1>4. ShapeInv'
    BY <1>1, <1>2, <1>3, Forgotten DEF ShapeInv
  <1>5. ArrayInv'
    BY <1>2, <1>3 DEF BlocksInv, ArrayInv
  <1> QED
    BY <1>4, <1>5 DEF BlocksInv

-----------------------------------------------------------------------------
LEMMA HeapArrayPreserves ==
  ASSUME BlocksInv, HeapArrayStep
  PROVE  BlocksInv'
  <1>1. PICK a \in Arrays :
          \/ \E size \in 0 .. MaxElements : NewArray(a, size)
          \/ CopiedFrom(a)
          \/ \E that \in Arrays : MoveAssign(a, that)
          \/ \E ptr \in leaked, size \in 1 .. MaxElements : FromOwningPointer(a, ptr, size)
          \/ leak(a)
          \/ Views({as_span(a)})
    BY DEF HeapArrayStep
  <1>2. ShapeInv /\ view.size \in Nat /\ {it, mark} \subseteq Iterators
    BY DEF BlocksInv, ShapeInv, Spans
  <1>3. ASSUME NEW size \in 0 .. MaxElements, NewArray(a, size)
        PROVE  BlocksInv'
    BY <1>3, SizeFacts, AssignNewPreserves DEF NewArray
  <1>4. CASE CopiedFrom(a)
    BY <1>2, <1>4, AssignNewPreserves DEF CopiedFrom
  <1>5. CASE Views({as_span(a)})
    BY <1>2, <1>5, ArraysAreSpans, LookingPreserves DEF Views
  <1> QED
    BY <1>1, <1>3, <1>4, <1>5, MoveAssignPreserves, FromOwningPointerPreserves, LeakPreserves

LEMMA InitEstablishes ==
  ContainersInit => BlocksInv
  BY DEF ContainersInit, BlocksInv, ShapeInv, ArrayInv, NoData, EmptySpan, Span, Spans,
         NullIterator, Iterators, nullptr

LEMMA StepPreserves ==
  ASSUME BlocksInv, [ContainersNext]_containerVars
  PROVE  BlocksInv'
  <1>1. CASE UNCHANGED containerVars
    <2>1. view' \in Spans /\ {it', mark'} \subseteq Iterators
      BY <1>1 DEF containerVars, BlocksInv, ShapeInv
    <2> QED
      BY <1>1, <2>1, LookingPreserves DEF containerVars
  <1> QED
    BY <1>1, HeapArrayPreserves, SpanPreserves, IteratorPreserves, DeletePreserves
    DEF ContainersNext

(* However arrays are assigned, moved, leaked and taken over, each block   *)
(* has one owner as long as it is allocated, and no array claims more than *)
(* its block has (heap_array.h, lines 48-210).                             *)
THEOREM BlocksOwnedHolds == ContainersSpec => []BlocksOwned
  <1>1. ContainersInit => BlocksInv
    BY InitEstablishes
  <1>2. BlocksInv /\ [ContainersNext]_containerVars => BlocksInv'
    BY StepPreserves
  <1>3. BlocksInv => BlocksOwned
    BY OwnersCounted
  <1> QED
    BY <1>1, <1>2, <1>3, PTL DEF ContainersSpec

-----------------------------------------------------------------------------
(* What a program reaches.  A span lies inside an allocated block, if it   *)
(* has elements, and an iterator between the ends of such a span.          *)
Inside(s, blockSizes) ==
  s.size > 0 => \E b \in Blocks : /\ Address(b) <= s.data
                                  /\ s.data + s.size <= Address(b) + blockSizes[b]

Reaches(i, blockSizes) ==
  /\ i.start <= i.current /\ i.current <= i.end
  /\ Inside(Span(i.start, i.end - i.start), blockSizes)

ReachInv ==
  /\ \A b \in Blocks : elements[b] <= MaxElements
  /\ Inside(view, elements) /\ Reaches(it, elements) /\ Reaches(mark, elements)

SpansInv == BlocksInv /\ ReachInv

LEMMA InsideFacts ==
  ASSUME SpansInv, NEW s \in Spans, Inside(s, elements)
  PROVE  /\ s.size \in Sizes /\ s.size <= MaxElements
         /\ Within(s, elements)
  <1>1. /\ s.data \in Int /\ s.size \in Nat
        /\ MaxElements \in Nat /\ MaxElements < SizeModulus
    BY SizeFacts DEF Spans
  <1>2. CASE s.size = 0
    BY <1>1, <1>2, SizeFacts DEF Within
  <1>3. CASE s.size > 0
    <2>1. PICK b \in Blocks : /\ Address(b) <= s.data
                              /\ s.data + s.size <= Address(b) + elements[b]
      BY <1>3 DEF Inside
    <2>2. Address(b) \in Int /\ elements[b] \in Nat /\ elements[b] <= MaxElements
      BY AddressFacts DEF SpansInv, BlocksInv, ShapeInv, ReachInv
    <2>3. s.size <= MaxElements
      BY <1>1, <2>1, <2>2
    <2>4. Cells(s.data, s.size) \subseteq Cells(Address(b), elements[b])
      BY <1>1, <2>1, <2>2 DEF Cells
    <2> QED
      BY <1>1, <2>3, <2>4, SizeFacts DEF Within
  <1> QED
    BY <1>1, <1>2, <1>3

LEMMA PartIsInside ==
  ASSUME SpansInv, NEW s \in Spans, Inside(s, elements), NEW r \in Spans,
         s.data <= r.data, r.data + r.size <= s.data + s.size
  PROVE  Inside(r, elements)
  <1> SUFFICES ASSUME r.size > 0
               PROVE  \E b \in Blocks : /\ Address(b) <= r.data
                                        /\ r.data + r.size <= Address(b) + elements[b]
    BY DEF Inside
  <1>1. s.data \in Int /\ s.size \in Nat /\ r.data \in Int /\ r.size \in Nat
    BY DEF Spans
  <1>2. s.size > 0
    BY <1>1
  <1>3. PICK b \in Blocks : /\ Address(b) <= s.data
                            /\ s.data + s.size <= Address(b) + elements[b]
    BY <1>2 DEF Inside
  <1>4. Address(b) \in Int /\ elements[b] \in Nat
    BY AddressFacts DEF SpansInv, BlocksInv, ShapeInv
  <1>5. Address(b) <= r.data /\ r.data + r.size <= Address(b) + elements[b]
    BY <1>1, <1>3, <1>4
  <1> QED
    BY <1>5

(* The parts that a span no longer than a block gives are those asked for. *)
LEMMA MinusFacts ==
  ASSUME NEW a \in Sizes, NEW b \in Sizes
  PROVE  /\ Minus(a, b) \in Sizes
         /\ b <= a => Minus(a, b) = a - b
  <1>1. a \in Nat /\ b \in Nat /\ a < SizeModulus /\ SizeModulus \in Nat /\ SizeModulus > 1
    BY SizeFacts
  <1>2. (a - b) % SizeModulus \in 0 .. SizeModulus - 1
    BY <1>1
  <1>3. b <= a => (a - b) % SizeModulus = a - b
    BY <1>1
  <1> QED
    BY <1>2, <1>3 DEF Minus, Sizes

LEMMA PartsExact ==
  ASSUME NEW s \in Spans, s.size \in Sizes, NEW n \in Sizes, NEW m \in Sizes
  PROVE  /\ first(s, n) = Part(s, 0, n)
         /\ last(s, n) = Part(s, s.size - n, s.size)
         /\ subspan(s, n, m) = IF m = dynamic_extent THEN Part(s, n, s.size) ELSE Part(s, n, n + m)
  <1>1. /\ s.data \in Int /\ s.size \in Nat /\ n \in Nat /\ m \in Nat
        /\ n <= s.size => Minus(s.size, n) = s.size - n
    BY SizeFacts, MinusFacts DEF Spans
  <1>2. first(s, n) = Part(s, 0, n)
    <2>1. CASE n <= s.size
      <3>1. s.data + 0 = s.data /\ n - 0 = n /\ 0 <= n
        BY <1>1
      <3> QED
        BY <2>1, <3>1 DEF first, Part, Checked
    <2>2. CASE ~ (n <= s.size)
      BY <2>2 DEF first, Part, Checked
    <2> QED
      BY <2>1, <2>2
  <1>3. last(s, n) = Part(s, s.size - n, s.size)
    <2>1. CASE n <= s.size
      <3>1. /\ s.size - (s.size - n) = n /\ 0 <= s.size - n
            /\ s.size - n <= s.size /\ s.size <= s.size
        BY <1>1, <2>1
      <3> QED
        BY <1>1, <2>1, <3>1 DEF last, Part, Checked
    <2>2. CASE ~ (n <= s.size)
      <3>1. ~ (0 <= s.size - n)
        BY <1>1, <2>2
      <3> QED
        BY <2>2, <3>1 DEF last, Part, Checked
    <2> QED
      BY <2>1, <2>2
  <1>4. subspan(s, n, m) = IF m = dynamic_extent THEN Part(s, n, s.size) ELSE Part(s, n, n + m)
    <2>1. \A from, upto : Part(s, from, upto) =
            IF 0 <= from /\ from <= upto /\ upto <= s.size THEN {Span(s.data + from, upto - from)} ELSE {}
      BY DEF Part, Checked, Stopped
    <2>2. subspan(s, n, m) =
            IF n <= s.size /\ (m = dynamic_extent \/ m <= Minus(s.size, n))
              THEN {Span(s.data + n, IF m # dynamic_extent THEN m ELSE Minus(s.size, n))} ELSE {}
      BY DEF subspan, Checked, Stopped
    <2>3. CASE m = dynamic_extent
      <3>1. 0 <= n /\ s.size <= s.size
        BY <1>1
      <3>2. CASE n <= s.size
        <4>1. subspan(s, n, m) = {Span(s.data + n, s.size - n)}
          BY <1>1, <2>2, <2>3, <3>2
        <4>2. Part(s, n, s.size) = {Span(s.data + n, s.size - n)}
          BY <2>1, <3>1, <3>2
        <4> QED
          BY <2>3, <4>1, <4>2
      <3>3. CASE ~ (n <= s.size)
        <4>1. subspan(s, n, m) = {} /\ Part(s, n, s.size) = {}
          BY <2>1, <2>2, <3>3
        <4> QED
          BY <2>3, <4>1
      <3> QED
        BY <3>2, <3>3
    <2>4. CASE m # dynamic_extent
      <3>1. CASE n + m <= s.size
        <4>1. 0 <= n /\ n <= n + m /\ n + m - n = m /\ n <= s.size /\ m <= s.size - n
          BY <1>1, <3>1
        <4>2. subspan(s, n, m) = {Span(s.data + n, m)}
          BY <1>1, <2>2, <2>4, <4>1
        <4>3. Part(s, n, n + m) = {Span(s.data + n, m)}
          <5> DEFINE upto == n + m
          <5>1. 0 <= n /\ n <= upto /\ upto <= s.size /\ upto - n = m
            BY <1>1, <3>1, <4>1
          <5> HIDE DEF upto
          <5>2. Part(s, n, upto) = {Span(s.data + n, m)}
            BY <2>1, <5>1
          <5> QED
            BY <5>2 DEF upto
        <4> QED
          BY <2>4, <4>2, <4>3
      <3>2. CASE ~ (n + m <= s.size)
        <4>1. ~ (n <= s.size /\ m <= s.size - n)
          BY <1>1, <3>2
        <4>2. ~ (n <= s.size /\ m <= Minus(s.size, n))
          BY <1>1, <4>1
        <4>3. subspan(s, n, m) = {} /\ Part(s, n, n + m) = {}
          BY <2>1, <2>2, <2>4, <3>2, <4>2
        <4> QED
          BY <2>4, <4>3
      <3> QED
        BY <3>1, <3>2
    <2> QED
      BY <2>3, <2>4
  <1> QED
    BY <1>2, <1>3, <1>4

LEMMA PartFacts ==
  ASSUME NEW s \in Spans, NEW from \in Int, NEW upto \in Int, NEW r \in Part(s, from, upto)
  PROVE  r \in Spans /\ s.data <= r.data /\ r.data + r.size <= s.data + s.size
  <1>1. /\ 0 <= from /\ from <= upto /\ upto <= s.size
        /\ r = [data |-> s.data + from, size |-> upto - from]
    BY DEF Part, Checked, Stopped, Span
  <1>2. s.data \in Int /\ s.size \in Nat
    BY DEF Spans
  <1>3. s.data + from \in Int /\ upto - from \in Nat
    BY <1>1, <1>2
  <1>4. r \in Spans /\ r.data = s.data + from /\ r.size = upto - from
    BY <1>1, <1>3 DEF Spans
  <1> QED
    BY <1>1, <1>2, <1>4

LEMMA PartsAreInside ==
  ASSUME SpansInv, NEW s \in Spans, Inside(s, elements), NEW n \in Sizes, NEW m \in Sizes
  PROVE  \A r \in first(s, n) \cup last(s, n) \cup subspan(s, n, m) : Inside(r, elements)
  <1>1. s.size \in Sizes
    BY InsideFacts
  <1>2. s.size \in Int /\ n \in Int /\ m \in Int /\ s.size - n \in Int /\ n + m \in Int
    BY <1>1, SizeFacts
  <1> SUFFICES ASSUME NEW r \in first(s, n) \cup last(s, n) \cup subspan(s, n, m)
               PROVE  Inside(r, elements)
    OBVIOUS
  <1>3. \E from, upto \in Int : r \in Part(s, from, upto)
    BY <1>1, <1>2, PartsExact
  <1> QED
    BY <1>3, PartFacts, PartIsInside

(* The moves of an iterator stay between its ends, and happen where they do. *)
LEMMA MovesReach ==
  ASSUME NEW i \in Iterators, Reaches(i, elements), NEW n \in Int,
         NEW j \in Increment(i) \cup Decrement(i) \cup Add(i, n) \cup Subtract(i, n)
  PROVE  Reaches(j, elements)
  <1>1. i.start \in Int /\ i.current \in Int /\ i.end \in Int
        /\ i.start <= i.current /\ i.current <= i.end
    BY DEF Iterators, Reaches
  <1>2. \A k \in Int : LET moved == [i EXCEPT !.current = k]
                       IN  moved.start = i.start /\ moved.end = i.end /\ moved.current = k
    BY DEF Iterators
  <1>3. PICK k \in Int : j = [i EXCEPT !.current = k] /\ i.start <= k /\ k <= i.end
    <2>1. CASE j \in Increment(i)
      <3>1. i.current # i.end /\ j = [i EXCEPT !.current = i.current + 1]
        BY <2>1 DEF Increment, Checked, Stopped
      <3> QED
        BY <1>1, <3>1
    <2>2. CASE j \in Decrement(i)
      <3>1. i.current # i.start /\ j = [i EXCEPT !.current = i.current - 1]
        BY <2>2 DEF Decrement, Checked, Stopped
      <3> QED
        BY <1>1, <3>1
    <2>3. CASE j \in Add(i, n)
      <3>1. /\ IF n > 0 THEN n <= i.end - i.current ELSE -n <= i.current - i.start
            /\ j = [i EXCEPT !.current = i.current + n]
        BY <2>3 DEF Add, Checked, Stopped
      <3>2. i.start <= i.current + n /\ i.current + n <= i.end
        BY <1>1, <3>1
      <3> QED
        BY <1>1, <3>1, <3>2
    <2>4. CASE j \in Subtract(i, n)
      <3>1. /\ IF n < 0 THEN -n <= i.end - i.current ELSE n <= i.current - i.start
            /\ j = [i EXCEPT !.current = i.current - n]
        BY <2>4 DEF Subtract, Checked, Stopped
      <3>2. i.start <= i.current - n /\ i.current - n <= i.end
        BY <1>1, <3>1
      <3> QED
        BY <1>1, <3>1, <3>2
    <2> QED
      BY <2>1, <2>2, <2>3, <2>4
  <1> QED
    BY <1>2, <1>3 DEF Reaches

LEMMA EndsReach ==
  ASSUME NEW s \in Spans, Inside(s, elements), NEW i \in begin(s) \cup end_(s)
  PROVE  Reaches(i, elements)
  <1>1. s.data \in Int /\ s.size \in Nat
    BY DEF Spans
  <1>2. /\ i.start = s.data /\ i.end = s.data + s.size
        /\ i.current = s.data \/ i.current = s.data + s.size
    BY DEF begin, end_, Iterator, Checked, Stopped
  <1>3. Span(s.data, s.size) = s
    BY DEF Span, Spans
  <1>4. i.end - i.start = s.size
    BY <1>1, <1>2
  <1>5. i.start <= i.current /\ i.current <= i.end
    BY <1>1, <1>2
  <1> QED
    BY <1>2, <1>3, <1>4, <1>5 DEF Reaches

LEMMA PairIsInside ==
  ASSUME SpansInv, NEW i \in Iterators, NEW j \in Iterators, Reaches(i, elements), Reaches(j, elements),
         NEW s \in SpanOfPair(i, j)
  PROVE  Inside(s, elements)
  <1> DEFINE whole == Span(i.start, i.end - i.start)
  <1>1. /\ i.start \in Int /\ i.current \in Int /\ i.end \in Int /\ j.current \in Int
        /\ i.start <= i.current /\ i.current <= i.end /\ j.current <= j.end
    BY DEF Iterators, Reaches
  <1>2. /\ i.start = j.start /\ i.end = j.end /\ i.current <= j.current
        /\ s = Span(i.current, Minus(j.current, i.current))
    BY DEF SpanOfPair, Checked, Stopped
  <1>3. whole \in Spans /\ Inside(whole, elements) /\ whole.data = i.start /\ whole.size = i.end - i.start
    BY <1>1 DEF Span, Spans, Reaches
  <1>4. whole.size <= MaxElements
    BY <1>3, InsideFacts
  <1>5. 0 <= j.current - i.current /\ j.current - i.current < SizeModulus
    BY <1>1, <1>2, <1>3, <1>4, SizeFacts
  <1>6. Minus(j.current, i.current) = j.current - i.current
    BY <1>1, <1>5, SizeFacts DEF Minus
  <1>7. s \in Spans /\ s.data = i.current /\ s.size = j.current - i.current
    BY <1>1, <1>2, <1>5, <1>6 DEF Span, Spans
  <1>8. whole.data <= s.data /\ s.data + s.size <= whole.data + whole.size
    BY <1>1, <1>2, <1>3, <1>7
  <1> HIDE DEF whole
  <1> QED
    BY <1>3, <1>7, <1>8, PartIsInside

LEMMA ArrayIsInside ==
  ASSUME BlocksInv, NEW a \in Arrays
  PROVE  Inside(as_span(a), elements)
  <1>1. CASE array[a].data_ = nullptr
    BY <1>1, OwnerFacts DEF NoData, as_span, Span, Inside
  <1>2. CASE array[a].data_ # nullptr
    <2>1. PICK b \in Blocks : array[a].data_ = Address(b) /\ array[a].size_ <= elements[b]
      BY <1>2, OwnerFacts
    <2>2. Address(b) \in Int /\ array[a].size_ \in Nat /\ elements[b] \in Nat
      BY AddressFacts DEF BlocksInv, ShapeInv
    <2>3. Address(b) <= Address(b) /\ Address(b) + array[a].size_ <= Address(b) + elements[b]
      BY <2>1, <2>2
    <2> QED
      BY <2>1, <2>3 DEF as_span, Span, Inside
  <1> QED
    BY <1>1, <1>2

LEMMA NothingIsInside ==
  Inside(EmptySpan, elements) /\ Reaches(NullIterator, elements)
  BY DEF Inside, EmptySpan, Span, Reaches, NullIterator, nullptr

(* Which memory there is after a step, of what there was: no block changes *)
(* its size, and what is forgotten was of one that is gone.                *)
Kept == \A b \in Blocks : elements[b] > 0 => elements'[b] = 0 \/ elements'[b] = elements[b]

LEMMA KeptIsInside ==
  ASSUME SpansInv, Kept, elements' \in [Blocks -> Nat], NEW s \in Spans, Inside(s, elements),
         NEW block \in Blocks, elements'[block] > 0,
         s.data \in Cells(Address(block), SizeModulus)
  PROVE  Inside(s, elements')
  <1> SUFFICES ASSUME s.size > 0
               PROVE  \E b \in Blocks : /\ Address(b) <= s.data
                                        /\ s.data + s.size <= Address(b) + elements'[b]
    BY DEF Inside
  <1>1. PICK b \in Blocks : /\ Address(b) <= s.data
                            /\ s.data + s.size <= Address(b) + elements[b]
    BY DEF Inside
  <1>2. /\ Address(b) \in Int /\ Address(block) \in Int /\ s.data \in Int /\ s.size \in Nat
        /\ elements[b] \in Nat /\ elements[b] <= MaxElements
        /\ MaxElements \in Nat /\ SizeModulus \in Nat /\ MaxElements < SizeModulus
    BY AddressFacts, SizeFacts DEF Spans, SpansInv, BlocksInv, ShapeInv, ReachInv
  <1>3. Address(block) <= s.data /\ s.data < Address(block) + SizeModulus
    BY <1>2 DEF Cells
  <1>4. Address(b) <= s.data /\ s.data < Address(b) + SizeModulus /\ elements[b] > 0
    BY <1>1, <1>2
  <1>5. ~ (Address(b) + SizeModulus <= Address(block)) /\ ~ (Address(block) + SizeModulus <= Address(b))
    BY <1>2, <1>3, <1>4
  <1>6. b = block
    BY <1>5, AddressFacts
  <1>7. elements'[b] = elements[b]
    BY <1>4, <1>6 DEF Kept
  <1> QED
    BY <1>1, <1>7

LEMMA KeptReaches ==
  ASSUME SpansInv, Kept, elements' \in [Blocks -> Nat], NEW i \in Iterators, Reaches(i, elements),
         NEW block \in Blocks, elements'[block] > 0,
         i.start \in Cells(Address(block), SizeModulus)
  PROVE  Reaches(i, elements')
  <1> DEFINE whole == Span(i.start, i.end - i.start)
  <1>1. i.start \in Int /\ i.end \in Int /\ i.start <= i.current /\ i.current <= i.end /\ i.current \in Int
    BY DEF Iterators, Reaches
  <1>2. whole \in Spans /\ whole.data = i.start /\ Inside(whole, elements)
    BY <1>1 DEF Span, Spans, Reaches
  <1> HIDE DEF whole
  <1>3. Inside(whole, elements')
    BY <1>2, KeptIsInside
  <1> QED
    BY <1>1, <1>3 DEF Reaches, whole

LEMMA ForgottenReaches ==
  ASSUME SpansInv, Forget, Kept, elements' \in [Blocks -> Nat]
  PROVE  Inside(view', elements') /\ Reaches(it', elements') /\ Reaches(mark', elements')
  <1> DEFINE Belongs(pointer) ==
               \E block \in Blocks : /\ elements'[block] > 0
                                     /\ pointer \in Cells(Address(block), SizeModulus)
  <1>1. /\ view \in Spans /\ it \in Iterators /\ mark \in Iterators
        /\ Inside(view, elements) /\ Reaches(it, elements) /\ Reaches(mark, elements)
    BY DEF SpansInv, BlocksInv, ShapeInv, ReachInv
  <1>2. Inside(EmptySpan, elements') /\ Reaches(NullIterator, elements')
    BY DEF Inside, EmptySpan, Span, Reaches, NullIterator, nullptr
  <1>3. /\ Belongs(view.data) => Inside(view, elements')
        /\ Belongs(it.start) => Reaches(it, elements')
        /\ Belongs(mark.start) => Reaches(mark, elements')
    BY <1>1, KeptIsInside, KeptReaches
  <1>4. /\ view' = IF Belongs(view.data) THEN view ELSE EmptySpan
        /\ it' = IF Belongs(it.start) THEN it ELSE NullIterator
        /\ mark' = IF Belongs(mark.start) THEN mark ELSE NullIterator
    BY DEF Forget
  <1> HIDE DEF Belongs
  <1> QED
    BY <1>2, <1>3, <1>4

(* Steps that only look. *)
LEMMA LookingReaches ==
  ASSUME SpansInv, UNCHANGED elements,
         Inside(view', elements), Reaches(it', elements), Reaches(mark', elements)
  PROVE  ReachInv'
  BY DEF SpansInv, ReachInv

LEMMA SpanReaches ==
  ASSUME SpansInv, SpanStep \/ FixedSpanStep
  PROVE  ReachInv'
  <1>1. /\ view \in Spans /\ Inside(view, elements)
        /\ Reaches(it, elements) /\ Reaches(mark, elements)
    BY DEF SpansInv, BlocksInv, ShapeInv, ReachInv
  <1>2. ASSUME Parts(view)
        PROVE  ReachInv'
    <2>1. PICK n \in Sizes :
            \/ Views(first(view, n)) \/ Views(last(view, n))
            \/ \E m \in Sizes : Views(subspan(view, n, m))
            \/ \E halves \in split_at(view, n) : Views({halves[1], halves[2]})
      BY <1>2 DEF Parts
    <2>2. \A halves \in split_at(view, n) :
            halves[1] \in first(view, n) /\ halves[2] \in subspan(view, n, dynamic_extent)
      BY DEF split_at
    <2>3. \E m \in Sizes : view' \in first(view, n) \cup last(view, n) \cup subspan(view, n, m)
      BY <2>1, <2>2, SizeFacts DEF Views
    <2>4. Inside(view', elements)
      BY <1>1, <2>3, PartsAreInside
    <2>5. UNCHANGED <<elements, it, mark>>
      BY <2>1 DEF Views
    <2> QED
      BY <1>1, <2>4, <2>5, LookingReaches
  <1>3. CASE SpanStep
    BY <1>2, <1>3 DEF SpanStep
  <1>4. CASE FixedSpanStep
    <2>1. PICK N \in Sizes : \E s \in FixedSpan(N, view) : Parts(s)
      BY <1>4 DEF FixedSpanStep
    <2>2. FixedSpan(N, view) \subseteq {view}
      BY <1>1 DEF FixedSpan, Checked, Stopped, Span, Spans
    <2> QED
      BY <1>2, <2>1, <2>2
  <1> QED
    BY <1>3, <1>4

LEMMA IteratorReaches ==
  ASSUME SpansInv, IteratorStep
  PROVE  ReachInv'
  <1>1. /\ view \in Spans /\ it \in Iterators /\ mark \in Iterators
        /\ Inside(view, elements) /\ Reaches(it, elements) /\ Reaches(mark, elements)
    BY DEF SpansInv, BlocksInv, ShapeInv, ReachInv
  <1>2. UNCHANGED elements
    BY DEF IteratorStep, Points, Views
  <1>3. /\ view' \in SpanOfPair(mark, it) \cup {view}
        /\ mark' \in {mark, it, NullIterator}
        /\ \/ it' = it
           \/ it' \in begin(view) \cup end_(view) \cup Increment(it) \cup Decrement(it)
           \/ \E n \in Differences : it' \in Add(it, n) \cup Subtract(it, n)
    BY DEF IteratorStep, Points, Views
  <1>4. Differences \subseteq Int /\ 0 \in Int
    BY SizeFacts DEF Differences
  <1>5. Reaches(it', elements)
    BY <1>1, <1>3, <1>4, EndsReach, MovesReach
  <1>6. Inside(view', elements)
    BY <1>1, <1>3, PairIsInside
  <1>7. Reaches(mark', elements)
    BY <1>1, <1>3, NothingIsInside
  <1> QED
    BY <1>2, <1>5, <1>6, <1>7, LookingReaches

LEMMA AssignNewReaches ==
  ASSUME SpansInv, NEW a \in Arrays, NEW size \in 0 .. MaxElements, AssignNew(a, size), Forget
  PROVE  ReachInv'
  <1>1. ShapeInv /\ elements \in [Blocks -> Nat] /\ \A b \in Blocks : elements[b] <= MaxElements
    BY DEF SpansInv, BlocksInv, ShapeInv, ReachInv
  <1>2. /\ Deleted(array[a].data_) \in [Blocks -> Nat]
        /\ \A b \in Blocks : Deleted(array[a].data_)[b]
                               = IF Address(b) = array[a].data_ THEN 0 ELSE elements[b]
    BY <1>1, DeletedFacts
  <1>3. MaxElements \in Nat /\ size \in Nat /\ size <= MaxElements
    BY SizeFacts
  <1>4. \/ elements' = Deleted(array[a].data_)
        \/ \E block \in Blocks \ Allocated : elements' = [Deleted(array[a].data_) EXCEPT ![block] = size]
    BY DEF AssignNew
  <1>5. \A b \in Blocks \ Allocated : ~ elements[b] > 0
    BY DEF Allocated
  <1>6. elements' \in [Blocks -> Nat] /\ Kept /\ \A b \in Blocks : elements'[b] <= MaxElements
    BY <1>1, <1>2, <1>3, <1>4, <1>5 DEF Kept
  <1> QED
    BY <1>6, ForgottenReaches DEF ReachInv

LEMMA DeletedReaches ==
  ASSUME SpansInv, NEW pointer, elements' = Deleted(pointer) \/ UNCHANGED elements, Forget
  PROVE  ReachInv'
  <1>1. ShapeInv /\ elements \in [Blocks -> Nat] /\ \A b \in Blocks : elements[b] <= MaxElements
    BY DEF SpansInv, BlocksInv, ShapeInv, ReachInv
  <1>2. /\ Deleted(pointer) \in [Blocks -> Nat]
        /\ \A b \in Blocks : Deleted(pointer)[b] = IF Address(b) = pointer THEN 0 ELSE elements[b]
    BY <1>1, DeletedFacts
  <1>3. elements' \in [Blocks -> Nat] /\ Kept /\ \A b \in Blocks : elements'[b] <= MaxElements
    BY <1>1, <1>2, SizeFacts DEF Kept
  <1> QED
    BY <1>3, ForgottenReaches DEF ReachInv

LEMMA HeapArrayReaches ==
  ASSUME SpansInv, HeapArrayStep
  PROVE  ReachInv'
  <1>1. PICK a \in Arrays :
          \/ \E size \in 0 .. MaxElements : NewArray(a, size)
          \/ CopiedFrom(a)
          \/ \E that \in Arrays : MoveAssign(a, that)
          \/ \E ptr \in leaked, size \in 1 .. MaxElements : FromOwningPointer(a, ptr, size)
          \/ leak(a)
          \/ Views({as_span(a)})
    BY DEF HeapArrayStep
  <1>2. /\ view \in Spans /\ Inside(view, elements) /\ BlocksInv
        /\ Reaches(it, elements) /\ Reaches(mark, elements)
    BY DEF SpansInv, BlocksInv, ShapeInv, ReachInv
  <1>3. view.size \in 0 .. MaxElements
    BY <1>2, InsideFacts, SizeFacts DEF Spans
  <1>4. ASSUME NEW size \in 0 .. MaxElements, NewArray(a, size)
        PROVE  ReachInv'
    BY <1>4, AssignNewReaches DEF NewArray
  <1>5. CASE CopiedFrom(a)
    BY <1>3, <1>5, AssignNewReaches DEF CopiedFrom
  <1>6. ASSUME NEW that \in Arrays, MoveAssign(a, that)
        PROVE  ReachInv'
    BY <1>6, DeletedReaches DEF MoveAssign
  <1>7. ASSUME NEW ptr \in leaked, NEW size \in 1 .. MaxElements, FromOwningPointer(a, ptr, size)
        PROVE  ReachInv'
    BY <1>7, DeletedReaches DEF FromOwningPointer
  <1>8. CASE leak(a) \/ Views({as_span(a)})
    <2>1. view' = as_span(a) /\ UNCHANGED <<elements, it, mark>>
      BY <1>8 DEF leak, Views
    <2> QED
      BY <1>2, <2>1, ArrayIsInside, LookingReaches
  <1> QED
    BY <1>1, <1>4, <1>5, <1>6, <1>7, <1>8

-----------------------------------------------------------------------------
(* What is asked of a span or an iterator is given exactly within bounds. *)
LEMMA ElementsExact ==
  ASSUME NEW s \in Spans, s.size \in Sizes, NEW n \in Sizes
  PROVE  /\ Element(s, n) = {r.data : r \in Part(s, n, n + 1)}
         /\ front(s) = Element(s, 0)
         /\ back(s) = Element(s, Minus(s.size, 1))
  <1>1. s.data \in Int /\ s.size \in Nat /\ n \in Nat /\ s.size < SizeModulus
        /\ SizeModulus \in Nat /\ SizeModulus > 1 /\ 1 \in Sizes
    BY SizeFacts DEF Spans
  <1>2. Element(s, n) = {r.data : r \in Part(s, n, n + 1)}
    <2>1. CASE n < s.size
      <3>1. 0 <= n /\ n <= n + 1 /\ n + 1 <= s.size /\ n + 1 - n = 1
        BY <1>1, <2>1
      <3>2. Part(s, n, n + 1) = {Span(s.data + n, 1)}
        <4> DEFINE upto == n + 1
        <4>1. 0 <= n /\ n <= upto /\ upto <= s.size /\ upto - n = 1
          BY <1>1, <3>1
        <4> HIDE DEF upto
        <4>2. Part(s, n, upto) = {Span(s.data + n, 1)}
          BY <4>1 DEF Part, Checked
        <4> QED
          BY <4>2 DEF upto
      <3>3. Element(s, n) = {s.data + n} /\ Span(s.data + n, 1).data = s.data + n
        BY <2>1 DEF Element, Checked, Span
      <3> QED
        BY <3>2, <3>3
    <2>2. CASE ~ (n < s.size)
      <3>1. ~ (n + 1 <= s.size)
        BY <1>1, <2>2
      <3>2. Part(s, n, n + 1) = {} /\ Element(s, n) = {}
        BY <2>2, <3>1 DEF Part, Element, Checked, Stopped
      <3> QED
        BY <3>2
    <2> QED
      BY <2>1, <2>2
  <1>3. front(s) = Element(s, 0)
    <2>1. s.size # 0 <=> 0 < s.size
      BY <1>1
    <2>2. s.data + 0 = s.data
      BY <1>1
    <2>3. Element(s, 0) = IF 0 < s.size THEN {s.data} ELSE {}
      BY <2>2 DEF Element, Checked, Stopped
    <2>4. front(s) = IF s.size # 0 THEN {s.data} ELSE {}
      BY DEF front, Checked, Stopped
    <2> QED
      BY <2>1, <2>3, <2>4
  <1>4. back(s) = Element(s, Minus(s.size, 1))
    <2>1. s.size # 0 => Minus(s.size, 1) = s.size - 1
      BY <1>1, MinusFacts
    <2>2. Minus(s.size, 1) \in Nat
      BY <1>1, MinusFacts, SizeFacts
    <2>3. s.size # 0 <=> Minus(s.size, 1) < s.size
      BY <1>1, <2>1, <2>2
    <2>4. back(s) = IF s.size # 0 THEN {s.data + Minus(s.size, 1)} ELSE {}
      BY DEF back, Checked, Stopped
    <2>5. Element(s, Minus(s.size, 1)) =
            IF Minus(s.size, 1) < s.size THEN {s.data + Minus(s.size, 1)} ELSE {}
      BY DEF Element, Checked, Stopped
    <2> QED
      BY <2>3, <2>4, <2>5
  <1> QED
    BY <1>2, <1>3, <1>4

LEMMA MovesExact ==
  ASSUME NEW i \in Iterators, Reaches(i, elements), NEW n \in Int
  PROVE  /\ Add(i, n) = Subtract(i, -n)
         /\ Add(i, n) # Stopped <=> i.current + n \in i.start .. i.end
         /\ IndexOf(i, n) # Stopped <=> n >= 0 /\ i.current + n < i.end
         /\ IndexOf(i, n) # Stopped => \A j \in Add(i, n) : IndexOf(i, n) = Dereference(j)
  <1>1. /\ i.start \in Int /\ i.current \in Int /\ i.end \in Int
        /\ i.start <= i.current /\ i.current <= i.end
    BY DEF Iterators, Reaches
  <1> DEFINE moved == [i EXCEPT !.current = i.current + n]
             fits == IF n > 0 THEN n <= i.end - i.current ELSE -n <= i.current - i.start
             short == n >= 0 /\ n < i.end - i.current
  <1>2. moved.current = i.current + n /\ moved.end = i.end
    BY DEF Iterators
  <1>3. Add(i, n) = IF fits THEN {moved} ELSE {}
    BY DEF Add, Checked, Stopped
  <1>4. Subtract(i, -n) = IF fits THEN {moved} ELSE {}
    <2>1. i.current - (-n) = i.current + n /\ -(-n) = n
      BY <1>1
    <2>2. (IF -n < 0 THEN -(-n) <= i.end - i.current ELSE -n <= i.current - i.start) <=> fits
      BY <1>1
    <2>3. Subtract(i, -n) =
            IF IF -n < 0 THEN -(-n) <= i.end - i.current ELSE -n <= i.current - i.start
              THEN {[i EXCEPT !.current = i.current - (-n)]} ELSE {}
      BY DEF Subtract, Checked, Stopped
    <2> QED
      BY <2>1, <2>2, <2>3
  <1>5. fits <=> i.current + n \in i.start .. i.end
    BY <1>1
  <1>6. short <=> n >= 0 /\ i.current + n < i.end
    BY <1>1
  <1>7. IndexOf(i, n) = IF short THEN {i.current + n} ELSE {}
    BY DEF IndexOf, Checked, Stopped
  <1>8. short => Dereference(moved) = {i.current + n}
    <2>1. short => moved.current # moved.end
      BY <1>1, <1>2
    <2> QED
      BY <1>2, <2>1 DEF Dereference, Checked
  <1> HIDE DEF moved, fits, short
  <1> QED
    BY <1>3, <1>4, <1>5, <1>6, <1>7, <1>8 DEF Stopped

LEMMA DistanceExact ==
  ASSUME NEW i \in Iterators, NEW j \in Iterators, Reaches(i, elements), Reaches(j, elements),
         NEW n \in Distance(i, j)
  PROVE  Add(j, n) = {i}
  <1>1. /\ i.start = j.start /\ i.end = j.end /\ n = i.current - j.current
    BY DEF Distance, Checked, Stopped, Comparable
  <1>2. /\ i.start \in Int /\ i.current \in Int /\ i.end \in Int /\ j.current \in Int
        /\ i.start <= i.current /\ i.current <= i.end
    BY DEF Iterators, Reaches
  <1>3. IF n > 0 THEN n <= j.end - j.current ELSE -n <= j.current - j.start
    BY <1>1, <1>2
  <1>4. j.current + n = i.current
    BY <1>1, <1>2
  <1>5. [j EXCEPT !.current = i.current] = i
    BY <1>1 DEF Iterators
  <1> QED
    BY <1>3, <1>4, <1>5 DEF Add, Checked

(* Two ranges as long as each other, the first one's cells counted. *)
LEMMA RangesExact ==
  ASSUME NEW from \in Int, NEW upto \in Int, NEW to \in Int, from <= upto
  PROVE  LET moved == from .. upto - 1
         IN  (moved \cap Cells(to, Cardinality(moved)) = {})
               <=> (to >= upto \/ to + (upto - from) <= from)
  <1> DEFINE moved == from .. upto - 1
  <1>1. Cardinality(moved) = upto - from
    <2> DEFINE last_ == upto - 1
    <2>1. last_ \in Int /\ (from > last_ <=> upto = from) /\ last_ - from + 1 = upto - from
      OBVIOUS
    <2> HIDE DEF last_
    <2>2. Cardinality(from .. last_) = IF from > last_ THEN 0 ELSE last_ - from + 1
      BY <2>1, FS_Interval
    <2>3. Cardinality(from .. last_) = upto - from
      BY <2>1, <2>2
    <2> QED
      BY <2>3 DEF last_
  <1>2. Cells(to, Cardinality(moved)) = to .. to + (upto - from) - 1
    BY <1>1 DEF Cells
  <1>3. CASE to >= upto \/ to + (upto - from) <= from
    <2>1. moved \cap (to .. to + (upto - from) - 1) = {}
      BY <1>3
    <2> QED
      BY <1>2, <1>3, <2>1
  <1>4. CASE ~ (to >= upto \/ to + (upto - from) <= from)
    <2>1. CASE to >= from
      <3>1. to \in moved /\ to \in to .. to + (upto - from) - 1
        BY <1>4, <2>1
      <3> QED
        BY <1>2, <1>4, <3>1
    <2>2. CASE ~ (to >= from)
      <3>1. from \in moved /\ from \in to .. to + (upto - from) - 1
        BY <1>4, <2>2
      <3> QED
        BY <1>2, <1>4, <3>1
    <2> QED
      BY <2>1, <2>2
  <1> QED
    BY <1>3, <1>4

LEMMA MovesAreSafe ==
  ASSUME SpansInv
  PROVE  MovesSafely
  <1> SUFFICES ASSUME NEW a \in Arrays, NEW to \in begin(as_span(a)),
                      NEW safe \in IsRangeMoveSafe(mark, it, to),
                      mark.current <= it.current
               PROVE  LET from == mark.current .. it.current - 1
                      IN  safe <=> from \cap Cells(to.current, Cardinality(from)) = {}
    BY DEF MovesSafely
  <1>1. /\ it \in Iterators /\ mark \in Iterators /\ BlocksInv /\ ShapeInv
        /\ as_span(a) \in Spans
    BY ArraysAreSpans DEF SpansInv, BlocksInv, ShapeInv
  <1>2. to \in Iterators
    BY <1>1, EndsAreIterators
  <1>3. it.current \in Int /\ mark.current \in Int /\ to.current \in Int
    BY <1>1, <1>2 DEF Iterators
  <1> DEFINE n == it.current - mark.current
  <1>4. /\ ~ (it.current < mark.current) /\ n \in Int
    BY <1>3
  <1>5. safe \in {\/ to.current >= it.current
                  \/ to_end.current <= mark.current : to_end \in Add(to, n)}
    BY <1>4 DEF IsRangeMoveSafe, Stopped
  <1>6. PICK to_end \in Add(to, n) : safe = (to.current >= it.current \/ to_end.current <= mark.current)
    BY <1>5
  <1>7. to_end.current = to.current + n
    BY <1>2, <1>4 DEF Add, Checked, Stopped, Iterators
  <1> QED
    BY <1>3, <1>6, <1>7, RangesExact

LEMMA BoundsKept ==
  ASSUME SpansInv
  PROVE  WithinBounds
  <1>1. /\ view \in Spans /\ it \in Iterators /\ mark \in Iterators
        /\ Inside(view, elements) /\ Reaches(it, elements) /\ Reaches(mark, elements)
    BY DEF SpansInv, BlocksInv, ShapeInv, ReachInv
  <1>2. view.size \in Sizes /\ Within(view, elements)
    BY <1>1, InsideFacts
  <1>3. Within(Span(it.start, it.end - it.start), elements)
    <2>1. Span(it.start, it.end - it.start) \in Spans
      <3>1. it.start \in Int /\ it.current \in Int /\ it.end \in Int
            /\ it.start <= it.current /\ it.current <= it.end
        BY <1>1 DEF Iterators, Reaches
      <3> QED
        BY <3>1 DEF Span, Spans
    <2> QED
      BY <1>1, <2>1, InsideFacts DEF Reaches
  <1>4. it.current \in it.start .. it.end
    BY <1>1 DEF Iterators, Reaches
  <1>5. 0 \in Sizes
    BY SizeFacts
  <1>6. \A n \in Sizes :
          /\ first(view, n) = Part(view, 0, n)
          /\ last(view, n) = Part(view, view.size - n, view.size)
          /\ \A m \in Sizes :
               subspan(view, n, m) =
                 IF m = dynamic_extent THEN Part(view, n, view.size) ELSE Part(view, n, n + m)
          /\ Element(view, n) = {s.data : s \in Part(view, n, n + 1)}
    BY <1>1, <1>2, PartsExact, ElementsExact
  <1>7. front(view) = Element(view, 0) /\ back(view) = Element(view, Minus(view.size, 1))
    BY <1>1, <1>2, <1>5, ElementsExact
  <1>8. Differences \subseteq Int
    BY SizeFacts DEF Differences
  <1>9. \A n \in Differences :
          /\ Add(it, n) = Subtract(it, -n)
          /\ Add(it, n) # Stopped <=> it.current + n \in it.start .. it.end
          /\ IndexOf(it, n) # Stopped <=> n >= 0 /\ it.current + n < it.end
          /\ IndexOf(it, n) # Stopped => \A i \in Add(it, n) : IndexOf(it, n) = Dereference(i)
    BY <1>1, <1>8, MovesExact
  <1>10. \A n \in Distance(it, mark) : Add(mark, n) = {it}
    BY <1>1, DistanceExact
  <1> QED
    BY <1>2, <1>3, <1>4, <1>6, <1>7, <1>9, <1>10, MovesAreSafe DEF WithinBounds

LEMMA SpansInvariant == ContainersSpec => []SpansInv
  <1>1. ContainersInit => SpansInv
    <2>1. ContainersInit => BlocksInv
      BY InitEstablishes
    <2>2. ContainersInit => ReachInv
      BY NothingIsInside, SizeFacts DEF ContainersInit, ReachInv
    <2> QED
      BY <2>1, <2>2 DEF SpansInv
  <1>2. ASSUME SpansInv, [ContainersNext]_containerVars
        PROVE  SpansInv'
    <2>1. BlocksInv'
      BY <1>2, StepPreserves DEF SpansInv
    <2>2. ASSUME UNCHANGED containerVars
          PROVE  ReachInv'
      BY <1>2, <2>2 DEF containerVars, SpansInv, ReachInv
    <2>3. ASSUME NEW ptr \in leaked, DeleteLeakedData(ptr)
          PROVE  ReachInv'
      BY <1>2, <2>3, DeletedReaches DEF DeleteLeakedData
    <2>4. ReachInv'
      BY <1>2, <2>2, <2>3, HeapArrayReaches, SpanReaches, IteratorReaches DEF ContainersNext
    <2> QED
      BY <2>1, <2>4 DEF SpansInv
  <1> QED
    BY <1>1, <1>2, PTL DEF ContainersSpec

(* Whatever a program does with its arrays, its spans and iterators reach  *)
(* cells of one allocated block, and what is asked of them is given        *)
(* exactly where it lies within them, for every offset but the least       *)
(* ptrdiff_t, whose negation is undefined (span.h, lines 771-1021;         *)
(* checked_iterators.h, lines 46-195).                                     *)
THEOREM WithinBoundsHolds == ContainersSpec => []WithinBounds
  <1>1. SpansInv => WithinBounds
    BY BoundsKept
  <1> QED
    BY SpansInvariant, <1>1, PTL

-----------------------------------------------------------------------------
(* The pointers of a program are natural numbers: what is given of a span  *)
(* or an iterator lies behind its beginning, and what is looked at begins  *)
(* in an array or nowhere.                                                 *)
PointersInv == view.data \in Nat /\ it.start \in Nat /\ mark.start \in Nat

LEMMA NothingPoints ==
  EmptySpan.data \in Nat /\ NullIterator.start \in Nat
  BY DEF EmptySpan, Span, NullIterator, nullptr

LEMMA ForgottenPoints ==
  ASSUME PointersInv, Forget
  PROVE  PointersInv'
  BY NothingPoints DEF Forget, PointersInv

(* Of a span that begins at a natural number. *)
LEMMA PartsPoint ==
  ASSUME NEW s \in Spans, s.data \in Nat, NEW n \in Sizes, NEW m \in Sizes
  PROVE  \A r \in first(s, n) \cup last(s, n) \cup subspan(s, n, m) : r.data \in Nat
  <1>1. s.size \in Nat /\ n \in Nat /\ m \in Nat
    BY SizeFacts DEF Spans
  <1>2. Minus(s.size, n) \in Nat
    <2>1. (s.size - n) % SizeModulus \in 0 .. SizeModulus - 1
      BY <1>1, SizeFacts
    <2> QED
      BY <2>1 DEF Minus
  <1>3. \A r \in first(s, n) : r.data = s.data
    BY DEF first, Checked, Stopped, Span
  <1>4. \A r \in last(s, n) : r.data = s.data + Minus(s.size, n)
    BY DEF last, Checked, Stopped, Span
  <1>5. \A r \in subspan(s, n, m) : r.data = s.data + n
    BY DEF subspan, Checked, Stopped, Span
  <1> QED
    BY <1>1, <1>2, <1>3, <1>4, <1>5

LEMMA ViewsPoint ==
  ASSUME PointersInv, NEW spans, \A s \in spans : s.data \in Nat, Views(spans)
  PROVE  PointersInv'
  BY DEF Views, PointersInv

LEMMA PartsPointOn ==
  ASSUME PointersInv, NEW s \in Spans, s.data \in Nat, Parts(s)
  PROVE  PointersInv'
  <1>1. PICK n \in Sizes :
          \/ Views(first(s, n)) \/ Views(last(s, n))
          \/ \E m \in Sizes : Views(subspan(s, n, m))
          \/ \E halves \in split_at(s, n) : Views({halves[1], halves[2]})
    BY DEF Parts
  <1>2. ASSUME NEW m \in Sizes, Views(subspan(s, n, m))
        PROVE  PointersInv'
    BY <1>2, PartsPoint, ViewsPoint
  <1>3. ASSUME NEW halves \in split_at(s, n), Views({halves[1], halves[2]})
        PROVE  PointersInv'
    <2>1. halves[1] \in first(s, n) /\ halves[2] \in subspan(s, n, dynamic_extent)
      BY <1>3 DEF split_at
    <2>2. \A r \in {halves[1], halves[2]} : r.data \in Nat
      BY <2>1, PartsPoint, SizeFacts
    <2> QED
      BY <1>3, <2>2, ViewsPoint
  <1>4. CASE Views(first(s, n)) \/ Views(last(s, n))
    BY <1>4, PartsPoint, ViewsPoint, SizeFacts
  <1> QED
    BY <1>1, <1>2, <1>3, <1>4

(* A move leaves the beginning of an iterator where it is. *)
LEMMA MovesPoint ==
  ASSUME NEW i \in Iterators, NEW n \in Int,
         NEW j \in Increment(i) \cup Decrement(i) \cup Add(i, n) \cup Subtract(i, n)
  PROVE  j.start = i.start
  <1>1. \A k : [i EXCEPT !.current = k].start = i.start
    BY DEF Iterators
  <1>2. \E k : j = [i EXCEPT !.current = k]
    BY DEF Increment, Decrement, Add, Subtract, Checked, Stopped
  <1> QED
    BY <1>1, <1>2

LEMMA IteratorPoints ==
  ASSUME SpansInv, PointersInv, IteratorStep
  PROVE  PointersInv'
  <1>1. /\ view \in Spans /\ it \in Iterators /\ mark \in Iterators
        /\ Reaches(it, elements) /\ Reaches(mark, elements)
        /\ view.data \in Nat /\ it.start \in Nat /\ mark.start \in Nat
    BY DEF SpansInv, BlocksInv, ShapeInv, ReachInv, PointersInv
  <1>2. CASE (Points(begin(view)) \/ Points(end_(view))) /\ mark' = NullIterator
    <2>1. \A i \in begin(view) \cup end_(view) : i.start = view.data
      BY DEF begin, end_, Iterator, Checked, Stopped
    <2> QED
      BY <1>1, <1>2, <2>1, NothingPoints DEF Points, PointersInv
  <1>3. CASE (Points(Increment(it)) \/ Points(Decrement(it))) /\ UNCHANGED mark
    <2>1. \A i \in Increment(it) \cup Decrement(it) : i.start = it.start
      BY <1>1, MovesPoint
    <2> QED
      BY <1>1, <1>3, <2>1 DEF Points, PointersInv
  <1>4. ASSUME NEW n \in Differences, (Points(Add(it, n)) \/ Points(Subtract(it, n))) /\ UNCHANGED mark
        PROVE  PointersInv'
    <2>1. n \in Int
      BY SizeFacts DEF Differences
    <2>2. \A i \in Add(it, n) \cup Subtract(it, n) : i.start = it.start
      BY <1>1, <2>1, MovesPoint
    <2> QED
      BY <1>1, <1>4, <2>2 DEF Points, PointersInv
  <1>5. CASE Views(SpanOfPair(mark, it))
    <2>1. \A s \in SpanOfPair(mark, it) : s.data = mark.current
      BY DEF SpanOfPair, Checked, Stopped, Span
    <2>2. mark.current \in Nat
      BY <1>1 DEF Iterators, Reaches
    <2> QED
      BY <1>5, <2>1, <2>2, ViewsPoint
  <1>6. CASE mark' = it /\ UNCHANGED <<elements, array, leaked, view, it>>
    BY <1>1, <1>6 DEF PointersInv
  <1> QED
    BY <1>2, <1>3, <1>4, <1>5, <1>6 DEF IteratorStep

(* An array begins at a block or nowhere. *)
LEMMA ArraysPoint ==
  ASSUME SpansInv, NEW a \in Arrays
  PROVE  array[a].data_ \in Nat /\ as_span(a).data \in Nat
  <1>1. \/ array[a] = NoData
        \/ \E b \in Blocks : array[a].data_ = Address(b)
    BY DEF SpansInv, BlocksInv, ArrayInv
  <1>2. array[a].data_ \in Nat
    BY <1>1, AddressFacts DEF NoData, nullptr
  <1> QED
    BY <1>2 DEF as_span, Span

LEMMA HeapArrayPoints ==
  ASSUME SpansInv, PointersInv, NEW a \in Arrays,
         \/ \E size \in 0 .. MaxElements : NewArray(a, size)
         \/ CopiedFrom(a)
         \/ \E that \in Arrays : MoveAssign(a, that)
         \/ \E ptr \in leaked, size \in 1 .. MaxElements : FromOwningPointer(a, ptr, size)
         \/ leak(a)
         \/ Views({as_span(a)})
  PROVE  PointersInv'
  <1>1. CASE Forget
    BY <1>1, ForgottenPoints
  <1>2. CASE leak(a) \/ Views({as_span(a)})
    <2>1. view' = as_span(a) /\ UNCHANGED <<it, mark>>
      BY <1>2 DEF leak, Views
    <2> QED
      BY <2>1, ArraysPoint DEF PointersInv
  <1> QED
    BY <1>1, <1>2 DEF NewArray, CopiedFrom, MoveAssign, FromOwningPointer

LEMMA FixedPoints ==
  ASSUME SpansInv, PointersInv, FixedSpanStep
  PROVE  PointersInv'
  <1>1. PICK N \in Sizes : \E s \in FixedSpan(N, view) : Parts(s)
    BY DEF FixedSpanStep
  <1>2. PICK s \in FixedSpan(N, view) : Parts(s)
    BY <1>1
  <1>3. s = [data |-> view.data, size |-> N] /\ view.data \in Nat
    BY DEF FixedSpan, Checked, Stopped, Span, PointersInv
  <1>4. s \in Spans /\ s.data \in Nat
    BY <1>3, SizeFacts DEF Spans
  <1> QED
    BY <1>2, <1>4, PartsPointOn

LEMMA PointersStep ==
  ASSUME SpansInv, PointersInv, [ContainersNext]_containerVars
  PROVE  PointersInv'
  <1>1. CASE UNCHANGED containerVars
    BY <1>1 DEF containerVars, PointersInv
  <1>2. CASE HeapArrayStep
    BY <1>2, HeapArrayPoints DEF HeapArrayStep
  <1>3. CASE SpanStep
    BY <1>3, PartsPointOn DEF SpanStep, PointersInv, SpansInv, BlocksInv, ShapeInv
  <1>4. CASE FixedSpanStep
    BY <1>4, FixedPoints
  <1>5. CASE IteratorStep
    BY <1>5, IteratorPoints
  <1>6. ASSUME NEW ptr \in leaked, DeleteLeakedData(ptr)
        PROVE  PointersInv'
    BY <1>6, ForgottenPoints DEF DeleteLeakedData
  <1> QED
    BY <1>1, <1>2, <1>3, <1>4, <1>5, <1>6 DEF ContainersNext

LEMMA SpansAreTyped ==
  ASSUME SpansInv, PointersInv
  PROVE  ContainersTypeOK
  <1>1. /\ elements \in [Blocks -> Nat] /\ \A b \in Blocks : elements[b] <= MaxElements
        /\ array \in [Arrays -> [data_ : Int, size_ : Nat]]
        /\ view \in Spans /\ it \in Iterators /\ mark \in Iterators
        /\ Inside(view, elements) /\ Reaches(it, elements) /\ Reaches(mark, elements)
    BY DEF SpansInv, BlocksInv, ShapeInv, ReachInv
  <1>2. MaxElements \in Nat /\ 0 .. MaxElements \subseteq Sizes
    BY SizeFacts
  <1>3. elements \in [Blocks -> 0 .. MaxElements]
    BY <1>1, <1>2
  <1>4. ASSUME NEW a \in Arrays
        PROVE  array[a] \in [data_ : Nat, size_ : Sizes]
    <2>1. array[a].data_ \in Nat
      BY ArraysPoint
    <2>2. array[a].size_ \in 0 .. MaxElements
      <3>1. CASE array[a] = NoData
        BY <1>2, <3>1 DEF NoData
      <3>2. CASE \E b \in Blocks : 0 < array[a].size_ /\ array[a].size_ <= elements[b]
        BY <1>1, <1>2, <3>2
      <3> QED
        BY <3>1, <3>2 DEF SpansInv, BlocksInv, ArrayInv
    <2> QED
      BY <1>1, <1>2, <2>1, <2>2
  <1>5. array \in [Arrays -> [data_ : Nat, size_ : Sizes]]
    BY <1>1, <1>4
  <1>6. leaked \subseteq Nat
    BY AddressFacts DEF SpansInv, BlocksInv, ArrayInv
  <1>7. view \in [data : Nat, size : Sizes]
    BY <1>1, InsideFacts DEF Spans, PointersInv
  <1>8. ASSUME NEW i \in {it, mark}
        PROVE  i \in [start : Nat, current : Nat, end : Nat]
    BY <1>1, <1>8 DEF Iterators, Reaches, PointersInv
  <1> QED
    BY <1>3, <1>5, <1>6, <1>7, <1>8 DEF ContainersTypeOK

(* Every pointer and size of a view, an iterator and an array is one that  *)
(* size_t has, and no block has more elements than were asked for.         *)
THEOREM ContainersTypesKept == ContainersSpec => []ContainersTypeOK
  <1>1. ContainersInit => PointersInv
    BY NothingPoints DEF ContainersInit, PointersInv
  <1>2. SpansInv /\ PointersInv /\ [ContainersNext]_containerVars => PointersInv'
    BY PointersStep
  <1>3. SpansInv /\ PointersInv => ContainersTypeOK
    BY SpansAreTyped
  <1> QED
    BY SpansInvariant, <1>1, <1>2, <1>3, PTL DEF ContainersSpec

-----------------------------------------------------------------------------
(* System calls and random numbers: whatever the kernel answers, the bytes *)
(* that are read end up in order and complete, and RandInt is uniform, for *)
(* every size of a byte, a word and an int, and both platforms.            *)

(* The bytes that the kernel has supplied and total_read does not count yet. *)
Pending == IF pc \in {"answered", "passed"} /\ result > 0 THEN result ELSE 0

(* What is supplied and what is counted agree at every step of a call. *)
Progress ==
  /\ Len(supplied) = total_read + Pending
  /\ Len(supplied) <= call.bytes
  /\ \A n \in 1 .. call.bytes :
       buffer[n] = IF n <= Len(supplied) THEN supplied[n] ELSE Unwritten
  /\ pc = "passed" => result > 0
  /\ pc = "filled" => total_read = call.bytes
  /\ pc \in {"answered", "break"} => total_read < call.bytes
  /\ pc = "break" => result \in {0, Error}
  /\ pc \in {"open", "opened", "pass", "passed", "filled"} => call.kind # "ReadFromFD"

Outcome ==
  pc = "idle" =>
    IF call.kind = "ReadFromFD"
      THEN /\ returned.success = (Len(supplied) = call.bytes)
           /\ Len(supplied) < call.bytes => result \in {0, Error}
      ELSE Len(supplied) = call.bytes

SystemInv ==
  /\ SystemTypeOK
  /\ pc = "idle" \/ call # NoCall
  /\ call # NoCall => Progress /\ Outcome

-----------------------------------------------------------------------------
LEMMA IntFacts ==
  /\ IntMin \in Int /\ IntMax \in Int /\ IntMin <= 0 /\ 0 <= IntMax
  /\ IntValues \in Nat \ {0}
  /\ WordValues \in Nat /\ IntValues < WordValues
  BY SystemAssumption DEF IntMin, IntValues, WordValues

LEMMA CallFacts ==
  ASSUME NEW c \in Calls
  PROVE  /\ c # NoCall
         /\ c.bytes \in Nat
         /\ c.kind \in {"ReadFromFD", "RandBytes", "RandInt"}
         /\ c.kind = "RandInt" => /\ c.bytes = WordBytes
                                  /\ c.min \in IntMin .. IntMax
                                  /\ c.max \in IntMin .. IntMax
                                  /\ c.min <= c.max
  BY SystemAssumption DEF Calls, NoCall

LEMMA Remainders ==
  ASSUME NEW a \in Int, NEW m \in Nat \ {0}
  PROVE  /\ a % m \in 0 .. m - 1
         /\ a \in 0 .. m - 1 => a % m = a
         /\ m <= a /\ a < 2 * m => a % m = a - m
         /\ -m <= a /\ a < 0 => a % m = a + m
  BY SMTT(20)

(* A conversion to int, which wraps, has an int for its result. *)
LEMMA ToIntFacts ==
  ASSUME NEW n \in Int
  PROVE  /\ ToInt(n) \in IntMin .. IntMax
         /\ n \in IntMin .. IntMax => ToInt(n) = n
         /\ IntMax < n /\ n <= IntMax + IntValues => ToInt(n) = n - IntValues
         /\ IntMin - IntValues <= n /\ n < IntMin => ToInt(n) = n + IntValues
  <1> DEFINE a == n - IntMin
             m == IntValues
  <1>1. a \in Int /\ m \in Nat \ {0} /\ IntMin \in Int /\ IntMax = IntMin + m - 1
    BY IntFacts DEF IntValues
  <1>2. /\ a % m \in 0 .. m - 1
        /\ a \in 0 .. m - 1 => a % m = a
        /\ m <= a /\ a < 2 * m => a % m = a - m
        /\ -m <= a /\ a < 0 => a % m = a + m
    <2> HIDE DEF a, m
    <2> QED BY <1>1, Remainders
  <1>3. ToInt(n) = (a % m) + IntMin
    BY DEF ToInt
  <1>4. a = n - IntMin
    OBVIOUS
  <1> DEFINE q == a % m
  <1>5. q = a % m
    OBVIOUS
  <1> HIDE DEF a, m, q
  <1> QED
    BY <1>1, <1>2, <1>3, <1>4, <1>5 DEF m

-----------------------------------------------------------------------------
(* The results of RandGenerator and RandInt *)

LEMMA DivRange ==
  ASSUME NEW a \in Nat, NEW d \in Nat \ {0}
  PROVE  a \div d \in Nat /\ a % d \in 0 .. d - 1
  BY SMTT(20)

LEMMA DivFacts ==
  ASSUME NEW a \in Nat, NEW d \in Nat \ {0}
  PROVE  /\ a \div d \in Nat /\ a % d \in 0 .. d - 1
         /\ a = d * (a \div d) + (a % d)
  <1> DEFINE q == a \div d
             r == a % d
  <1>1. q \in Nat /\ r \in 0 .. d - 1 /\ a = d * q + r
    BY SMTT(20)
  <1> QED
    BY <1>1, Zenon

(* The range of a RandInt is far from wrapping. *)
LEMMA RangeFacts ==
  ASSUME NEW c \in Calls, c.kind = "RandInt"
  PROVE  /\ RangeOf(c) = c.max - c.min + 1
         /\ RangeOf(c) \in 1 .. IntValues
         /\ RangeOf(c) <= max
  <1> DEFINE d == c.max - c.min + 1
             m == WordValues
  <1>1. d \in 1 .. IntValues /\ d \in 0 .. m - 1 /\ m \in Nat \ {0}
    BY CallFacts, IntFacts DEF IntValues
  <1>2. d % m = d
    <2> HIDE DEF d, m
    <2>1. d \in Int
      BY <1>1
    <2> QED BY <1>1, <2>1, Remainders
  <1> QED
    BY <1>1, <1>2 DEF RangeOf, max

LEMMA ResultFacts ==
  ASSUME NEW c \in Calls, c.kind = "RandInt", NEW value \in 0 .. max
  PROVE  /\ RandIntResult(c, value) = c.min + (value % RangeOf(c))
         /\ RandIntResult(c, value) \in c.min .. c.max
         /\ RandIntResult(c, value) \in IntMin .. IntMax
  <1> DEFINE d == RangeOf(c)
             r == value % d
  <1>1. /\ d \in 1 .. IntValues /\ d = c.max - c.min + 1 /\ value \in Nat
        /\ c.min \in IntMin .. IntMax /\ c.max \in IntMin .. IntMax
        /\ IntMin \in Int /\ IntMax \in Int /\ IntValues = IntMax - IntMin + 1
        /\ IntValues \in Nat
    BY RangeFacts, CallFacts, IntFacts DEF IntValues, max
  <1>2. r \in 0 .. d - 1
    <2> HIDE DEF d
    <2> QED BY <1>1, DivRange
  <1>3. RandIntResult(c, value) = ToInt(c.min + ToInt(r))
    BY DEF RandIntResult
  <1> HIDE DEF d, r
  <1>4. \/ ToInt(r) = r
        \/ ToInt(r) = r - IntValues /\ r > IntMax
    <2>1. r \in Nat /\ r <= IntMax + IntValues /\ IntMin <= r
      BY <1>1, <1>2, IntFacts
    <2> QED
      BY <1>1, <2>1, ToIntFacts
  <1>5. ToInt(c.min + ToInt(r)) = c.min + r
    <2>1. CASE ToInt(r) = r
      BY <1>1, <1>2, <2>1, ToIntFacts
    <2>2. CASE ToInt(r) = r - IntValues /\ r > IntMax
      <3> DEFINE n == c.min + (r - IntValues)
      <3>1. n \in Int /\ n < IntMin /\ IntMin - IntValues <= n
        BY <1>1, <1>2, <2>2
      <3> QED
        BY <1>1, <1>2, <2>2, <3>1, ToIntFacts
    <2> QED
      BY <1>4, <2>1, <2>2
  <1> QED
    <2>1. RandIntResult(c, value) = c.min + r
      BY <1>3, <1>5
    <2>2. c.min + r \in c.min .. c.max /\ c.min + r \in IntMin .. IntMax
      BY <1>1, <1>2
    <2> QED
      BY <2>1, <2>2, Zenon DEF d, r

(* Words with the same quotient are on the same side of a multiple. *)
LEMMA AcceptedAlike ==
  ASSUME NEW d \in Nat \ {0}, NEW w \in Nat, NEW v \in Nat, NEW q \in Nat,
         v < q * d, w \div d = v \div d
  PROVE  w < q * d
  <1> DEFINE k == v \div d
             s == v % d
             r == w % d
  <1>1. k \in Nat /\ s \in 0 .. d - 1 /\ v = d * k + s
    BY DivFacts
  <1>2. r \in 0 .. d - 1 /\ w = d * k + r
    BY DivFacts
  <1> HIDE DEF k, s, r
  <1>3. k < q
    <2> SUFFICES ASSUME q <= k PROVE FALSE
      BY <1>1
    <2>1. PICK e \in Nat : k = q + e
      BY <1>1
    <2>2. d * k = q * d + e * d /\ e * d \in Nat /\ q * d \in Nat
      BY <2>1
    <2> QED
      BY <1>1, <2>2
  <1>4. PICK e \in Nat : q = k + 1 + e
    BY <1>1, <1>3
  <1>5. q * d = d * k + d + e * d /\ e * d \in Nat
    BY <1>1, <1>4
  <1> QED
    BY <1>1, <1>2, <1>5

LEMMA DivUnique ==
  ASSUME NEW d \in Nat \ {0}, NEW k \in Nat, NEW r \in 0 .. d - 1
  PROVE  (d * k + r) \div d = k /\ (d * k + r) % d = r
  <1> DEFINE a == d * k + r
             j == a \div d
             s == a % d
  <1>1. a \in Nat /\ a = d * k + r
    OBVIOUS
  <1>2. j \in Nat /\ s \in 0 .. d - 1 /\ a = d * j + s
    <2> HIDE DEF a
    <2> QED BY <1>1, DivFacts
  <1> HIDE DEF a, j, s
  <1>3. ~(j < k)
    <2> SUFFICES ASSUME j < k PROVE FALSE
      OBVIOUS
    <2>1. PICK e \in Nat : k = j + 1 + e
      BY <1>2
    <2>2. d * k = d * j + d + d * e /\ d * e \in Nat
      BY <1>2, <2>1
    <2> QED
      BY <1>1, <1>2, <2>2
  <1>4. ~(k < j)
    <2> SUFFICES ASSUME k < j PROVE FALSE
      OBVIOUS
    <2>1. PICK e \in Nat : j = k + 1 + e
      BY <1>2
    <2>2. d * j = d * k + d + d * e /\ d * e \in Nat
      BY <1>2, <2>1
    <2> QED
      BY <1>1, <1>2, <2>2
  <1>5. j = k
    BY <1>2, <1>3, <1>4
  <1>6. s = r
    BY <1>1, <1>2, <1>5
  <1> QED
    BY <1>5, <1>6 DEF a, j, s

LEMMA Uniform ==
  ASSUME call \in Calls \cup {NoCall}
  PROVE  RandIntUniform
  <1> SUFFICES ASSUME call \in Calls, call.kind = "RandInt"
               PROVE  RandIntUniform
    BY DEF RandIntUniform, NoCall
  <1> DEFINE d == RangeOf(call)
             Words == 0 .. max
             Alike(value) == {w \in Words : w \div d = value \div d}
             Results(value) == {RandIntResult(call, w) : w \in Alike(value)}
             q == max \div d
  <1>1. /\ d \in Nat \ {0} /\ max \in Nat /\ d <= max /\ d = call.max - call.min + 1
        /\ call.min \in Int /\ call.max \in Int
    BY RangeFacts, CallFacts, IntFacts DEF max
  <1>2. q \in Nat /\ q * d <= max /\ q * d \in Nat /\ 0 < q * d
    <2>1. /\ q \in Nat /\ max % d \in 0 .. d - 1 /\ max = d * q + (max % d)
      BY <1>1, DivFacts
    <2>2. d * q = q * d /\ q * d \in Nat
      <3> HIDE DEF d, q
      <3> QED BY <1>1, <2>1
    <2>3. q # 0
      BY <1>1, <2>1
    <2>4. PICK e \in Nat : q = 1 + e
      BY <2>1, <2>3
    <2>5. q * d = d + e * d /\ e * d \in Nat
      BY <1>1, <2>4
    <2> HIDE DEF q
    <2> QED
      BY <1>1, <2>1, <2>2, <2>5
  <1>3. \A value \in Words : Accepts(d, value) <=> value < q * d
    BY <1>1, <1>2 DEF Accepts, max_acceptable_value
  <1>4. Accepts(d, 0)
    BY <1>1, <1>2, <1>3
  <1>5. ASSUME NEW value \in Words, Accepts(d, value)
        PROVE  /\ \A w \in Alike(value) : Accepts(d, w)
               /\ Results(value) = call.min .. call.max
    <2>1. value \in Nat /\ value < q * d
      BY <1>1, <1>3, <1>5
    <2> HIDE DEF q, d
    <2>2. ASSUME NEW w \in Alike(value)
          PROVE  Accepts(d, w)
      BY <1>1, <1>2, <1>3, <2>1, AcceptedAlike
    <2>3. ASSUME NEW w \in Alike(value)
          PROVE  RandIntResult(call, w) \in call.min .. call.max
      BY ResultFacts
    <2>4. ASSUME NEW x \in call.min .. call.max
          PROVE  x \in Results(value)
      <3> DEFINE r == x - call.min
                 k == value \div d
                 w == d * k + r
      <3>1. r \in 0 .. d - 1 /\ k \in Nat
        <4>1. k \in Nat
          BY <1>1, <2>1, DivRange
        <4>2. r \in 0 .. d - 1
          BY <1>1
        <4> QED
          BY <4>1, <4>2
      <3>2. w \in Nat
        BY <1>1, <3>1
      <3>3. w \div d = k /\ w % d = r
        <4> HIDE DEF r, k
        <4> QED BY <1>1, <3>1, DivUnique
      <3>4. w < q * d
        <4> HIDE DEF w
        <4> QED BY <1>1, <1>2, <2>1, <3>2, <3>3, AcceptedAlike
      <3>5. w \in Alike(value)
        <4> HIDE DEF w
        <4> QED BY <1>1, <1>2, <3>2, <3>3, <3>4
      <3>6. RandIntResult(call, w) = x
        <4>1. RandIntResult(call, w) = call.min + (w % d)
          <5> HIDE DEF w
          <5> QED BY <3>5, ResultFacts DEF d
        <4>2. RandIntResult(call, w) = call.min + r
          <5> HIDE DEF w, r
          <5> QED BY <3>3, <4>1, Zenon
        <4> QED
          BY <1>1, <4>2
      <3> HIDE DEF w
      <3> QED
        BY <3>5, <3>6
    <2> QED
      BY <2>2, <2>3, <2>4
  <1> QED
    BY <1>4, <1>5 DEF RandIntUniform

-----------------------------------------------------------------------------
LEMMA SourceFacts ==
  ASSUME SystemTypeOK, NEW c \in Calls
  PROVE  /\ Source(c) \in {"while", "filled", "open", "pass"}
         /\ Source(c) = "filled" => c.bytes = 0
         /\ Source(c) # "while" => c.kind # "ReadFromFD"
  BY DEF Source, SystemTypeOK

(* A new call, or the next word of RandInt, begins with nothing read. *)
LEMMA FreshFacts ==
  ASSUME NEW bytes \in Nat
  PROVE  /\ Fresh(bytes) \in [1 .. bytes -> Byte \cup {Unwritten}]
         /\ \A n \in 1 .. bytes : Fresh(bytes)[n] = Unwritten
         /\ <<>> \in Seq(Byte) /\ Len(<<>>) = 0
  BY DEF Fresh

LEMMA BeginKeeps ==
  ASSUME SystemInv, NEW c \in Calls, Begin(c)
  PROVE  SystemInv'
  <1>1. /\ call' = c /\ pc' = Source(c) /\ total_read' = 0 /\ buffer' = Fresh(c.bytes)
        /\ supplied' = <<>> /\ returned' = Returns(TRUE, 0)
        /\ UNCHANGED <<platform, fd, result>>
    BY DEF Begin
  <1>2. SystemTypeOK /\ c # NoCall /\ c.bytes \in Nat
    BY CallFacts DEF SystemInv
  <1>3. SystemTypeOK'
    <2>1. returned' \in [success : BOOLEAN, value : IntMin .. IntMax]
      BY <1>1, IntFacts DEF Returns
    <2>2. pc' \in {"while", "filled", "open", "pass"}
      BY <1>1, <1>2, SourceFacts
    <2>3. /\ buffer' \in [1 .. call'.bytes -> Byte \cup {Unwritten}]
          /\ supplied' \in Seq(Byte) /\ total_read' \in 0 .. call'.bytes
      BY <1>1, <1>2, FreshFacts
    <2> QED
      BY <1>1, <1>2, <2>1, <2>2, <2>3 DEF SystemTypeOK
  <1>4. Progress'
    BY <1>1, <1>2, SourceFacts, FreshFacts DEF Progress, Pending
  <1> QED
    BY <1>1, <1>2, <1>3, <1>4, SourceFacts DEF SystemInv, Outcome

LEMMA OpenKeeps ==
  ASSUME SystemInv, GetUrandomFD \/ GetUrandomFDInternal
  PROVE  SystemInv'
  <1>1. call # NoCall /\ call \in Calls
    BY DEF SystemInv, SystemTypeOK, GetUrandomFD, GetUrandomFDInternal
  <1>2. SystemTypeOK'
    BY DEF SystemInv, SystemTypeOK, GetUrandomFD, GetUrandomFDInternal
  <1>3. Progress'
    BY <1>1 DEF SystemInv, SystemTypeOK, Progress, Pending, GetUrandomFD, GetUrandomFDInternal
  <1> QED
    BY <1>1, <1>2, <1>3 DEF SystemInv, Outcome, GetUrandomFD, GetUrandomFDInternal

LEMMA ConcatFacts ==
  ASSUME NEW S, NEW s \in Seq(S), NEW t \in Seq(S)
  PROVE  /\ s \o t \in Seq(S)
         /\ Len(s \o t) = Len(s) + Len(t)
         /\ \A i \in 1 .. Len(s) + Len(t) :
              (s \o t)[i] = IF i <= Len(s) THEN s[i] ELSE t[i - Len(s)]
  OBVIOUS

(* n bytes from the kernel go where total_read says. *)
LEMMA SupplyFacts ==
  ASSUME SystemTypeOK, call \in Calls, Progress, Pending = 0,
         NEW n \in Nat \ {0}, n <= BytesLeft, Supply(n)
  PROVE  /\ buffer' \in [1 .. call.bytes -> Byte \cup {Unwritten}]
         /\ supplied' \in Seq(Byte)
         /\ Len(supplied') = total_read + n
         /\ \A i \in 1 .. call.bytes :
              buffer'[i] = IF i <= Len(supplied') THEN supplied'[i] ELSE Unwritten
         /\ UNCHANGED <<platform, call, fd, total_read, returned>>
  <1>1. PICK bytes \in [1 .. n -> Byte] :
          /\ buffer' = [i \in DOMAIN buffer |->
                          IF i \in total_read + 1 .. total_read + n THEN bytes[i - total_read]
                          ELSE buffer[i]]
          /\ supplied' = supplied \o bytes
    BY DEF Supply
  <1>2. /\ call # NoCall /\ call.bytes \in Nat
        /\ total_read \in Nat /\ Len(supplied) = total_read
        /\ buffer \in [1 .. call.bytes -> Byte \cup {Unwritten}]
        /\ supplied \in Seq(Byte)
        /\ total_read + n <= call.bytes
    BY CallFacts DEF SystemTypeOK, Progress, BytesLeft
  <1>3. bytes \in Seq(Byte) /\ Len(bytes) = n
    OBVIOUS
  <1>4. /\ supplied' \in Seq(Byte) /\ Len(supplied') = total_read + n
        /\ \A i \in 1 .. total_read + n :
             supplied'[i] = IF i <= total_read THEN supplied[i] ELSE bytes[i - total_read]
    BY <1>1, <1>2, <1>3, ConcatFacts
  <1>5. buffer' \in [1 .. call.bytes -> Byte \cup {Unwritten}]
    BY <1>1, <1>2
  <1>6. ASSUME NEW i \in 1 .. call.bytes
        PROVE  buffer'[i] = IF i <= Len(supplied') THEN supplied'[i] ELSE Unwritten
    BY <1>1, <1>2, <1>4 DEF Progress
  <1> QED
    BY <1>4, <1>5, <1>6 DEF Supply

LEMMA ReadKeeps ==
  ASSUME SystemInv, read
  PROVE  SystemInv'
  <1>1. PICK n \in {Error, EINTR} \cup (0 .. MaxBytes + WordBytes) : Answer(n)
    BY DEF read
  <1>2. /\ pc = "while" /\ call # NoCall /\ call \in Calls /\ Progress /\ SystemTypeOK
        /\ Pending = 0
    BY <1>1 DEF Answer, SystemInv, SystemTypeOK, Pending
  <1>3. /\ call.bytes \in Nat /\ total_read \in Nat /\ total_read < call.bytes
        /\ n \in {Error, EINTR} \cup 0 .. BytesLeft
        /\ BytesLeft \in Nat
    BY <1>1, <1>2, CallFacts DEF Answer, SystemTypeOK, BytesLeft
  <1>4. CASE n > 0
    <2>1. n \in Nat \ {0} /\ n <= BytesLeft
      BY <1>3, <1>4 DEF Error, EINTR
    <2>2. Supply(n) /\ pc' = "answered" /\ result' = n
      BY <1>1, <1>4 DEF Answer
    <2>3. /\ buffer' \in [1 .. call.bytes -> Byte \cup {Unwritten}]
          /\ supplied' \in Seq(Byte)
          /\ Len(supplied') = total_read + n
          /\ \A i \in 1 .. call.bytes :
               buffer'[i] = IF i <= Len(supplied') THEN supplied'[i] ELSE Unwritten
          /\ UNCHANGED <<platform, call, fd, total_read, returned>>
      BY <1>2, <2>1, <2>2, SupplyFacts
    <2>4. SystemTypeOK'
      BY <1>2, <2>1, <2>2, <2>3 DEF SystemTypeOK
    <2>5. Progress'
      BY <1>3, <2>1, <2>2, <2>3 DEF Progress, Pending, BytesLeft
    <2> QED
      BY <1>2, <2>2, <2>3, <2>4, <2>5 DEF SystemInv, Outcome
  <1>5. CASE ~(n > 0)
    <2>1. /\ pc' = "answered" /\ result' = n
          /\ UNCHANGED <<platform, call, fd, total_read, buffer, supplied, returned>>
      BY <1>1, <1>5 DEF Answer
    <2>2. SystemTypeOK'
      BY <1>2, <1>3, <2>1 DEF SystemTypeOK
    <2>3. Progress'
      BY <1>2, <1>3, <1>5, <2>1 DEF Progress, Pending, Error, EINTR
    <2> QED
      BY <1>2, <2>1, <2>2, <2>3 DEF SystemInv, Outcome
  <1> QED
    BY <1>4, <1>5

LEMMA HandleEintrKeeps ==
  ASSUME SystemInv, HandleEintr
  PROVE  SystemInv'
  <1>1. /\ pc = "answered" /\ call # NoCall /\ call \in Calls /\ Progress /\ SystemTypeOK
        /\ UNCHANGED <<platform, call, fd, result, buffer, supplied, returned>>
    BY DEF HandleEintr, SystemInv, SystemTypeOK
  <1>2. /\ call.bytes \in Nat /\ total_read \in Nat /\ total_read <= call.bytes
        /\ result \in {Error, EINTR} \cup Nat
        /\ Len(supplied) \in Nat
    BY <1>1, CallFacts DEF SystemTypeOK
  <1>3. \/ result = EINTR /\ pc' = "while" /\ UNCHANGED total_read
        \/ result \in {0, Error} /\ pc' = "break" /\ UNCHANGED total_read
        \/ result > 0 /\ pc' = "while" /\ total_read' = total_read + result
    BY <1>2 DEF HandleEintr, EINTR, Error
  <1>4. /\ total_read' \in 0 .. call.bytes
        /\ Len(supplied) = total_read' /\ (result <= 0 => total_read' = total_read)
    BY <1>1, <1>2, <1>3 DEF Progress, Pending, EINTR, Error
  <1>5. SystemTypeOK'
    BY <1>1, <1>3, <1>4 DEF SystemTypeOK
  <1>6. Progress'
    <2>1. pc' \in {"while", "break"} /\ total_read < call.bytes
      BY <1>1, <1>3 DEF Progress
    <2>2. pc' = "break" => result' \in {0, Error} /\ total_read' < call'.bytes
      BY <1>1, <1>3, <2>1
    <2>3. /\ Len(supplied') = total_read' /\ total_read' \in Nat
          /\ call'.bytes \in Nat /\ total_read' <= call'.bytes
      BY <1>1, <1>2, <1>4
    <2>4. \A n \in 1 .. call'.bytes :
            buffer'[n] = IF n <= Len(supplied') THEN supplied'[n] ELSE Unwritten
      BY <1>1 DEF Progress
    <2> QED
      <3>1. result' \in Int
        BY <1>1, <1>2 DEF Error, EINTR
      <3>2. Pending' = 0
        BY <2>1, <3>1 DEF Pending
      <3>3. ASSUME NEW n \in Nat
            PROVE  n + 0 = n
        OBVIOUS
      <3>4. Len(supplied') = total_read' + Pending'
        BY <2>3, <3>2, <3>3, Zenon
      <3> QED
        BY <2>1, <2>2, <2>3, <2>4, <3>4 DEF Progress
  <1> QED
    BY <1>1, <1>3, <1>5, <1>6 DEF SystemInv, Outcome

LEMMA ReadFromFDReturnsKeeps ==
  ASSUME SystemInv, ReadFromFDReturns
  PROVE  SystemInv'
  <1>1. /\ pc \in {"break", "while"} /\ call # NoCall /\ call \in Calls
        /\ Progress /\ SystemTypeOK
        /\ UNCHANGED <<platform, call, fd, result, total_read, buffer, supplied>>
    BY DEF ReadFromFDReturns, SystemInv, SystemTypeOK
  <1>2. /\ Len(supplied) = total_read
        /\ call.bytes \in Nat /\ call.kind \in {"ReadFromFD", "RandBytes", "RandInt"}
        /\ total_read \in Nat
        /\ total_read < call.bytes => result \in {0, Error}
    BY <1>1, CallFacts DEF Progress, Pending, SystemTypeOK, ReadFromFDReturns
  <1>3. CASE call.kind = "ReadFromFD"
    <2>1. pc' = "idle" /\ returned' = Returns(total_read = call.bytes, 0)
      BY <1>3 DEF ReadFromFDReturns
    <2>2. /\ returned' \in [success : BOOLEAN, value : IntMin .. IntMax]
          /\ returned'.success = (total_read = call.bytes)
      BY <2>1, IntFacts DEF Returns
    <2>3. SystemTypeOK'
      BY <1>1, <2>1, <2>2 DEF SystemTypeOK
    <2>4. Progress'
      BY <1>1, <1>2, <2>1 DEF Progress, Pending
    <2> QED
      BY <1>1, <1>2, <1>3, <2>1, <2>2, <2>3, <2>4 DEF SystemInv, Outcome
  <1>4. CASE call.kind # "ReadFromFD"
    <2>1. /\ \/ pc' = "filled" /\ total_read = call.bytes
             \/ pc' = "aborted"
          /\ UNCHANGED returned
      BY <1>4 DEF ReadFromFDReturns
    <2>2. SystemTypeOK'
      BY <1>1, <2>1 DEF SystemTypeOK
    <2>3. Progress'
      BY <1>1, <1>2, <1>4, <2>1 DEF Progress, Pending
    <2> QED
      BY <1>1, <2>1, <2>2, <2>3 DEF SystemInv, Outcome
  <1> QED
    BY <1>3, <1>4

LEMMA RandBytesPassKeeps ==
  ASSUME SystemInv, RandBytesPass
  PROVE  SystemInv'
  <1> DEFINE n == Min({BytesLeft, PassBytes})
  <1>1. /\ pc = "pass" /\ call # NoCall /\ call \in Calls /\ Progress /\ SystemTypeOK
        /\ Pending = 0
    BY DEF RandBytesPass, SystemInv, SystemTypeOK, Pending
  <1>2. /\ Len(supplied) = total_read /\ call.bytes \in Nat
        /\ total_read \in 0 .. call.bytes
        /\ call.kind # "ReadFromFD"
        /\ BytesLeft = call.bytes - total_read
    BY <1>1, CallFacts DEF Progress, SystemTypeOK, BytesLeft
  <1>3. CASE total_read = call.bytes
    <2>1. /\ pc' = "filled"
          /\ UNCHANGED <<platform, call, fd, result, total_read, buffer, supplied, returned>>
      BY <1>3 DEF RandBytesPass
    <2>2. SystemTypeOK'
      BY <1>1, <2>1 DEF SystemTypeOK
    <2>3. Progress'
      BY <1>1, <1>2, <1>3, <2>1 DEF Progress, Pending
    <2> QED
      BY <1>1, <2>1, <2>2, <2>3 DEF SystemInv, Outcome
  <1>4. CASE total_read # call.bytes
    <2>1. n \in Nat \ {0} /\ n <= BytesLeft
      BY <1>2, <1>4, MinOfTwo, SystemAssumption
    <2>2. RtlGenRandom(n)
      BY <1>4 DEF RandBytesPass
    <2> HIDE DEF n
    <2>3. CASE Supply(n) /\ result' = n /\ pc' = "passed"
      <3>1. /\ buffer' \in [1 .. call.bytes -> Byte \cup {Unwritten}]
            /\ supplied' \in Seq(Byte)
            /\ Len(supplied') = total_read + n
            /\ \A i \in 1 .. call.bytes :
                 buffer'[i] = IF i <= Len(supplied') THEN supplied'[i] ELSE Unwritten
            /\ UNCHANGED <<platform, call, fd, total_read, returned>>
        BY <1>1, <2>1, <2>3, SupplyFacts
      <3>2. SystemTypeOK'
        BY <1>1, <2>1, <2>3, <3>1 DEF SystemTypeOK
      <3>3. Progress'
        BY <1>2, <2>1, <2>3, <3>1 DEF Progress, Pending
      <3> QED
        BY <1>1, <2>3, <3>1, <3>2, <3>3 DEF SystemInv, Outcome
    <2>4. CASE /\ pc' = "aborted" /\ result' = Error
               /\ UNCHANGED <<platform, call, fd, total_read, buffer, supplied, returned>>
      <3>1. SystemTypeOK'
        BY <1>1, <2>4 DEF SystemTypeOK
      <3>2. Progress'
        BY <1>1, <1>2, <2>4 DEF Progress, Pending
      <3> QED
        BY <1>1, <2>4, <3>1, <3>2 DEF SystemInv, Outcome
    <2> QED
      BY <2>2, <2>3, <2>4 DEF RtlGenRandom
  <1> QED
    BY <1>3, <1>4

LEMMA RandBytesNextPassKeeps ==
  ASSUME SystemInv, RandBytesNextPass
  PROVE  SystemInv'
  <1>1. /\ pc = "passed" /\ pc' = "pass" /\ total_read' = total_read + result
        /\ call # NoCall /\ call \in Calls /\ Progress /\ SystemTypeOK
        /\ UNCHANGED <<platform, call, fd, result, buffer, supplied, returned>>
    BY DEF RandBytesNextPass, SystemInv, SystemTypeOK
  <1>2. /\ call.bytes \in Nat /\ total_read \in Nat /\ result \in Nat
        /\ Len(supplied) = total_read' /\ total_read' <= call.bytes
        /\ call.kind # "ReadFromFD"
    BY <1>1, CallFacts DEF SystemTypeOK, Progress, Pending, Error, EINTR
  <1>3. SystemTypeOK'
    BY <1>1, <1>2 DEF SystemTypeOK
  <1>4. Progress'
    BY <1>1, <1>2 DEF Progress, Pending
  <1> QED
    BY <1>1, <1>3, <1>4 DEF SystemInv, Outcome

LEMMA RandBytesReturnsKeeps ==
  ASSUME SystemInv, RandBytesReturns
  PROVE  SystemInv'
  <1>1. /\ pc = "filled" /\ call # NoCall /\ call \in Calls /\ Progress /\ SystemTypeOK
        /\ UNCHANGED <<platform, call, fd, result>>
    BY DEF RandBytesReturns, SystemInv, SystemTypeOK
  <1>2. /\ Len(supplied) = total_read /\ total_read = call.bytes
        /\ call.bytes \in Nat /\ call.kind \in {"RandBytes", "RandInt"}
    BY <1>1, CallFacts DEF Progress, Pending
  <1>3. CASE /\ pc' = "idle" /\ UNCHANGED <<total_read, buffer, supplied>>
             /\ returned' \in [success : BOOLEAN, value : IntMin .. IntMax]
    <2>1. SystemTypeOK'
      BY <1>1, <1>3 DEF SystemTypeOK
    <2>2. Progress'
      BY <1>1, <1>2, <1>3 DEF Progress, Pending
    <2> QED
      BY <1>1, <1>2, <1>3, <2>1, <2>2 DEF SystemInv, Outcome
  <1>4. CASE /\ pc' = Source(call) /\ UNCHANGED returned /\ call.kind = "RandInt"
             /\ total_read' = 0 /\ buffer' = Fresh(call.bytes) /\ supplied' = <<>>
    <2>1. pc' \in {"while", "open", "pass"}
      BY <1>1, <1>4, CallFacts, SourceFacts, SystemAssumption
    <2>2. /\ buffer' \in [1 .. call.bytes -> Byte \cup {Unwritten}]
          /\ supplied' \in Seq(Byte) /\ Len(supplied') = 0
          /\ \A n \in 1 .. call.bytes : buffer'[n] = Unwritten
      BY <1>2, <1>4, FreshFacts
    <2>3. SystemTypeOK'
      BY <1>1, <1>2, <1>4, <2>1, <2>2 DEF SystemTypeOK
    <2>4. Progress'
      BY <1>1, <1>2, <1>4, <2>1, <2>2 DEF Progress, Pending
    <2> QED
      BY <1>1, <2>1, <2>3, <2>4 DEF SystemInv, Outcome
  <1>5. ASSUME NEW value \in 0 .. max, call.kind = "RandInt"
        PROVE  Returns(TRUE, RandIntResult(call, value))
                 \in [success : BOOLEAN, value : IntMin .. IntMax]
    <2>1. RandIntResult(call, value) \in IntMin .. IntMax
      BY <1>1, <1>5, ResultFacts DEF max
    <2> QED
      BY <2>1 DEF Returns
  <1>6. CASE call.kind = "RandBytes"
    <2>1. pc' = "idle" /\ UNCHANGED <<total_read, buffer, supplied, returned>>
      BY <1>6 DEF RandBytesReturns
    <2> QED
      BY <1>1, <1>3, <2>1 DEF SystemTypeOK
  <1>7. CASE call.kind = "RandInt"
    BY <1>3, <1>4, <1>5, <1>7 DEF RandBytesReturns
  <1> QED
    BY <1>2, <1>6, <1>7

-----------------------------------------------------------------------------
LEMMA SystemInvariant == SystemSpec => []SystemInv
  <1>1. SystemInit => SystemInv
    BY IntFacts DEF SystemInit, SystemInv, SystemTypeOK, Returns
  <1>2. ASSUME SystemInv, [SystemNext]_systemVars
        PROVE  SystemInv'
    <2>1. CASE UNCHANGED systemVars
      BY <1>2, <2>1 DEF systemVars, SystemInv, SystemTypeOK, Progress, Pending, Outcome
    <2>2. CASE \E c \in Calls : Begin(c)
      BY <1>2, <2>2, BeginKeeps
    <2>3. CASE Run
      BY <1>2, <2>3, OpenKeeps, ReadKeeps, HandleEintrKeeps, ReadFromFDReturnsKeeps,
         RandBytesPassKeeps, RandBytesNextPassKeeps, RandBytesReturnsKeeps DEF Run
    <2> QED
      BY <1>2, <2>1, <2>2, <2>3 DEF SystemNext
  <1> QED
    BY <1>1, <1>2, PTL DEF SystemSpec

(* Each variable keeps its type; among it, total_read stays within the     *)
(* bytes that are asked for.                                               *)
THEOREM SystemTypesKept == SystemSpec => []SystemTypeOK
  <1>1. SystemInv => SystemTypeOK
    BY DEF SystemInv
  <1> QED
    BY SystemInvariant, <1>1, PTL

(* ReadFromFD and RandBytes put every byte in its place, whatever was      *)
(* interrupted, short or failed (file_util_posix.cc, lines 13-24).         *)
THEOREM BytesInOrder == SystemSpec => []ReadsInOrder
  <1>1. SystemInv => ReadsInOrder
    BY DEF SystemInv, Progress, Outcome, ReadsInOrder
  <1> QED
    BY SystemInvariant, <1>1, PTL

(* RandInt is uniform over its range, and its loop accepts a word of every *)
(* remainder (rand_util.cc, lines 62-85).                                  *)
THEOREM RandIntIsUniform == SystemSpec => []RandIntUniform
  <1>1. SystemInv => RandIntUniform
    BY Uniform DEF SystemInv, SystemTypeOK
  <1> QED
    BY SystemInvariant, <1>1, PTL

-----------------------------------------------------------------------------
(* StringAppendV appends all of a text or nothing, and restores the errors *)
(* of its thread, for every size of the buffer on the stack, limit and     *)
(* length of a text, and each kind of vsnprintf.                           *)

(* The sizes of buffers between the one on the stack and the largest. *)
BufferSizes == CHOOSE sizes \in Doublings : TRUE

(* What a vsnprintf that returned says of the text. *)
Answered ==
  at = "printed" =>
    /\ status >= 0 => status = length
    /\ status < 0 => \/ failed \/ length > MaxReturn
                     \/ length >= mem_length /\ style \notin {"c99", "windows"}

(* The errors until they are restored. *)
PutAside ==
  at # "outside" =>
    /\ errors.errno = "other" => failed
    /\ style # "windows" => errors.last_error = clear_errno.last_error

(* A buffer is one of those, or was made for the length of the text. *)
LargeEnough == at # "outside" => mem_length \in BufferSizes \/ length < mem_length

PrintfInv == PrintfTypeOK /\ Answered /\ PutAside /\ LargeEnough /\ FormatsWhole

-----------------------------------------------------------------------------
LEMMA BufferSizesFacts ==
  /\ StackSize \in BufferSizes
  /\ \A size \in BufferSizes : size \in 1 .. Limit /\ (size = Limit \/ 2 * size \in BufferSizes)
  BY DoublingAssumption DEF BufferSizes, Doublings

LEMMA StringAppendVKeeps ==
  ASSUME PrintfInv, NEW printed \in 0 .. MaxPrinted, StringAppendV(printed)
  PROVE  PrintfInv'
  <1>1. PrintfTypeOK'
    <2>1. errors' \in [errno : Codes, last_error : {"0", "other"}]
      BY DEF StringAppendV, PrintfInv, PrintfTypeOK, Cleared, Codes
    <2>2. appended' \in [count : Nat, printed : Nat]
      BY DEF StringAppendV, NoneAppended
    <2>3. /\ length' \in 0 .. MaxPrinted
          /\ mem_length' \in Nat /\ mem_length' = StackSize
          /\ status' \in -1 .. MaxReturn
      BY PrintfAssumption DEF StringAppendV
    <2> QED
      BY <2>1, <2>2, <2>3 DEF StringAppendV, PrintfInv, PrintfTypeOK
  <1>2. PutAside'
    BY DEF StringAppendV, PrintfInv, PrintfTypeOK, PutAside, Cleared
  <1>3. LargeEnough'
    BY BufferSizesFacts DEF StringAppendV, LargeEnough
  <1>4. Answered' /\ FormatsWhole'
    BY DEF StringAppendV, Answered, FormatsWhole
  <1> QED
    BY <1>1, <1>2, <1>3, <1>4 DEF PrintfInv

(* What vsnprintf answers, failed or not. *)
LEMMA VsnprintfFacts ==
  ASSUME PrintfInv, vsnprintfT(mem_length)
  PROVE  /\ status' \in -1 .. MaxReturn /\ failed' \in BOOLEAN
         /\ errors' \in [errno : Codes, last_error : {"0", "other"}]
         /\ status' >= 0 => status' = length
         /\ status' < 0 => \/ failed' \/ length > MaxReturn
                           \/ length >= mem_length /\ style \notin {"c99", "windows"}
         /\ errors'.errno = "other" => failed' \/ errors.errno = "other"
         /\ style # "windows" => errors'.last_error = errors.last_error
         /\ failed => failed'
  <1>1. /\ length \in Nat /\ mem_length \in Nat /\ MaxReturn \in Nat
        /\ errors \in [errno : Codes, last_error : {"0", "other"}]
        /\ failed \in BOOLEAN
    BY PrintfAssumption DEF PrintfInv, PrintfTypeOK
  <1>2. CASE /\ status' = Printed(mem_length).status
             /\ errors' = [errors EXCEPT !.errno = Printed(mem_length).errno]
             /\ UNCHANGED failed
    <2>1. CASE length <= MaxReturn /\ (length < mem_length \/ style \in {"c99", "windows"})
      <3>1. status' = length /\ errors' = errors
        BY <1>1, <1>2, <2>1 DEF Printed
      <3> QED
        BY <1>1, <1>2, <2>1, <3>1
    <2>2. CASE ~(length <= MaxReturn /\ (length < mem_length \/ style \in {"c99", "windows"}))
      <3>1. /\ status' = -1
            /\ errors' \in {errors, [errors EXCEPT !.errno = "EOVERFLOW"]}
        BY <1>1, <1>2, <2>2 DEF Printed
      <3>2. /\ errors' \in [errno : Codes, last_error : {"0", "other"}]
            /\ errors'.last_error = errors.last_error
            /\ errors'.errno = "other" => errors.errno = "other"
        BY <1>1, <3>1 DEF Codes
      <3> QED
        BY <1>1, <1>2, <2>2, <3>1, <3>2
    <2> QED
      BY <2>1, <2>2
  <1>3. CASE /\ status' = -1 /\ failed' = TRUE
             /\ \E code \in IF style = "windows" THEN {"0", "other"} ELSE {errors.last_error} :
                  errors' = [errno |-> "other", last_error |-> code]
    BY <1>1, <1>3 DEF Codes
  <1> QED
    BY <1>2, <1>3 DEF vsnprintfT

LEMMA CallVsnprintfKeeps ==
  ASSUME PrintfInv, CallVsnprintf
  PROVE  PrintfInv'
  <1>1. /\ at \in {"stack_buf", "mem_buf"} /\ at' = "printed" /\ vsnprintfT(mem_length)
        /\ UNCHANGED <<style, length, mem_length, clear_errno, appended>>
    BY DEF CallVsnprintf
  <1>2. PrintfTypeOK'
    BY <1>1, VsnprintfFacts DEF PrintfInv, PrintfTypeOK
  <1>3. Answered'
    BY <1>1, VsnprintfFacts DEF Answered
  <1>4. PutAside'
    BY <1>1, VsnprintfFacts DEF PrintfInv, PutAside
  <1>5. LargeEnough' /\ FormatsWhole'
    BY <1>1 DEF PrintfInv, LargeEnough, FormatsWhole
  <1> QED
    BY <1>2, <1>3, <1>4, <1>5 DEF PrintfInv

(* Every return restores the errors. *)
LEMMA ReturnFacts ==
  ASSUME PrintfInv, at = "printed", NEW kept, Return(kept)
  PROVE  /\ at' = "outside" /\ appended' = kept
         /\ errors' = clear_errno
         /\ errors' \in [errno : Codes, last_error : {"0", "other"}]
  BY DEF Return, PrintfInv, PrintfTypeOK, PutAside

(* Only a text that is too long, or a failure, makes it give up. *)
LEMMA GivesUpRightly ==
  ASSUME PrintfInv, at = "printed", ~Fits(status, mem_length), GivesUp
  PROVE  failed \/ length >= Limit
  <1>1. /\ length \in Nat /\ mem_length \in Nat /\ status \in -1 .. MaxReturn
        /\ MaxReturn \in Nat /\ Limit \in Nat /\ MaxReturn >= Limit
        /\ errors.errno \in Codes
    BY PrintfAssumption DEF PrintfInv, PrintfTypeOK
  <1>2. CASE status >= 0
    <2>1. status = length /\ NextLength = status + 1 /\ NextLength > Limit
      BY <1>1, <1>2 DEF PrintfInv, Answered, GivesUp, NextLength
    <2> QED
      BY <1>1, <2>1
  <1>3. CASE status < 0
    <2> SUFFICES ASSUME ~failed, length < Limit
                 PROVE  FALSE
      BY <1>1
    <2>1. length >= mem_length /\ style \notin {"c99", "windows"}
      BY <1>1, <1>3 DEF PrintfInv, Answered
    <2>2. errors.errno # "other"
      BY DEF PrintfInv, PutAside
    <2>3. 2 * mem_length > Limit
      BY <1>1, <1>3, <2>1, <2>2 DEF GivesUp, NextLength, Codes
    <2>4. mem_length \in BufferSizes
      BY <1>1, <2>1 DEF PrintfInv, LargeEnough
    <2> QED
      BY <1>1, <2>1, <2>3, <2>4, BufferSizesFacts
  <1> QED
    BY <1>1, <1>2, <1>3

LEMMA RepeatKeeps ==
  ASSUME PrintfInv, Repeat
  PROVE  PrintfInv'
  <1>1. /\ at = "printed" /\ UNCHANGED <<style, length, status, clear_errno, failed>>
    BY DEF Repeat
  <1>2. /\ length \in 0 .. MaxPrinted /\ length \in Nat /\ mem_length \in Nat
        /\ status \in -1 .. MaxReturn /\ MaxReturn \in Nat /\ Limit \in Nat
    BY PrintfAssumption DEF PrintfInv, PrintfTypeOK
  <1>3. CASE Fits(status, mem_length)
    <2>1. Return(Appended(mem_length)) /\ mem_length' = mem_length
      BY <1>1, <1>3 DEF Repeat
    <2>2. status = length /\ length < mem_length
      BY <1>1, <1>2, <1>3 DEF PrintfInv, Answered, Fits
    <2>3. Appended(mem_length) = [count |-> length, printed |-> length]
      BY <1>2, <2>2 DEF Appended, Smaller
    <2>4. PrintfTypeOK'
      BY <1>1, <1>2, <2>1, <2>3, ReturnFacts DEF PrintfInv, PrintfTypeOK
    <2>5. FormatsWhole'
      BY <1>1, <2>1, <2>3, ReturnFacts DEF FormatsWhole
    <2> QED
      BY <1>1, <2>1, <2>4, <2>5, ReturnFacts DEF PrintfInv, Answered, PutAside, LargeEnough
  <1>4. CASE ~Fits(status, mem_length) /\ GivesUp
    <2>1. Return(NoneAppended) /\ mem_length' = mem_length
      BY <1>1, <1>4 DEF Repeat
    <2>2. failed \/ length >= Limit
      BY <1>1, <1>4, GivesUpRightly
    <2>3. PrintfTypeOK'
      BY <1>1, <1>2, <2>1, ReturnFacts DEF PrintfInv, PrintfTypeOK, NoneAppended
    <2>4. FormatsWhole'
      BY <1>1, <2>1, <2>2, ReturnFacts DEF FormatsWhole
    <2> QED
      BY <1>1, <2>1, <2>3, <2>4, ReturnFacts DEF PrintfInv, Answered, PutAside, LargeEnough
  <1>5. CASE ~Fits(status, mem_length) /\ ~GivesUp
    <2>1. /\ at' = "mem_buf" /\ mem_length' = NextLength /\ UNCHANGED <<errors, appended>>
      BY <1>1, <1>5 DEF Repeat
    <2>2. NextLength \in Nat /\ NextLength <= Limit
      BY <1>2, <1>5 DEF NextLength, GivesUp
    <2>3. NextLength \in BufferSizes \/ length < NextLength
      <3>1. CASE status >= 0
        BY <1>1, <1>2, <3>1 DEF NextLength, PrintfInv, Answered
      <3>2. CASE status < 0
        <4>1. NextLength = 2 * mem_length
          BY <1>5, <3>2 DEF NextLength, GivesUp
        <4>2. mem_length \in BufferSizes \/ length < mem_length
          BY <1>1 DEF PrintfInv, LargeEnough
        <4> QED
          BY <1>2, <2>2, <4>1, <4>2, BufferSizesFacts
      <3> QED
        BY <1>2, <3>1, <3>2
    <2>4. PrintfTypeOK'
      BY <1>1, <2>1, <2>2 DEF PrintfInv, PrintfTypeOK
    <2>5. Answered' /\ FormatsWhole' /\ LargeEnough'
      BY <1>1, <2>1, <2>3 DEF Answered, FormatsWhole, LargeEnough
    <2>6. PutAside'
      BY <1>1, <2>1 DEF PrintfInv, PutAside
    <2> QED
      BY <2>4, <2>5, <2>6 DEF PrintfInv
  <1> QED
    BY <1>3, <1>4, <1>5

-----------------------------------------------------------------------------
LEMMA PrintfInvariant == PrintfSpec => []PrintfInv
  <1>1. PrintfInit => PrintfInv
    <2> SUFFICES ASSUME PrintfInit PROVE PrintfInv
      OBVIOUS
    <2>1. NoneAppended \in [count : Nat, printed : Nat] /\ NoneAppended.count = 0 /\ NoneAppended.printed = 0
      BY DEF NoneAppended
    <2>2. PrintfTypeOK
      <3>1. /\ length \in 0 .. MaxPrinted
            /\ mem_length \in Nat /\ mem_length <= Limit
            /\ status \in -1 .. MaxReturn
        BY PrintfAssumption DEF PrintfInit
      <3> QED
        BY <2>1, <3>1 DEF PrintfInit, PrintfTypeOK
    <2>3. FormatsWhole
      BY <2>1 DEF PrintfInit, FormatsWhole
    <2> QED
      BY <2>2, <2>3 DEF PrintfInit, PrintfInv, Answered, PutAside, LargeEnough
  <1>2. ASSUME PrintfInv, [PrintfNext]_printfVars
        PROVE  PrintfInv'
    <2>1. CASE UNCHANGED printfVars
      BY <1>2, <2>1 DEF printfVars, PrintfInv, PrintfTypeOK, Answered, PutAside, LargeEnough,
         FormatsWhole
    <2>2. CASE PrintfNext
      BY <1>2, <2>2, StringAppendVKeeps, CallVsnprintfKeeps, RepeatKeeps DEF PrintfNext
    <2> QED
      BY <1>2, <2>1, <2>2
  <1> QED
    BY <1>1, <1>2, PTL DEF PrintfSpec

(* A text is appended whole or not at all, and not at all only for a       *)
(* reason; errno and the last error are restored (stringprintf.cc, lines   *)
(* 27-90).                                                                 *)
THEOREM AppendsWhole == PrintfSpec => []FormatsWhole
  <1>1. PrintfInv => FormatsWhole
    BY DEF PrintfInv
  <1> QED
    BY PrintfInvariant, <1>1, PTL

-----------------------------------------------------------------------------
(* A program that uses one part of base *)

(* A behaviour of the program is a behaviour of each part: the steps of    *)
(* one leave the variables of the others alone.                            *)
THEOREM PartsAreUsed ==
  UtilitiesSpec => /\ StringsSpec /\ SystemSpec /\ PrintfSpec
                   /\ ContainersSpec /\ MachSpec /\ [](part \in ThePartsOfBase)
  <1>1. UtilitiesInit => /\ StringsInit /\ SystemInit /\ PrintfInit
                         /\ ContainersInit /\ MachInit /\ part \in ThePartsOfBase
    BY DEF UtilitiesInit
  <1>2. [UtilitiesNext]_utilityVars => [StringsNext]_stringVars
    BY DEF UtilitiesNext, utilityVars
  <1>3. [UtilitiesNext]_utilityVars => [SystemNext]_systemVars
    BY DEF UtilitiesNext, utilityVars
  <1>4. [UtilitiesNext]_utilityVars => [PrintfNext]_printfVars
    BY DEF UtilitiesNext, utilityVars
  <1>5. [UtilitiesNext]_utilityVars => [ContainersNext]_containerVars
    BY DEF UtilitiesNext, utilityVars
  <1>6. [UtilitiesNext]_utilityVars => [MachNext]_machVars
    BY DEF UtilitiesNext, utilityVars
  <1>7. part \in ThePartsOfBase /\ [UtilitiesNext]_utilityVars => (part \in ThePartsOfBase)'
    BY DEF UtilitiesNext, utilityVars
  <1> QED
    BY <1>1, <1>2, <1>3, <1>4, <1>5, <1>6, <1>7, PTL
       DEF UtilitiesSpec, StringsSpec, SystemSpec, PrintfSpec, ContainersSpec, MachSpec

(* Every variable of every part keeps its type.                            *)
THEOREM UtilitiesTyped == UtilitiesSpec => []UtilitiesTypeOK
  <1>1. PrintfInv => PrintfTypeOK
    BY DEF PrintfInv
  <1>2. PagesInv => MachTypeOK
    BY DEF PagesInv
  <1>3. /\ part \in ThePartsOfBase /\ StringsTypeOK /\ SystemTypeOK /\ PrintfTypeOK
        /\ ContainersTypeOK /\ MachTypeOK
        => UtilitiesTypeOK
    BY DEF UtilitiesTypeOK
  <1> QED
    BY PartsAreUsed, TextsKept, SystemTypesKept, PrintfInvariant, ContainersTypesKept,
       PagesInvariant, <1>1, <1>2, <1>3, PTL

(* What is promised of each part holds of the program that uses them.      *)
THEOREM UtilitiesSafe ==
  UtilitiesSpec => [](/\ NumbersRead /\ PathsTakenApart /\ ReadsInOrder /\ RandIntUniform
                      /\ FormatsWhole /\ BlocksOwned /\ WithinBounds /\ PagesOwned)
  BY PartsAreUsed, NumbersAreRead, PathsAreTakenApart, BytesInOrder, RandIntIsUniform, AppendsWhole,
     BlocksOwnedHolds, WithinBoundsHolds, PagesAlwaysOwned, PTL
===============================================================================
