----------------------------- MODULE Containers -----------------------------
(***************************************************************************)
(* base::HeapArray, base::span and CheckedContiguousIterator               *)
(* (base/containers/{heap_array,span,checked_iterators}.h): what a program *)
(* reaches of its memory through them.                                     *)
(*                                                                         *)
(* A pointer is a number, 0 the null pointer; a block of memory is as many *)
(* elements from its first address on as were allocated.  A failed CHECK   *)
(* or DCHECK stops the program: a call has the set of what it may return   *)
(* as its value, which is Stopped, the empty set, if it fails one.  A      *)
(* program uses a span or an iterator no longer than the memory it was     *)
(* made of.                                                                *)
(***************************************************************************)
EXTENDS Integers, FiniteSets

CONSTANTS
  Arrays,          \* the HeapArray objects
  Blocks,          \* numbers of the blocks that can be allocated
  MaxElements,     \* bound: elements of a block
  SizeModulus      \* values of a size_t

ASSUME ContainersAssumption ==
  /\ Blocks \subseteq Nat \ {0}
  /\ MaxElements \in Nat /\ SizeModulus \in Nat
  /\ 2 * MaxElements < SizeModulus - 1

VARIABLES
  elements,        \* [Blocks -> elements it has, 0 while it is not allocated]
  array,           \* [Arrays -> data_ and size_]
  leaked,          \* the pointers that leak returned and nobody owns
  view,            \* a span that the program uses
  it,              \* an iterator, of a span
  mark             \* a copy of it, made earlier of the same span, if any

containerVars == <<elements, array, leaked, view, it, mark>>

dynamic_extent == SizeModulus - 1
Sizes == 0 .. SizeModulus - 1
Differences == -(SizeModulus \div 2) + 1 .. SizeModulus \div 2 - 1    \* ptrdiff_t, but its least
Minus(a, b) == (a - b) % SizeModulus

nullptr == 0
Address(block) == block * SizeModulus
Cells(pointer, size) == pointer .. pointer + size - 1
Allocated == {block \in Blocks : elements[block] > 0}

Stopped == {}
Checked(condition, value) == IF condition THEN {value} ELSE Stopped

-----------------------------------------------------------------------------
(* span: a pointer and a size.  The functions that return a part of it.    *)
Span(data, size) == [data |-> data, size |-> size]
EmptySpan == Span(nullptr, 0)

first(s, count) == Checked(count <= s.size, Span(s.data, count))

last(s, count) == Checked(count <= s.size, Span(s.data + Minus(s.size, count), count))

(* Mutant: the sum is checked, which may wrap around. *)
SubspanBySum(s, offset, count) ==
  LET new_extent == IF count # dynamic_extent THEN count ELSE Minus(s.size, offset)
  IN  Checked(count = dynamic_extent \/ (offset + count) % SizeModulus <= s.size,
              Span(s.data + offset, new_extent))

subspan(s, offset, count) ==
  LET new_extent == IF count # dynamic_extent THEN count ELSE Minus(s.size, offset)
  IN  Checked(/\ offset <= s.size
              /\ count = dynamic_extent \/ count <= Minus(s.size, offset),
              Span(s.data + offset, new_extent))

split_at(s, offset) == first(s, offset) \X subspan(s, offset, dynamic_extent)

(* operator[], front and back: the address of an element. *)
Element(s, idx) == Checked(idx < s.size, s.data + idx)
front(s) == Checked(s.size # 0, s.data)
back(s) == Checked(s.size # 0, s.data + Minus(s.size, 1))

(* copy_from: the span, when it may be written. *)
copy_from(s, other) ==
  Checked(/\ s.size = other.size
          /\ s.data + s.size <= other.data \/ s.data >= other.data + other.size,
          s)

(* The constructors: of a pair of iterators, and those of a fixed extent,  *)
(* whose size is the type's, of anything with a pointer and a size.        *)
SpanOfPair(from, upto) ==
  Checked(from.start = upto.start /\ from.end = upto.end /\ from.current <= upto.current,
          Span(from.current, Minus(upto.current, from.current)))

FixedSpan(N, s) == Checked(N = s.size, Span(s.data, N))

-----------------------------------------------------------------------------
(* CheckedContiguousIterator *)
Iterator(start, current, end) ==
  Checked(start <= current /\ current <= end,
          [start |-> start, current |-> current, end |-> end])

begin(s) == Iterator(s.data, s.data, s.data + s.size)
end_(s) == Iterator(s.data, s.data + s.size, s.data + s.size)
NullIterator == [start |-> nullptr, current |-> nullptr, end |-> nullptr]

Increment(i) == Checked(i.current # i.end, [i EXCEPT !.current = @ + 1])
Decrement(i) == Checked(i.current # i.start, [i EXCEPT !.current = @ - 1])

Add(i, rhs) ==
  Checked(IF rhs > 0 THEN rhs <= i.end - i.current ELSE -rhs <= i.current - i.start,
          [i EXCEPT !.current = @ + rhs])

Subtract(i, rhs) ==
  Checked(IF rhs < 0 THEN -rhs <= i.end - i.current ELSE rhs <= i.current - i.start,
          [i EXCEPT !.current = @ - rhs])

Dereference(i) == Checked(i.current # i.end, i.current)
IndexOf(i, rhs) == Checked(rhs >= 0 /\ rhs < i.end - i.current, i.current + rhs)

Comparable(a, b) == a.start = b.start /\ a.end = b.end
Distance(a, b) == Checked(Comparable(a, b), a.current - b.current)

IsRangeMoveSafe(from_begin, from_end, to) ==
  IF ~Comparable(from_begin, from_end) THEN Stopped
  ELSE IF from_end.current < from_begin.current THEN {FALSE}
  ELSE {\/ to.current >= from_end.current
        \/ to_end.current <= from_begin.current :
          to_end \in Add(to, from_end.current - from_begin.current)}

-----------------------------------------------------------------------------
(* HeapArray *)
NoData == [data_ |-> nullptr, size_ |-> 0]
as_span(a) == Span(array[a].data_, array[a].size_)

ContainersInit ==
  /\ elements = [block \in Blocks |-> 0]
  /\ array = [a \in Arrays |-> NoData]
  /\ leaked = {} /\ view = EmptySpan /\ it = NullIterator /\ mark = NullIterator

Within(s, blockSizes) ==
  s.size > 0 => \E block \in Blocks :
                  Cells(s.data, s.size) \subseteq Cells(Address(block), blockSizes[block])

(* delete[] of the pointer that a has, which is nothing for the null       *)
(* pointer.  The program forgets what it had of that memory.               *)
Deleted(pointer) ==
  [block \in Blocks |-> IF Address(block) = pointer THEN 0 ELSE elements[block]]

Forget ==
  LET Belongs(pointer) ==
        \E block \in Blocks : /\ elements'[block] > 0
                              /\ pointer \in Cells(Address(block), SizeModulus)
  IN  /\ view' = IF Belongs(view.data) THEN view ELSE EmptySpan
      /\ it' = IF Belongs(it.start) THEN it ELSE NullIterator
      /\ mark' = IF Belongs(mark.start) THEN mark ELSE NullIterator

(* Mutant: the array that was moved from keeps its size. *)
ForgetDataOnly(that) == [data_ |-> nullptr, size_ |-> array[that].size_]

(* What a move leaves of the array that was moved from. *)
MovedFrom(that) == NoData

(* operator=(HeapArray&&), of another array or of a itself. *)
MoveAssign(a, that) ==
  /\ array' = IF a = that THEN array
              ELSE [array EXCEPT ![a] = array[that], ![that] = MovedFrom(that)]
  /\ elements' = IF a = that THEN elements ELSE Deleted(array[a].data_)
  /\ Forget
  /\ UNCHANGED leaked

(* operator=(HeapArray&&), of an array of size elements that is new. *)
AssignNew(a, size) ==
  IF size = 0
    THEN array' = [array EXCEPT ![a] = NoData] /\ elements' = Deleted(array[a].data_)
    ELSE \E block \in Blocks \ Allocated :
           /\ array' = [array EXCEPT ![a] = [data_ |-> Address(block), size_ |-> size]]
           /\ elements' = [Deleted(array[a].data_) EXCEPT ![block] = size]

(* a = WithSize(size) or Uninit(size), and, of no elements, a's end. *)
NewArray(a, size) == AssignNew(a, size) /\ Forget /\ UNCHANGED leaked

(* a = CopiedFrom(view): the new array is as large as the view. *)
CopiedFrom(a) ==
  /\ AssignNew(a, view.size)
  /\ copy_from(Span(array'[a].data_, array'[a].size_), view) # Stopped
  /\ Forget
  /\ UNCHANGED leaked

(* a = FromOwningPointer(ptr, size), of a pointer that was leaked, and no  *)
(* more elements than there are.                                           *)
FromOwningPointer(a, ptr, size) ==
  /\ ptr \in leaked /\ size > 0
  /\ \A block \in Blocks : Address(block) = ptr => size <= elements[block]
  /\ leaked' = leaked \ {ptr}
  /\ array' = [array EXCEPT ![a] = [data_ |-> ptr, size_ |-> size]]
  /\ elements' = Deleted(array[a].data_)
  /\ Forget

(* view = std::move(a).leak() *)
leak(a) ==
  /\ array' = [array EXCEPT ![a] = MovedFrom(a)]
  /\ leaked' = leaked \cup ({array[a].data_} \ {nullptr})
  /\ view' = as_span(a)
  /\ UNCHANGED <<elements, it, mark>>

DeleteLeakedData(ptr) ==
  /\ ptr \in leaked
  /\ leaked' = leaked \ {ptr}
  /\ elements' = Deleted(ptr)
  /\ UNCHANGED array
  /\ Forget

-----------------------------------------------------------------------------
Views(spans) == view' \in spans /\ UNCHANGED <<elements, array, leaked, it, mark>>
Points(iterators) == it' \in iterators /\ UNCHANGED <<elements, array, leaked, view>>

HeapArrayStep ==
  \E a \in Arrays :
    \/ \E size \in 0 .. MaxElements : NewArray(a, size)
    \/ CopiedFrom(a)
    \/ \E that \in Arrays : MoveAssign(a, that)
    \/ \E ptr \in leaked, size \in 1 .. MaxElements : FromOwningPointer(a, ptr, size)
    \/ leak(a)
    \/ Views({as_span(a)})

(* The parts that a span gives of itself. *)
Parts(s) ==
  \E n \in Sizes :
    \/ Views(first(s, n)) \/ Views(last(s, n))
    \/ \E m \in Sizes : Views(subspan(s, n, m))
    \/ \E halves \in split_at(s, n) : Views({halves[1], halves[2]})

SpanStep == Parts(view)

(* A span of a fixed extent gives the same; what its templates are asked   *)
(* for is looked at by the compiler.                                       *)
FixedSpanStep == \E N \in Sizes : \E s \in FixedSpan(N, view) : Parts(s)

IteratorStep ==
  \/ (Points(begin(view)) \/ Points(end_(view))) /\ mark' = NullIterator
  \/ (Points(Increment(it)) \/ Points(Decrement(it))) /\ UNCHANGED mark
  \/ \E n \in Differences : (Points(Add(it, n)) \/ Points(Subtract(it, n))) /\ UNCHANGED mark
  \/ Views(SpanOfPair(mark, it))
  \/ mark' = it /\ UNCHANGED <<elements, array, leaked, view, it>>

ContainersNext ==
  \/ HeapArrayStep \/ SpanStep \/ FixedSpanStep \/ IteratorStep
  \/ \E ptr \in leaked : DeleteLeakedData(ptr)

ContainersSpec == ContainersInit /\ [][ContainersNext]_containerVars

-----------------------------------------------------------------------------
ContainersTypeOK ==
  /\ elements \in [Blocks -> 0 .. MaxElements]
  /\ array \in [Arrays -> [data_ : Nat, size_ : Sizes]]
  /\ leaked \subseteq Nat
  /\ view \in [data : Nat, size : Sizes]
  /\ {it, mark} \subseteq [start : Nat, current : Nat, end : Nat]

(* Each block has one owner, an array or who leaked it; nothing else is    *)
(* owned, and no array claims more than its block has (heap_array.h, lines *)
(* 48-210).                                                                *)
BlocksOwned ==
  LET Owners(block) == {a \in Arrays : array[a].data_ = Address(block)}
                       \cup ({Address(block)} \cap leaked)
  IN  /\ \A block \in Blocks :
           Cardinality(Owners(block)) = IF block \in Allocated THEN 1 ELSE 0
      /\ \A a \in Arrays : Within(as_span(a), elements)

(* The cells from one offset of a span up to another, if it has them. *)
Part(s, from, upto) ==
  Checked(0 <= from /\ from <= upto /\ upto <= s.size, Span(s.data + from, upto - from))

(* IsRangeMoveSafe says of ranges whether they do not overlap. *)
MovesSafely ==
  \A a \in Arrays : \A to \in begin(as_span(a)) :
    \A safe \in IsRangeMoveSafe(mark, it, to) :
      mark.current <= it.current =>
        LET from == mark.current .. it.current - 1
        IN  safe <=> from \cap Cells(to.current, Cardinality(from)) = {}

(* Whatever the program did before, a span and an iterator reach cells of  *)
(* one allocated block only; and what is asked of them is given exactly    *)
(* when it lies within them, however sums of offsets and sizes wrap        *)
(* around.  Of the offsets the least ptrdiff_t is left out: its negation   *)
(* (checked_iterators.h, lines 118 and 138) is undefined, and where that   *)
(* wraps to itself the CHECK lets the iterator leave its span (span.h,     *)
(* lines 771-1021; checked_iterators.h, lines 46-195).                     *)
WithinBounds ==
  /\ Within(view, elements)
  /\ Within(Span(it.start, it.end - it.start), elements)
  /\ it.current \in it.start .. it.end
  /\ \A n \in Sizes :
       /\ first(view, n) = Part(view, 0, n)
       /\ last(view, n) = Part(view, view.size - n, view.size)
       /\ \A m \in Sizes :
            subspan(view, n, m) =
              IF m = dynamic_extent THEN Part(view, n, view.size) ELSE Part(view, n, n + m)
       /\ Element(view, n) = {s.data : s \in Part(view, n, n + 1)}
  /\ front(view) = Element(view, 0)
  /\ back(view) = Element(view, Minus(view.size, 1))
  /\ \A n \in Differences :
       /\ Add(it, n) = Subtract(it, -n)
       /\ Add(it, n) # Stopped <=> it.current + n \in it.start .. it.end
       /\ IndexOf(it, n) # Stopped <=> n >= 0 /\ it.current + n < it.end
       /\ IndexOf(it, n) # Stopped =>
            \A i \in Add(it, n) : IndexOf(it, n) = Dereference(i)
  /\ \A n \in Distance(it, mark) : Add(mark, n) = {it}
  /\ MovesSafely

=============================================================================
