# Verification of mini_chromium

TLA+ models of mini_chromium (`src/base`), the TLC runs that check them on
small instances, and proofs, checked by TLAPS, for instances of any size.

## Inventory of the system

mini_chromium is a library: no threads and no main loop of its own. Its parts
are used by the threads of a host program, and what is hard in it is what the
host does to them: several threads at once, callbacks that come back in, errors
in the middle of an operation, values at the edge of a type.

| Component | State | Operations | Interacts with | Hard behaviour | What makes it correct |
|---|---|---|---|---|---|
| Thread-local storage, `base/threading` | the native key, the index counter, the destructor table; per slot an index and a flag; per thread a vector (on the stack or on the heap) behind one OS value | `Initialize`, `Free`, `Get`, `Set`; the OS's thread-exit callback | OS keys, the allocator, destructors (all three may call back in), `CHECK` | race to create the key; re-entry while a vector is built or torn down; destructors that store again; other exit code that revives the vector; `Free` against exit | one key survives; the OS value never dangles; no re-entry into construction; a slot's values belong to that slot; every value with a destructor is handed over once; exit ends |
| Lock and ConditionVariable, `base/synchronization` | native mutex; the shadow owner of debug builds; the condition's queue | `Acquire`, `Try`, `Release`, `AssertAcquired`, `~Lock`; `Wait`, `Signal`, `Broadcast`; `AutoLock`, `AutoUnlock` | pthreads or Win32, `DCHECK` | the shadow is checked and changed around the native calls, and across the hand-over inside `Wait`; recursion is allowed by Windows | mutual exclusion; mistakes are reported before they reach the native lock, and only mistakes are |
| Logging and checks, `logging.*`, `check*.h`, `notreached.h` | handler, destination, one message object per statement | `LOG`, `PLOG`, `CHECK`, `CHECK_EQ`..., `InitLogging`, `SetLogMessageHandler` | `errno`, a handler that may log, the process's death | destructor chains that flush; a handler that swallows a fatal message; `errno` read late | a fatal check never continues; each message goes out once, complete, with the caller's error |
| Scoped ownership, `scoped_generic.h`, `scoped_file.*`, `apple/scoped_*`, `auto_reset.h` | one raw handle per object | construct, `reset`, `release`, move, `swap`, destroy | `close`, Mach, CoreFoundation | self-assignment, failing or interrupted `close` | each resource freed once, by its owner, never while owned |
| Regions of memory, `apple/scoped_mach_vm.*` | an address and a size | construct, `reset`, `release`, `swap`, destroy | Mach's page allocator | a new region that overlaps the old one | each page deallocated once, by its owner |
| System calls and random numbers, `eintr_wrapper.h`, `file_util_posix.cc`, `rand_util.cc` | progress of a loop | `HANDLE_EINTR`, `ReadFromFD`, `RandBytes`, `RandGenerator`, `RandInt` | the kernel | interruption, short reads, end of file, rejection, overflow of a range | all bytes once and in order; uniform results within the range |
| String formatting, `stringprintf.cc` | buffer size | `StringAppendV` | `vsnprintf`, `errno` | both conventions of `vsnprintf`, `INT_MAX` | the loop ends; the text is appended whole or not at all; `errno` survives |
| FilePath | a string | `DirName`, `BaseName`, `Append`, extensions | - | roots, `//`, drive letters, trailing separators, `npos` arithmetic | dirname and basename take a path apart, Append puts it together |
| Numbers and strings, `string_number_conversions.cc` | - | `StringToInt`, ..., `HexStringToBytes` | - | limits of each type, signs, partial output | the value of the numeral, or the nearest limit and false |
| Pattern matching, `pattern.cc` | two cursors | `MatchPattern` | UTF decoding | backtracking, escapes | agrees with the meaning of `*`, `?` and `\` |
| UTF conversions, `utf_string_conversion*.cc`, `third_party/icu` | - | UTF-8 <-> UTF-16 <-> wide | - | ill-formed input | round trips; U+FFFD for what is ill-formed |
| Numerics, `base/numerics`, `sys_byteorder.h` | value and validity | checked, clamped and saturating arithmetic, range checks, byte order | - | mixed widths and signs, the minimum of a signed type | equal to exact arithmetic, or invalid or saturated |
| Containers, `base/containers` | pointer and size; three pointers of an iterator | `span`, `HeapArray`, checked iterators | the allocator, `CHECK` | bounds at the end, `size_t` wrap-around, moves from and to oneself, `leak` | no access outside the allocation; each block has one owner |
| Atomics, `atomicops*.h` | a word | load, store, increment, compare-and-swap | - | memory order | one read-modify-write at a time |
| Apple, Fuchsia, metrics, compiler, process and page-size helpers; build scripts | none | wrappers | the platform | - | not modelled (see below) |

## Modules

| Module | What it is |
|---|---|
| `ThreadLocalStorage` | `thread_local_storage.cc` with its POSIX and Windows halves, as a state machine |
| `ThreadValues` | the abstract promise: one value per thread and index |
| `ThreadLocalStorageProofs` | the inductive invariants of `ThreadLocalStorage`, its safety theorems, and that it implements `ThreadValues` |
| `MCThreadLocalStorage` | symmetry sets for TLC |
| `Lock` | `Lock`, `LockImpl` and `ConditionVariable` of a debug build |
| `LockProofs` | the inductive invariant of `Lock` and its safety theorems |
| `Logging` | message objects, the message handler and the end of the process |
| `LoggingProofs` | the inductive invariant of `Logging` and its safety theorems |
| `ScopedOwnership` | the objects that own descriptors, Mach rights and CoreFoundation objects |
| `ScopedOwnershipProofs` | the inductive invariant of `ScopedOwnership` and its theorems |
| `Numerics` | integer types, conversions, range checks, comparisons, promotions |
| `CheckedMath` | checked and saturating operations on integers, as each compiler gets them |
| `SafeNumerics` | `CheckedNumeric` and `ClampedNumeric` objects through chains of operations |
| `SafeNumericsProofs` | conversions, comparisons and the portable arithmetic are exact at every width; the inductive invariant of `SafeNumerics` and its theorems: chains of operations agree with exact arithmetic |
| `FilePath`, `StringNumbers`, `Pattern`, `Utf`, `ByteOrder` | the functions of one source file each, as operators on sequences, and what their results mean, defined without the algorithm |
| `Strings` | every short text, passed to those functions |
| `StringsProofs` | what the conversions of a text into numbers and bytes compute, and into what parts `FilePath` takes a path, for texts of any length |
| `TextsProofs` | what the conversions between UTF-8 and UTF-16, and between bytes and integers, compute, and what `MatchPattern` finds, for texts of any length |
| `MCStrings` | the characters and lengths of these texts |
| `SystemCalls` | `ReadFromFD`, `RandBytes`, `RandGenerator` and `RandInt` over an unreliable kernel |
| `StringPrintf` | the loop of `StringAppendVT` over four kinds of `vsnprintf` |
| `Containers` | `HeapArray`, `span` and `CheckedContiguousIterator` over a heap of blocks |
| `ScopedMachVM` | objects that own regions of pages |
| `Utilities` | the parts that share nothing, one of which a behaviour exercises (`part`) |
| `UtilitiesProofs` | the inductive invariants of `SystemCalls`, `StringPrintf`, `Containers` and `ScopedMachVM`, and that a behaviour of `Utilities` is one of each part |
| `MCUtilities` | `Utilities` with the texts of `MCStrings` |

Operators that no module uses and whose comment begins with "Mutant" are
plausible mistakes in the operator that follows them: substituting one makes
the property it is listed with in `PROJECT.json` fail, which shows that the
property depends on that line of the code.

### ThreadLocalStorage

*State.* `nativeKey`, `lastUsed` and `destructors` are the three globals of
`thread_local_storage.cc`; `slotOf` and `initialized` are the members of each
`StaticSlot`. `osKeys` and `tls` are the operating system's: which keys exist,
and the value of each on each thread. A vector is not addressed by a pointer
but by where it lives: `"ctorStack"` is the array in the frame of
`ConstructTlsVector`, `"exitStack"` the one in the frame of
`OnThreadExitInternal`, `"heap"` the `new`-ed one; `vector` is their contents
and `heapLive` the allocator's view of the third. `key`, `slot`, `needScan`,
`attempts`, `pending` are locals; `op` is the outer call that found no vector
and waits for one; `claiming` is an `Initialize` between its increment and its
`CHECK_LT`. A destructor is identified with the object that registered it.

*Steps.* One action per stretch of code that nothing can get in between of.
The key race is cut at each access of `g_native_tls_key`; `Initialize` is cut
between the increment and the rest, because exit scans on other threads read
the counter; the exit scan is cut before each call of a destructor, because
`Free` may run between the read of the destructor and the call. At `"new"`,
`"delete"`, `"destructor"` and `"os_exit"` the thread runs foreign code
(allocator, destructors, other libraries' exit handlers) that may call any
slot: every one of these calls is enabled there. That is how re-entrancy is
modelled, and how "a destructor stores into another slot" happens.

*Platforms.* POSIX runs the exit callbacks in up to
`PTHREAD_DESTRUCTOR_ITERATIONS` rounds and clears the OS value before each;
`ExitRounds = 2` stands for that. Windows calls back once (`ExitRounds = 1`).
POSIX may hand out the reserved key, which the code returns at once; Windows
never does, so there the model allows more than can happen.

*Assumed of callers* (documented or evident from the header): `Get`, `Set` and
`Free` on initialised slots only; an object is not initialised or freed while
another call on it runs (`Unused`); a value is stored in one place at a time
(`Storable`: callers own what they store). Atomic operations are sequentially
consistent. A failed `CHECK` ends the process. That is certain for `CHECK` and
`LOG(FATAL)`, whose `LogMessageFatal` always crashes; `CHECK_LT`, `CHECK_GT` and
`DCHECK_EQ` build a plain `LogMessage`, which does not crash when a message
handler returns true (`logging.cc:136-140`). The models here take the handler to
return false.

*A detail worth knowing.* `CHECK_GT(--remaining_attempts, 0)` runs after every
pass, the last and clean one too: a thread whose destructors need exactly
`kMaxDestructorIterations` passes dies although nothing is left to destroy.

### Lock

*State.* `holder` and `depth` are the native lock's; `owning_thread_` is the
shadow; `waiters` the condition's sleepers. `visible` are the values of the shadow that
a thread may get when it reads it: a call that is a mistake reads it without the lock,
while the holder may be writing it, so it may find what was there at any time since the
reader itself last wrote it or got the native lock, which orders its reads behind all
that was written under the lock. A call that is no mistake reads the last value; that,
too, is not assumed but follows (`VisibleInv`). `~Lock` reads the last value, since who
destroys a lock has to know that the others are done. `holds` and `misused` belong to the
callers: what the calls a thread has made entitle it to, and whether its last
call was one the DCHECKs are there to report. They appear in no guard.

*Steps.* Each call is cut where another thread can run: between the native
lock and the mark (`Acquire`, `Try`, `Wait`), between the unmark and the unlock
(`Release`, `Wait`). `pthread_cond_wait` unlocks and queues in one step, which is
what POSIX guarantees; it is woken by `Signal`, `Broadcast` or for no reason.
Callers do anything: recursion, `Release` or `Wait` without the lock, destruction
of a held lock. `AutoLock` and `AutoUnlock` make these same calls in an order
that the model's callers are free to choose.

*Builds.* A debug build (`NDEBUG` not defined). A release build is the same
without the shadow: `Acquire` is `LockReturns`, `Release` is `Unlock`, and
mistakes are the native lock's affair. `recursive`, chosen in `Init`, is the native
lock: an error-checking pthread mutex, or a Windows critical section, which lets its
owner in again (and has no `ConditionVariable` in this repository).

### Logging

*State.* `debug` is the build, `destination` and `handler` are the two globals,
`stack` holds the message objects alive: a handler is foreign code and may log, so
messages nest. A message knows its class, severity and the error it was given
(`err`); `cause` is what `errno` was when the statement was reached, `out` and
`taken` what became of it. `appended` and `flushes` count the destructors' work.

*Steps.* `Statement` builds the object and streams its operands, either of which
may change `errno`; `Destroy` is the destructor up to the call of the handler;
`HandlerReturns` and `Write` are the two ways through `Flush`; `Finish` is what
follows it, the crash of a fatal class or the return to the caller. Inside a
handler every statement, `SetLogMessageHandler` and `InitLogging` is possible
again. `InitLogging`'s DCHECK is a statement of its own and stores the destination
when a handler has swallowed it. `ErrnoLogMessage` stands for the Windows, Mach,
bootstrap and Zircon classes too, whose destructors have the same two shapes.

*Assumed.* One thread: the two globals are not synchronised, and nothing is
promised to a program that changes them while another thread logs. `MaxNesting`
bounds how deep handlers log; the code has no such bound.

### ScopedOwnership

*State.* `traits` chooses the class of the owners: `ScopedFD` and
`ScopedMachSendRight` are `ScopedGeneric`s, over a resource of which there is one
and over one that counts its references; `ScopedTypeRef` retains as well. `held`
is the owner's member. `count`, `child` and `dying` are the system's: references
per resource, the object an object refers to, and objects being destroyed. `raw`
counts the references of callers outside any owner, `call` is the `reset` or the
destructor that an owner is in.

*Steps.* `reset` and destruction are cut around the call that frees: meanwhile
the member still names what is gone, other threads open and close, and the name
may be given out again. Everything else is one step, because an owner is used by
one thread at a time. `MoveAssign` is `reset(rvalue.release())`, of an object to
itself too. `Reset` with RETAIN borrows anything that is alive, so also what only
the owner itself keeps alive. A moved or reset value that the owner already holds
makes `ScopedGeneric` abort (`StartReset`), even where it is a second reference.

*Assumed.* Callers pass what they own, or what is alive. `close` always closes:
Linux does, and `mac/close_nocancel.cc` replaces the `close` of Darwin that might
not. `MaxRaw` bounds the references callers hold by themselves.

### Numerics, CheckedMath, SafeNumerics

*Values.* A type is a record of signedness and width, a value an integer of its
range. `StaticCast` is two's complement; `Promoted` and `Common` are what C++ does
to operands before its own operators see them, which is where comparisons of
mixed signs go wrong when they are written down without care. The template
specialisations of the code are the branches of one operator each. Traits that
choose a type (`MaxExponentPromotion`, `BigEnoughPromotion`, ...) are operators on
types.

*Builds.* `Builds` are clang and gcc, whose `__builtin_*_overflow` is exact, and
another compiler, which takes the portable path; `intptr_t` is as wide as `int` or
as `intmax_t`. Both ways through code that asks whether the compiler knows a value
are possible at each step (`Negation`; both saturating casts in
`ConversionsExact`).

*State.* `number` is the object, with its class template and its type, because
`lhs + rhs` has a type of its own and a chain of operations goes through many.
`ideal` is a ghost: exact arithmetic on the same operands, converted to the type
where it fits (or to the nearest value, for a `ClampedNumeric`), empty once a
result has no meaning. An operation is one step: an object belongs to one thread.

*Where the code is not held to exact arithmetic.* The last argument (`may`) of
`CheckedMathOp` and `ClampedMathOp` says so: "refuse" (an operation may be invalid although its
result fits) or "differ". These are all the cases, and TLC shows that there are
no others:

* No type contains the operands, when the widest unsigned type meets a signed one
  (`NoPromotion`). The portable sum, difference and product and every quotient
  refuse an operand outside the promotion; the saturating forms then jump to a
  limit: `ClampedNumeric<int64_t>(-5) /= uint64_t{3}` is the lowest `int64_t`.
  `%` has no such check (`checked_math_impl.h:256`): `CheckMod(int64_t{-5},
  uint64_t{3})` is valid with a wrong value.
* `ClampAdd` of a negative and an unsigned value into the unsigned type saturates
  by the sign of the second operand (`clamped_math_impl.h:89`): -2 + 1 is 255 in
  eight bits, not 0.
* `~` of a signed value that is not negative is an unsigned value that does not
  fit again: invalid, or the maximum.
* A saturating `%` converts its first operand where it has no result.
* `lowest() % -1` is undefined (`ModTraps`).

`-` of an unsigned `CheckedNumeric` wraps and stays valid; `ideal` follows it, as
it follows the bits of negative values, because the code says so in so many words.

*Instances.* The code's widths are 8 to 64; 2, 4 and 8 keep what matters: a type
narrower than `int`, `int`, and the widest, each twice the one before. In two bits
the value of a negative shift count may be small (`ShiftCount` leaves those out).

### FilePath, StringNumbers, Pattern, Utf, ByteOrder

These files keep no state: each function is an operator on a sequence of the
characters that it tells apart (a letter, `.`, the separators, `:` and NUL in a
path; in a pattern, what the UTF decoder yields, bad sequences included).
`Strings` lets a caller write a text, one character after the other, and says of
every text, and of its two halves at any place, what the functions must return.
The promises are written without the algorithm: a path is a drive, a number of
separators and a list of names; a numeral is a sum of powers; a pattern's meaning
is the set of places that each of its characters leads to; a conversion is judged by converting back.

* *FilePath.* Positions are the code's, and `npos` is the largest `size_t`: `npos
  + 1` and `npos + 2` wrap to 0 and 1 (`Plus`), as the code relies on where there
  is no drive. What the build decides (the separators, whether there are drives) is a
  parameter of each operator, and every promise is about both `Builds`. A path has fewer
  characters than a `size_t` has values, as a string has (`StringsAssumption`). Two
  leading separators are a root of their own, and `DirName("///a")` is `//`: more than
  two are not reduced to one there, which `SameRoot` allows. `RemoveFinalExtension("foo.txt/")` is
  `foo.`: the length of the extension is cut off a path that still has its
  trailing separator, so `CutAtExtension` is about paths without one.
* *StringNumbers.* TLC runs one width, 5 bits, where a numeral of four characters
  goes past every limit. The templates become records of traits, and the functions
  operators on them; a sum that leaves the type wraps, as every build does it. `-1`
  is a valid unsigned number, the largest one (and `-01` is not valid), and
  hexadecimal digits in excess of an `int` wrap around and stay valid:
  `HexStringToInt("800000000")` is true, with 0. `ReadsNumeral` says what is right
  there modulo the width. `0x` alone is a valid 0.
* *Pattern.* `SearchForChars` is the code's loop with its variables. A
  backslash at the end of a pattern leaves the code in the middle of an escape: the
  model keeps that flag across restarts as the code does, and `MatchesMeant` allows
  either reading of such a pattern. Where the last text of the pattern also begins with
  an escape (`RestartsEscaped`), the search that starts again takes that escape for a
  character, and there is a match that neither reading means: `MatchPattern("*\a\", "*\*\\\")`
  is true. No document says what a backslash at the end is for, so this is no finding, and
  `MatchesMeant` leaves these patterns out. `NeedsBacktracking` names the patterns of the
  finding.
* *Utf.* Code points are assembled by the macros' arithmetic on code units, tables
  of allowed trail bytes included. `ConvertUnicode` stores the length in an
  `int32_t`; texts of more than 2 GB are outside the model.
* *ByteOrder.* Bytes have two bits, so that eight of them fit a TLC integer.

### SystemCalls

*State.* `pc` is where the one caller is, `call` what it asked for, `fd` the static
descriptor of `GetUrandomFD`. `total_read` and `buffer` are the locals of the loop
that fills a buffer: `ReadFromFD`'s, or `RandBytes`'s on Windows, where what is left
of `output` is the span behind `total_read`. `supplied` is a ghost: what the kernel handed
out. `result` is the last answer.

*Steps.* Each system call is one step and its evaluation the next. `open` and `read`
may be interrupted (`HANDLE_EINTR` calls again), `read` may answer with some of the bytes,
none at the end of the file, or an error; `RtlGenRandom` fills a pass of at most
`PassBytes` or fails. `RandInt` is `RandBytes` of a word and the rejection loop of
`RandGenerator`. A failed `CHECK` ends in `"aborted"`. The range is computed in
the arithmetic of words and the result in that of `int`s, which wraps to the right
value where `min` is negative.

### StringPrintf

*State.* A format is the number of characters it prints. `style` is the kind of
`vsnprintf`, `status` and `errors` what it returned and left in `errno` and the last
error, `clear_errno` the `ScopedClearLastError`, `mem_length` the size of the buffer.

*Steps.* One `vsnprintf` is a step, and what the code does with its result the
next: append and return, give up, or a larger buffer. Any call may fail for another
reason. `result + 1` for a result of `INT_MAX` exceeds the limit whether it overflows
as it does in practice or not, since a negative length becomes a huge `size_t`; the model
lets it exceed. A negative result doubles from 1024 to exactly 32 MiB; were the limit
not such a multiple, texts that fit it would be given up (`DoublingAssumption`).

### Containers

*State.* A pointer is a number and `elements` is the heap: how many elements each
block has, none while it is not allocated. `array` are the `HeapArray` objects,
`leaked` the pointers that `leak` returned; `view`, `it` and `mark` are a span and two
iterators of a span that the program uses. Elements have no content.

*Steps.* Every function of `span` and of the iterator is an operator whose value is
the set of what it may return, empty where a `CHECK` or `DCHECK` fails, in the
arithmetic of `size_t` (3 bits); actions pick from it. An array's deletion takes its
span and iterators with it (`Forget`): a program that uses a dangling one has no
promise. `mark` is an earlier copy of `it`, of the same span. `subspan` with the count
`SIZE_MAX` is what `dynamic_extent` says. `iterator += PTRDIFF_MIN` negates the least
`ptrdiff_t`, which is undefined (`checked_iterators.h:118` and `:138`), and if it wraps to
itself the `CHECK` lets the iterator leave its span; `Differences` leaves it out, and
`WithinBounds` says nothing of it.

### ScopedMachVM

Addresses and sizes count pages, which Mach deallocates one by one. `region` are the
objects' members, `allocated` is Mach's view and `callers` the pages the program looks
after itself. `reset` takes any region of the program's pages and the object's own, so
every overlap with the old one happens. Each operation is one step: an object belongs
to one thread.

## Runs

| Run | Shows | Bounds |
|---|---|---|
| `tls_posix` | all safety invariants of thread-local storage, and that it implements `ThreadValues` | 2 threads (races and exit against `Free`), 2 slots (a destructor that stores into another slot; an index after a freed one), 1 value besides NULL, 2 keys and the reserved one (both threads create a key), 3 indices of which 0 is never used (so `CHECK_LT` fails too), 3 passes (a rescan and the limit), 2 rounds of exit callbacks |
| `tls_windows` | an exit callback that starts ends, under fairness; and the refinement with one round | 2 threads, 1 slot (initialised again, it has another index), 2 values (a vector that is lost loses both, which no single `Set` explains), 1 round |
| `tls_scan_in_bounds` | violated: the exit scan can start past the end of both arrays (finding) | as `tls_posix` |
| `tls_free_stops_destructor` | violated: a destructor runs after `Free` has removed it (finding) | as `tls_posix` |
| `lock` | mutual exclusion, no false alarm, every mistake is caught, and before it reaches the native lock, over a mutex and over a lock that would let its owner in again | 4 threads: a holder, a signaller and two waiters; a thread that makes a mistake may read any owner since its own last write |
| `logging` | each message goes out once with its caller's error, and a fatal one ends the process unless it is a `CHECK_EQ`'s or a `LOG(DFATAL)`'s and the handler takes it | messages nest 2 deep (a handler that logs and is not called for its own message twice over), 2 values of `errno` (the caller's and a later one) |
| `errors_to_stderr` | violated: an error does not reach stderr (finding) | 1 message |
| `scoped_ownership` | every reference has one holder and every holder a reference, for each class of owner; a `Free` takes nobody else's | 2 owners (moves, swaps, copies), 3 resources (an object that keeps another alive, and a name used again), 2 raw references |
| `safe_numerics` | every chain of checked or saturating operations agrees with exact arithmetic in every build, but for the cases listed above; so do conversions and comparisons with every type | widths 2, 4 and 8; operands and followed objects within 1 of a limit of a type or of 0 (`EdgeWidth`): every comparison and limit in the code is at one of those |
| `utilities` | what each function on texts, reads, random numbers, formatting, containers and regions of pages promises, and that calls return | see below |
| `pattern_backtracking` | violated: `*` and `?` do not match all they should (finding) | patterns and strings of 8 characters together |
| `signal_order` | violated: `Signal` need not revive the most recent waiter (finding) | 3 threads |

The bounds of `utilities`:

* *Texts* of up to 6 characters in paths (a drive, two separators, a name, an
  extension; or a path and a component), 4 in numerals (a sign, a prefix or two
  digits on each side of a limit), 6 in a pattern and its string, 4 UTF-8 bytes (the
  longest character, or a short one and what follows it), 4 UTF-16 units, 8 bytes of an
  integer. The characters are the ends of the ranges that the code tells apart. A
  `size_t` has 16 values (`SizeValues`): the code adds no more than 3 to a position, and
  `npos` wraps around as it does with more.
* *System calls*: bytes of 1 bit, words of 3 of them, `int`s of 2 bits, so
  that ranges which divide the words' number and ranges which do not both occur, the
  full range included; 4 bytes asked for and 3 in a pass of Windows, so that it takes two.
* *Formatting*: a stack buffer of 2, a limit of 8, so that there are two doublings;
  texts up to 11 and results up to 9, so that both limits are crossed.
* *Containers*: 2 arrays and 2 blocks of up to 2 elements (moves between arrays, a new
  block while the old one is still there), `size_t` of 3 bits, so that every sum of an
  offset and a size that wraps around occurs.
* *Pages*: 5, and 2 regions: a new region can lie below, above, across, inside and
  around the old one, with the other's pages next to it.

Bounds that are guards of a model: `MaxNesting`, `MaxRaw`, `EdgeWidth`, `MaxLength`,
`MaxBytes`, `MaxPrinted`, `MaxElements` and `LastPage`; the code has none of them.
`lastUsed` ends with the process at the first index past the table, `depth` at the
first mark that finds one, and the buffers of `StringPrintf` at the code's own limit.

*Fairness* in `tls_windows` is `WF_vars(Work(t))` for every thread.
`Work` is the library's own code, the return of the allocator and of
destructors included; a thread that is in the middle of it is not blocked by
anything (there are no locks in this code), so a scheduler that runs every
thread gives it its next step. Nothing forces callers to call (`Use`), and a
destructor may use slots for ever without returning only by never reaching its
own end, which the fairness of `DestructorReturns` excludes.

In `utilities` the library's own steps are weakly fair: one thread runs them and
nothing blocks it. Of the kernel, `SystemFairness` assumes that it does not interrupt
`open` and `read` for ever (`Opens`, `Reads`), and that a random word is, again and
again, supplied at once and accepted (`Draws`); each is strong fairness, since the
retries in between disable it. The last holds with probability one: at least half of
all words are accepted. That some are is no assumption: `RandIntUniform` says so. Nothing is
assumed of `vsnprintf`: the loop ends because its buffers grow.

## Proofs

For every set of threads, slots, values and keys, every table size, pass limit
and number of rounds (`ConstantsAssumption`: the reserved key and NULL are
distinct from the others, the sizes are natural numbers), TLAPS proves of
`ThreadLocalStorage`:

* `TypeCorrect`, `SlotIdentityHolds`, `KeyAccountingHolds`, `VectorLiveHolds`,
  `NoRecursionHolds`, `FreshSlotsAreNullHolds`, `CleanExitHolds`,
  `NotStoredWhenDestroyedHolds`;
* `Refinement`: `Spec => ImplementsThreadValues`.

The inductive invariant is built in layers, each proved with the help of the
ones below, so that a layer's proof only looks at the actions that disturb it.
`TypeInv` adds to the ranges of the variables (`Typed`) what a step relies on at its
label: at `"new"` there is an outer call, and a destructor is called for an index of the
table. `ObjectInv` says which indices are taken: all up to `lastUsed`,
by at most one object each, and a destructor sits only at its object's index.
With it `TypeCorrect` follows (`IndexChecked`): only an increment gives out an index past
the end of the table, it leaves its thread with the check to come, and that check ends the
process. `KeyInv` accounts for every key the OS has handed out during the race.
`VectorInv` says for every label which vector the OS value points to; this is
what makes re-entrant calls find one. On top of them the values: nothing is
stored above `lastUsed`; a value being destroyed is nowhere else; a pass that
ends without `needScan` leaves nothing behind it. The refinement maps each step
to a step of `ThreadValues` or to a stutter: moving between vectors does not
change what the thread sees (`Content`), because each move copies and because
the OS value changes in the same step.

For any number of threads and both kinds of native lock (`LockAssumption`),
`LockProofs` proves `TypeCorrect`, `NoFalseAlarmHolds`, `HoldsLockHolds`,
`MisuseIsCaughtHolds` and `OnlyHolderUnlocksHolds` from `IInv`. None of these is
inductive alone: `IInv` adds, for each place in the calls, who has the native
lock (`Ownership`), how often (`DepthInv`), what the callers' records say there
(`CallerInv`), that the queue lists each sleeper once (`QueueInv`), and that no thread
can read a name of its own that is no longer in the shadow (`VisibleInv`): a thread
clears its name itself, before it gives the native lock up, and nobody else writes it.

For any nesting and any set of errors, `LoggingProofs` proves `TypeCorrect`,
`ReportsCallersErrorHolds`, `FatalNeverReturnsHolds` and `LastWordsHolds`. `IInv`
says what each message has been through at its place (`Sound`), that all messages
but the innermost wait in the handler, and of the innermost that it went to the
sinks of the destination as it still is (`Current`): nothing can change the
destination between the write and the end of a statement.

For integer types of any widths (`WidthsAssumption`: there is one twice as wide as
each but the widest, `intmax_t`, and each has two bits or more; `PowersAssumption`:
2^(n+1) is twice 2^n, since the provers know nothing of powers), `SafeNumericsProofs` proves
`ConversionsAreExact`, that `TypeOK` implies `ConversionsExact` for all values and not
only those near a limit, and that `CheckedAddImpl`, `CheckedSubImpl` and `CheckedMulImpl` accept a result exactly when
their type has it, and then store it (`AddImplExact`, `SubImplExact`,
`MulImplExact`). Everything rests on `Cast1` (what a cast does to a value that is
less than one range off), `RangeCheckExact` (by the specialisations of the range
check) and `CommonHolds` (the type of a sum has both operands, or is unsigned and
has those that are not negative). `BuildsAgree` builds on them: wherever some type has both
operands, the built-ins of clang and gcc and the portable path give the same verdict and
the same result. A promotion contains both operands; one that is twice as wide as both has
room for every sum and product, so that none is lost before the last range check;
elsewhere the arithmetic is done in the result's own type, by the three theorems on the
`Impl`s.

The rest of the module takes this to the objects, for any widths, every build and any
`EdgeWidth`, so for chains on all values: `CheckedObjectsSound`,
`CheckedObjectsComplete`, `ClampedObjectsNearest`, `ConversionsStayExact` and
`ObjectsTyped`. `CheckedSound` and `CheckedComplete` speak of valid objects and of those
whose `ideal` is not empty; neither says what an operation starts from. `IInv` does, with
`Agreement`: while an object is followed, `ideal` is its value or, if it is invalid,
empty, and a `ClampedNumeric` is valid. So an operation gets the operands that exact
arithmetic gets (`StartsRight`); that it makes the result of them that its type has, or
fails, is a lemma for each of the operations in every build (`SumsAnswered`,
`QuotientsAnswered`, `ExtremesFit`...), and with it that what saturates does so on the
right side (`SumSides`, `QuotientsSaturated`...); `CheckedStep` and `ClampedStep` store it.
Shifts rest on powers of two, the bit operations on the value of a set of bits
(`OfBits`), a recursive function. Both need induction, which the library has only with an operator as
parameter; here it is done with sets: of the numbers for which a claim does
not hold, there would be a least one (`LeastNumber`, `InductiveSet`).

For any finite sets of owners and resources (`OwnershipAssumption`),
`ScopedOwnershipProofs` proves `TypeCorrect`, `BalancedHolds` and
`ClosesOnlyItsOwnHolds`. The invariant adds to the balance what an owner's call says of
its member (`Sound`): one that is being reset or destroyed has a resource, one that is
not has no value put aside, and what is dying has a child but no references left. Each
step changes the three sets of holders of a resource by at most one element, and its
reference count by as much; the lemmas say so set by set, and finite cardinalities do
the rest. `ClosesOnlyItsOwn` is then arithmetic on the balance before the call of `Free`.

For bytes and words of any size, `int`s smaller than words and any bound on the bytes
(`SystemAssumption`), `UtilitiesProofs` proves `SystemTypesKept`, `BytesInOrder` and
`RandIntIsUniform`. `Progress` ties `total_read` to what the kernel has supplied at each
place of the loop (at `"answered"` and `"passed"` one answer is supplied and not yet
counted), and `Outcome` says what a finished call leaves. Uniformity is about words: the
accepted ones are whole classes with the same quotient by the range, and a class has
each remainder once.

For any stack buffer, limit and longest text (`PrintfAssumption`, and
`DoublingAssumption`: doubling the stack buffer meets the limit exactly),
`UtilitiesProofs` proves `AppendsWhole`. The invariant says what a result reveals of
the length of the text (`Answered`), which errors are put aside (`PutAside`), and that a
buffer is one of the doublings or was made for the text (`LargeEnough`).

For any number of pages and regions, `UtilitiesProofs` proves `ResetFreesTheRest`, that
`reset` deallocates exactly the old region less the new one however they lie, and from
it `PagesAlwaysOwned`, page by page. For any arrays, blocks and sizes (`ContainersAssumption`:
a block is less than half of the values of `size_t`) it proves `BlocksOwnedHolds` and
`WithinBoundsHolds`. `ArrayInv` says that an array has nothing or an allocated block, that
the leaked pointers are those of other blocks, and that nobody shares one; finite
cardinalities do the rest. `ReachInv` says that the span lies inside an allocated block and
the iterators between the ends of such a span; so no size is larger than a block, no
difference of sizes wraps around, and what a function returns is the part it was asked for
(`PartsExact`, `MovesExact`). It survives a deletion because blocks lie behind each other
(`AddressFacts`), so that a view that is not forgotten is of a block that stays.

`ContainersTypesKept` adds that all pointers are natural numbers (`PointersInv`): a part
of a span or a move of an iterator never begins before what it is made of.

For every text over any characters, any assignment of digits to them and integers of any
width from 5 bits on (`StringsAssumption`: a type that has every digit, and `PowersAssumption`,
what a power of two is), `StringsProofs` proves `NumbersAreRead`. After each digit a result
tells the number that the digits so far say (`Tells`): it is that number where the type has
it, and right modulo 2^Width while the code calls it valid, wrapped around or not. One more
digit keeps this because the check of the bounds refuses exactly the digits that lead past
the limit (`BoundsExact`), which depends on divisions that round to zero, for negative limits
too; because a number out of range stays so (`LargerNumbers`); and because the first digit
needs no check (`OneDigit`). The induction over the text is by a least counterexample
(`InductiveSet`), and the recursive functions are shown to exist (`RecursionExists`) before
anything is said of them.

For every path over any characters and as long as a string may be, with and without drives
and for any size of `size_t` from 16 values on (`StringsAssumption`), `StringsProofs` proves
`PathsAreTakenApart`. The loop of `StripTrailingSeparators` is a recursive function that
ends because each round is nearer to the start of the path (`StrippingExists`); what it
leaves is the drive and the least piece behind it that only separators follow, both
separators of `//`, and one character at least (`StrippedIs`), whatever `npos + 1` and
`npos + 2` wrap to. From there `DirName` and `BaseName` are two cuts at the last separator,
but for the root and `//` (`DirNameIs`, `BaseNameIs`, `PartsAre`). The promise does not know
these cuts: it lists the names, one character after the other. A prefix of the path has the
names of that prefix (`CutIsRead`), separators add no name (`SeparatorsAddNothing`), a piece
without separators behind one adds exactly itself (`NameAdded`), and the names of a text
behind a separator follow those in front (`NamesJoined`), which is what `Append` needs: it
puts a separator where there is none (`SeparatorBehind`, `JoinedIsRead`), except behind a
bare drive, where a relative component makes no root.

For texts of any 8-bit or 16-bit units, well-formed or not, and for bytes of any size
(`StringsAssumption`, `PowersAssumption`), `TextsProofs` proves
`ConversionsLossless`. `ConvertUnicode` is a recursive function that begins at the
end of the text: what it gives for a place is the character there and what it gives for
the place behind that character. What is read at a place does not depend on what stands
before it (`SuffixRead`), and, up to a place where a character may begin, not on what
stands behind that either (`PrefixRead`); so a text can be cut there. Reading undoes
writing (`WrittenIsRead`): a code point, surrogates excepted, comes back whatever follows
it. And where reading succeeds, writing undoes it (`ReadIsWritten`), because the tables
and limits of `CBU8_NEXT` refuse a longer form than needed, surrogates and what lies
behind U+10FFFF; so the text is the same after both conversions unless U+FFFD stands for
something that was not a character, which is then not as long or not the same. Bytes and
integers rest on positions: byte `i` of an integer is `ByteAt`, a sum of bytes at their
places has just these bytes, and swapping is reversing.

`TextsProofs` also proves `MatchesAreMeant`, for patterns and strings over any characters.
The recursions of `SearchForChars` and `MatchPatternT` are loops that come closer to their
end with each round (`Closer`), so they give a result (`LoopExists`), and what holds in
each round holds of the result (`SearchHolds`). What is found is meant: a search begins
only at places that the wildcards in front of it lead to, also when it starts again
(`Sane`, `RunReaches`), and its characters lead on from there; the flag `escape` says
whether the next character is behind an odd number of backslashes (`Flagged`), which is
where `RestartsEscaped` comes from. What is meant is found: take a match, place by place
(`Way`). A search for the text up to the next wildcard that begins in front of where the
match has that text, and reaches so far, gives up at no place before (`KeepsUp`), so it
ends there or earlier; if earlier, the wildcards behind it have to reach further than the
match's, which an unbounded sequence does, and a bounded one only behind the first text,
where the search cannot be early (`PromiseKept`).

`UtilitiesProofs` puts the parts together. A step of `Utilities` is one of the part that
is exercised and leaves the variables of the others alone, so a behaviour of it is one of
every part, fairness included (`PartsAreUsed`); what is proved of the parts therefore
holds of the specification that TLC runs (`UtilitiesTyped`, `UtilitiesSafe`), whatever the
alphabet and the length of the texts.

*Model-checked only.* `ExitTerminates` and `CallsReturn` are liveness properties; TLAPS
has no rules for fairness and ENABLED here. The five violations are counterexamples,
found by TLC.

## Findings

1. `thread_local_storage.cc:147`: an index that `Initialize` is about to refuse is
   visible to exit scans of other threads, which then read past both arrays.
   (The process is about to die of the `CHECK_LT` in any case, as `TypeOK` says.)
2. `thread_local_storage.h:101-104` promises that after `Free` "remaining threads
   exiting will not free data"; a thread that has already read the destructor
   does.
3. `condition_variable.h:54-58` promises last-in-first-out revival; the code is
   `pthread_cond_signal`.
4. `logging.h:24-25` promises that messages of severity ERROR and above reach
   stderr whatever the destination; `Flush` (`logging.cc:142`) asks the
   destination only.
5. `pattern.h:16` says that `*` matches 0 or more characters and `?` 0 or 1; but
   the search (`pattern.cc:117`) goes on from the first place where the text between two
   wildcards is found, and `MatchPattern("aaab", "*a?b")` is false. `MatchesMeant`,
   checked and proved, says that these patterns (`NeedsBacktracking`) are the only ones, and that
   they miss matches but never find one that they do not mean.

## Not modelled

* `StrictNumeric` (no operations), floating point in the numerics and `RandDouble`:
  exact arithmetic on rationals would say nothing of rounding.
* The assembler arithmetic (`safe_conversions_arm_impl.h`, `safe_math_arm_impl.h`):
  single instructions that stand in for the C++ that is modelled.
* `safe_strerror`, the wording of log messages, `mach_logging` and `fuchsia_logging`: text
  only; their message objects have the shape of `ErrnoLogMessage`.
* `lcpyT`, `WriteInto`, `StrCat` and the other string helpers: copy loops and
  one-line wrappers whose only state is their result.
* In `span`, the comparison of elements and the views as bytes or characters: elements
  have no content and one size.
* `utf8_nextCharSafeBody` and macros that nothing in the repository calls;
  `sys_string_conversions_mac.mm`, a sequence of CoreFoundation calls.
* `AutoReset` and `FreeDeleter`: one store, one call of `free`.
* The memory orders of `atomicops`: an interleaving model has one order of all
  accesses, which is what `ThreadLocalStorage` assumes of them.
* Metrics stubs, bridging casts, page sizes, process and compiler helpers, build
  scripts: no state, or code that is not part of the library.

## Plan

Everything planned is built: thread-local storage, the lock, logging and ownership first,
where threads, callbacks and the platform meet; then the numerics, the functions on
texts, the loops over the kernel and the C library, the containers and regions; and every
safety invariant and action property that a passing run checks is proved. What is left
depends on the code to come: the strict numeric types if they get operations, and the
Fuchsia logging if it gets state of its own.
