---------------------------- MODULE StringPrintf ----------------------------
(***************************************************************************)
(* StringAppendV (base/strings/stringprintf.cc): a format is printed into  *)
(* a buffer on the stack, and again into larger ones until it fits.        *)
(*                                                                         *)
(* A format is known by the number of characters it prints.  Four kinds of *)
(* vsnprintf are told apart: "c99" returns that number whether it fits or  *)
(* not; "unix98" returns -1 where it does not fit and leaves errno alone;  *)
(* "eoverflow" does so with EOVERFLOW; "windows" is base::vsnprintf of     *)
(* string_util_win.cc.  Any of them may fail otherwise, at any call.       *)
(***************************************************************************)
EXTENDS Integers

CONSTANTS
  StackSize,       \* std::size(stack_buf)
  Limit,           \* 32 * 1024 * 1024: no buffer is larger
  MaxReturn,       \* INT_MAX: what vsnprintf can return
  MaxPrinted       \* bound: the longest text that is printed

ASSUME PrintfAssumption ==
  /\ StackSize \in Nat \ {0} /\ Limit \in Nat
  /\ MaxReturn \in Nat /\ MaxReturn >= Limit
  /\ MaxPrinted \in Nat

(* A buffer that is doubled comes to the limit exactly, as 32 * 1024 * 1024 *)
(* is 1024, doubled: no text shorter than the limit is given up too soon.  *)
Doublings ==
  {sizes \in SUBSET (1 .. Limit) :
     StackSize \in sizes /\ \A size \in sizes : size = Limit \/ 2 * size \in sizes}

ASSUME DoublingAssumption == Doublings # {}

VARIABLES
  style,           \* the kind of vsnprintf
  at,              \* where StringAppendVT is
  length,          \* characters the format prints
  mem_length,      \* size of the buffer
  status,          \* what vsnprintf returned: the code's result
  errors,          \* errno and, on Windows, GetLastError
  clear_errno,     \* the ScopedClearLastError: what it restores
  appended,        \* characters appended to dst: how many, how many of them printed
  failed           \* whether a vsnprintf failed otherwise

printfVars == <<style, at, length, mem_length, status, errors, clear_errno, appended, failed>>

Styles == {"c99", "unix98", "eoverflow", "windows"}
Codes == {"0", "EOVERFLOW", "other"}
Smaller(m, n) == IF m < n THEN m ELSE n

NoneAppended == [count |-> 0, printed |-> 0]

PrintfInit ==
  /\ style \in Styles
  /\ errors \in [errno : Codes, last_error : {"0", "other"}]
  /\ at = "outside" /\ length = 0 /\ mem_length = 0 /\ status = 0
  /\ clear_errno = errors /\ appended = NoneAppended /\ failed = FALSE

-----------------------------------------------------------------------------
(* ScopedClearLastError: the errors of the thread, cleared. *)
Cleared(old) ==
  [errno |-> "0", last_error |-> IF style = "windows" THEN "0" ELSE old.last_error]

(* What vsnprintf answers for a buffer of this size: its result and what   *)
(* becomes of errno.  The last error is changed on Windows only.           *)
Printed(size) ==
  LET answer(n, errno) == [status |-> n, errno |-> errno]
  IN  IF length <= MaxReturn /\ (length < size \/ style \in {"c99", "windows"})
        THEN answer(length, errors.errno)
      ELSE IF style = "unix98" THEN answer(-1, errors.errno)
      ELSE answer(-1, "EOVERFLOW")

vsnprintfT(size) ==
  \/ LET answer == Printed(size)
     IN  /\ status' = answer.status
         /\ errors' = [errors EXCEPT !.errno = answer.errno]
         /\ UNCHANGED failed
  \/ /\ status' = -1 /\ failed' = TRUE
     /\ \E last \in IF style = "windows" THEN {"0", "other"} ELSE {errors.last_error} :
          errors' = [errno |-> "other", last_error |-> last]

(* The beginning of StringAppendVT. *)
StringAppendV(printed) ==
  /\ at = "outside"
  /\ at' = "stack_buf"
  /\ length' = printed
  /\ clear_errno' = errors
  /\ errors' = Cleared(errors)
  /\ mem_length' = StackSize /\ status' = 0
  /\ appended' = NoneAppended /\ failed' = FALSE
  /\ UNCHANGED style

(* Any return: the destructor of clear_errno restores the errors. *)
Return(result) ==
  /\ at' = "outside"
  /\ appended' = result
  /\ errors' = IF style = "windows" THEN clear_errno
               ELSE [errors EXCEPT !.errno = clear_errno.errno]

(* dst->append(buffer, result), of a buffer with room for a NUL. *)
Appended(size) == [count |-> status, printed |-> Smaller(length, size - 1)]

CallVsnprintf ==
  /\ at \in {"stack_buf", "mem_buf"}
  /\ vsnprintfT(mem_length)
  /\ at' = "printed"
  /\ UNCHANGED <<style, length, mem_length, clear_errno, appended>>

(* Mutant: a result as long as the buffer leaves no room for the NUL. *)
FitsExactly(result, size) == result >= 0 /\ result <= size

(* Whether a result says that all of the text is in the buffer. *)
Fits(result, size) == result >= 0 /\ result < size

(* Mutant: the buffer that was too small is tried again. *)
SameLength == IF status < 0 THEN mem_length ELSE status + 1

(* The size of the next buffer. *)
NextLength == IF status < 0 THEN IF style = "windows" THEN mem_length ELSE 2 * mem_length
              ELSE status + 1

GivesUp ==
  \/ status < 0 /\ (style = "windows" \/ errors.errno \notin {"0", "EOVERFLOW"})
  \/ NextLength > Limit

(* After each vsnprintf: append and return, give up, or a larger buffer. *)
Repeat ==
  /\ at = "printed"
  /\ IF Fits(status, mem_length)
       THEN Return(Appended(mem_length)) /\ UNCHANGED mem_length
     ELSE IF GivesUp THEN Return(NoneAppended) /\ UNCHANGED mem_length
     ELSE at' = "mem_buf" /\ mem_length' = NextLength /\ UNCHANGED <<errors, appended>>
  /\ UNCHANGED <<style, length, status, clear_errno, failed>>

PrintfNext == CallVsnprintf \/ Repeat \/ \E n \in 0 .. MaxPrinted : StringAppendV(n)

PrintfFairness == WF_printfVars(CallVsnprintf \/ Repeat)

PrintfSpec == PrintfInit /\ [][PrintfNext]_printfVars /\ PrintfFairness

-----------------------------------------------------------------------------
PrintfTypeOK ==
  /\ style \in Styles
  /\ at \in {"outside", "stack_buf", "mem_buf", "printed"}
  /\ length \in 0 .. MaxPrinted
  /\ mem_length \in Nat /\ (mem_length <= Limit \/ mem_length = StackSize)
  /\ status \in -1 .. MaxReturn
  /\ errors \in [errno : Codes, last_error : {"0", "other"}]
  /\ clear_errno \in [errno : Codes, last_error : {"0", "other"}]
  /\ appended \in [count : Nat, printed : Nat]
  /\ failed \in BOOLEAN

(* The whole text is appended, never a part of it nor anything that was    *)
(* not printed, or nothing at all; nothing only if vsnprintf failed or the *)
(* text does not fit the largest buffer; and the caller's errno and last   *)
(* error are what they were (stringprintf.cc, lines 27-90).                *)
FormatsWhole ==
  at = "outside" =>
    /\ errors = clear_errno
    /\ \/ appended.count = length /\ appended.printed = length
       \/ appended = NoneAppended /\ (failed \/ length >= Limit)

(* StringAppendV returns: the buffers grow until they are large enough or  *)
(* too large.                                                              *)
FormatsReturn == (at # "outside") ~> (at = "outside")
=============================================================================
