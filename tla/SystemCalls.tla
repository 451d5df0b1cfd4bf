---------------------------- MODULE SystemCalls ----------------------------
(***************************************************************************)
(* ReadFromFD, RandBytes and RandInt, over a kernel that interrupts calls, *)
(* answers them in pieces, or fails them (base/posix/eintr_wrapper.h,      *)
(* base/files/file_util_posix.cc, base/rand_util.cc).                      *)
(*                                                                         *)
(* A byte is a number below ByteValues, a word (uint64_t) is WordBytes of  *)
(* them, the least significant first.  One caller makes one call after the *)
(* other.                                                                  *)
(***************************************************************************)
EXTENDS Integers, Sequences, FiniteSetsExt

CONSTANTS
  ByteValues,      \* values of a byte
  WordBytes,       \* bytes of a word
  IntMax,          \* numeric_limits<int>::max()
  MaxBytes,        \* bound: bytes asked of one call
  PassBytes        \* numeric_limits<ULONG>::max()

IntMin == -IntMax - 1

ASSUME SystemAssumption ==
  /\ ByteValues \in Nat \ {0, 1}
  /\ WordBytes \in Nat \ {0} /\ ByteValues^WordBytes \in Nat
  /\ IntMax \in Nat
  /\ IntMax - IntMin + 1 < ByteValues^WordBytes
  /\ MaxBytes \in Nat
  /\ PassBytes \in Nat /\ PassBytes >= WordBytes

VARIABLES
  platform,        \* the build: "posix" or "windows"
  pc,              \* where the caller is
  call,            \* what it asked for
  fd,              \* the static fd of GetUrandomFD: "none" or "urandom"
  result,          \* what the kernel answered last
  total_read,      \* bytes of the buffer that are read
  buffer,          \* the caller's buffer
  supplied,        \* the bytes the kernel has handed out for this call
  returned         \* what the last call returned

systemVars == <<platform, pc, call, fd, result, total_read, buffer, supplied, returned>>

Byte == 0 .. ByteValues - 1
WordValues == ByteValues^WordBytes
max == WordValues - 1                      \* numeric_limits<uint64_t>::max()
IntValues == IntMax - IntMin + 1

Unwritten == -1                            \* what a buffer holds before
EINTR == -4
Error == -1                                \* -1 and any other errno

NoCall == [kind |-> "none"]
Calls ==
  [kind : {"ReadFromFD", "RandBytes"}, bytes : 0 .. MaxBytes]
  \cup {c \in [kind : {"RandInt"}, bytes : {WordBytes}, min : IntMin .. IntMax,
               max : IntMin .. IntMax] : c.min <= c.max}

Returns(success, value) == [success |-> success, value |-> value]
Fresh(bytes) == [n \in 1 .. bytes |-> Unwritten]

SystemInit ==
  /\ platform \in {"posix", "windows"}
  /\ pc = "idle" /\ call = NoCall /\ fd = "none" /\ result = 0
  /\ total_read = 0 /\ buffer = Fresh(0) /\ supplied = <<>> /\ returned = Returns(TRUE, 0)

-----------------------------------------------------------------------------
(* RandGenerator *)

(* static_cast<uint64_t>(max) - min + 1, in the arithmetic of words. *)
RangeOf(c) == (c.max - c.min + 1) % WordValues

(* Mutant: values up to the largest multiple are accepted, itself included. *)
UpToMultiple(range) == (max \div range) * range

max_acceptable_value(range) == (max \div range) * range - 1

Accepts(range, value) == value <= max_acceptable_value(range)

(* static_cast<int>, and a sum of ints, which wraps where it overflows. *)
ToInt(n) == ((n - IntMin) % IntValues) + IntMin

RandIntResult(c, value) == ToInt(c.min + ToInt(value % RangeOf(c)))

(* The bytes of a word in memory. *)
Memory(word) == [n \in 1 .. WordBytes |-> (word \div ByteValues^(n - 1)) % ByteValues]

-----------------------------------------------------------------------------
(* Where a call begins: RandBytes returns at once for no bytes, and fills  *)
(* them by the platform's means; RandInt draws a word.                     *)
Source(c) ==
  IF c.kind = "ReadFromFD" THEN "while"
  ELSE IF c.bytes = 0 THEN "filled"
  ELSE IF platform = "posix" THEN "open" ELSE "pass"

Begin(c) ==
  /\ pc = "idle"
  /\ c.kind = "ReadFromFD" => platform = "posix"
  /\ call' = c
  /\ pc' = Source(c)
  /\ total_read' = 0 /\ buffer' = Fresh(c.bytes) /\ supplied' = <<>>
  /\ returned' = Returns(TRUE, 0)
  /\ UNCHANGED <<platform, fd, result>>

(* GetUrandomFD: the static fd is opened by the first call. *)
GetUrandomFD ==
  /\ pc = "open"
  /\ IF fd = "urandom" THEN pc' = "while" /\ UNCHANGED result
     ELSE \E answer \in {0, Error, EINTR} : pc' = "opened" /\ result' = answer
  /\ UNCHANGED <<platform, call, fd, total_read, buffer, supplied, returned>>

(* HANDLE_EINTR around open, and the PCHECK. *)
GetUrandomFDInternal ==
  /\ pc = "opened"
  /\ IF result = EINTR THEN pc' = "open" /\ UNCHANGED fd
     ELSE IF result = Error THEN pc' = "aborted" /\ UNCHANGED fd
     ELSE pc' = "while" /\ fd' = "urandom"
  /\ UNCHANGED <<platform, call, result, total_read, buffer, supplied, returned>>

(* The kernel writes n bytes, its own choice, behind those that are read. *)
Supply(n) ==
  /\ \E bytes \in [1 .. n -> Byte] :
       /\ buffer' = [i \in DOMAIN buffer |->
                       IF i \in total_read + 1 .. total_read + n THEN bytes[i - total_read]
                       ELSE buffer[i]]
       /\ supplied' = supplied \o bytes
  /\ UNCHANGED <<platform, call, fd, total_read, returned>>

(* Mutant: each read asks for all of the bytes. *)
AllBytes == call.bytes

(* How much read is asked for: bytes - total_read. *)
BytesLeft == call.bytes - total_read

(* read(fd, buffer + total_read, bytes - total_read): some of the bytes, 0 *)
(* at the end of the file, or -1.                                          *)
Answer(n) ==
  /\ pc = "while" /\ total_read < call.bytes
  /\ n \in {Error, EINTR} \cup 0 .. BytesLeft
  /\ pc' = "answered"
  /\ result' = n
  /\ IF n > 0 THEN Supply(n)
     ELSE UNCHANGED <<platform, call, fd, total_read, buffer, supplied, returned>>

read == \E n \in {Error, EINTR} \cup (0 .. MaxBytes + WordBytes) : Answer(n)

(* Mutant: an interruption is taken for an error. *)
HandleNothing ==
  /\ pc = "answered"
  /\ IF result <= 0 THEN pc' = "break" /\ UNCHANGED total_read
     ELSE pc' = "while" /\ total_read' = total_read + result
  /\ UNCHANGED <<platform, call, fd, result, buffer, supplied, returned>>

(* HANDLE_EINTR around read, and the rest of the loop's body. *)
HandleEintr ==
  /\ pc = "answered"
  /\ IF result = EINTR THEN pc' = "while" /\ UNCHANGED total_read
     ELSE IF result <= 0 THEN pc' = "break" /\ UNCHANGED total_read
     ELSE pc' = "while" /\ total_read' = total_read + result
  /\ UNCHANGED <<platform, call, fd, result, buffer, supplied, returned>>

(* The return of ReadFromFD, to its caller or to RandBytes and its CHECK. *)
ReadFromFDReturns ==
  /\ \/ pc = "break"
     \/ pc = "while" /\ total_read = call.bytes
  /\ LET success == total_read = call.bytes
     IN  IF call.kind = "ReadFromFD"
           THEN pc' = "idle" /\ returned' = Returns(success, 0)
           ELSE pc' = (IF success THEN "filled" ELSE "aborted") /\ UNCHANGED returned
  /\ UNCHANGED <<platform, call, fd, result, total_read, buffer, supplied>>

(* One pass of RandBytes on Windows.  What is left of output is the span   *)
(* behind total_read.                                                      *)
RtlGenRandom(output_bytes_this_pass) ==
  \/ Supply(output_bytes_this_pass) /\ result' = output_bytes_this_pass /\ pc' = "passed"
  \/ /\ pc' = "aborted" /\ result' = Error
     /\ UNCHANGED <<platform, call, fd, total_read, buffer, supplied, returned>>

RandBytesPass ==
  /\ pc = "pass"
  /\ IF total_read = call.bytes
       THEN pc' = "filled"
            /\ UNCHANGED <<platform, call, fd, result, total_read, buffer, supplied, returned>>
       ELSE RtlGenRandom(Min({BytesLeft, PassBytes}))

RandBytesNextPass ==
  /\ pc = "passed"
  /\ pc' = "pass" /\ total_read' = total_read + result
  /\ UNCHANGED <<platform, call, fd, result, buffer, supplied, returned>>

(* RandBytes returns: to its caller, or to RandUint64, and so to the loop  *)
(* of RandGenerator, which draws another word or returns to RandInt.       *)
RandBytesReturns ==
  /\ pc = "filled"
  /\ IF call.kind = "RandBytes"
       THEN pc' = "idle" /\ UNCHANGED <<total_read, buffer, supplied, returned>>
     ELSE \E value \in 0 .. max :
       /\ buffer = Memory(value)
       /\ IF Accepts(RangeOf(call), value)
            THEN /\ pc' = "idle" /\ returned' = Returns(TRUE, RandIntResult(call, value))
                 /\ UNCHANGED <<total_read, buffer, supplied>>
            ELSE /\ pc' = Source(call) /\ UNCHANGED returned
                 /\ total_read' = 0 /\ buffer' = Fresh(call.bytes) /\ supplied' = <<>>
  /\ UNCHANGED <<platform, call, fd, result>>

Run ==
  \/ GetUrandomFD \/ GetUrandomFDInternal
  \/ read \/ HandleEintr \/ ReadFromFDReturns
  \/ RandBytesPass \/ RandBytesNextPass \/ RandBytesReturns

SystemNext == Run \/ \E c \in Calls : Begin(c)

(* The caller's own steps are taken.  The kernel does not interrupt open   *)
(* and read for ever, and a random word is, again and again, one that is   *)
(* supplied at once and accepted.                                          *)
Opens == pc = "open" /\ GetUrandomFD /\ result' # EINTR
Reads == read /\ result' # EINTR
Draws ==
  /\ (read \/ RandBytesPass) /\ call.kind = "RandInt" /\ total_read = 0
  /\ Len(supplied') = WordBytes
  /\ \E value \in 0 .. max : buffer' = Memory(value) /\ Accepts(RangeOf(call), value)

SystemFairness ==
  /\ WF_systemVars(Run)
  /\ SF_systemVars(Opens) /\ SF_systemVars(Reads) /\ SF_systemVars(Draws)

SystemSpec == SystemInit /\ [][SystemNext]_systemVars /\ SystemFairness

-----------------------------------------------------------------------------
SystemTypeOK ==
  /\ platform \in {"posix", "windows"}
  /\ pc \in {"idle", "open", "opened", "while", "answered", "break", "pass", "passed",
             "filled", "aborted"}
  /\ call \in Calls \cup {NoCall}
  /\ fd \in {"none", "urandom"}
  /\ result \in {Error, EINTR} \cup Nat
  /\ call # NoCall => /\ total_read \in 0 .. call.bytes
                      /\ buffer \in [1 .. call.bytes -> Byte \cup {Unwritten}]
  /\ supplied \in Seq(Byte)
  /\ returned \in [success : BOOLEAN, value : IntMin .. IntMax]

(* The buffer holds what the kernel supplied, each byte in its place, also *)
(* when calls were interrupted or came in pieces; ReadFromFD says whether  *)
(* it is full, and gives up only at the end of the file or at an error;    *)
(* and RandBytes never returns with a byte unwritten (file_util_posix.cc,  *)
(* lines 13-24; rand_util.cc, lines 107-129).                              *)
ReadsInOrder ==
  call # NoCall =>
    /\ \A n \in 1 .. call.bytes :
         buffer[n] = IF n <= Len(supplied) THEN supplied[n] ELSE Unwritten
    /\ pc = "idle" =>
         IF call.kind = "ReadFromFD"
           THEN /\ returned.success = (Len(supplied) = call.bytes)
                /\ Len(supplied) < call.bytes => result \in {0, Error}
           ELSE Len(supplied) = call.bytes

(* RandInt is uniform: words that differ in their remainder only are all   *)
(* accepted or all rejected, some are accepted, and each integer from min  *)
(* to max is the result of one word of them (rand_util.cc, lines 62-85).   *)
RandIntUniform ==
  call.kind = "RandInt" =>
    LET range == RangeOf(call)
        Words == 0 .. max
        Alike(value) == {w \in Words : w \div range = value \div range}
        Results(value) == {RandIntResult(call, w) : w \in Alike(value)}
    IN  /\ Accepts(range, 0)
        /\ \A value \in Words : Accepts(range, value) =>
             /\ \A w \in Alike(value) : Accepts(range, w)
             /\ Results(value) = call.min .. call.max

(* Every call returns, or the process is stopped by a failed CHECK.        *)
ReadsReturn == (pc # "idle") ~> (pc \in {"idle", "aborted"})
=============================================================================
