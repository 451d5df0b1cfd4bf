------------------------------- MODULE Logging -------------------------------
(***************************************************************************)
(* LOG, PLOG, CHECK and their relatives (base/logging.cc, logging.h,       *)
(* check.h, check_op.h, notreached.h).  A statement builds a message       *)
(* object, whose destructors report it and may end the process.  The       *)
(* message handler is foreign code: it may log in turn, so messages nest.  *)
(*                                                                         *)
(* One thread: the handler and the destination are plain globals, which    *)
(* callers set while no other thread is logging.                           *)
(***************************************************************************)
EXTENDS Integers, Sequences

CONSTANTS
  Errors,      \* values of errno
  MaxNesting   \* bound: how deep messages nest

ASSUME LoggingAssumption == MaxNesting \in Nat \ {0}

VARIABLES
  debug,        \* whether NDEBUG is undefined
  destination,  \* g_logging_destination, as a set of bits
  handler,      \* whether g_log_message_handler is set
  errno,
  stack,        \* the message objects alive, the innermost first
  crashed       \* ImmediateCrash

vars == <<debug, destination, handler, errno, stack, crashed>>

LOG_VERBOSE == -1
LOG_INFO == 0
LOG_WARNING == 1
LOG_ERROR == 2
LOG_ERROR_REPORT == 3
LOG_FATAL == 4
LOG_DFATAL == IF debug THEN LOG_FATAL ELSE LOG_ERROR

Severities == LOG_VERBOSE .. LOG_FATAL

Destinations == SUBSET {"file", "system", "stderr"}

(* On Windows, Fuchsia and the other POSIX systems. *)
LOG_DEFAULT == {{"file"}, {"system"}, {"system", "stderr"}}

(* ErrnoLogMessage stands for Win32ErrorLogMessage, MachLogMessage,        *)
(* BootstrapLogMessage and ZxLogMessage too, which are written like it.    *)
ErrorClasses == {"ErrnoLogMessage", "ErrnoLogMessageFatal"}
FatalClasses == {"LogMessageFatal", "ErrnoLogMessageFatal"}
Classes == {"LogMessage"} \cup ErrorClasses \cup FatalClasses

(* CHECK_EQ and the like, and DCHECK_EQ: not one of the fatal classes. *)
CheckOp == [class |-> "LogMessage", severity |-> LOG_FATAL]

(* What the macros expand to: VLOG, LOG and PLOG, of DFATAL too; LOG(FATAL),*)
(* CHECK, NOTREACHED, PLOG(FATAL) and PCHECK; CHECK_EQ.                    *)
Statements ==
  [class : {"LogMessage", "ErrnoLogMessage"},
   severity : (LOG_VERBOSE .. LOG_ERROR_REPORT) \cup {LOG_DFATAL}]
    \cup [class : FatalClasses, severity : {LOG_FATAL}]
    \cup {CheckOp}

Init ==
  /\ debug \in BOOLEAN
  /\ destination \in LOG_DEFAULT
  /\ handler = FALSE
  /\ errno \in Errors
  /\ stack = <<>>
  /\ crashed = FALSE

-----------------------------------------------------------------------------
top == Head(stack)

At(label) == ~crashed /\ stack # <<>> /\ top.at = label

Update(message) == stack' = <<message>> \o Tail(stack)

(* The caller's code runs, or the handler's. *)
MayCall == ~crashed /\ (stack # <<>> => top.at = "handler")

(* Mutant: errno is read after Init and the operands have run. *)
ErrorReadLate == errno'

(* GetLastSystemErrorCode() is an argument of the constructor. *)
LastSystemErrorCode == errno

(* The object is built and its operands are streamed into it, both of      *)
(* which may change errno.  then: what InitLogging has still to store.     *)
Begin(statement, then) ==
  /\ Len(stack) < MaxNesting
  /\ errno' \in Errors
  /\ stack' = <<[class |-> statement.class, severity |-> statement.severity,
                 err |-> LastSystemErrorCode, cause |-> errno, at |-> "operands",
                 appended |-> 0, flushes |-> 0, taken |-> FALSE, out |-> {},
                 then |-> then]>> \o stack

Statement(statement) ==
  /\ MayCall
  /\ Begin(statement, {})
  /\ UNCHANGED <<debug, destination, handler, crashed>>

SetLogMessageHandler(installed) ==
  /\ MayCall
  /\ handler' = installed
  /\ UNCHANGED <<debug, destination, errno, stack, crashed>>

(* DCHECK_EQ(settings.logging_dest & LOG_TO_FILE, 0u) may return, if a     *)
(* handler takes its message; then the destination is stored all the same. *)
InitLogging(dest) ==
  /\ MayCall
  /\ \/ /\ ~debug \/ "file" \notin dest
        /\ destination' = dest
        /\ UNCHANGED <<errno, stack>>
     \/ /\ debug /\ "file" \in dest
        /\ Begin(CheckOp, {dest})
        /\ UNCHANGED destination
  /\ UNCHANGED <<debug, handler, crashed>>

-----------------------------------------------------------------------------
(* The statement ends: its destructor appends the error, if the class has  *)
(* one, and flushes, which asks the handler first.                         *)
Destroy ==
  /\ At("operands")
  /\ Update([top EXCEPT !.appended = @ + (IF top.class \in ErrorClasses THEN 1 ELSE 0),
                        !.flushes = @ + 1,
                        !.at = IF handler THEN "handler" ELSE "write"])
  /\ UNCHANGED <<debug, destination, handler, errno, crashed>>

(* Mutant: the handler's result is taken the other way round. *)
WritesIfTaken(taken) == taken

WritesAfterHandler(taken) == ~taken

HandlerReturns(taken) ==
  /\ At("handler")
  /\ Update([top EXCEPT !.taken = taken,
                        !.at = IF WritesAfterHandler(taken) THEN "write" ELSE "flushed"])
  /\ UNCHANGED <<debug, destination, handler, errno, crashed>>

(* Mutant: the crash is for what is worse than fatal. *)
BeyondFatal(severity) == severity > LOG_FATAL

IsFatal(severity) == severity = LOG_FATAL

(* The sinks that are on.  On Apple systems the system log is left out when *)
(* stderr is one the user sees.                                            *)
Write(logToSystem) ==
  /\ At("write")
  /\ Update([top EXCEPT
       !.out = destination \cap (IF logToSystem THEN {"stderr", "system"} ELSE {"stderr"}),
       !.at = "flushed"])
  /\ crashed' = IsFatal(top.severity)
  /\ UNCHANGED <<debug, destination, handler, errno>>

(* Mutant: no ImmediateCrash; the base class's destructor runs. *)
FatalFallsThrough ==
  /\ Update([top EXCEPT
       !.class = IF @ = "LogMessageFatal" THEN "LogMessage" ELSE "ErrnoLogMessage",
       !.at = "operands"])
  /\ UNCHANGED crashed

FatalEnds == crashed' = TRUE /\ UNCHANGED stack

(* After the flush a fatal class ends the process whatever the handler has *)
(* returned; otherwise the caller goes on behind the statement.            *)
Finish ==
  /\ At("flushed")
  /\ \/ /\ top.class \in FatalClasses
        /\ FatalEnds
        /\ UNCHANGED destination
     \/ /\ top.class \notin FatalClasses
        /\ stack' = Tail(stack)
        /\ destination' = IF top.then = {} THEN destination
                          ELSE CHOOSE dest \in top.then : TRUE
        /\ UNCHANGED crashed
  /\ UNCHANGED <<debug, handler, errno>>

Crashed == crashed /\ UNCHANGED vars

Next ==
  \/ \E statement \in Statements : Statement(statement)
  \/ \E installed \in BOOLEAN : SetLogMessageHandler(installed)
  \/ \E dest \in Destinations : InitLogging(dest)
  \/ Destroy
  \/ \E taken \in BOOLEAN : HandlerReturns(taken)
  \/ \E logToSystem \in BOOLEAN : Write(logToSystem)
  \/ Finish
  \/ Crashed

Spec == Init /\ [][Next]_vars

-----------------------------------------------------------------------------
Message == [class : Classes, severity : Severities, err : Errors, cause : Errors,
            at : {"operands", "handler", "write", "flushed"},
            appended : {0, 1}, flushes : {0, 1}, taken : BOOLEAN,
            out : SUBSET {"stderr", "system"}, then : SUBSET Destinations]

(* Every message has its error appended at most once and is flushed at     *)
(* most once, however deep messages nest: no destructor of a base class    *)
(* runs after that of a fatal class (logging.cc, lines 393-470).           *)
TypeOK ==
  /\ debug \in BOOLEAN
  /\ destination \in Destinations
  /\ handler \in BOOLEAN
  /\ errno \in Errors
  /\ stack \in Seq(Message) /\ Len(stack) <= MaxNesting
  /\ crashed \in BOOLEAN

(* A PLOG or PCHECK tells the error its caller saw, whatever the message's *)
(* own construction, its operands and messages logged by the handler did   *)
(* to errno in between (logging.h, lines 273-287).                         *)
ReportsCallersError ==
  \A i \in 1 .. Len(stack) :
    stack[i].flushes = 1 /\ stack[i].class \in ErrorClasses =>
      stack[i].err = stack[i].cause /\ stack[i].appended = 1

(* The caller goes on behind a fatal statement in one case only: the       *)
(* message was a CHECK_EQ's or a LOG(DFATAL)'s and a handler took it.      *)
FatalNeverReturns ==
  [][Len(stack') < Len(stack) /\ top.severity = LOG_FATAL =>
       top.class \notin FatalClasses /\ top.taken]_vars

(* When the process dies, the message it dies of has been taken by the     *)
(* handler or has reached stderr, if stderr is on; and no message ends     *)
(* otherwise (logging.cc, lines 132-145, 285-287).                         *)
LastWords ==
  [][(crashed' /\ ~crashed) \/ Len(stack') < Len(stack) =>
       LET message == IF crashed' THEN Head(stack') ELSE top
       IN  IF message.taken THEN message.out = {}
           ELSE "stderr" \in message.out <=> "stderr" \in destination]_vars

(* "Unless destination is LOG_NONE, all logs with severity ERROR and above  *)
(* will be written to stderr in addition to the specified destination"     *)
(* (logging.h, lines 24-25).                                               *)
ErrorsReachStderr ==
  [][Len(stack') < Len(stack) /\ top.severity >= LOG_ERROR
       /\ ~top.taken /\ destination # {} => "stderr" \in top.out]_vars
=============================================================================
