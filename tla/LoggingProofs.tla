---------------------------- MODULE LoggingProofs ----------------------------
(***************************************************************************)
(* Messages keep their promises for any set of error values and however    *)
(* deep handlers log.                                                      *)
(***************************************************************************)
EXTENDS Logging, TLAPS

(* What holds of a message wherever it is in the stack. *)
Sound(m) ==
  /\ m.class \in FatalClasses => m.severity = LOG_FATAL
  /\ m.err = m.cause
  /\ m.flushes = (IF m.at = "operands" THEN 0 ELSE 1)
  /\ m.appended = (IF m.at # "operands" /\ m.class \in ErrorClasses THEN 1 ELSE 0)
  /\ m.at # "flushed" => m.out = {} /\ ~m.taken
  /\ m.at = "flushed" /\ m.taken => m.out = {}

(* What holds of the message in progress besides: the sinks were those of  *)
(* the destination as it still is, and a fatal message that has been       *)
(* written has ended the process.                                          *)
Current(m) ==
  m.at = "flushed" /\ ~m.taken =>
    /\ "stderr" \in m.out <=> "stderr" \in destination
    /\ m.severity = LOG_FATAL => crashed

IInv ==
  /\ TypeOK
  /\ \A i \in 1 .. Len(stack) : Sound(stack[i])
  /\ \A i \in 2 .. Len(stack) : stack[i].at = "handler"
  /\ stack # <<>> => Current(stack[1])
  /\ crashed => stack # <<>>

-----------------------------------------------------------------------------
(* Replacing the message on top keeps what holds of the ones below. *)
LEMMA UpdateKeeps ==
  ASSUME IInv, stack # <<>>, NEW m \in Message, Sound(m), Update(m)
  PROVE  /\ stack' \in Seq(Message) /\ Len(stack') = Len(stack)
         /\ stack' # <<>> /\ stack'[1] = m
         /\ \A i \in 1 .. Len(stack') : Sound(stack'[i])
         /\ \A i \in 2 .. Len(stack') : stack'[i].at = "handler"
PROOF
  <1> USE DEF Update
  <1>1. stack \in Seq(Message) /\ Len(stack) \in Nat \ {0}
    BY DEF IInv, TypeOK
  <1>2. /\ Tail(stack) \in Seq(Message) /\ Len(Tail(stack)) = Len(stack) - 1
        /\ \A i \in 1 .. Len(stack) - 1 : Tail(stack)[i] = stack[i + 1]
    BY <1>1
  <1>3. /\ stack' \in Seq(Message) /\ Len(stack') = Len(stack)
        /\ stack'[1] = m
        /\ \A i \in 2 .. Len(stack') : stack'[i] = Tail(stack)[i - 1]
    BY <1>1, <1>2
  <1>4. \A i \in 2 .. Len(stack') : stack'[i] = stack[i]
    BY <1>1, <1>2, <1>3
  <1>5. \A i \in 2 .. Len(stack) : Sound(stack[i]) /\ stack[i].at = "handler"
    BY <1>1 DEF IInv
  <1>6. \A i \in 1 .. Len(stack') : i = 1 \/ i \in 2 .. Len(stack')
    BY <1>1, <1>3
  <1>7. \A i \in 1 .. Len(stack') : Sound(stack'[i])
    BY <1>1, <1>3, <1>4, <1>5, <1>6
  <1> QED
    BY <1>1, <1>3, <1>4, <1>5, <1>7

(* A statement puts a sound message on top; the one below is in a handler. *)
LEMMA BeginKeeps ==
  ASSUME IInv, MayCall, NEW statement \in Statements, NEW then \in SUBSET Destinations,
         Begin(statement, then), debug' = debug, destination' \in Destinations,
         handler' = handler, crashed' = crashed
  PROVE  IInv'
PROOF
  <1> DEFINE m == [class |-> statement.class, severity |-> statement.severity,
                   err |-> errno, cause |-> errno, at |-> "operands",
                   appended |-> 0, flushes |-> 0, taken |-> FALSE, out |-> {},
                   then |-> then]
  <1>1. stack \in Seq(Message) /\ Len(stack) \in Nat /\ Len(stack) < MaxNesting
        /\ MaxNesting \in Nat /\ errno \in Errors /\ errno' \in Errors
    BY LoggingAssumption DEF IInv, TypeOK, Begin
  <1>2. /\ statement.class \in Classes /\ statement.severity \in Severities
        /\ statement.class \in FatalClasses => statement.severity = LOG_FATAL
    BY DEF Statements, CheckOp, Classes, FatalClasses, ErrorClasses, Severities,
           LOG_VERBOSE, LOG_ERROR, LOG_ERROR_REPORT, LOG_FATAL, LOG_DFATAL
  <1>3. m \in Message
    BY <1>1, <1>2 DEF Message
  <1>4. Sound(m) /\ m.at = "operands"
    BY <1>2 DEF Sound
  <1>5. stack' = <<m>> \o stack
    BY DEF Begin, LastSystemErrorCode
  <1> HIDE DEF m
  <1>6. /\ stack' \in Seq(Message) /\ Len(stack') = Len(stack) + 1 /\ stack'[1] = m
        /\ \A i \in 2 .. Len(stack') : stack'[i] = stack[i - 1]
    BY <1>1, <1>3, <1>5
  <1>7. \A i \in 1 .. Len(stack) : Sound(stack[i]) /\ stack[i].at = "handler"
    <2>1. stack # <<>> => stack[1].at = "handler"
      BY <1>1 DEF MayCall, top
    <2>2. \A i \in 1 .. Len(stack) : i = 1 \/ i \in 2 .. Len(stack)
      BY <1>1
    <2> QED
      BY <1>1, <2>1, <2>2 DEF IInv
  <1>8. \A i \in 2 .. Len(stack') : i - 1 \in 1 .. Len(stack)
    BY <1>1, <1>6
  <1>9. TypeOK'
    BY <1>1, <1>6 DEF IInv, TypeOK
  <1>10. \A i \in 1 .. Len(stack') : Sound(stack'[i])
    <2>1. \A i \in 1 .. Len(stack') : i = 1 \/ i \in 2 .. Len(stack')
      BY <1>1, <1>6
    <2> QED
      BY <1>4, <1>6, <1>7, <1>8, <2>1
  <1>11. \A i \in 2 .. Len(stack') : stack'[i].at = "handler"
    BY <1>6, <1>7, <1>8
  <1>12. stack' # <<>> /\ ~crashed'
    BY <1>1, <1>6 DEF MayCall
  <1>13. Current(stack[1])'
    BY <1>4, <1>6 DEF Current
  <1> QED
    BY <1>9, <1>10, <1>11, <1>12, <1>13 DEF IInv
LEMMA DestroyKeeps ==
  ASSUME IInv, Destroy
  PROVE  IInv'
PROOF
  <1> DEFINE m == [top EXCEPT
                     !.appended = @ + (IF top.class \in ErrorClasses THEN 1 ELSE 0),
                     !.flushes = @ + 1,
                     !.at = IF handler THEN "handler" ELSE "write"]
  <1>1. /\ stack # <<>> /\ top \in Message /\ Sound(top)
        /\ top.at = "operands" /\ ~crashed /\ Update(m)
    BY DEF IInv, TypeOK, Destroy, At, top
  <1> DEFINE appended == IF top.class \in ErrorClasses THEN 1 ELSE 0
  <1>a. top.appended = 0 /\ top.flushes = 0 /\ appended \in {0, 1}
    BY <1>1 DEF Sound
  <1>b. m = [top EXCEPT !.appended = appended, !.flushes = 1,
                        !.at = IF handler THEN "handler" ELSE "write"]
    BY <1>1, <1>a DEF Message
  <1>2. m \in Message
    <2> HIDE DEF m, appended
    <2> QED
      BY <1>1, <1>a, <1>b DEF Message
  <1>3. Sound(m) /\ m.at # "flushed"
    BY <1>1, <1>2 DEF Sound, Message
  <1> HIDE DEF m
  <1>4. TypeOK'
    BY <1>1, <1>2, <1>3, UpdateKeeps DEF IInv, TypeOK, Destroy
  <1>5. Current(stack[1])'
    BY <1>1, <1>2, <1>3, UpdateKeeps DEF Current
  <1> QED
    BY <1>1, <1>2, <1>3, <1>4, <1>5, UpdateKeeps DEF IInv

LEMMA HandlerReturnsKeeps ==
  ASSUME IInv, NEW taken \in BOOLEAN, HandlerReturns(taken)
  PROVE  IInv'
PROOF
  <1> DEFINE m == [top EXCEPT !.taken = taken,
                              !.at = IF ~taken THEN "write" ELSE "flushed"]
  <1>1. /\ stack # <<>> /\ top \in Message /\ Sound(top)
        /\ top.at = "handler" /\ ~crashed /\ Update(m)
    BY DEF IInv, TypeOK, HandlerReturns, WritesAfterHandler, At, top
  <1>2. m \in Message
    BY <1>1 DEF Message
  <1>3. Sound(m) /\ (m.at = "flushed" => m.taken)
    BY <1>1, <1>2 DEF Sound, Message
  <1> HIDE DEF m
  <1>4. TypeOK'
    BY <1>1, <1>2, <1>3, UpdateKeeps DEF IInv, TypeOK, HandlerReturns
  <1>5. Current(stack[1])'
    BY <1>1, <1>2, <1>3, UpdateKeeps DEF Current
  <1> QED
    BY <1>1, <1>2, <1>3, <1>4, <1>5, UpdateKeeps DEF IInv

LEMMA WriteKeeps ==
  ASSUME IInv, NEW logToSystem \in BOOLEAN, Write(logToSystem)
  PROVE  IInv'
PROOF
  <1> DEFINE sinks == IF logToSystem THEN {"stderr", "system"} ELSE {"stderr"}
             m == [top EXCEPT !.out = destination \cap sinks, !.at = "flushed"]
  <1>1. /\ stack # <<>> /\ top \in Message /\ Sound(top)
        /\ top.at = "write" /\ Update(m)
        /\ crashed' = (top.severity = LOG_FATAL) /\ destination' = destination
    BY DEF IInv, TypeOK, Write, IsFatal, At, top
  <1>2. destination \cap sinks \in SUBSET {"stderr", "system"}
        /\ ("stderr" \in destination \cap sinks <=> "stderr" \in destination)
    OBVIOUS
  <1> HIDE DEF sinks
  <1>3. m \in Message
    BY <1>1, <1>2 DEF Message
  <1>4. Sound(m)
    BY <1>1, <1>3 DEF Sound, Message
  <1>5. /\ "stderr" \in m.out <=> "stderr" \in destination'
        /\ m.severity = LOG_FATAL => crashed'
    BY <1>1, <1>2 DEF Message
  <1> HIDE DEF m
  <1>6. TypeOK'
    BY <1>1, <1>3, <1>4, UpdateKeeps DEF IInv, TypeOK, Write, IsFatal
  <1>7. Current(stack[1])'
    BY <1>1, <1>3, <1>4, <1>5, UpdateKeeps DEF Current
  <1> QED
    BY <1>1, <1>3, <1>4, <1>6, <1>7, UpdateKeeps DEF IInv

LEMMA FinishKeeps ==
  ASSUME IInv, Finish
  PROVE  IInv'
PROOF
  <1>1. /\ stack # <<>> /\ stack \in Seq(Message) /\ Len(stack) \in Nat \ {0}
        /\ top = stack[1] /\ top \in Message /\ top.then \in SUBSET Destinations
    <2>1. stack # <<>> /\ stack \in Seq(Message)
      BY DEF IInv, TypeOK, Finish, At
    <2>2. Len(stack) \in Nat \ {0} /\ top = stack[1] /\ top \in Message
      BY <2>1 DEF top
    <2>3. top.then \in SUBSET Destinations
      BY <2>2 DEF Message
    <2> QED
      BY <2>1, <2>2, <2>3
  <1>2. CASE top.class \in FatalClasses
    <2>1. /\ crashed' = TRUE
          /\ UNCHANGED <<stack, debug, destination, handler, errno>>
      BY <1>2 DEF Finish, FatalEnds
    <2> QED
      BY <1>1, <2>1 DEF IInv, TypeOK, Current
  <1>3. CASE top.class \notin FatalClasses
    <2>1. /\ stack' = Tail(stack) /\ ~crashed'
          /\ UNCHANGED <<debug, handler, errno, crashed>>
      BY <1>3 DEF Finish, At
    <2>2. destination' \in Destinations
      <3>1. destination' = IF top.then = {} THEN destination
                           ELSE CHOOSE dest \in top.then : TRUE
        BY <1>3 DEF Finish
      <3>2. top.then # {} => (CHOOSE dest \in top.then : TRUE) \in top.then
        OBVIOUS
      <3> QED
        BY <1>1, <3>1, <3>2 DEF IInv, TypeOK
    <2>3. /\ stack' \in Seq(Message) /\ Len(stack') = Len(stack) - 1
          /\ \A i \in 1 .. Len(stack') : stack'[i] = stack[i + 1]
      BY <1>1, <2>1
    <2>4. \A i \in 1 .. Len(stack') : i + 1 \in 2 .. Len(stack)
      BY <1>1, <2>3
    <2>5. \A i \in 2 .. Len(stack) : Sound(stack[i]) /\ stack[i].at = "handler"
      BY <1>1 DEF IInv
    <2>6. \A i \in 1 .. Len(stack') : Sound(stack'[i]) /\ stack'[i].at = "handler"
      BY <2>3, <2>4, <2>5
    <2>7. TypeOK'
      BY <1>1, <2>1, <2>2, <2>3, LoggingAssumption DEF IInv, TypeOK
    <2>8. stack' # <<>> => Current(stack[1])'
      BY <1>1, <2>3, <2>6 DEF Current
    <2>9. \A i \in 2 .. Len(stack') : i \in 1 .. Len(stack')
      BY <1>1, <2>3
    <2> QED
      BY <2>1, <2>6, <2>7, <2>8, <2>9 DEF IInv
  <1> QED
    BY <1>2, <1>3

LEMMA Invariance == Spec => []IInv
PROOF
  <1>1. Init => IInv
    <2> SUFFICES ASSUME Init
                 PROVE  IInv
      OBVIOUS
    <2>1. destination \in Destinations
      BY DEF Init, LOG_DEFAULT, Destinations
    <2>2. stack \in Seq(Message) /\ Len(stack) = 0 /\ Len(stack) <= MaxNesting
      BY LoggingAssumption DEF Init
    <2>3. handler \in BOOLEAN /\ crashed \in BOOLEAN
      BY DEF Init
    <2>4. TypeOK
      BY <2>1, <2>2, <2>3 DEF Init, TypeOK
    <2> QED
      BY <2>2, <2>4 DEF Init, IInv
  <1>2. IInv /\ [Next]_vars => IInv'
    <2> SUFFICES ASSUME IInv, [Next]_vars
                 PROVE  IInv'
      OBVIOUS
    <2>1. ASSUME NEW statement \in Statements, Statement(statement)
          PROVE  IInv'
      BY <2>1, BeginKeeps DEF Statement, IInv, TypeOK
    <2>2. ASSUME NEW installed \in BOOLEAN, SetLogMessageHandler(installed)
          PROVE  IInv'
      BY <2>2 DEF SetLogMessageHandler, IInv, TypeOK, Current
    <2>3. ASSUME NEW dest \in Destinations, InitLogging(dest)
          PROVE  IInv'
      <3>1. ~crashed /\ (stack # <<>> => stack[1].at = "handler")
        BY <2>3 DEF InitLogging, MayCall, top
      <3>2. CASE destination' = dest /\ UNCHANGED <<errno, stack>>
        <4>1. TypeOK'
          BY <2>3, <3>2 DEF InitLogging, IInv, TypeOK
        <4>2. stack # <<>> => Current(stack[1])'
          BY <3>1, <3>2 DEF Current
        <4> QED
          BY <2>3, <3>1, <3>2, <4>1, <4>2 DEF InitLogging, IInv
      <3>3. CASE Begin(CheckOp, {dest}) /\ UNCHANGED destination
        <4>1. CheckOp \in Statements
          BY DEF Statements
        <4> QED
          BY <2>3, <3>3, <4>1, BeginKeeps DEF InitLogging, IInv, TypeOK
      <3> QED
        BY <2>3, <3>2, <3>3 DEF InitLogging
    <2>4. CASE UNCHANGED vars
      BY <2>4 DEF vars, IInv, TypeOK, Current
    <2> QED
      BY <2>1, <2>2, <2>3, <2>4, DestroyKeeps, HandlerReturnsKeeps, WriteKeeps,
         FinishKeeps DEF Next, Crashed
  <1> QED
    BY <1>1, <1>2, PTL DEF Spec
-----------------------------------------------------------------------------
(* Only the end of a statement takes a message off the stack. *)
LEMMA Shortens ==
  ASSUME IInv, [Next]_vars, Len(stack') < Len(stack)
  PROVE  Finish /\ stack # <<>> /\ stack' = Tail(stack)
PROOF
  <1>1. stack \in Seq(Message) /\ Len(stack) \in Nat
    BY DEF IInv, TypeOK
  <1>2. ASSUME NEW statement, NEW then, Begin(statement, then)
        PROVE  FALSE
    <2> DEFINE m == [class |-> statement.class, severity |-> statement.severity,
                     err |-> LastSystemErrorCode, cause |-> errno, at |-> "operands",
                     appended |-> 0, flushes |-> 0, taken |-> FALSE, out |-> {},
                     then |-> then]
    <2>1. stack' = <<m>> \o stack
      BY <1>2 DEF Begin
    <2> HIDE DEF m
    <2>2. Len(stack') = Len(stack) + 1
      BY <1>1, <2>1
    <2> QED
      BY <1>1, <2>2
  <1>3. ASSUME NEW m, Update(m), stack # <<>>
        PROVE  FALSE
    <2>1. Len(stack') = Len(stack)
      BY <1>1, <1>3 DEF Update
    <2> QED
      BY <1>1, <2>1
  <1>4. stack' # stack
    BY <1>1
  <1>5. CASE Finish
    <2>1. stack # <<>>
      BY <1>5 DEF Finish, At
    <2> QED
      BY <1>4, <1>5, <2>1 DEF Finish, FatalEnds
  <1>6. ASSUME NEW statement \in Statements, Statement(statement)
        PROVE  FALSE
    BY <1>2, <1>6 DEF Statement
  <1>7. ASSUME NEW dest \in Destinations, InitLogging(dest)
        PROVE  FALSE
    BY <1>2, <1>4, <1>7 DEF InitLogging
  <1>8. ASSUME Destroy
        PROVE  FALSE
    BY <1>3, <1>8 DEF Destroy, At
  <1>9. ASSUME NEW taken \in BOOLEAN, HandlerReturns(taken)
        PROVE  FALSE
    BY <1>3, <1>9 DEF HandlerReturns, At
  <1>10. ASSUME NEW logToSystem \in BOOLEAN, Write(logToSystem)
         PROVE  FALSE
    BY <1>3, <1>10 DEF Write, At
  <1>11. ASSUME NEW installed \in BOOLEAN, SetLogMessageHandler(installed)
         PROVE  FALSE
    BY <1>4, <1>11 DEF SetLogMessageHandler
  <1>12. ~UNCHANGED vars
    BY <1>4 DEF vars
  <1> QED
    BY <1>5, <1>6, <1>7, <1>8, <1>9, <1>10, <1>11, <1>12 DEF Next, Crashed

(* What is known of a message at the end of its statement. *)
LEMMA Flushed ==
  ASSUME IInv, stack # <<>>, ~crashed, top.at = "flushed"
  PROVE  /\ top.severity = LOG_FATAL => top.taken
         /\ IF top.taken THEN top.out = {}
            ELSE "stderr" \in top.out <=> "stderr" \in destination
PROOF
  <1>1. top = stack[1] /\ Sound(top) /\ Current(top)
    BY DEF IInv, TypeOK, top
  <1> QED
    BY <1>1 DEF Sound, Current

(* A process that a message ends dies in the write of it or after its flush. *)
LEMMA Dies ==
  ASSUME IInv, [Next]_vars, crashed', ~crashed
  PROVE  \/ \E logToSystem \in BOOLEAN : Write(logToSystem)
         \/ Finish /\ UNCHANGED stack
PROOF
  <1>1. CASE Finish
    BY <1>1 DEF Finish, FatalEnds
  <1>2. ASSUME NEW statement \in Statements, Statement(statement)
        PROVE  FALSE
    BY <1>2 DEF Statement
  <1>3. ASSUME NEW dest \in Destinations, InitLogging(dest)
        PROVE  FALSE
    BY <1>3 DEF InitLogging
  <1>4. ~Destroy
    BY DEF Destroy
  <1>5. ASSUME NEW taken \in BOOLEAN, HandlerReturns(taken)
        PROVE  FALSE
    BY <1>5 DEF HandlerReturns
  <1>6. ASSUME NEW installed \in BOOLEAN, SetLogMessageHandler(installed)
        PROVE  FALSE
    BY <1>6 DEF SetLogMessageHandler
  <1>7. ~UNCHANGED vars
    BY DEF vars
  <1> QED
    BY <1>1, <1>2, <1>3, <1>4, <1>5, <1>6, <1>7 DEF Next, Crashed

-----------------------------------------------------------------------------
(* However deep messages nest, none has its error appended or is flushed   *)
(* twice (logging.cc, lines 393-470).                                      *)
THEOREM TypeCorrect == Spec => []TypeOK
PROOF
  <1>1. IInv => TypeOK
    BY DEF IInv
  <1> QED
    BY <1>1, Invariance, PTL

(* Messages report the error of the statement's caller (logging.h, lines   *)
(* 273-287).                                                               *)
THEOREM ReportsCallersErrorHolds == Spec => []ReportsCallersError
PROOF
  <1>1. IInv => ReportsCallersError
    BY DEF IInv, Sound, ReportsCallersError
  <1> QED
    BY <1>1, Invariance, PTL

(* The caller goes on behind a fatal statement only if the message is not  *)
(* of a fatal class and a handler took it (logging.cc, lines 136-140, 285- *)
(* 287, 393-396).                                                          *)
THEOREM FatalNeverReturnsHolds == Spec => FatalNeverReturns
PROOF
  <1> DEFINE Step == Len(stack') < Len(stack) /\ top.severity = LOG_FATAL =>
                       top.class \notin FatalClasses /\ top.taken
  <1>1. IInv /\ [Next]_vars => [Step]_vars
    <2> SUFFICES ASSUME IInv, [Next]_vars, Len(stack') < Len(stack),
                        top.severity = LOG_FATAL
                 PROVE  top.class \notin FatalClasses /\ top.taken
      OBVIOUS
    <2>1. Finish /\ stack # <<>> /\ stack' = Tail(stack)
      BY Shortens
    <2>2. ~crashed /\ top.at = "flushed" /\ stack' # stack
      BY <2>1 DEF Finish, At, IInv, TypeOK
    <2>3. top.taken
      BY <2>1, <2>2, Flushed
    <2> QED
      BY <2>1, <2>2, <2>3 DEF Finish, FatalEnds
  <1> QED
    BY <1>1, Invariance, PTL DEF Spec, FatalNeverReturns

(* The last message of a process, like every other, has gone to the        *)
(* handler or to stderr (logging.cc, lines 132-145, 285-287).              *)
THEOREM LastWordsHolds == Spec => LastWords
PROOF
  <1> DEFINE Said(message) ==
        IF message.taken THEN message.out = {}
        ELSE "stderr" \in message.out <=> "stderr" \in destination
      Step == (crashed' /\ ~crashed) \/ Len(stack') < Len(stack) =>
                LET message == IF crashed' THEN Head(stack') ELSE top
                IN  Said(message)
  <1>1. IInv /\ [Next]_vars => [Step]_vars
    <2> SUFFICES ASSUME IInv, [Next]_vars,
                        (crashed' /\ ~crashed) \/ Len(stack') < Len(stack)
                 PROVE  Said(IF crashed' THEN Head(stack') ELSE top)
      OBVIOUS
    <2>1. ASSUME Finish
          PROVE  stack # <<>> /\ ~crashed /\ Said(top)
      BY <2>1, Flushed DEF Finish, At
    <2>2. CASE crashed' /\ ~crashed
      <3>1. ASSUME NEW logToSystem \in BOOLEAN, Write(logToSystem)
            PROVE  Said(Head(stack'))
        <4> DEFINE sinks == IF logToSystem THEN {"stderr", "system"} ELSE {"stderr"}
                   m == [top EXCEPT !.out = destination \cap sinks, !.at = "flushed"]
        <4>1. /\ stack # <<>> /\ top \in Message /\ Sound(top) /\ top.at = "write"
              /\ stack' = <<m>> \o Tail(stack)
          BY <3>1 DEF Write, At, Update, IInv, TypeOK, top
        <4>2. m.out = destination \cap sinks /\ m.taken = top.taken /\ ~top.taken
          BY <4>1 DEF Message, Sound
        <4>3. "stderr" \in destination \cap sinks <=> "stderr" \in destination
          OBVIOUS
        <4> HIDE DEF m, sinks
        <4>4. Head(stack') = m
          BY <4>1 DEF IInv, TypeOK
        <4> QED
          BY <4>2, <4>3, <4>4
      <3>2. ASSUME Finish, UNCHANGED stack
            PROVE  Said(Head(stack'))
        BY <2>1, <3>2 DEF top
      <3> QED
        BY <2>2, <3>1, <3>2, Dies
    <2>3. CASE Len(stack') < Len(stack)
      <3>1. Finish /\ stack' # stack
        BY <2>3, Shortens DEF IInv, TypeOK
      <3>2. ~crashed'
        BY <3>1, <2>1 DEF Finish, FatalEnds
      <3> QED
        BY <2>1, <3>1, <3>2
    <2> QED
      BY <2>2, <2>3
  <1> QED
    BY <1>1, Invariance, PTL DEF Spec, LastWords
=============================================================================
