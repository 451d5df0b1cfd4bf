----------------------------- MODULE Utilities -----------------------------
(***************************************************************************)
(* The parts of base that a single caller uses and that share nothing:     *)
(* a behaviour exercises one of them.                                      *)
(***************************************************************************)
EXTENDS Strings, SystemCalls, StringPrintf, Containers, ScopedMachVM

VARIABLE part      \* the part that is exercised

utilityVars == <<part, stringVars, systemVars, printfVars, containerVars, machVars>>

ThePartsOfBase == {"strings", "system", "printf", "containers", "pages"}

(* The parts that are not exercised begin in some one state. *)
UtilitiesInit ==
  /\ part \in ThePartsOfBase
  /\ StringsInit /\ (part = "strings" <=> topic # "none")
  /\ SystemInit /\ (part # "system" => platform = "posix")
  /\ PrintfInit
  /\ part # "printf" => style = "c99" /\ errors = [errno |-> "0", last_error |-> "0"]
  /\ ContainersInit
  /\ MachInit

UtilitiesNext ==
  \/ /\ part = "strings" /\ StringsNext
     /\ UNCHANGED <<part, systemVars, printfVars, containerVars, machVars>>
  \/ /\ part = "system" /\ SystemNext
     /\ UNCHANGED <<part, stringVars, printfVars, containerVars, machVars>>
  \/ /\ part = "printf" /\ PrintfNext
     /\ UNCHANGED <<part, stringVars, systemVars, containerVars, machVars>>
  \/ /\ part = "containers" /\ ContainersNext
     /\ UNCHANGED <<part, stringVars, systemVars, printfVars, machVars>>
  \/ /\ part = "pages" /\ MachNext
     /\ UNCHANGED <<part, stringVars, systemVars, printfVars, containerVars>>

UtilitiesSpec ==
  UtilitiesInit /\ [][UtilitiesNext]_utilityVars /\ SystemFairness /\ PrintfFairness

-----------------------------------------------------------------------------
UtilitiesTypeOK ==
  /\ part \in ThePartsOfBase
  /\ StringsTypeOK /\ SystemTypeOK /\ PrintfTypeOK /\ ContainersTypeOK /\ MachTypeOK

(* Every call returns, or a failed CHECK stops the process: interrupted    *)
(* reads and rejected random words come to an end (file_util_posix.cc,     *)
(* lines 13-24; rand_util.cc, lines 79-82), and the buffers of             *)
(* StringAppendV grow until they are large enough or too large             *)
(* (stringprintf.cc, lines 45-89).                                         *)
CallsReturn == ReadsReturn /\ FormatsReturn
=============================================================================
