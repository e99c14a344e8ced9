---------------------------- MODULE CollateralBugs ----------------------------
(***************************************************************************)
(* What happens to an exception: cCdbWrapper_ftbHandleLastCdbEvent decides *)
(* whether it is hidden from the application, passed to it or reported as  *)
(* a bug, and the cCollateralBugHandler tries to ignore a bug, by faking   *)
(* the execution of the instruction that failed with a poisoned value, so  *)
(* that the application goes on and may fail again.                        *)
(*                                                                         *)
(* All of it runs in the thread that talks to cdb, while the application   *)
(* is suspended.  The actions of the application are what it does between  *)
(* two such events; it often uses a poisoned value as a pointer.           *)
(*                                                                         *)
(* A value of n bytes is a number below 4^n, two bits for each byte, and   *)
(* one general purpose register stands for all of them.                    *)
(*                                                                         *)
(* Left out: the text of reports and callbacks, which values are shown,    *)
(* how the analysis comes to its result (see AccessViolation), registers   *)
(* larger than a pointer, and reserving memory around a poisoned address.  *)
(***************************************************************************)
EXTENDS Integers, Sequences

CONSTANTS
  Processes,                 \* the application's processes
  x86Processes,              \* the ones that are x86; the others are x64
  Maximums,                  \* the values of u0MaximumNumberOfBugs
  auCollateralPoisonValues,
  Answers,                   \* what the user answers when asked for a value
  uPageSize,
  Offsets,                   \* bound: the offsets from a register that are used
  MaxExceptions              \* bound: the number of exceptions

CONSTANT None

ASSUME CollateralBugsAssumption ==
  /\ x86Processes \subseteq Processes
  /\ Maximums \subseteq (Nat \ {0}) \cup {None} /\ None \notin Int
  /\ auCollateralPoisonValues \in Seq(Nat)
  /\ Answers \subseteq Int
  /\ uPageSize \in Nat \ {0} /\ Offsets \subseteq Int /\ MaxExceptions \in Nat

VARIABLES
  u0MaximumNumberOfBugs,     \* given to cBugId
  interactive,               \* whether f0iInteractiveAskForValue was given
  duPoisonedAddress,         \* by process
  f0bIgnoreException,        \* whether there is a function to ignore the exception
  uBugCount,
  uValueIndex,
  pc,                        \* where the handling of an event is
  exception,                 \* the exception that is handled
  instruction,               \* oCurrentInstruction
  duNewRegister,             \* duNewRegisterValue_by_sbName
  thread,                    \* the registers of the application, by process
  verdicts,                  \* what was said of the last bug: ignored or not
  reports,                   \* how many bugs were reported
  exceptions                 \* how many exceptions there were

arguments == <<u0MaximumNumberOfBugs, interactive>>
handlerVars == <<duPoisonedAddress, f0bIgnoreException, uBugCount, uValueIndex>>
ignoreVars == <<instruction, duNewRegister>>
counters == <<reports, exceptions>>
vars == <<arguments, handlerVars, ignoreVars, counters, pc, exception, thread, verdicts>>

-----------------------------------------------------------------------------
(* Values.                                                                 *)

Limit(bytes) == 4 ^ bytes

uPointerSize(p) == IF p \in x86Processes THEN 4 ELSE 8

\* The pages around poisoned pointers of which different parts are left are not the same: these
\* are 0x41414141, 0x414141414141 and 0x4141414141414141, and a page is 0x1000 bytes.
ASSUME PagesAreApart ==
  \A read \in {4, 6}, whole \in {6, 8} :
    read < whole => (21845 % Limit(read)) + 2 * uPageSize <= 21845 % Limit(whole)

\* 0x41 in every byte.
duPoisonValue(p) == IF p \in x86Processes THEN 85 ELSE 21845

\* Mutant: the lower half of a pointer is not compared.
OffsetWithoutLowerHalf(p, address) ==
  LET iOffset(bytes) == address - (duPoisonedAddress[p] % Limit(bytes))
      Near == {bytes \in {6, 8} : bytes <= uPointerSize(p) /\ iOffset(bytes) \in 1 - uPageSize .. uPageSize - 1}
  IN IF p \in DOMAIN duPoisonedAddress /\ Near # {}
     THEN iOffset(CHOOSE bytes \in Near : \A other \in Near : other <= bytes)
     ELSE None

\* The offset of an address from the poisoned one, of which the highest words may be lost.
fi0GetOffsetForPoisonedAddress(p, address) ==
  LET iOffset(bytes) == address - (duPoisonedAddress[p] % Limit(bytes))
      Near == {bytes \in {4, 6, 8} : bytes <= uPointerSize(p) /\ iOffset(bytes) \in 1 - uPageSize .. uPageSize - 1}
  IN IF p \in DOMAIN duPoisonedAddress /\ Near # {}
     THEN iOffset(CHOOSE bytes \in Near : \A other \in Near : other <= bytes)
     ELSE None

\* The next value to read for the application, which the user may replace.
SuggestedValue(p, bytes) ==
  ( IF uValueIndex < Len(auCollateralPoisonValues)
    THEN auCollateralPoisonValues[uValueIndex + 1]
    ELSE duPoisonValue(p) ) % Limit(bytes)

\* The answers that the user may give: iMinValue to uMaxValue.
AnswerRange(bytes) == -(Limit(bytes) \div 2) .. Limit(bytes) - 1

\* Mutant: the answer of the user is not masked.
ValueAsAnswered(p, bytes) ==
  IF interactive
  THEN Answers \cap AnswerRange(bytes)
  ELSE {SuggestedValue(p, bytes)}

fuGetPoisonedValue(p, bytes) ==
  IF interactive
  THEN {answer % Limit(bytes) : answer \in Answers \cap AnswerRange(bytes)}
  ELSE {SuggestedValue(p, bytes)}

-----------------------------------------------------------------------------
(* Instructions: those that are in the same lists, with the same kinds of  *)
(* arguments, are one.                                                     *)

Instruction(names, arguments_) == {[name |-> n, arguments |-> a] : n \in names, a \in arguments_}

Instructions ==
  Instruction({"add", "addsd", "mov"},
              {<<"register", "memory">>, <<"memory", "register">>, <<"memory", "number">>,
               <<"register", "number">>, <<"undecodable", "register">>, <<"register", "undecodable">>})
  \cup Instruction({"inc"}, {<<"memory">>, <<"register">>})
  \cup Instruction({"cmp"}, {<<"memory", "number">>, <<"register", "memory">>})
  \cup Instruction({"jmp", "call", "push"}, {<<"memory">>})
  \cup Instruction({"ret"}, {<<>>})
  \cup Instruction({"vmovsh"}, {<<"register", "register", "register">>})

ModifyFlags == {"add", "addsd", "cmp", "inc"}
ModifyDestination == {"add", "addsd", "mov", "inc", "vmovsh"}
ModifyInstructionPointer == {"call", "jmp", "ret"}
CanBeHandled == ModifyFlags \cup ModifyDestination \cup ModifyInstructionPointer

Destination(i) == i.arguments[1]
Source(i) == IF Len(i.arguments) = 1 THEN i.arguments[1] ELSE i.arguments[2]

\* The types of access that an instruction can fail with.  One without memory for an argument can
\* only be where an exception is raised that looks like an access violation.
AccessTypes(i) ==
  LET Uses(S) == \E k \in 1 .. Len(i.arguments) : i.arguments[k] \in S
      InMemory == {"memory", "undecodable"}
      writes == i.name \in ModifyDestination \ {"vmovsh"} /\ Destination(i) \in InMemory
      reads == i.name \in ModifyDestination => Source(i) \in InMemory
  IN IF i.name # "ret" /\ ~Uses(InMemory) THEN {"R", "W"}
     ELSE (IF reads THEN {"R"} ELSE {}) \cup (IF writes \/ i.name \in {"call", "push"} THEN {"W"} ELSE {})

-----------------------------------------------------------------------------
(* The application.                                                        *)

\* The instruction pointer when it points to code.
Code == -1

OwnThread == [ip |-> Code, register |-> 0, poison |-> 0]
NoException == [process |-> None, type |-> None, bytes |-> 0, offset |-> None, address |-> None]
NoInstruction == [name |-> None, arguments |-> <<>>]

\* The access violations of a process: the type and size of the access, and its address if that is
\* computed from the register.
Exceptions(p) ==
  LET Address(o) == thread[p].register + o
      ByRegister == {o \in Offsets : Address(o) >= 0}
  IN IF thread[p].ip # Code
     THEN {[process |-> p, type |-> "E", bytes |-> uPointerSize(p), offset |-> 0, address |-> thread[p].ip]}
     ELSE {[process |-> p, type |-> t, bytes |-> b, offset |-> o, address |-> Address(o)] :
             t \in {"R", "W"}, b \in {2, 4, uPointerSize(p)}, o \in ByRegister}
          \cup {[NoException EXCEPT !.process = p, !.type = t, !.bytes = uPointerSize(p)] : t \in {"R", "W", "E"}}

-----------------------------------------------------------------------------
(* Events.                                                                 *)

fHandleNewProcess(p) ==
  /\ pc = "running" /\ p \notin DOMAIN duPoisonedAddress
  /\ duPoisonedAddress' = [q \in DOMAIN duPoisonedAddress \cup {p} |->
                             IF q = p THEN duPoisonValue(p) ELSE duPoisonedAddress[q]]
  /\ thread' = [thread EXCEPT ![p] = OwnThread]
  /\ UNCHANGED <<arguments, f0bIgnoreException, uBugCount, uValueIndex, ignoreVars, counters, pc, exception, verdicts>>

fHandleProcessTerminated(p) ==
  /\ pc = "running" /\ p \in DOMAIN duPoisonedAddress
  /\ duPoisonedAddress' = [q \in DOMAIN duPoisonedAddress \ {p} |-> duPoisonedAddress[q]]
  /\ UNCHANGED <<arguments, f0bIgnoreException, uBugCount, uValueIndex, ignoreVars, counters, pc, exception, thread, verdicts>>

\* Breakpoints that were removed, those of cdb in a new process and CTRL+C are hidden from the
\* application, a call for the system debugger is passed to it; any other exception is analysed.
HandleException ==
  /\ pc = "running" /\ exceptions < MaxExceptions
  /\ exceptions' = exceptions + 1
  /\ \/ /\ \E p \in DOMAIN duPoisonedAddress : exception' \in Exceptions(p)
        /\ pc' = "analyzing"
     \/ UNCHANGED <<pc, exception>>
  /\ UNCHANGED <<arguments, handlerVars, ignoreVars, reports, thread, verdicts>>

\* An access violation near the poisoned address always gets a function to ignore it.
fSetIgnoreExceptionFunction ==
  IF f0bIgnoreException
  THEN pc' = "failed" /\ UNCHANGED f0bIgnoreException
  ELSE pc' = "analyzed" /\ f0bIgnoreException' = TRUE

i0Offset ==
  IF exception.address = None THEN None
  ELSE fi0GetOffsetForPoisonedAddress(exception.process, exception.address)

AnalyzeException ==
  /\ pc = "analyzing"
  /\ \/ fSetIgnoreExceptionFunction
     \/ i0Offset = None /\ pc' = "analyzed" /\ UNCHANGED f0bIgnoreException
  /\ UNCHANGED <<arguments, duPoisonedAddress, uBugCount, uValueIndex, ignoreVars, counters, exception, thread, verdicts>>

\* Mutant: the function is not discarded.
KeepIgnoreFunction == UNCHANGED f0bIgnoreException

fDiscardIgnoreExceptionFunction == f0bIgnoreException' = FALSE

\* The exception is passed to the application.
NotABug ==
  /\ pc = "analyzed"
  /\ fDiscardIgnoreExceptionFunction
  /\ pc' = "running" /\ exception' = NoException
  /\ UNCHANGED <<arguments, duPoisonedAddress, uBugCount, uValueIndex, ignoreVars, counters, thread, verdicts>>

fReport ==
  /\ pc = "analyzed"
  /\ pc' = "reported" /\ reports' = reports + 1 /\ verdicts' = <<>>
  /\ UNCHANGED <<arguments, handlerVars, ignoreVars, exceptions, exception, thread>>

-----------------------------------------------------------------------------
(* Ignoring a bug.                                                         *)

\* "Bug cannot be ignored": debugging stops.
CannotBeIgnored ==
  /\ verdicts' = Append(verdicts, "cannot be ignored")
  /\ pc' = "stopped"
  /\ UNCHANGED <<arguments, duPoisonedAddress, uValueIndex, ignoreVars, counters, exception, thread>>

Refuse == CannotBeIgnored /\ UNCHANGED <<f0bIgnoreException, uBugCount>>

bMaximumNumberOfBugsReached(count) == u0MaximumNumberOfBugs # None /\ count >= u0MaximumNumberOfBugs

fbTryToIgnoreException ==
  /\ pc = "reported"
  /\ uBugCount' = uBugCount + 1
  /\ \/ /\ bMaximumNumberOfBugsReached(uBugCount') \/ ~f0bIgnoreException
        /\ CannotBeIgnored /\ UNCHANGED f0bIgnoreException
     \/ /\ ~bMaximumNumberOfBugsReached(uBugCount') /\ f0bIgnoreException
        /\ f0bIgnoreException' = FALSE /\ pc' = "instruction"
        /\ UNCHANGED <<arguments, duPoisonedAddress, uValueIndex, ignoreVars, counters, exception, thread, verdicts>>

\* What a step leaves alone that goes on to the next.
GoesOn(next) ==
  /\ pc' = next
  /\ UNCHANGED <<arguments, duPoisonedAddress, f0bIgnoreException, uBugCount, counters, exception, thread, verdicts>>

\* The processor failed to execute code, the instruction pointer, the memory that it points to or
\* the disassembly is not available, or the instruction or a prefix is not handled.
CheckInstruction ==
  /\ pc = "instruction"
  /\ \/ /\ exception.type # "E"
        /\ instruction' \in {i \in Instructions : i.name \in CanBeHandled /\ exception.type \in AccessTypes(i)}
        /\ GoesOn("ip") /\ duNewRegister' = <<>> /\ UNCHANGED uValueIndex
     \/ Refuse

SetNewRegister(name, value) ==
  duNewRegister' = [n \in DOMAIN duNewRegister \cup {name} |-> IF n = name THEN value ELSE duNewRegister[n]]

\* Writes a value that is read for the application to one of the new registers.
Poison(name, bytes) ==
  /\ \E v \in fuGetPoisonedValue(exception.process, bytes) : SetNewRegister(name, v)
  /\ uValueIndex' = uValueIndex + 1
  /\ UNCHANGED instruction

\* The user gives another answer: an assertion of fuGetPoisonedValue fails, which ends the session.
AnswerIsOutOfRange(bytes) ==
  /\ interactive /\ Answers \ AnswerRange(bytes) # {}
  /\ uValueIndex' = uValueIndex + 1
  /\ pc' = "raised"
  /\ UNCHANGED <<arguments, duPoisonedAddress, f0bIgnoreException, uBugCount, ignoreVars, counters, exception, thread, verdicts>>

\* Mutant: the instruction pointer is set before it is known whether the bug can be ignored.
AdvanceAtOnce ==
  /\ pc = "ip"
  /\ SetNewRegister("ip", Code)
  /\ thread' = [thread EXCEPT ![exception.process].ip = Code - 1]
  /\ pc' = "flags"
  /\ UNCHANGED <<arguments, handlerVars, instruction, counters, exception, verdicts>>

SetInstructionPointer ==
  /\ pc = "ip"
  /\ \/ instruction.name \in ModifyInstructionPointer /\ Poison("ip", uPointerSize(exception.process)) /\ GoesOn("flags")
     \/ instruction.name \in ModifyInstructionPointer /\ AnswerIsOutOfRange(uPointerSize(exception.process))
     \/ /\ instruction.name \notin ModifyInstructionPointer
        /\ SetNewRegister("ip", Code) /\ UNCHANGED <<instruction, uValueIndex>> /\ GoesOn("flags")

\* Mutant: the result is ignored when the flags cannot be read.
PoisonFlagsOrGoOn ==
  /\ pc = "flags"
  /\ verdicts' = Append(verdicts, "cannot be ignored") /\ pc' = "destination"
  /\ UNCHANGED <<arguments, handlerVars, ignoreVars, counters, exception, thread>>

\* The six flags are six bits of a value; it may be impossible to read them.
fbPoisonFlags ==
  /\ pc = "flags"
  /\ \/ instruction.name \in ModifyFlags /\ Poison("flags", 3) /\ GoesOn("destination")
     \/ instruction.name \in ModifyFlags /\ AnswerIsOutOfRange(3)
     \/ instruction.name \in ModifyFlags /\ Refuse
     \/ instruction.name \notin ModifyFlags /\ GoesOn("destination") /\ UNCHANGED <<ignoreVars, uValueIndex>>

\* What is in memory is not changed when the destination is, and read when the source is.  There
\* may be too many arguments, one that is not understood, a register that cannot be read, and none
\* that is in memory.
SetDestination ==
  LET i == instruction
      changes == i.name \in ModifyDestination /\ Len(i.arguments) <= 2
  IN /\ pc = "destination"
     /\ \/ /\ i.name \in ModifyDestination => changes /\ Destination(i) = "memory"
           /\ GoesOn("sp") /\ UNCHANGED <<ignoreVars, uValueIndex>>
        \/ /\ changes /\ Destination(i) = "register" /\ Source(i) = "memory"
           /\ \/ Poison("register", exception.bytes) /\ GoesOn("sp")
              \/ AnswerIsOutOfRange(exception.bytes)
        \/ /\ i.name \in ModifyDestination
           /\ changes => \/ "undecodable" \in {Destination(i), Source(i)} \/ Source(i) = "register"
                         \/ "memory" \notin {Destination(i), Source(i)}
           /\ Refuse

\* A call lowers the stack pointer, but no return address is written.
SetStackPointer ==
  /\ pc = "sp"
  /\ \/ /\ instruction.name = "call"
        /\ \/ SetNewRegister("sp", -uPointerSize(exception.process)) /\ UNCHANGED <<instruction, uValueIndex>> /\ GoesOn("registers")
           \/ Refuse
     \/ instruction.name # "call" /\ GoesOn("registers") /\ UNCHANGED <<ignoreVars, uValueIndex>>

\* How much of a value is poison that can be recognized.
PoisonIn(value, p, bytes) == IF value = duPoisonValue(p) % Limit(bytes) THEN bytes ELSE 0

\* All the new registers are set at once, or none.
SetRegisters ==
  /\ pc = "registers"
  /\ \/ LET p == exception.process
            read == "register" \in DOMAIN duNewRegister
        IN /\ thread' = [thread EXCEPT ![p] =
                [ ip |-> duNewRegister["ip"],
                  register |-> IF read THEN duNewRegister["register"] ELSE @.register,
                  poison |-> IF read THEN PoisonIn(duNewRegister["register"], p, exception.bytes) ELSE @.poison ]]
           /\ verdicts' = Append(verdicts, "ignored")
           /\ pc' = "running" /\ exception' = NoException /\ instruction' = NoInstruction /\ duNewRegister' = <<>>
           /\ UNCHANGED <<arguments, handlerVars, counters>>
     \/ Refuse

-----------------------------------------------------------------------------
Init ==
  /\ u0MaximumNumberOfBugs \in Maximums /\ interactive \in BOOLEAN
  /\ duPoisonedAddress = <<>> /\ f0bIgnoreException = FALSE /\ uBugCount = 0 /\ uValueIndex = 0
  /\ pc = "running" /\ exception = NoException /\ instruction = NoInstruction /\ duNewRegister = <<>>
  /\ thread = [p \in Processes |-> OwnThread]
  /\ verdicts = <<>> /\ reports = 0 /\ exceptions = 0

Next ==
  \/ \E p \in Processes : fHandleNewProcess(p) \/ fHandleProcessTerminated(p)
  \/ HandleException \/ AnalyzeException \/ NotABug \/ fReport
  \/ fbTryToIgnoreException \/ CheckInstruction \/ SetInstructionPointer \/ fbPoisonFlags
  \/ SetDestination \/ SetStackPointer \/ SetRegisters

Spec == Init /\ [][Next]_vars

-----------------------------------------------------------------------------
(* Properties.                                                             *)

Steps == {"instruction", "ip", "flags", "destination", "sp", "registers"}
RegisterNames == {"ip", "flags", "register", "sp"}

TypeOK ==
  /\ u0MaximumNumberOfBugs \in Maximums /\ interactive \in BOOLEAN
  /\ DOMAIN duPoisonedAddress \subseteq Processes
  /\ \A p \in DOMAIN duPoisonedAddress : duPoisonedAddress[p] = duPoisonValue(p)
  /\ f0bIgnoreException \in BOOLEAN /\ uBugCount \in Nat /\ uValueIndex \in Nat
  /\ pc \in {"running", "analyzing", "analyzed", "reported", "stopped", "raised", "failed"} \cup Steps
  /\ pc \notin {"running", "failed"} => exception.process \in DOMAIN duPoisonedAddress
  /\ DOMAIN duNewRegister \subseteq RegisterNames
  /\ thread \in [Processes -> [ip : Int, register : Nat, poison : {0, 2, 4, 8}]]
  /\ reports \in Nat /\ exceptions \in 0 .. MaxExceptions

\* The function that ignores an exception is of the exception that is handled: it is never left
\* for the next one, where setting another fails the assertion "Cannot set two exception handlers!".
IgnoreFunctionIsCurrent ==
  /\ pc # "failed"
  /\ f0bIgnoreException => pc \in {"analyzed", "reported", "stopped"}

\* Of every bug it is said once whether it can be ignored, and debugging goes on if it is.  Only
\* an answer of the user that is out of range ends the session before anything is said.
OneVerdict ==
  /\ pc \in {"reported", "raised"} \cup Steps => verdicts = <<>>
  /\ pc = "stopped" => verdicts = <<"cannot be ignored">>
  /\ pc \in {"running", "analyzing", "analyzed"} => verdicts \in {<<>>, <<"ignored">>}

\* No more bugs are reported than u0MaximumNumberOfBugs, and every report is counted.
AtMostMaximum ==
  /\ u0MaximumNumberOfBugs # None => reports <= u0MaximumNumberOfBugs
  /\ reports = uBugCount + (IF pc = "reported" THEN 1 ELSE 0)

\* A bug that cannot be ignored leaves the application as it was: its registers change only with
\* the message that the bug is ignored, or in a new process.
NotIgnoredNotChanged ==
  [][\A p \in DOMAIN duPoisonedAddress : thread'[p] # thread[p] => verdicts' = Append(verdicts, "ignored")]_vars

\* An access near a pointer that the collateral bug handler made up is recognized, also when only
\* the lower half of it was read, and the offset from it is the one the application uses.
PoisonIsRecognized ==
  pc = "analyzing" /\ exception.offset # None /\ exception.offset \in 1 - uPageSize .. uPageSize - 1 =>
    LET t == thread[exception.process]
    IN t.ip = Code /\ t.poison >= 4 => i0Offset = exception.offset

===============================================================================
