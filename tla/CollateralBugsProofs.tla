------------------------- MODULE CollateralBugsProofs -------------------------
(***************************************************************************)
(* What CollateralBugs promises for any number of processes, any maximum   *)
(* and any sequence of exceptions: IgnoreFunctionIsCurrent, OneVerdict,    *)
(* AtMostMaximum and NotIgnoredNotChanged (by CInv), TypeOK and            *)
(* PoisonIsRecognized (by PInv).                                           *)
(*                                                                         *)
(* The first three invariants need each other.  Setting a function to ignore an  *)
(* exception does not fail because none is left from the exception before, *)
(* and none is left because a report either takes the function or stops.   *)
(* A maximum that is reached stops everything, so a bug is only reported   *)
(* while fewer than the maximum were counted (BelowMaximum): this is what  *)
(* AtMostMaximum lacks to be inductive.                                    *)
(*                                                                         *)
(* Poison is recognized where an exception is handled: its address is      *)
(* near the pointer that was put in a register when an earlier one was     *)
(* ignored, of a process with the same size of pointers, and no pointer of *)
(* another size is that near (PagesAreApart).  PInv adds to the types what *)
(* is to be put in which register at each step of ignoring an exception.   *)
(***************************************************************************)
EXTENDS CollateralBugs, TLAPS

Pcs == {"running", "analyzing", "analyzed", "reported", "stopped", "raised", "failed"} \cup Steps

ControlTypeOK ==
  /\ u0MaximumNumberOfBugs \in Maximums
  /\ f0bIgnoreException \in BOOLEAN
  /\ uBugCount \in Nat /\ reports \in Nat
  /\ pc \in Pcs

BelowMaximum == u0MaximumNumberOfBugs # None /\ pc # "stopped" => uBugCount < u0MaximumNumberOfBugs

CInv == ControlTypeOK /\ IgnoreFunctionIsCurrent /\ OneVerdict /\ AtMostMaximum /\ BelowMaximum

\* A message appended to none is the only one.
LEMMA AppendToNone == ASSUME NEW e PROVE Append(<<>>, e) = <<e>>
  OBVIOUS

\* The provers know the arithmetic of constants, but not that of primed variables.
LEMMA AndNone == ASSUME NEW n \in Nat PROVE n = n + 0
  OBVIOUS

LEMMA NotReached == ASSUME NEW m \in Nat, NEW n \in Nat, ~(m >= n) PROVE m < n
  OBVIOUS

LEMMA InitCInv == Init => CInv
<1> SUFFICES ASSUME Init PROVE CInv
  OBVIOUS
<1> USE DEF Init
<1>1. ControlTypeOK
  BY DEF ControlTypeOK, Pcs
<1>2. IgnoreFunctionIsCurrent /\ OneVerdict
  BY DEF IgnoreFunctionIsCurrent, OneVerdict, Steps
<1>3. AtMostMaximum /\ BelowMaximum
  BY CollateralBugsAssumption DEF CollateralBugsAssumption, AtMostMaximum, BelowMaximum
<1> QED
  BY <1>1, <1>2, <1>3 DEF CInv

\* A step that changes nothing the invariant is about.
LEMMA SameControl ==
  ASSUME CInv,
         UNCHANGED <<u0MaximumNumberOfBugs, f0bIgnoreException, uBugCount, reports, verdicts, pc>>
  PROVE  CInv'
  BY DEF CInv, ControlTypeOK, IgnoreFunctionIsCurrent, OneVerdict, AtMostMaximum, BelowMaximum

\* A step of ignoring a bug goes on to the next, or says that the bug cannot be ignored.
LEMMA NextStep ==
  ASSUME CInv, pc \in Steps, NEW next \in Steps, GoesOn(next)
  PROVE  CInv'
<1> USE DEF GoesOn, arguments, counters
<1>1. ControlTypeOK'
  BY DEF CInv, ControlTypeOK, Pcs
<1>2. IgnoreFunctionIsCurrent' /\ OneVerdict'
  BY DEF CInv, IgnoreFunctionIsCurrent, OneVerdict, Steps
<1>3. AtMostMaximum' /\ BelowMaximum'
  BY DEF CInv, AtMostMaximum, BelowMaximum, Steps
<1> QED
  BY <1>1, <1>2, <1>3 DEF CInv

LEMMA RefuseStep ==
  ASSUME CInv, pc \in Steps, Refuse
  PROVE  CInv'
<1> USE DEF Refuse, CannotBeIgnored, arguments, counters
<1>1. ControlTypeOK'
  BY DEF CInv, ControlTypeOK, Pcs
<1>2. verdicts = <<>>
  BY DEF CInv, OneVerdict
<1>3. verdicts' = <<"cannot be ignored">>
  BY <1>2, AppendToNone
<1>4. IgnoreFunctionIsCurrent' /\ OneVerdict'
  BY <1>3 DEF CInv, IgnoreFunctionIsCurrent, OneVerdict, Steps
<1>5. AtMostMaximum' /\ BelowMaximum'
  BY DEF CInv, AtMostMaximum, BelowMaximum, Steps
<1> QED
  BY <1>1, <1>4, <1>5 DEF CInv

\* A step that an assertion ends.
LEMMA RaiseStep ==
  ASSUME CInv, pc \in Steps, NEW bytes, AnswerIsOutOfRange(bytes)
  PROVE  CInv'
<1> USE DEF AnswerIsOutOfRange, arguments, counters
<1>1. ControlTypeOK'
  BY DEF CInv, ControlTypeOK, Pcs
<1>2. IgnoreFunctionIsCurrent' /\ OneVerdict'
  BY DEF CInv, IgnoreFunctionIsCurrent, OneVerdict, Steps
<1>3. AtMostMaximum' /\ BelowMaximum'
  BY DEF CInv, AtMostMaximum, BelowMaximum, Steps
<1> QED
  BY <1>1, <1>2, <1>3 DEF CInv

\* The steps that say whether a bug can be ignored.
\* A bug that is reported may be counted.
LEMMA ReportIsBelowMaximum ==
  ASSUME CInv, pc = "reported"
  PROVE  /\ uBugCount \in Nat /\ reports = uBugCount + 1
         /\ u0MaximumNumberOfBugs # None =>
              u0MaximumNumberOfBugs \in Nat /\ reports <= u0MaximumNumberOfBugs
<1>1. uBugCount \in Nat /\ u0MaximumNumberOfBugs \in Maximums
  BY DEF CInv, ControlTypeOK
<1>2. reports = uBugCount + 1 /\ (u0MaximumNumberOfBugs # None => reports <= u0MaximumNumberOfBugs)
  BY DEF CInv, AtMostMaximum
<1>3. u0MaximumNumberOfBugs # None => u0MaximumNumberOfBugs \in Nat
  BY <1>1, CollateralBugsAssumption DEF CollateralBugsAssumption
<1> QED
  BY <1>1, <1>2, <1>3

LEMMA TryStep == ASSUME CInv, fbTryToIgnoreException PROVE CInv'
<1>1. pc = "reported" /\ verdicts = <<>>
  BY DEF fbTryToIgnoreException, CInv, OneVerdict
<1>2. /\ uBugCount' = uBugCount + 1 /\ reports' = reports
      /\ u0MaximumNumberOfBugs' = u0MaximumNumberOfBugs
  BY DEF fbTryToIgnoreException, CannotBeIgnored, arguments, counters
<1>3. uBugCount' \in Nat /\ reports' \in Nat
  BY <1>1, <1>2, ReportIsBelowMaximum DEF CInv, ControlTypeOK
<1>4. reports' = uBugCount'
  BY <1>1, <1>2, ReportIsBelowMaximum
<1>5. u0MaximumNumberOfBugs' # None =>
        u0MaximumNumberOfBugs' \in Nat /\ reports' <= u0MaximumNumberOfBugs'
  BY <1>1, <1>2, ReportIsBelowMaximum
<1>6. \/ pc' = "stopped" /\ CannotBeIgnored /\ UNCHANGED f0bIgnoreException
      \/ /\ pc' = "instruction" /\ f0bIgnoreException' = FALSE /\ UNCHANGED verdicts
         /\ ~bMaximumNumberOfBugsReached(uBugCount')
  BY DEF fbTryToIgnoreException, CannotBeIgnored
<1>7. ControlTypeOK'
  <2>1. f0bIgnoreException' \in BOOLEAN
    BY <1>6 DEF CInv, ControlTypeOK
  <2> QED
    BY <1>2, <1>3, <1>6, <2>1 DEF CInv, ControlTypeOK, Pcs, Steps
<1>8. IgnoreFunctionIsCurrent' /\ OneVerdict'
  <2>1. CASE pc' = "stopped"
    <3>1. verdicts' = <<"cannot be ignored">>
      BY <1>1, <1>6, <2>1, AppendToNone DEF CannotBeIgnored
    <3> QED
      BY <2>1, <3>1 DEF IgnoreFunctionIsCurrent, OneVerdict, Steps
  <2>2. CASE pc' = "instruction"
    <3>1. verdicts' = <<>> /\ f0bIgnoreException' = FALSE
      BY <1>1, <1>6, <2>2
    <3> QED
      BY <2>2, <3>1 DEF IgnoreFunctionIsCurrent, OneVerdict, Steps
  <2> QED
    BY <1>6, <2>1, <2>2
<1>9. AtMostMaximum'
  <2>1. pc' # "reported"
    BY <1>6
  <2>2. uBugCount' + (IF pc' = "reported" THEN 1 ELSE 0) = uBugCount'
    <3>1. (IF pc' = "reported" THEN 1 ELSE 0) = 0
      BY <2>1
    <3> QED
      BY <1>3, <3>1, AndNone, Zenon
  <2> QED
    BY <1>4, <1>5, <2>2, Zenon DEF AtMostMaximum
<1>10. BelowMaximum'
  <2>1. CASE pc' = "stopped"
    BY <2>1 DEF BelowMaximum
  <2>2. CASE ~bMaximumNumberOfBugsReached(uBugCount')
    <3>1. u0MaximumNumberOfBugs' # None => ~(uBugCount' >= u0MaximumNumberOfBugs')
      BY <1>2, <2>2 DEF bMaximumNumberOfBugsReached
    <3> QED
      BY <1>3, <1>5, <3>1, NotReached, Zenon DEF BelowMaximum
  <2> QED
    BY <1>6, <2>1, <2>2
<1> QED
  BY <1>7, <1>8, <1>9, <1>10 DEF CInv

LEMMA SetRegistersStep == ASSUME CInv, SetRegisters PROVE CInv'
<1>0. pc = "registers" /\ pc \in Steps /\ verdicts = <<>>
  BY DEF SetRegisters, CInv, OneVerdict, Steps
<1>1. CASE Refuse
  BY <1>0, <1>1, RefuseStep
<1>2. CASE ~Refuse
  <2>1. /\ verdicts' = Append(verdicts, "ignored") /\ pc' = "running"
        /\ UNCHANGED <<u0MaximumNumberOfBugs, f0bIgnoreException, uBugCount, reports>>
    BY <1>2 DEF SetRegisters, arguments, handlerVars, counters
  <2>2. verdicts' = <<"ignored">>
    BY <1>0, <2>1, AppendToNone
  <2>3. ControlTypeOK'
    BY <2>1 DEF CInv, ControlTypeOK, Pcs
  <2>4. IgnoreFunctionIsCurrent' /\ OneVerdict'
    BY <1>0, <2>1, <2>2 DEF CInv, IgnoreFunctionIsCurrent, OneVerdict, Steps
  <2>5. AtMostMaximum' /\ BelowMaximum'
    BY <1>0, <2>1 DEF CInv, AtMostMaximum, BelowMaximum
  <2> QED
    BY <2>3, <2>4, <2>5 DEF CInv
<1> QED
  BY <1>1, <1>2

\* The steps up to the report of a bug.
LEMMA EventStep ==
  ASSUME CInv, HandleException \/ AnalyzeException \/ NotABug \/ fReport
  PROVE  CInv'
<1> USE DEF arguments, handlerVars, counters
<1>1. CASE HandleException
  <2>1. /\ pc = "running" /\ pc' \in {"running", "analyzing"}
        /\ UNCHANGED <<u0MaximumNumberOfBugs, f0bIgnoreException, uBugCount, reports, verdicts>>
    BY <1>1 DEF HandleException
  <2>2. ControlTypeOK' /\ IgnoreFunctionIsCurrent' /\ OneVerdict'
    BY <2>1 DEF CInv, ControlTypeOK, Pcs, IgnoreFunctionIsCurrent, OneVerdict, Steps
  <2>3. AtMostMaximum' /\ BelowMaximum'
    BY <2>1 DEF CInv, AtMostMaximum, BelowMaximum
  <2> QED
    BY <2>2, <2>3 DEF CInv
<1>2. CASE AnalyzeException
  <2>1. ~f0bIgnoreException
    BY <1>2 DEF AnalyzeException, CInv, IgnoreFunctionIsCurrent
  <2>2. /\ pc = "analyzing" /\ pc' = "analyzed" /\ f0bIgnoreException' \in BOOLEAN
        /\ UNCHANGED <<u0MaximumNumberOfBugs, uBugCount, reports, verdicts>>
    BY <1>2, <2>1 DEF AnalyzeException, fSetIgnoreExceptionFunction, CInv, ControlTypeOK
  <2>3. ControlTypeOK' /\ IgnoreFunctionIsCurrent' /\ OneVerdict'
    BY <2>2 DEF CInv, ControlTypeOK, Pcs, IgnoreFunctionIsCurrent, OneVerdict, Steps
  <2>4. AtMostMaximum' /\ BelowMaximum'
    BY <2>2 DEF CInv, AtMostMaximum, BelowMaximum
  <2> QED
    BY <2>3, <2>4 DEF CInv
<1>3. CASE NotABug
  <2>1. /\ pc = "analyzed" /\ pc' = "running" /\ f0bIgnoreException' = FALSE
        /\ UNCHANGED <<u0MaximumNumberOfBugs, uBugCount, reports, verdicts>>
    BY <1>3 DEF NotABug, fDiscardIgnoreExceptionFunction
  <2>2. ControlTypeOK' /\ IgnoreFunctionIsCurrent' /\ OneVerdict'
    BY <2>1 DEF CInv, ControlTypeOK, Pcs, IgnoreFunctionIsCurrent, OneVerdict, Steps
  <2>3. AtMostMaximum' /\ BelowMaximum'
    BY <2>1 DEF CInv, AtMostMaximum, BelowMaximum
  <2> QED
    BY <2>2, <2>3 DEF CInv
<1>4. CASE fReport
  <2>1. /\ pc = "analyzed" /\ pc' = "reported" /\ reports' = reports + 1 /\ verdicts' = <<>>
        /\ UNCHANGED <<u0MaximumNumberOfBugs, f0bIgnoreException, uBugCount>>
    BY <1>4 DEF fReport
  <2>2. ControlTypeOK' /\ IgnoreFunctionIsCurrent' /\ OneVerdict'
    BY <2>1 DEF CInv, ControlTypeOK, Pcs, IgnoreFunctionIsCurrent, OneVerdict, Steps
  <2>3. u0MaximumNumberOfBugs # None => u0MaximumNumberOfBugs \in Nat
    BY CollateralBugsAssumption DEF CollateralBugsAssumption, CInv, ControlTypeOK
  <2>4. AtMostMaximum' /\ BelowMaximum'
    BY <2>1, <2>3 DEF CInv, ControlTypeOK, AtMostMaximum, BelowMaximum
  <2> QED
    BY <2>2, <2>4 DEF CInv
<1> QED
  BY <1>1, <1>2, <1>3, <1>4

\* The steps that find out how to go on.
LEMMA IgnoreStep ==
  ASSUME CInv, CheckInstruction \/ SetInstructionPointer \/ fbPoisonFlags \/ SetDestination \/ SetStackPointer
  PROVE  CInv'
<1>1. CASE CheckInstruction
  <2>1. pc \in Steps /\ (Refuse \/ GoesOn("ip"))
    BY <1>1 DEF CheckInstruction, Steps
  <2> QED
    BY <2>1, RefuseStep, NextStep DEF Steps
<1>2. CASE SetInstructionPointer
  <2>1. pc \in Steps /\ (GoesOn("flags") \/ \E bytes : AnswerIsOutOfRange(bytes))
    BY <1>2, Zenon DEF SetInstructionPointer, Steps
  <2> QED
    BY <2>1, RaiseStep, NextStep DEF Steps
<1>3. CASE fbPoisonFlags
  <2>1. pc \in Steps /\ (Refuse \/ GoesOn("destination") \/ \E bytes : AnswerIsOutOfRange(bytes))
    BY <1>3, Zenon DEF fbPoisonFlags, Steps
  <2> QED
    BY <2>1, RefuseStep, RaiseStep, NextStep DEF Steps
<1>4. CASE SetDestination
  <2>1. pc \in Steps /\ (Refuse \/ GoesOn("sp") \/ \E bytes : AnswerIsOutOfRange(bytes))
    BY <1>4, Zenon DEF SetDestination, Steps
  <2> QED
    BY <2>1, RefuseStep, RaiseStep, NextStep DEF Steps
<1>5. CASE SetStackPointer
  <2>1. pc \in Steps /\ (Refuse \/ GoesOn("registers"))
    BY <1>5 DEF SetStackPointer, Steps
  <2> QED
    BY <2>1, RefuseStep, NextStep DEF Steps
<1> QED
  BY <1>1, <1>2, <1>3, <1>4, <1>5

LEMMA NextCInv == CInv /\ [Next]_vars => CInv'
<1> SUFFICES ASSUME CInv, [Next]_vars PROVE CInv'
  OBVIOUS
<1>1. ASSUME NEW p \in Processes, fHandleNewProcess(p) \/ fHandleProcessTerminated(p) PROVE CInv'
  BY <1>1, SameControl DEF fHandleNewProcess, fHandleProcessTerminated, arguments, counters
<1>2. CASE UNCHANGED vars
  BY <1>2, SameControl DEF vars, arguments, handlerVars, counters
<1> QED
  BY <1>1, <1>2, EventStep, TryStep, IgnoreStep, SetRegistersStep DEF Next

\* The function that ignores an exception never outlives it, so that setting another one never
\* fails the assertion of cCollateralBugHandler.fSetIgnoreExceptionFunction; every bug gets one
\* verdict; and no more than u0MaximumNumberOfBugs are reported.
THEOREM SpecCInv == Spec => []CInv
  BY InitCInv, NextCInv, PTL DEF Spec

\* Setting the function that ignores an exception never finds another one.
THEOREM SpecIgnoreFunctionIsCurrent == Spec => []IgnoreFunctionIsCurrent
<1>1. CInv => IgnoreFunctionIsCurrent
  BY DEF CInv
<1> QED
  BY <1>1, SpecCInv, PTL

\* It is said once of every bug whether it can be ignored.
THEOREM SpecOneVerdict == Spec => []OneVerdict
<1>1. CInv => OneVerdict
  BY DEF CInv
<1> QED
  BY <1>1, SpecCInv, PTL

\* No more bugs are reported than u0MaximumNumberOfBugs.
THEOREM SpecAtMostMaximum == Spec => []AtMostMaximum
<1>1. CInv => AtMostMaximum
  BY DEF CInv
<1> QED
  BY <1>1, SpecCInv, PTL

\* A step that fails to ignore a bug has changed no register of the application.
THEOREM SpecNotIgnoredNotChanged == Spec => NotIgnoredNotChanged
<1>1. [Next]_vars =>
        [\A p \in DOMAIN duPoisonedAddress : thread'[p] # thread[p] => verdicts' = Append(verdicts, "ignored")]_vars
  <2> SUFFICES ASSUME [Next]_vars, NEW p \in DOMAIN duPoisonedAddress, thread'[p] # thread[p]
               PROVE  verdicts' = Append(verdicts, "ignored")
    OBVIOUS
  <2>1. CASE SetRegisters
    BY <2>1 DEF SetRegisters, Refuse, CannotBeIgnored
  <2>2. ASSUME NEW q \in Processes, fHandleNewProcess(q) PROVE FALSE
    BY <2>2 DEF fHandleNewProcess
  <2>3. CASE thread' = thread
    BY <2>3
  <2>4. CASE UNCHANGED vars
    BY <2>4 DEF vars
  <2>5. (HandleException \/ AnalyzeException \/ NotABug \/ fReport \/ fbTryToIgnoreException) => thread' = thread
    BY DEF HandleException, AnalyzeException, NotABug, fReport, fbTryToIgnoreException, CannotBeIgnored
  <2>6. (CheckInstruction \/ SetInstructionPointer \/ fbPoisonFlags \/ SetDestination \/ SetStackPointer)
          => thread' = thread
    BY DEF CheckInstruction, SetInstructionPointer, fbPoisonFlags, SetDestination, SetStackPointer,
           GoesOn, AnswerIsOutOfRange, Refuse, CannotBeIgnored
  <2>7. ASSUME NEW q \in Processes, fHandleProcessTerminated(q) PROVE thread' = thread
    BY <2>7 DEF fHandleProcessTerminated
  <2> QED
    BY <2>1, <2>2, <2>3, <2>4, <2>5, <2>6, <2>7 DEF Next
<1> QED
  BY <1>1, PTL DEF Spec, NotIgnoredNotChanged


-----------------------------------------------------------------------------
(* TypeOK and PoisonIsRecognized.                                          *)

\* The exception that is handled is of a process that runs, and of an access of a size that is used.
ExceptionInv ==
  pc \notin {"running", "failed"} =>
    /\ exception.process \in DOMAIN duPoisonedAddress
    /\ exception.bytes \in {2, 4, uPointerSize(exception.process)}

\* What is read for the application is a value of a register.
NewValuesInv ==
  /\ DOMAIN duNewRegister \subseteq RegisterNames
  /\ "ip" \in DOMAIN duNewRegister => duNewRegister["ip"] \in Int
  /\ "register" \in DOMAIN duNewRegister => duNewRegister["register"] \in Nat

\* The instruction pointer is the first register that is set.
InstructionPointerIsSet == pc \in {"flags", "destination", "sp", "registers"} => "ip" \in DOMAIN duNewRegister

\* A register that holds poison holds as much of the poisoned address as was read.
ThreadInv ==
  \A p \in Processes :
    thread[p].poison # 0 =>
      /\ thread[p].poison \in {2, 4, uPointerSize(p)}
      /\ thread[p].register = duPoisonValue(p) % Limit(thread[p].poison)

\* The address of an exception is the one that the application has computed.
AddressInv ==
  pc = "analyzing" /\ exception.offset # None /\ thread[exception.process].ip = Code =>
    exception.offset \in Int /\ exception.address = thread[exception.process].register + exception.offset

PInv == TypeOK /\ ExceptionInv /\ NewValuesInv /\ InstructionPointerIsSet /\ ThreadInv /\ AddressInv

\* The limits of the sizes that are used.
LEMMA Limits ==
  /\ Limit(2) = 16 /\ Limit(3) = 64 /\ Limit(4) = 256 /\ Limit(6) = 4096 /\ Limit(8) = 65536
  BY DEF Limit

LEMMA LimitIsPositive == \A bytes \in {2, 3, 4, 6, 8} : Limit(bytes) \in Nat \ {0}
  BY Limits

\* The sizes of the accesses of a process.
LEMMA SizesOfAccess == \A p : {2, 4, uPointerSize(p)} \subseteq {2, 4, 8}
  BY DEF uPointerSize

LEMMA PoisonValues == \A p : duPoisonValue(p) \in {85, 21845}
  BY DEF duPoisonValue

LEMMA ModuloIsNat == \A x \in Int, m \in Nat \ {0} : x % m \in Nat
  OBVIOUS

\* A value that is made up is one, whatever the user answers.
LEMMA PoisonedValueIsNat ==
  ASSUME uValueIndex \in Nat, NEW p, NEW bytes \in {2, 3, 4, 6, 8}, NEW v \in fuGetPoisonedValue(p, bytes)
  PROVE  v \in Nat
<1>1. Limit(bytes) \in Nat \ {0}
  BY LimitIsPositive
<1>2. SuggestedValue(p, bytes) \in Nat
  <2> DEFINE next == IF uValueIndex < Len(auCollateralPoisonValues)
                     THEN auCollateralPoisonValues[uValueIndex + 1] ELSE duPoisonValue(p)
  <2>1. duPoisonValue(p) \in Int
    BY PoisonValues
  <2>2. uValueIndex < Len(auCollateralPoisonValues) => auCollateralPoisonValues[uValueIndex + 1] \in Nat
    BY CollateralBugsAssumption DEF CollateralBugsAssumption
  <2>3. next \in Int
    BY <2>1, <2>2
  <2>4. SuggestedValue(p, bytes) = next % Limit(bytes)
    BY DEF SuggestedValue
  <2> HIDE DEF next
  <2> QED
    BY <1>1, <2>3, <2>4, ModuloIsNat
<1>3. CASE interactive
  <2>1. PICK answer \in Answers : v = answer % Limit(bytes)
    BY <1>3 DEF AnswerRange, fuGetPoisonedValue
  <2>2. answer \in Int
    BY CollateralBugsAssumption DEF CollateralBugsAssumption
  <2> QED
    BY <1>1, <2>1, <2>2, ModuloIsNat
<1>4. CASE ~interactive
  BY <1>2, <1>4 DEF AnswerRange, fuGetPoisonedValue
<1> QED
  BY <1>3, <1>4

LEMMA SetNewRegisterIsSet ==
  ASSUME NewValuesInv, NEW name \in RegisterNames, NEW value \in Int, name = "register" => value \in Nat,
         SetNewRegister(name, value)
  PROVE  NewValuesInv' /\ DOMAIN duNewRegister' = DOMAIN duNewRegister \cup {name}
<1>1. duNewRegister' = [n \in DOMAIN duNewRegister \cup {name} |-> IF n = name THEN value ELSE duNewRegister[n]]
  BY DEF SetNewRegister
<1>2. DOMAIN duNewRegister' = DOMAIN duNewRegister \cup {name}
  BY <1>1
<1>3. \A n \in DOMAIN duNewRegister' : duNewRegister'[n] = IF n = name THEN value ELSE duNewRegister[n]
  BY <1>1
<1> QED
  BY <1>2, <1>3 DEF NewValuesInv

LEMMA PoisonIsSet ==
  ASSUME NewValuesInv, uValueIndex \in Nat, NEW name \in RegisterNames, NEW bytes \in {2, 3, 4, 6, 8},
         Poison(name, bytes)
  PROVE  NewValuesInv' /\ DOMAIN duNewRegister' = DOMAIN duNewRegister \cup {name} /\ uValueIndex' \in Nat
<1>1. PICK v \in fuGetPoisonedValue(exception.process, bytes) : SetNewRegister(name, v)
  BY DEF Poison
<1>2. v \in Nat
  BY PoisonedValueIsNat
<1>3. v \in Int /\ (name = "register" => v \in Nat)
  BY <1>2
<1>4. NewValuesInv' /\ DOMAIN duNewRegister' = DOMAIN duNewRegister \cup {name}
  BY <1>1, <1>3, SetNewRegisterIsSet
<1>5. uValueIndex' \in Nat
  BY DEF Poison
<1> QED
  BY <1>4, <1>5

LEMMA InitPInv == Init => PInv
<1> SUFFICES ASSUME Init PROVE PInv
  OBVIOUS
<1> USE DEF Init
<1>1. OwnThread \in [ip : Int, register : Nat, poison : {0, 2, 4, 8}] /\ OwnThread.poison = 0
  BY DEF OwnThread, Code
<1>2. DOMAIN duPoisonedAddress = {} /\ DOMAIN duNewRegister = {}
  OBVIOUS
<1>3. TypeOK
  <2>1. thread \in [Processes -> [ip : Int, register : Nat, poison : {0, 2, 4, 8}]]
    BY <1>1
  <2>2. exceptions \in 0 .. MaxExceptions
    BY CollateralBugsAssumption DEF CollateralBugsAssumption
  <2> QED
    BY <1>2, <2>1, <2>2 DEF TypeOK
<1>4. NewValuesInv /\ InstructionPointerIsSet
  BY <1>2 DEF NewValuesInv, InstructionPointerIsSet
<1>5. ExceptionInv /\ AddressInv
  BY DEF ExceptionInv, AddressInv
<1>6. ThreadInv
  BY <1>1 DEF ThreadInv
<1> QED
  BY <1>3, <1>4, <1>5, <1>6 DEF PInv

\* A step of ignoring a bug that goes on to the next, or to none, changes the new registers only.
LEMMA NewRegistersStep ==
  ASSUME PInv, pc \in Steps, pc' \in Steps \cup {"stopped", "raised"},
         UNCHANGED <<arguments, duPoisonedAddress, counters, exception, thread>>,
         f0bIgnoreException' \in BOOLEAN, uBugCount' \in Nat, uValueIndex' \in Nat,
         NewValuesInv', InstructionPointerIsSet'
  PROVE  PInv'
<1> USE DEF arguments, counters
<1>1. pc \notin {"running", "failed"} /\ pc' \notin {"running", "failed", "analyzing"}
  BY DEF Steps
<1>2. ExceptionInv' /\ AddressInv'
  BY <1>1 DEF PInv, ExceptionInv, AddressInv
<1>3. ThreadInv'
  BY DEF PInv, ThreadInv
<1>4. TypeOK'
  <2>1. exception'.process \in DOMAIN duPoisonedAddress'
    BY <1>1 DEF PInv, ExceptionInv
  <2>2. DOMAIN duNewRegister' \subseteq RegisterNames
    BY DEF NewValuesInv
  <2> QED
    BY <2>1, <2>2 DEF PInv, TypeOK
<1> QED
  BY <1>2, <1>3, <1>4 DEF PInv

\* A bug that cannot be ignored leaves the new registers behind.
LEMMA RefusePStep ==
  ASSUME PInv, pc \in Steps, Refuse
  PROVE  PInv'
<1>1. /\ UNCHANGED <<arguments, duPoisonedAddress, counters, exception, thread>>
      /\ UNCHANGED <<f0bIgnoreException, uBugCount, uValueIndex, duNewRegister>> /\ pc' = "stopped"
  BY DEF Refuse, CannotBeIgnored, ignoreVars
<1>2. f0bIgnoreException' \in BOOLEAN /\ uBugCount' \in Nat /\ uValueIndex' \in Nat
  BY <1>1 DEF PInv, TypeOK
<1>3. NewValuesInv' /\ InstructionPointerIsSet'
  BY <1>1 DEF PInv, NewValuesInv, InstructionPointerIsSet
<1> QED
  BY <1>1, <1>2, <1>3, NewRegistersStep

\* Neither does an answer that is out of range set any.
LEMMA RaisePStep ==
  ASSUME PInv, pc \in Steps, NEW bytes, AnswerIsOutOfRange(bytes)
  PROVE  PInv'
<1>1. /\ UNCHANGED <<arguments, duPoisonedAddress, counters, exception, thread>>
      /\ UNCHANGED <<f0bIgnoreException, uBugCount, duNewRegister>>
      /\ uValueIndex' = uValueIndex + 1 /\ pc' = "raised"
  BY DEF AnswerIsOutOfRange, ignoreVars
<1>2. f0bIgnoreException' \in BOOLEAN /\ uBugCount' \in Nat /\ uValueIndex' \in Nat
  BY <1>1 DEF PInv, TypeOK
<1>3. NewValuesInv' /\ InstructionPointerIsSet'
  BY <1>1 DEF PInv, NewValuesInv, InstructionPointerIsSet
<1> QED
  BY <1>1, <1>2, <1>3, NewRegistersStep

LEMMA GoesOnStep ==
  ASSUME PInv, pc \in Steps, NEW next \in Steps, GoesOn(next), uValueIndex' \in Nat,
         NewValuesInv', next = "ip" \/ "ip" \in DOMAIN duNewRegister'
  PROVE  PInv'
<1>1. /\ UNCHANGED <<arguments, duPoisonedAddress, counters, exception, thread>>
      /\ UNCHANGED <<f0bIgnoreException, uBugCount>> /\ pc' = next
  BY DEF GoesOn
<1>2. f0bIgnoreException' \in BOOLEAN /\ uBugCount' \in Nat
  BY <1>1 DEF PInv, TypeOK
<1>3. InstructionPointerIsSet'
  BY <1>1 DEF InstructionPointerIsSet
<1> QED
  BY <1>1, <1>2, <1>3, NewRegistersStep

\* A step that goes on without a change of the new registers.
LEMMA NothingSetStep ==
  ASSUME PInv, pc \in Steps \ {"instruction", "ip"}, NEW next \in Steps, GoesOn(next),
         UNCHANGED <<ignoreVars, uValueIndex>>
  PROVE  PInv'
<1>1. uValueIndex' \in Nat /\ duNewRegister' = duNewRegister
  BY DEF PInv, TypeOK, ignoreVars
<1>2. NewValuesInv' /\ "ip" \in DOMAIN duNewRegister'
  BY <1>1 DEF PInv, NewValuesInv, InstructionPointerIsSet, Steps
<1> QED
  BY <1>1, <1>2, GoesOnStep

LEMMA SetRegisterStep ==
  ASSUME PInv, pc \in Steps, NEW next \in Steps \ {"ip"}, GoesOn(next), NEW name \in RegisterNames,
         \/ \E bytes \in {2, 3, 4, 6, 8} : Poison(name, bytes)
         \/ name # "register" /\ (\E value \in Int : SetNewRegister(name, value)) /\ UNCHANGED uValueIndex,
         name = "ip" \/ pc \notin {"instruction", "ip"}
  PROVE  PInv'
<1>1. uValueIndex \in Nat /\ NewValuesInv
  BY DEF PInv, TypeOK
<1>2. NewValuesInv' /\ DOMAIN duNewRegister' = DOMAIN duNewRegister \cup {name} /\ uValueIndex' \in Nat
  BY <1>1, PoisonIsSet, SetNewRegisterIsSet
<1>3. "ip" \in DOMAIN duNewRegister'
  BY <1>2 DEF PInv, InstructionPointerIsSet, Steps
<1> QED
  BY <1>2, <1>3, GoesOnStep

LEMMA CheckInstructionPStep == ASSUME PInv, CheckInstruction PROVE PInv'
<1>1. pc \in Steps /\ "ip" \in Steps
  BY DEF CheckInstruction, Steps
<1>2. CASE Refuse
  BY <1>1, <1>2, RefusePStep
<1>3. CASE ~Refuse
  <2>1. GoesOn("ip") /\ duNewRegister' = <<>> /\ UNCHANGED uValueIndex
    BY <1>3 DEF CheckInstruction
  <2>2. uValueIndex' \in Nat
    BY <2>1 DEF PInv, TypeOK
  <2>3. NewValuesInv'
    <3>1. DOMAIN duNewRegister' = {}
      BY <2>1
    <3> QED
      BY <3>1 DEF NewValuesInv
  <2> QED
    BY <1>1, <2>1, <2>2, <2>3, GoesOnStep
<1> QED
  BY <1>2, <1>3

LEMMA SizeOfPointer == \A p : uPointerSize(p) \in {2, 3, 4, 6, 8} /\ -uPointerSize(p) \in Int
  BY DEF uPointerSize

LEMMA SetInstructionPointerPStep == ASSUME PInv, SetInstructionPointer PROVE PInv'
<1>1. pc \in Steps /\ "flags" \in Steps \ {"ip"} /\ "ip" \in RegisterNames
  BY DEF SetInstructionPointer, Steps, RegisterNames
<1>2. CASE Poison("ip", uPointerSize(exception.process)) /\ GoesOn("flags")
  <2>1. \E bytes \in {2, 3, 4, 6, 8} : Poison("ip", bytes)
    BY <1>2, SizeOfPointer
  <2> QED
    BY <1>1, <1>2, <2>1, SetRegisterStep
<1>3. CASE SetNewRegister("ip", Code) /\ UNCHANGED uValueIndex /\ GoesOn("flags")
  <2>1. SetNewRegister("ip", Code) /\ UNCHANGED uValueIndex
    BY <1>3
  <2>2. Code \in Int
    BY DEF Code
  <2>3. "ip" # "register"
    OBVIOUS
  <2>4. \E value \in Int : SetNewRegister("ip", value)
    BY <2>1, <2>2
  <2> QED
    BY <1>1, <1>3, <2>1, <2>3, <2>4, SetRegisterStep
<1>4. CASE AnswerIsOutOfRange(uPointerSize(exception.process))
  BY <1>1, <1>4, RaisePStep
<1> QED
  BY <1>2, <1>3, <1>4 DEF SetInstructionPointer

LEMMA PoisonFlagsPStep == ASSUME PInv, fbPoisonFlags PROVE PInv'
<1>1. /\ pc \in Steps \ {"instruction", "ip"} /\ pc \in Steps /\ pc \notin {"instruction", "ip"}
      /\ "destination" \in Steps \ {"ip"} /\ "destination" \in Steps /\ "flags" \in RegisterNames
  BY DEF fbPoisonFlags, Steps, RegisterNames
<1>2. CASE Poison("flags", 3) /\ GoesOn("destination")
  <2>1. 3 \in {2, 3, 4, 6, 8}
    OBVIOUS
  <2>2. \E bytes \in {2, 3, 4, 6, 8} : Poison("flags", bytes)
    BY <1>2, <2>1, Zenon
  <2> QED
    BY <1>1, <1>2, <2>2, SetRegisterStep
<1>3. CASE Refuse
  BY <1>1, <1>3, RefusePStep
<1>4. CASE GoesOn("destination") /\ UNCHANGED <<ignoreVars, uValueIndex>>
  BY <1>1, <1>4, NothingSetStep
<1>5. CASE AnswerIsOutOfRange(3)
  BY <1>1, <1>5, RaisePStep
<1> QED
  BY <1>2, <1>3, <1>4, <1>5 DEF fbPoisonFlags

LEMMA SetDestinationPStep == ASSUME PInv, SetDestination PROVE PInv'
<1>1. /\ pc \in Steps \ {"instruction", "ip"} /\ pc \in Steps /\ pc \notin {"instruction", "ip"}
      /\ "sp" \in Steps \ {"ip"} /\ "sp" \in Steps /\ "register" \in RegisterNames
  BY DEF SetDestination, Steps, RegisterNames
<1>2. CASE GoesOn("sp") /\ UNCHANGED <<ignoreVars, uValueIndex>>
  BY <1>1, <1>2, NothingSetStep
<1>3. CASE Poison("register", exception.bytes) /\ GoesOn("sp")
  <2>1. exception.bytes \in {2, 3, 4, 6, 8}
    BY <1>1, SizeOfPointer DEF PInv, ExceptionInv, Steps
  <2>2. \E bytes \in {2, 3, 4, 6, 8} : Poison("register", bytes)
    BY <1>3, <2>1, Zenon
  <2> QED
    BY <1>1, <1>3, <2>2, SetRegisterStep
<1>4. CASE Refuse
  BY <1>1, <1>4, RefusePStep
<1>5. CASE AnswerIsOutOfRange(exception.bytes)
  BY <1>1, <1>5, RaisePStep
<1> QED
  BY <1>2, <1>3, <1>4, <1>5 DEF SetDestination

LEMMA SetStackPointerPStep == ASSUME PInv, SetStackPointer PROVE PInv'
<1>1. /\ pc \in Steps \ {"instruction", "ip"} /\ pc \in Steps /\ pc \notin {"instruction", "ip"}
      /\ "registers" \in Steps \ {"ip"} /\ "registers" \in Steps /\ "sp" \in RegisterNames /\ "sp" # "register"
  BY DEF SetStackPointer, Steps, RegisterNames
<1>2. CASE GoesOn("registers") /\ UNCHANGED <<ignoreVars, uValueIndex>>
  BY <1>1, <1>2, NothingSetStep
<1>3. CASE SetNewRegister("sp", -uPointerSize(exception.process)) /\ UNCHANGED uValueIndex /\ GoesOn("registers")
  <2>1. \E value \in Int : SetNewRegister("sp", value)
    BY <1>3, SizeOfPointer, Zenon
  <2> QED
    BY <1>1, <1>3, <2>1, SetRegisterStep
<1>4. CASE Refuse
  BY <1>1, <1>4, RefusePStep
<1> QED
  BY <1>2, <1>3, <1>4 DEF SetStackPointer

\* What is known of an exception when it is caught.
LEMMA ExceptionOfProcess ==
  ASSUME NEW p \in Processes, NEW e \in Exceptions(p), thread[p].register \in Nat
  PROVE  /\ e.process = p /\ e.bytes \in {2, 4, uPointerSize(p)}
         /\ e.offset # None /\ thread[p].ip = Code =>
              e.offset \in Int /\ e.address = thread[p].register + e.offset
<1>1. CASE thread[p].ip # Code
  BY <1>1 DEF Exceptions
<1>2. CASE thread[p].ip = Code
  <2> DEFINE ByRegister == {o \in Offsets : thread[p].register + o >= 0}
             Near == {[process |-> p, type |-> t, bytes |-> b, offset |-> o, address |-> thread[p].register + o] :
                        t \in {"R", "W"}, b \in {2, 4, uPointerSize(p)}, o \in ByRegister}
             Others == {[NoException EXCEPT !.process = p, !.type = t, !.bytes = uPointerSize(p)] : t \in {"R", "W", "E"}}
  <2>1. e \in Near \cup Others
    BY <1>2 DEF Exceptions
  <2>2. CASE e \in Near
    <3>1. PICK t \in {"R", "W"}, b \in {2, 4, uPointerSize(p)}, o \in ByRegister :
            e = [process |-> p, type |-> t, bytes |-> b, offset |-> o, address |-> thread[p].register + o]
      BY <2>2
    <3>2. o \in Int
      BY CollateralBugsAssumption DEF CollateralBugsAssumption
    <3> QED
      BY <3>1, <3>2
  <2>3. CASE e \in Others
    <3>1. PICK t \in {"R", "W", "E"} :
            e = [NoException EXCEPT !.process = p, !.type = t, !.bytes = uPointerSize(p)]
      BY <2>3
    <3>2. e.process = p /\ e.bytes = uPointerSize(p) /\ e.offset = None
      BY <3>1 DEF NoException
    <3> QED
      BY <3>2
  <2> QED
    BY <2>1, <2>2, <2>3
<1> QED
  BY <1>1, <1>2

LEMMA HandleExceptionPStep == ASSUME PInv, HandleException PROVE PInv'
<1> USE DEF arguments, handlerVars, ignoreVars
<1>1. /\ UNCHANGED <<u0MaximumNumberOfBugs, interactive, duPoisonedAddress, f0bIgnoreException, uBugCount>>
      /\ UNCHANGED <<uValueIndex, duNewRegister, reports, thread>>
      /\ pc = "running" /\ exceptions < MaxExceptions /\ exceptions' = exceptions + 1
  BY DEF HandleException
<1>2. \/ pc' = "analyzing" /\ \E p \in DOMAIN duPoisonedAddress : exception' \in Exceptions(p)
      \/ pc' = "running"
  BY <1>1 DEF HandleException
<1>3. exceptions' \in 0 .. MaxExceptions
  BY <1>1, CollateralBugsAssumption DEF CollateralBugsAssumption, PInv, TypeOK
<1>4. NewValuesInv' /\ InstructionPointerIsSet' /\ ThreadInv'
  BY <1>1, <1>2 DEF PInv, NewValuesInv, InstructionPointerIsSet, ThreadInv
<1>5. CASE pc' = "running"
  <2>1. ExceptionInv' /\ AddressInv'
    BY <1>5 DEF ExceptionInv, AddressInv
  <2>2. TypeOK'
    BY <1>1, <1>3, <1>5 DEF PInv, TypeOK
  <2> QED
    BY <1>4, <2>1, <2>2 DEF PInv
<1>6. CASE pc' = "analyzing" /\ \E p \in DOMAIN duPoisonedAddress : exception' \in Exceptions(p)
  <2>1. PICK p \in DOMAIN duPoisonedAddress : exception' \in Exceptions(p)
    BY <1>6
  <2>2. p \in Processes /\ thread[p].register \in Nat
    BY DEF PInv, TypeOK
  <2>3. /\ exception'.process = p /\ exception'.bytes \in {2, 4, uPointerSize(p)}
        /\ exception'.offset # None /\ thread[p].ip = Code =>
             exception'.offset \in Int /\ exception'.address = thread[p].register + exception'.offset
    BY <2>1, <2>2, ExceptionOfProcess
  <2>4. ExceptionInv' /\ AddressInv'
    <3>1. ExceptionInv'
      BY <1>1, <2>3 DEF ExceptionInv
    <3>2. AddressInv'
      BY <1>1, <2>3 DEF AddressInv
    <3> QED
      BY <3>1, <3>2
  <2>5. TypeOK'
    BY <1>1, <1>3, <1>6, <2>3 DEF PInv, TypeOK
  <2> QED
    BY <1>4, <2>4, <2>5 DEF PInv
<1> QED
  BY <1>2, <1>5, <1>6

\* The steps between an exception and ignoring it, and those that let it go.
LEMMA SameExceptionStep ==
  ASSUME PInv, pc \notin {"running", "failed"},
         pc' \in {"analyzed", "reported", "stopped", "failed", "instruction"},
         UNCHANGED <<u0MaximumNumberOfBugs, interactive, duPoisonedAddress, uValueIndex, duNewRegister>>,
         UNCHANGED <<exceptions, exception, thread>>,
         f0bIgnoreException' \in BOOLEAN, uBugCount' \in Nat, reports' \in Nat
  PROVE  PInv'
<1>1. NewValuesInv' /\ InstructionPointerIsSet' /\ ThreadInv'
  BY DEF PInv, NewValuesInv, InstructionPointerIsSet, ThreadInv
<1>2. ExceptionInv' /\ AddressInv'
  BY DEF PInv, ExceptionInv, AddressInv
<1>3. TypeOK'
  BY DEF PInv, TypeOK, ExceptionInv, Steps
<1> QED
  BY <1>1, <1>2, <1>3 DEF PInv

LEMMA AnalyzePStep == ASSUME PInv, AnalyzeException \/ fReport \/ fbTryToIgnoreException PROVE PInv'
<1> USE DEF arguments, handlerVars, ignoreVars, counters
<1>1. uBugCount \in Nat /\ reports \in Nat /\ f0bIgnoreException \in BOOLEAN
  BY DEF PInv, TypeOK
<1>2. CASE AnalyzeException
  <2>1. /\ pc = "analyzing" /\ pc' \in {"analyzed", "failed"}
        /\ f0bIgnoreException' = TRUE \/ f0bIgnoreException' = f0bIgnoreException
    BY <1>2 DEF AnalyzeException, fSetIgnoreExceptionFunction
  <2>2. /\ UNCHANGED <<u0MaximumNumberOfBugs, interactive, duPoisonedAddress, uValueIndex, duNewRegister>>
        /\ UNCHANGED <<exceptions, exception, thread, uBugCount, reports>>
    BY <1>2 DEF AnalyzeException
  <2>3. f0bIgnoreException' \in BOOLEAN
    BY <1>1, <2>1
  <2> QED
    BY <1>1, <2>1, <2>2, <2>3, SameExceptionStep
<1>3. CASE fReport
  BY <1>1, <1>3, SameExceptionStep DEF fReport
<1>4. CASE fbTryToIgnoreException
  <2>1. /\ pc = "reported" /\ pc' \in {"stopped", "instruction"} /\ uBugCount' = uBugCount + 1
        /\ f0bIgnoreException' = FALSE \/ f0bIgnoreException' = f0bIgnoreException
    BY <1>4 DEF fbTryToIgnoreException, CannotBeIgnored
  <2>2. /\ UNCHANGED <<u0MaximumNumberOfBugs, interactive, duPoisonedAddress, uValueIndex, duNewRegister>>
        /\ UNCHANGED <<exceptions, exception, thread, reports>>
    BY <1>4 DEF fbTryToIgnoreException, CannotBeIgnored
  <2>3. f0bIgnoreException' \in BOOLEAN
    BY <1>1, <2>1
  <2>4. uBugCount' \in Nat
    BY <1>1, <2>1
  <2> QED
    BY <1>1, <2>1, <2>2, <2>3, <2>4, SameExceptionStep
<1> QED
  BY <1>2, <1>3, <1>4

LEMMA NotABugPStep == ASSUME PInv, NotABug PROVE PInv'
<1> USE DEF arguments, ignoreVars, counters
<1>1. /\ pc' = "running" /\ f0bIgnoreException' = FALSE
      /\ UNCHANGED <<u0MaximumNumberOfBugs, interactive, duPoisonedAddress, uValueIndex, duNewRegister>>
      /\ UNCHANGED <<exceptions, thread, uBugCount, reports>>
  BY DEF NotABug, fDiscardIgnoreExceptionFunction
<1>2. NewValuesInv' /\ InstructionPointerIsSet' /\ ThreadInv'
  BY <1>1 DEF PInv, NewValuesInv, InstructionPointerIsSet, ThreadInv
<1>3. ExceptionInv' /\ AddressInv'
  BY <1>1 DEF ExceptionInv, AddressInv
<1>4. TypeOK'
  BY <1>1 DEF PInv, TypeOK
<1> QED
  BY <1>2, <1>3, <1>4 DEF PInv

\* The types of the threads and of what is in their registers, when one of them changes.
LEMMA ThreadChanges ==
  ASSUME PInv, NEW p \in Processes, NEW t \in [ip : Int, register : Nat, poison : {0, 2, 4, 8}],
         thread' = [thread EXCEPT ![p] = t],
         t.poison # 0 => t.poison \in {2, 4, uPointerSize(p)} /\ t.register = duPoisonValue(p) % Limit(t.poison)
  PROVE  thread' \in [Processes -> [ip : Int, register : Nat, poison : {0, 2, 4, 8}]] /\ ThreadInv'
<1> DEFINE Threads == [ip : Int, register : Nat, poison : {0, 2, 4, 8}]
<1>1. thread \in [Processes -> Threads]
  BY DEF PInv, TypeOK
<1>2. thread' \in [Processes -> Threads] /\ \A q \in Processes : thread'[q] = IF q = p THEN t ELSE thread[q]
  BY <1>1
<1>3. ThreadInv'
  <2> SUFFICES ASSUME NEW q \in Processes, thread'[q].poison # 0
               PROVE  /\ thread'[q].poison \in {2, 4, uPointerSize(q)}
                      /\ thread'[q].register = duPoisonValue(q) % Limit(thread'[q].poison)
    BY DEF ThreadInv
  <2>1. CASE q = p
    BY <1>2, <2>1
  <2>2. CASE q # p
    BY <1>2, <2>2 DEF PInv, ThreadInv
  <2> QED
    BY <2>1, <2>2
<1> QED
  BY <1>2, <1>3

LEMMA ProcessPStep ==
  ASSUME PInv, NEW p \in Processes, fHandleNewProcess(p) \/ fHandleProcessTerminated(p)
  PROVE  PInv'
<1> USE DEF arguments, ignoreVars, counters
<1>1. /\ pc = "running" /\ UNCHANGED <<u0MaximumNumberOfBugs, interactive, f0bIgnoreException, uBugCount, uValueIndex>>
      /\ UNCHANGED <<duNewRegister, pc, exceptions, reports>>
  BY DEF fHandleNewProcess, fHandleProcessTerminated
<1>2. NewValuesInv' /\ InstructionPointerIsSet' /\ ExceptionInv' /\ AddressInv'
  BY <1>1 DEF PInv, NewValuesInv, InstructionPointerIsSet, ExceptionInv, AddressInv
<1>3. /\ DOMAIN duPoisonedAddress' \subseteq Processes
      /\ \A q \in DOMAIN duPoisonedAddress' : duPoisonedAddress'[q] = duPoisonValue(q)
  <2>1. /\ DOMAIN duPoisonedAddress \subseteq Processes
        /\ \A q \in DOMAIN duPoisonedAddress : duPoisonedAddress[q] = duPoisonValue(q)
    BY DEF PInv, TypeOK
  <2>2. CASE fHandleNewProcess(p)
    BY <2>1, <2>2 DEF fHandleNewProcess
  <2>3. CASE fHandleProcessTerminated(p)
    BY <2>1, <2>3 DEF fHandleProcessTerminated
  <2> QED
    BY <2>2, <2>3
<1>4. thread' \in [Processes -> [ip : Int, register : Nat, poison : {0, 2, 4, 8}]] /\ ThreadInv'
  <2>1. CASE fHandleNewProcess(p)
    <3>1. OwnThread \in [ip : Int, register : Nat, poison : {0, 2, 4, 8}] /\ OwnThread.poison = 0
      BY DEF OwnThread, Code
    <3>2. thread' = [thread EXCEPT ![p] = OwnThread]
      BY <2>1 DEF fHandleNewProcess
    <3> QED
      BY <3>1, <3>2, ThreadChanges
  <2>2. CASE fHandleProcessTerminated(p)
    BY <2>2 DEF fHandleProcessTerminated, PInv, TypeOK, ThreadInv
  <2> QED
    BY <2>1, <2>2
<1>5. TypeOK'
  BY <1>1, <1>3, <1>4 DEF PInv, TypeOK
<1> QED
  BY <1>2, <1>4, <1>5 DEF PInv

\* The poison that is recognized in a register is the part of the address that was read.
LEMMA PoisonInIsPart ==
  ASSUME NEW p, NEW bytes \in {2, 4, uPointerSize(p)}, NEW value
  PROVE  /\ PoisonIn(value, p, bytes) \in {0, 2, 4, 8}
         /\ PoisonIn(value, p, bytes) # 0 =>
              /\ PoisonIn(value, p, bytes) \in {2, 4, uPointerSize(p)}
              /\ value = duPoisonValue(p) % Limit(PoisonIn(value, p, bytes))
<1>1. bytes \in {2, 4, 8}
  BY SizesOfAccess
<1> QED
  BY <1>1 DEF PoisonIn

LEMMA SetRegistersPStep == ASSUME PInv, SetRegisters PROVE PInv'
<1>1. CASE Refuse
  <2>1. pc \in Steps
    BY DEF SetRegisters, Steps
  <2> QED
    BY <1>1, <2>1, RefusePStep
<1>2. CASE ~Refuse
  <2> USE DEF arguments, handlerVars, counters
  <2> DEFINE p == exception.process
             read == "register" \in DOMAIN duNewRegister
             t == [ ip |-> duNewRegister["ip"],
                    register |-> IF read THEN duNewRegister["register"] ELSE thread[p].register,
                    poison |-> IF read THEN PoisonIn(duNewRegister["register"], p, exception.bytes) ELSE thread[p].poison ]
  <2>1. /\ thread' = [thread EXCEPT ![p] = t] /\ pc' = "running" /\ duNewRegister' = <<>>
        /\ UNCHANGED <<u0MaximumNumberOfBugs, interactive, duPoisonedAddress, f0bIgnoreException, uBugCount>>
        /\ UNCHANGED <<uValueIndex, reports, exceptions>>
    BY <1>2 DEF SetRegisters
  <2>2. p \in Processes /\ exception.bytes \in {2, 4, uPointerSize(p)}
    BY DEF SetRegisters, PInv, TypeOK, ExceptionInv
  <2>3. duNewRegister["ip"] \in Int /\ (read => duNewRegister["register"] \in Nat)
    BY DEF SetRegisters, PInv, InstructionPointerIsSet, NewValuesInv
  <2>4. thread[p] \in [ip : Int, register : Nat, poison : {0, 2, 4, 8}]
    BY <2>2 DEF PInv, TypeOK
  <2>5. /\ t.ip \in Int /\ t.register \in Nat /\ t.poison \in {0, 2, 4, 8}
        /\ t.poison # 0 => t.poison \in {2, 4, uPointerSize(p)} /\ t.register = duPoisonValue(p) % Limit(t.poison)
    <3>1. CASE read
      BY <2>2, <2>3, <3>1, PoisonInIsPart
    <3>2. CASE ~read
      BY <2>2, <2>3, <2>4, <3>2 DEF PInv, ThreadInv
    <3> QED
      BY <3>1, <3>2
  <2>6. t \in [ip : Int, register : Nat, poison : {0, 2, 4, 8}]
    BY <2>5
  <2>7. thread' \in [Processes -> [ip : Int, register : Nat, poison : {0, 2, 4, 8}]] /\ ThreadInv'
    <3> HIDE DEF t, p
    <3> QED
      BY <2>1, <2>2, <2>5, <2>6, ThreadChanges
  <2>8. NewValuesInv' /\ InstructionPointerIsSet' /\ ExceptionInv' /\ AddressInv'
    <3>1. DOMAIN duNewRegister' = {}
      BY <2>1
    <3> QED
      BY <2>1, <3>1 DEF NewValuesInv, InstructionPointerIsSet, ExceptionInv, AddressInv
  <2>9. TypeOK'
    <3> HIDE DEF t, p
    <3> QED
      BY <2>1, <2>7, <2>8 DEF PInv, TypeOK, NewValuesInv
  <2> QED
    BY <2>7, <2>8, <2>9 DEF PInv
<1> QED
  BY <1>1, <1>2

LEMMA NextPInv == PInv /\ [Next]_vars => PInv'
<1> SUFFICES ASSUME PInv, [Next]_vars PROVE PInv'
  OBVIOUS
<1>1. CASE UNCHANGED vars
  <2>1. /\ UNCHANGED <<u0MaximumNumberOfBugs, interactive, duPoisonedAddress, f0bIgnoreException, uBugCount>>
        /\ UNCHANGED <<uValueIndex, duNewRegister, reports, exceptions, pc, exception, thread>>
    BY <1>1 DEF vars, arguments, handlerVars, ignoreVars, counters
  <2>2. TypeOK' /\ ExceptionInv' /\ NewValuesInv'
    BY <2>1 DEF PInv, TypeOK, ExceptionInv, NewValuesInv
  <2>3. InstructionPointerIsSet' /\ ThreadInv' /\ AddressInv'
    BY <2>1 DEF PInv, InstructionPointerIsSet, ThreadInv, AddressInv
  <2> QED
    BY <2>2, <2>3 DEF PInv
<1> QED
  BY <1>1, ProcessPStep, HandleExceptionPStep, AnalyzePStep, NotABugPStep, CheckInstructionPStep,
     SetInstructionPointerPStep, PoisonFlagsPStep, SetDestinationPStep, SetStackPointerPStep, SetRegistersPStep
     DEF Next

\* PInv holds in every state.
LEMMA SpecPInv == Spec => []PInv
  BY InitPInv, NextPInv, PTL DEF Spec

\* The state of the handler is well formed: an exception is always of a process that runs, so that
\* its poisoned address is known, and only registers that exist are set, the general purpose ones to
\* values that fit.
THEOREM SpecTypeOK == Spec => []TypeOK
<1>1. PInv => TypeOK
  BY DEF PInv
<1> QED
  BY <1>1, SpecPInv, PTL

\* The poisoned addresses of which different parts are left.
LEMMA PartsOfPoison ==
  /\ 85 % Limit(4) = 85 /\ 21845 % Limit(4) = 85 /\ 21845 % Limit(6) = 1365 /\ 21845 % Limit(8) = 21845
  /\ 85 + 2 * uPageSize <= 1365 /\ 85 + 2 * uPageSize <= 21845 /\ 1365 + 2 * uPageSize <= 21845
<1>1. 85 % Limit(4) = 85 /\ 21845 % Limit(4) = 85 /\ 21845 % Limit(6) = 1365 /\ 21845 % Limit(8) = 21845
  BY Limits
<1>2. uPageSize \in Int
  BY CollateralBugsAssumption DEF CollateralBugsAssumption
<1> QED
  BY <1>1, <1>2, PagesAreApart

\* An address at an offset within a page from a part of the poisoned address is near that part only.
LEMMA OffsetIsFound ==
  ASSUME NEW p \in DOMAIN duPoisonedAddress, duPoisonedAddress[p] = duPoisonValue(p),
         NEW part \in {4, uPointerSize(p)}, NEW o \in 1 - uPageSize .. uPageSize - 1, NEW address,
         address = (duPoisonValue(p) % Limit(part)) + o
  PROVE  fi0GetOffsetForPoisonedAddress(p, address) = o
<1> DEFINE iOffset(bytes) == address - (duPoisonedAddress[p] % Limit(bytes))
           Near == {bytes \in {4, 6, 8} : bytes <= uPointerSize(p) /\ iOffset(bytes) \in 1 - uPageSize .. uPageSize - 1}
           nearest == CHOOSE bytes \in Near : \A other \in Near : other <= bytes
<1>1. uPageSize \in Nat /\ o \in Int
  BY CollateralBugsAssumption DEF CollateralBugsAssumption
<1>2. CASE p \in x86Processes
  <2>1. uPointerSize(p) = 4 /\ duPoisonedAddress[p] = 85 /\ part = 4
    BY <1>2 DEF uPointerSize, duPoisonValue
  <2>2. iOffset(4) = o
    BY <1>1, <2>1, PartsOfPoison
  <2>3. Near = {4}
    BY <2>1, <2>2
  <2> QED
    BY <2>2, <2>3 DEF fi0GetOffsetForPoisonedAddress
<1>3. CASE p \notin x86Processes
  <2>1. uPointerSize(p) = 8 /\ duPoisonedAddress[p] = 21845
    BY <1>3 DEF uPointerSize, duPoisonValue
  <2>2. iOffset(4) = address - 85 /\ iOffset(6) = address - 1365 /\ iOffset(8) = address - 21845
    BY <2>1, PartsOfPoison
  <2>3. CASE part = 4
    <3>1. address = 85 + o
      BY <2>1, <2>3, PartsOfPoison
    <3>2. iOffset(4) = o /\ iOffset(6) = o - 1280 /\ iOffset(8) = o - 21760
      BY <1>1, <2>2, <3>1
    <3>3. iOffset(6) < 1 - uPageSize /\ iOffset(8) < 1 - uPageSize
      BY <1>1, <3>2, PartsOfPoison
    <3>4. 4 \in Near /\ 6 \notin Near /\ 8 \notin Near
      BY <1>1, <2>1, <3>2, <3>3
    <3>5. Near = {4}
      BY <3>4
    <3> QED
      BY <3>2, <3>5 DEF fi0GetOffsetForPoisonedAddress
  <2>4. CASE part = 8
    <3>1. iOffset(8) = o
      BY <1>1, <2>1, <2>2, <2>4, PartsOfPoison
    <3>2. 8 \in Near /\ \A other \in Near : other <= 8
      BY <2>1, <3>1
    <3>3. nearest \in Near /\ \A other \in Near : other <= nearest
      BY <3>2
    <3>4. nearest = 8
      <4>1. nearest \in {4, 6, 8}
        BY <3>3, Zenon
      <4>2. nearest <= 8 /\ 8 <= nearest
        BY <3>2, <3>3, Zenon
      <4> HIDE DEF nearest
      <4> QED
        BY <4>1, <4>2
    <3>5. fi0GetOffsetForPoisonedAddress(p, address) = iOffset(nearest)
      <4>1. Near # {}
        BY <3>2
      <4> QED
        BY <4>1 DEF fi0GetOffsetForPoisonedAddress
    <3> QED
      BY <3>1, <3>4, <3>5, Zenon
  <2> QED
    BY <2>1, <2>3, <2>4
<1> QED
  BY <1>2, <1>3

\* An access near a pointer that was made up is recognized with the offset that the application
\* used, also when only the lower half of the pointer was read: cBugReport then blames the pointer,
\* not the address it points to.
THEOREM SpecPoisonIsRecognized == Spec => []PoisonIsRecognized
<1>1. PInv => PoisonIsRecognized
  <2> DEFINE p == exception.process
             t == thread[p]
  <2> SUFFICES ASSUME PInv, pc = "analyzing", exception.offset # None,
                      exception.offset \in 1 - uPageSize .. uPageSize - 1, t.ip = Code, t.poison >= 4
               PROVE  i0Offset = exception.offset
    BY DEF PoisonIsRecognized
  <2>1. p \in DOMAIN duPoisonedAddress /\ p \in Processes /\ duPoisonedAddress[p] = duPoisonValue(p)
    BY DEF PInv, ExceptionInv, TypeOK
  <2>2. t.poison \in {2, 4, uPointerSize(p)} /\ t.register = duPoisonValue(p) % Limit(t.poison) /\ t.register \in Nat
    BY <2>1 DEF PInv, ThreadInv, TypeOK
  <2>3. t.poison \in {4, uPointerSize(p)}
    BY <2>2
  <2>4. exception.offset \in Int /\ exception.address = t.register + exception.offset
    BY DEF PInv, AddressInv
  <2>5. exception.address # None
    BY <2>2, <2>4, CollateralBugsAssumption DEF CollateralBugsAssumption
  <2>6. exception.address = (duPoisonValue(p) % Limit(t.poison)) + exception.offset
    BY <2>2, <2>4
  <2>7. fi0GetOffsetForPoisonedAddress(p, exception.address) = exception.offset
    <3> HIDE DEF p, t
    <3> QED
      BY <2>1, <2>3, <2>6, OffsetIsFound
  <2> QED
    BY <2>5, <2>7 DEF i0Offset
<1> QED
  BY <1>1, SpecPInv, PTL
===============================================================================
