------------------------- MODULE CdbInterruptProofs -------------------------
(***************************************************************************)
(* Proofs, for any number of API threads, timeouts and thread ids, of the  *)
(* safety of the interrupt protocol of module CdbInterrupt.                *)
(*                                                                         *)
(* The argument: fInterruptApplicationExecution runs under one lock, so at *)
(* most one thread is between the guard and the assignment.  Behind the    *)
(* guard both recorded ids are None, and every thread that has yet to      *)
(* fault in the utility process is the one just created, the recorded one  *)
(* or the previous one - of which at most one exists.                      *)
(***************************************************************************)
EXTENDS CdbInterrupt, TLAPS

LockedPcs == {"guard", "assert", "create", "record"}
ClearedPcs == {"assert", "create", "record"}

\* The lock is held exactly by the thread that runs the body of the function.
LockInv == \A t \in Callers : pc[t] \in LockedPcs <=> oLock = t

\* At most one of the three places that can hold a thread id does.
IdInv ==
  /\ u0UtilityInterruptThreadId # NULL
       => u0PreviousUtilityInterruptThreadId = NULL /\ uNewThreadId = NULL
  /\ u0PreviousUtilityInterruptThreadId # NULL => uNewThreadId = NULL
  /\ \A t \in Callers :
       pc[t] \in ClearedPcs
         => u0UtilityInterruptThreadId = NULL /\ u0PreviousUtilityInterruptThreadId = NULL
  /\ uNewThreadId # NULL => \E t \in Callers : pc[t] = "record"

\* A thread that is still to fault is in one of them.
FaultInv ==
  \A tid \in ThreadIds :
    utility[tid] = "faulting"
      => tid \in {u0UtilityInterruptThreadId, u0PreviousUtilityInterruptThreadId, uNewThreadId}

\* An API thread interrupts the application only for fStop.
UserInv == \A u \in Users : pc[u] # "idle" => bStopping

\* An access violation in the utility process that is still to be handled.
AwaitedPcs == {"mark", "startTimer", "read", "unmark", "join", "event"}
Pending == mainPc \in AwaitedPcs /\ lastEvent.kind = "accessViolation"

RunInv == cdb = "running" => mainPc \in {"mark", "startTimer", "read"}

\* As long as there is a previous interrupt thread, it is the one cdb reports.
PendingInv ==
  Pending /\ u0PreviousUtilityInterruptThreadId # NULL
    => lastEvent.thread = u0PreviousUtilityInterruptThreadId

\* On x64 no thread is ever frozen.
X64Inv ==
  sCdbISA = "x64"
    => /\ u0PreviousUtilityInterruptThreadId = NULL
       /\ \A tid \in ThreadIds : utility[tid] # "suspended"
       /\ Pending => utility[lastEvent.thread] = "reported"

\* Unless the session is stopping, threads in the utility process are known and known threads
\* have their fault to come or reported.
ReportedInv ==
  \A tid \in ThreadIds :
    utility[tid] = "reported" /\ ~bStopping
      => tid \in {u0UtilityInterruptThreadId, u0PreviousUtilityInterruptThreadId, uNewThreadId}

ComingInv ==
  \A tid \in {u0UtilityInterruptThreadId, uNewThreadId} \ {NULL} :
    utility[tid] \in {"faulting", "reported"} \/ bStopping

\* A frozen thread that is not remembered implies that the application is not resumed.
FrozenInv ==
  \A tid \in ThreadIds :
    utility[tid] = "suspended"
      => \/ tid = u0PreviousUtilityInterruptThreadId
         \/ bStopping /\ mainPc \in {"timeouts", "resume", "quit", "done"}

InterruptInv == TypeOK /\ LockInv /\ IdInv /\ FaultInv /\ PendingInv

SessionInv ==
  /\ InterruptInv /\ UserInv /\ RunInv /\ X64Inv /\ ReportedInv /\ ComingInv /\ FrozenInv
  /\ TimerOnlyWhileRunning /\ InterruptHandledUnlessStopping

-----------------------------------------------------------------------------
(* Type correctness                                                        *)

PcOK(f) ==
  /\ f \in [Callers -> TimerPcs \cup UserPcs]
  /\ f[Timer] \in TimerPcs
  /\ \A u \in Users : f[u] \in UserPcs

\* A caller of fInterruptApplicationExecution moves on inside it, or leaves it.
LEMMA PcMoves ==
  ASSUME PcOK(pc), NEW t \in Callers, NEW p \in InterruptPcs \cup {Leaves(t)}
  PROVE  PcOK([pc EXCEPT ![t] = p])
BY ConstantsAssumption DEF PcOK, Leaves, Callers, InterruptPcs, TimerPcs, UserPcs

\* The helper thread moves on.
LEMMA TimerPcMoves ==
  ASSUME PcOK(pc), NEW p \in TimerPcs
  PROVE  PcOK([pc EXCEPT ![Timer] = p])
BY ConstantsAssumption DEF PcOK, Callers, InterruptPcs, TimerPcs, UserPcs

\* An API thread moves on.
LEMMA UserPcMoves ==
  ASSUME PcOK(pc), NEW u \in Users, NEW p \in UserPcs
  PROVE  PcOK([pc EXCEPT ![u] = p])
BY ConstantsAssumption DEF PcOK, Callers, InterruptPcs, TimerPcs, UserPcs

\* An assertion that fails in fInterruptApplicationExecution keeps the types.
LEMMA RaiseTyped ==
  ASSUME TypeOK, NEW t \in Callers, Raise(t)
  PROVE  /\ PcOK(pc')
         /\ oLock' \in Callers \cup {NULL}
         /\ cdb' \in {"prompt", "running", "gone"}
         /\ bCdbWasTerminatedOnPurpose' \in BOOLEAN
BY PcMoves DEF TypeOK, PcOK, Raise

\* Terminating threads in the utility process keeps the types.
LEMMA TerminatedTyped ==
  ASSUME TypeOK, NEW tids
  PROVE  Terminated(tids) \in [ThreadIds -> {"none", "faulting", "reported", "suspended"}]
BY DEF TypeOK, Terminated

\* One step of fInterruptApplicationExecution keeps the types.
LEMMA InterruptTyped ==
  ASSUME TypeOK, NEW t \in Callers, fInterruptApplicationExecution(t)
  PROVE  TypeOK'
<1> USE DEF TypeOK, flagVars, idVars, cdbVars
<1>0. PcOK(pc)
  BY DEF PcOK
<1> SUFFICES PcOK(pc') /\ (PcOK(pc') => TypeOK')
  OBVIOUS
<1>1. CASE AcquireLock(t)
  <2>1. PcOK(pc')
    BY <1>0, <1>1, PcMoves DEF AcquireLock, InterruptPcs
  <2> QED
    BY <1>1, <2>1 DEF AcquireLock, PcOK
<1>2. CASE TerminatePrevious(t)
  <2>1. CASE Raise(t) /\ UNCHANGED <<u0PreviousUtilityInterruptThreadId, utility>>
    BY <1>2, <2>1, RaiseTyped DEF TerminatePrevious, PcOK
  <2>2. CASE /\ utility' = Terminated({u0PreviousUtilityInterruptThreadId})
             /\ u0PreviousUtilityInterruptThreadId' = NULL
             /\ pc' = [pc EXCEPT ![t] = "assert"]
             /\ UNCHANGED <<oLock, cdb, bCdbWasTerminatedOnPurpose>>
    <3>1. PcOK(pc')
      BY <1>0, <2>2, PcMoves DEF InterruptPcs
    <3>2. utility' \in [ThreadIds -> {"none", "faulting", "reported", "suspended"}]
      BY <2>2, TerminatedTyped
    <3> QED
      BY <1>2, <2>2, <3>1, <3>2 DEF TerminatePrevious, PcOK
  <2> QED
    BY <1>2, <2>1, <2>2 DEF TerminatePrevious
<1>3. CASE AssertRunning(t)
  <2>1. CASE Raise(t)
    BY <1>3, <2>1, RaiseTyped DEF AssertRunning, PcOK
  <2>2. CASE pc' = [pc EXCEPT ![t] = "create"] /\ UNCHANGED <<oLock, cdb, bCdbWasTerminatedOnPurpose>>
    <3>1. PcOK(pc')
      BY <1>0, <2>2, PcMoves DEF InterruptPcs
    <3> QED
      BY <1>3, <2>2, <3>1 DEF AssertRunning, PcOK
  <2> QED
    BY <1>3, <2>1, <2>2 DEF AssertRunning
<1>4. CASE CreateThread(t)
  <2>1. CASE Raise(t) /\ UNCHANGED <<utility, uNewThreadId>>
    BY <1>4, <2>1, RaiseTyped DEF CreateThread, PcOK
  <2>2. CASE /\ \E tid \in FreeThreadIds :
                  /\ utility' = [utility EXCEPT ![tid] = "faulting"]
                  /\ uNewThreadId' = tid
             /\ pc' = [pc EXCEPT ![t] = "record"]
             /\ UNCHANGED <<oLock, cdb, bCdbWasTerminatedOnPurpose>>
    <3>1. PcOK(pc')
      BY <1>0, <2>2, PcMoves DEF InterruptPcs
    <3>2. /\ utility' \in [ThreadIds -> {"none", "faulting", "reported", "suspended"}]
          /\ uNewThreadId' \in ThreadIds
      BY <2>2 DEF FreeThreadIds
    <3> QED
      BY <1>4, <2>2, <3>1, <3>2 DEF CreateThread, PcOK
  <2> QED
    BY <1>4, <2>1, <2>2 DEF CreateThread
<1>5. CASE RecordThread(t)
  <2>1. PcOK(pc')
    BY <1>0, <1>5, PcMoves DEF RecordThread
  <2> QED
    BY <1>5, <2>1 DEF RecordThread, PcOK
<1> QED
  BY <1>1, <1>2, <1>3, <1>4, <1>5 DEF fInterruptApplicationExecution

\* So does one step of the cdb stdin/out thread.
LEMMA MainTyped ==
  ASSUME TypeOK, fCdbStdInOutHelperThread
  PROVE  TypeOK'
<1> USE DEF TypeOK, MainPcs, flagVars, idVars, cdbVars
<1>1. CASE ftbHandleLastCdbEvent
  <2>1. CASE HandleApplicationEvent
    BY <1>1, <2>1 DEF ftbHandleLastCdbEvent, HandleApplicationEvent, StopHere, GoOn
  <2>2. CASE HandleUtilityBreakpoint
    BY <1>1, <2>2 DEF ftbHandleLastCdbEvent, HandleUtilityBreakpoint, StopHere, GoOn
  <2>3. CASE IgnoreEcho
    <3>1. utility' \in [ThreadIds -> {"none", "faulting", "reported", "suspended"}]
      BY <2>3 DEF IgnoreEcho, Become
    <3> QED
      BY <1>1, <2>3, <3>1 DEF ftbHandleLastCdbEvent, IgnoreEcho, GoOn
  <2>4. CASE HandleInterrupt
    <3>1. utility' \in [ThreadIds -> {"none", "faulting", "reported", "suspended"}]
      BY <2>4, TerminatedTyped DEF HandleInterrupt, Become
    <3> QED
      BY <1>1, <2>4, <3>1 DEF ftbHandleLastCdbEvent, HandleInterrupt, GoOn
  <2> QED
    BY <1>1, <2>1, <2>2, <2>3, <2>4 DEF ftbHandleLastCdbEvent
<1>2. CASE fRunTimeoutCallbacks
  <2>1. aoTimeouts' \in [Timeouts -> {"none", "set", "due"}]
    BY <1>2 DEF fRunTimeoutCallbacks, Due
  <2> QED
    BY <1>2, <2>1 DEF fRunTimeoutCallbacks, StopHere, GoOn
<1>3. CASE CheckStopping
  BY <1>3 DEF CheckStopping, MainMoves
<1>4. CASE Resume
  BY <1>4 DEF Resume, MainMoves, Events
<1>5. CASE MarkRunning
  BY <1>5 DEF MarkRunning, MainMoves
<1>6. CASE StartTimer
  <2>1. PcOK(pc')
    BY <1>6, TimerPcMoves DEF StartTimer, PcOK, TimerPcs
  <2> QED
    BY <1>6, <2>1 DEF StartTimer, MainMoves, PcOK
<1>7. CASE ReadPrompt
  BY <1>7 DEF ReadPrompt, MainMoves
<1>8. CASE MarkPaused
  BY <1>8 DEF MarkPaused, MainMoves
<1>9. CASE JoinTimer
  BY <1>9 DEF JoinTimer, MainMoves
<1>10. CASE CommandFails
  BY <1>10 DEF CommandFails, MainMoves
<1>11. CASE Quit
  BY <1>11 DEF Quit, MainMoves
<1> QED
  BY <1>1, <1>2, <1>3, <1>4, <1>5, <1>6, <1>7, <1>8, <1>9, <1>10, <1>11
     DEF fCdbStdInOutHelperThread

\* Every step of every thread and of cdb keeps the types.
LEMMA TypeInductive == TypeOK /\ [Next]_vars => TypeOK'
<1> SUFFICES ASSUME TypeOK, [Next]_vars PROVE TypeOK'
  OBVIOUS
<1> USE DEF TypeOK, threadVars, flagVars, idVars, cdbVars
<1>0. PcOK(pc)
  BY DEF PcOK
<1>1. CASE fCdbStdInOutHelperThread
  BY <1>1, MainTyped
<1>2. CASE Poll \/ Sleep \/ Scan
  <2>1. PcOK(pc')
    BY <1>0, <1>2, TimerPcMoves DEF Poll, Sleep, Scan, TimerMoves, TimerPcs, InterruptPcs
  <2>2. UNCHANGED <<sCdbISA, mainPc, oLock, uNewThreadId, flagVars, idVars, aoTimeouts, cdbVars,
                    utility>>
    BY <1>2 DEF Poll, Sleep, Scan, TimerMoves
  <2> QED
    BY <2>1, <2>2 DEF PcOK
<1>3. ASSUME NEW t \in Callers, fInterruptApplicationExecution(t) PROVE TypeOK'
  BY <1>3, InterruptTyped
<1>4. ASSUME NEW u \in Users, StopRequest(u) \/ StopInterrupt(u) PROVE TypeOK'
  <2>1. CASE StopRequest(u)
    <3>1. PcOK(pc')
      BY <1>0, <2>1, UserPcMoves DEF StopRequest, UserPcs
    <3> QED
      BY <2>1, <3>1 DEF StopRequest, PcOK
  <2>2. CASE StopInterrupt(u)
    <3>1. (IF bApplicationIsRunning THEN "lock" ELSE "idle") \in UserPcs
      BY DEF UserPcs, InterruptPcs
    <3>2. PcOK(pc')
      BY <1>0, <2>2, <3>1, UserPcMoves DEF StopInterrupt
    <3> QED
      BY <2>2, <3>2 DEF StopInterrupt, PcOK
  <2> QED
    BY <1>4, <2>1, <2>2
<1>5. ASSUME NEW u \in Users, foSetTimeout(u) \/ fClearTimeout(u) PROVE TypeOK'
  BY <1>5 DEF foSetTimeout, fClearTimeout
<1>6. ASSUME NEW event \in Events, Report(event), UNCHANGED utility PROVE TypeOK'
  BY <1>6 DEF Report
<1>7. ASSUME NEW tid \in ThreadIds, Report(AccessViolation(tid)),
             utility' = [utility EXCEPT ![tid] = "reported"]
      PROVE  TypeOK'
  BY <1>7 DEF Report, Events
<1>8. ASSUME NEW o \in Timeouts, TimePasses(o) PROVE TypeOK'
  BY <1>8 DEF TimePasses
<1>9. CASE Environment
  BY <1>6, <1>7, <1>8, <1>9 DEF Environment, ReportApplicationEvent, ReportCtrlBreak,
     ReportInterruptThread, ReportEcho, Events
<1>10. CASE UNCHANGED vars
  BY <1>10 DEF vars
<1> QED
  BY <1>1, <1>2, <1>3, <1>4, <1>5, <1>9, <1>10
     DEF Next, fCdbInterruptOnTimeoutHelperThread, User, UserInterrupt, Callers

\* The types are right when debugging starts.
LEMMA TypeInitial == Init => TypeOK
BY ConstantsAssumption DEF Init, TypeOK, MainPcs, TimerPcs, UserPcs, InterruptPcs, Callers, Events

\* Every variable keeps its type.
THEOREM TypeCorrect == Spec => []TypeOK
BY TypeInitial, TypeInductive, PTL DEF Spec

-----------------------------------------------------------------------------
(* The helper thread runs only while the application does                  *)

\* No step lets the helper thread run while the cdb stdin/out thread uses cdb.
LEMMA HelperInductive == TypeOK /\ TimerOnlyWhileRunning /\ [Next]_vars => TimerOnlyWhileRunning'
<1> USE DEF TimerOnlyWhileRunning, flagVars, idVars, cdbVars
<1> SUFFICES ASSUME TypeOK, TimerOnlyWhileRunning, [Next]_vars PROVE TimerOnlyWhileRunning'
  OBVIOUS
<1>1. CASE fCdbStdInOutHelperThread
  <2>1. CASE mainPc = "join"
    BY <1>1, <2>1 DEF fCdbStdInOutHelperThread, ftbHandleLastCdbEvent, fRunTimeoutCallbacks,
       CheckStopping, Resume, MarkRunning, StartTimer, ReadPrompt, MarkPaused, JoinTimer,
       CommandFails, Quit, MainMoves
  <2>2. CASE ftbHandleLastCdbEvent
    BY <2>2 DEF ftbHandleLastCdbEvent
  <2>3. CASE fRunTimeoutCallbacks
    BY <2>3 DEF fRunTimeoutCallbacks
  <2>4. CASE CheckStopping \/ Resume \/ MarkRunning
    BY <2>4 DEF CheckStopping, Resume, MarkRunning, MainMoves
  <2>5. CASE StartTimer \/ ReadPrompt \/ MarkPaused \/ CommandFails \/ Quit
    BY <2>5 DEF StartTimer, ReadPrompt, MarkPaused, CommandFails, Quit, MainMoves
  <2> QED
    BY <1>1, <2>1, <2>2, <2>3, <2>4, <2>5 DEF fCdbStdInOutHelperThread, JoinTimer, MainMoves
<1>2. ASSUME NEW t \in Callers, fInterruptApplicationExecution(t) PROVE TimerOnlyWhileRunning'
  <2>1. mainPc' = mainPc
    BY <1>2 DEF fInterruptApplicationExecution, AcquireLock, TerminatePrevious, AssertRunning,
       CreateThread, RecordThread
  <2>2. pc[Timer] = "off" => pc'[Timer] = "off"
    BY <1>2 DEF TypeOK, fInterruptApplicationExecution, AcquireLock, TerminatePrevious,
       AssertRunning, CreateThread, RecordThread, Raise, Leaves, Callers
  <2> QED
    BY <2>1, <2>2
<1>3. CASE Poll \/ Sleep \/ Scan
  BY <1>3 DEF Poll, Sleep, Scan, TimerMoves
<1>4. ASSUME NEW u \in Users, User(u) PROVE TimerOnlyWhileRunning'
  <2>1. CASE StopRequest(u) \/ StopInterrupt(u) \/ foSetTimeout(u) \/ fClearTimeout(u)
    BY <2>1, ConstantsAssumption DEF StopRequest, StopInterrupt, foSetTimeout, fClearTimeout,
       threadVars, TypeOK, Callers
  <2> QED
    BY <1>2, <1>4, <2>1 DEF User, UserInterrupt, Callers
<1>5. CASE Environment
  BY <1>5 DEF Environment, ReportApplicationEvent, ReportCtrlBreak, ReportInterruptThread,
     ReportEcho, Report, TimePasses, threadVars
<1>6. CASE UNCHANGED vars
  BY <1>6 DEF vars, threadVars
<1> QED
  BY <1>1, <1>2, <1>3, <1>4, <1>5, <1>6
     DEF Next, fCdbInterruptOnTimeoutHelperThread, Callers

\* While the cdb stdin/out thread uses cdb, the helper thread has ended: the cdb stdin/out
\* thread starts it when it resumes the application and waits for it when cdb reports.
THEOREM HelperEndsBeforeEvents == Spec => []TimerOnlyWhileRunning
<1>1. Init => TimerOnlyWhileRunning
  BY ConstantsAssumption DEF Init, Callers, TimerOnlyWhileRunning
<1> QED
  BY <1>1, HelperInductive, TypeCorrect, PTL DEF Spec
-----------------------------------------------------------------------------
(* One interrupt at a time                                                 *)

\* A step that leaves the lock and the recorded ids alone, in which no thread enters or leaves
\* the body of fInterruptApplicationExecution and no thread starts to fault.
Quiet ==
  /\ UNCHANGED <<oLock, uNewThreadId, idVars>>
  /\ \A t \in Callers : pc'[t] # pc[t] => pc[t] \notin LockedPcs /\ pc'[t] \notin LockedPcs
  /\ \A tid \in ThreadIds : utility'[tid] = "faulting" => utility[tid] = "faulting"

\* Such a step keeps the lock, the ids and the threads that fault consistent.
LEMMA QuietSteps ==
  ASSUME InterruptInv, Quiet
  PROVE  LockInv' /\ IdInv' /\ FaultInv'
<1> USE DEF InterruptInv, Quiet, idVars
<1>1. LockInv'
  BY DEF LockInv
<1>2. IdInv'
  BY DEF IdInv, LockedPcs, ClearedPcs
<1>3. FaultInv'
  BY DEF FaultInv
<1> QED
  BY <1>1, <1>2, <1>3

\* Nobody but the holder of the lock is in the body, and an id that is not yet recorded is
\* the holder's.
LEMMA HolderFacts ==
  ASSUME InterruptInv, NEW t \in Callers, pc[t] \in LockedPcs
  PROVE  /\ oLock = t
         /\ \A other \in Callers \ {t} : pc[other] \notin LockedPcs
         /\ pc[t] # "record" => uNewThreadId = NULL
BY DEF InterruptInv, LockInv, IdInv, LockedPcs

\* So does an assertion that fails behind the lock.
LEMMA RaiseSteps ==
  ASSUME InterruptInv, NEW t \in Callers, pc[t] \in LockedPcs, pc[t] # "record", Raise(t),
         UNCHANGED <<uNewThreadId, idVars, utility>>
  PROVE  LockInv' /\ IdInv' /\ FaultInv'
<1> USE HolderFacts, ConstantsAssumption DEF InterruptInv, Raise, idVars, Leaves
<1>1. LockInv'
  BY DEF LockInv, TypeOK, Callers, LockedPcs
<1>2. IdInv'
  BY DEF IdInv, TypeOK, LockedPcs, ClearedPcs
<1>3. FaultInv'
  BY DEF FaultInv
<1> QED
  BY <1>1, <1>2, <1>3

\* So does every step of fInterruptApplicationExecution.
LEMMA InterruptSteps ==
  ASSUME InterruptInv, NEW t \in Callers, fInterruptApplicationExecution(t)
  PROVE  LockInv' /\ IdInv' /\ FaultInv'
<1> USE ConstantsAssumption DEF InterruptInv, idVars
<1>1. CASE AcquireLock(t)
  <2>1. \A other \in Callers : pc[other] \notin LockedPcs
    BY <1>1 DEF AcquireLock, LockInv, Callers
  <2>2. LockInv'
    BY <1>1, <2>1 DEF AcquireLock, LockInv, LockedPcs, TypeOK, Callers
  <2>3. IdInv'
    BY <1>1, <2>1 DEF AcquireLock, IdInv, LockedPcs, ClearedPcs, TypeOK
  <2>4. FaultInv'
    BY <1>1 DEF AcquireLock, FaultInv
  <2> QED
    BY <2>2, <2>3, <2>4
<1>2. CASE TerminatePrevious(t)
  <2>0. pc[t] \in LockedPcs /\ pc[t] # "record"
    BY <1>2 DEF TerminatePrevious, LockedPcs
  <2>1. CASE Raise(t) /\ UNCHANGED <<u0PreviousUtilityInterruptThreadId, utility>>
    BY <1>2, <2>0, <2>1, RaiseSteps DEF TerminatePrevious
  <2>2. CASE /\ u0UtilityInterruptThreadId = NULL
             /\ utility' = Terminated({u0PreviousUtilityInterruptThreadId})
             /\ u0PreviousUtilityInterruptThreadId' = NULL
             /\ pc' = [pc EXCEPT ![t] = "assert"]
             /\ UNCHANGED <<oLock, cdb, bCdbWasTerminatedOnPurpose>>
    <3>1. LockInv'
      BY <2>0, <2>2 DEF LockInv, LockedPcs, TypeOK
    <3>2. IdInv'
      BY <1>2, <2>0, <2>2, HolderFacts DEF TerminatePrevious, IdInv, LockedPcs, ClearedPcs, TypeOK
    <3>3. FaultInv'
      BY <1>2, <2>0, <2>2, HolderFacts DEF TerminatePrevious, FaultInv, Terminated, TypeOK
    <3> QED
      BY <3>1, <3>2, <3>3
  <2> QED
    BY <1>2, <2>1, <2>2 DEF TerminatePrevious
<1>3. CASE AssertRunning(t)
  <2>0. pc[t] \in LockedPcs /\ pc[t] # "record"
    BY <1>3 DEF AssertRunning, LockedPcs
  <2>1. CASE Raise(t)
    BY <1>3, <2>0, <2>1, RaiseSteps DEF AssertRunning
  <2>2. CASE pc' = [pc EXCEPT ![t] = "create"] /\ UNCHANGED <<oLock, cdb, bCdbWasTerminatedOnPurpose>>
    <3>1. LockInv'
      BY <2>0, <2>2 DEF LockInv, LockedPcs, TypeOK
    <3>2. IdInv'
      BY <1>3, <2>0, <2>2, HolderFacts DEF AssertRunning, IdInv, LockedPcs, ClearedPcs, TypeOK
    <3>3. FaultInv'
      BY <1>3 DEF AssertRunning, FaultInv
    <3> QED
      BY <3>1, <3>2, <3>3
  <2> QED
    BY <1>3, <2>1, <2>2 DEF AssertRunning
<1>4. CASE CreateThread(t)
  <2>0. pc[t] \in LockedPcs /\ pc[t] # "record"
    BY <1>4 DEF CreateThread, LockedPcs
  <2>1. CASE Raise(t) /\ UNCHANGED <<utility, uNewThreadId>>
    BY <1>4, <2>0, <2>1, RaiseSteps DEF CreateThread
  <2>2. ASSUME NEW tid \in FreeThreadIds,
               utility' = [utility EXCEPT ![tid] = "faulting"],
               uNewThreadId' = tid,
               pc' = [pc EXCEPT ![t] = "record"],
               UNCHANGED <<oLock, cdb, bCdbWasTerminatedOnPurpose>>
        PROVE  LockInv' /\ IdInv' /\ FaultInv'
    <3>1. LockInv'
      BY <2>0, <2>2 DEF LockInv, LockedPcs, TypeOK
    <3>2. IdInv'
      BY <1>4, <2>0, <2>2, HolderFacts DEF CreateThread, IdInv, LockedPcs, ClearedPcs, TypeOK
    <3>3. FaultInv'
      BY <1>4, <2>0, <2>2, HolderFacts DEF CreateThread, FaultInv, TypeOK, FreeThreadIds
    <3> QED
      BY <3>1, <3>2, <3>3
  <2> QED
    BY <1>4, <2>1, <2>2 DEF CreateThread
<1>5. CASE RecordThread(t)
  <2>0. pc[t] \in LockedPcs
    BY <1>5 DEF RecordThread, LockedPcs
  <2>1. LockInv'
    BY <1>5, <2>0, HolderFacts DEF RecordThread, Leaves, LockInv, LockedPcs, TypeOK, Callers
  <2>2. IdInv'
    BY <1>5, <2>0, HolderFacts DEF RecordThread, Leaves, IdInv, LockedPcs, ClearedPcs, TypeOK
  <2>3. FaultInv'
    BY <1>5 DEF RecordThread, FaultInv, IdInv, ClearedPcs
  <2> QED
    BY <2>1, <2>2, <2>3
<1> QED
  BY <1>1, <1>2, <1>3, <1>4, <1>5 DEF fInterruptApplicationExecution

\* So does the handling of an event.
LEMMA EventSteps ==
  ASSUME InterruptInv, ftbHandleLastCdbEvent
  PROVE  LockInv' /\ IdInv' /\ FaultInv'
<1> USE DEF ftbHandleLastCdbEvent, InterruptInv, idVars
<1>1. CASE HandleApplicationEvent \/ HandleUtilityBreakpoint
  <2>1. Quiet
    BY <1>1 DEF Quiet, HandleApplicationEvent, HandleUtilityBreakpoint
  <2> QED
    BY <2>1, QuietSteps
<1>2. CASE IgnoreEcho
  <2>1. LockInv' /\ IdInv'
    BY <1>2 DEF IgnoreEcho, LockInv, IdInv
  <2>2. FaultInv'
    BY <1>2 DEF IgnoreEcho, FaultInv, Become, TypeOK
  <2> QED
    BY <2>1, <2>2
<1>3. CASE HandleInterrupt
  <2>1. LockInv'
    BY <1>3 DEF LockInv
  <2>2. IdInv'
    BY <1>3 DEF HandleInterrupt, IdInv
  <2>3. u0PreviousUtilityInterruptThreadId = NULL
    BY <1>3 DEF HandleInterrupt, PendingInv, Pending, AwaitedPcs
  <2>4. \A tid \in ThreadIds :
          utility'[tid] = "faulting" => tid \in {u0UtilityInterruptThreadId, uNewThreadId}
    BY <1>3, <2>3, ConstantsAssumption DEF HandleInterrupt, FaultInv, Become, Terminated, TypeOK
  <2>5. FaultInv'
    BY <1>3, <2>4 DEF HandleInterrupt, FaultInv, IdInv, Terminated, TypeOK
  <2> QED
    BY <2>1, <2>2, <2>5
<1> QED
  BY <1>1, <1>2, <1>3

\* What the other parts of the invariant need to know of fInterruptApplicationExecution.
LEMMA InterruptFrame ==
  ASSUME SessionInv, NEW t \in Callers, fInterruptApplicationExecution(t)
  PROVE  /\ UNCHANGED <<sCdbISA, mainPc, bStopping, lastEvent>>
         /\ cdb' \in {cdb, "gone"}
         /\ pc[t] \in InterruptPcs
         /\ \A other \in Callers \ {t} : pc'[other] = pc[other]
BY DEF SessionInv, InterruptInv, TypeOK, fInterruptApplicationExecution, AcquireLock,
   TerminatePrevious, AssertRunning, CreateThread, RecordThread, Raise, InterruptPcs,
   flagVars, cdbVars

\* fInterruptApplicationExecution keeps the invariant.
LEMMA InterruptKeepsSession ==
  ASSUME SessionInv, NEW t \in Callers, fInterruptApplicationExecution(t)
  PROVE  SessionInv'
<1> USE DEF SessionInv, InterruptInv
<1>1. TypeOK'
  BY InterruptTyped
<1>2. LockInv' /\ IdInv' /\ FaultInv'
  BY InterruptSteps
<1>3. UserInv'
  BY InterruptFrame, ConstantsAssumption DEF UserInv, Callers, InterruptPcs
<1>4. RunInv'
  BY InterruptFrame DEF RunInv
<1>5. TimerOnlyWhileRunning'
  BY InterruptFrame DEF TimerOnlyWhileRunning, Callers, InterruptPcs
<1>6. InterruptHandledUnlessStopping'
  BY InterruptFrame DEF InterruptHandledUnlessStopping
<1>7. u0PreviousUtilityInterruptThreadId' \in {u0PreviousUtilityInterruptThreadId, NULL}
  BY DEF fInterruptApplicationExecution, AcquireLock, TerminatePrevious, AssertRunning,
     CreateThread, RecordThread, idVars
<1>8. PendingInv'
  BY <1>7, InterruptFrame DEF PendingInv, Pending
\* What happens to the threads in the utility process.
<1>9. CASE CreateThread(t) /\ cdb # "gone"
  <2>1. PICK tid \in FreeThreadIds :
          /\ utility' = [utility EXCEPT ![tid] = "faulting"]
          /\ uNewThreadId' = tid
    BY <1>9 DEF CreateThread
  <2>2. tid \in ThreadIds /\ utility[tid] = "none" /\ tid # lastEvent.thread
    BY <2>1 DEF FreeThreadIds
  <2>3. UNCHANGED idVars /\ u0UtilityInterruptThreadId = NULL /\ uNewThreadId = NULL
    BY <1>9, HolderFacts DEF CreateThread, IdInv, ClearedPcs, LockedPcs
  <2>4. X64Inv'
    BY <2>1, <2>2, <2>3, InterruptFrame DEF X64Inv, Pending, TypeOK, idVars
  <2>5. ReportedInv'
    BY <2>1, <2>2, <2>3, InterruptFrame DEF ReportedInv, TypeOK, idVars
  <2>6. ComingInv'
    BY <2>1, <2>2, <2>3, ConstantsAssumption DEF ComingInv, TypeOK, idVars
  <2>7. FrozenInv'
    BY <2>1, <2>2, <2>3, InterruptFrame DEF FrozenInv, TypeOK, idVars
  <2> QED
    BY <1>1, <1>2, <1>3, <1>4, <1>5, <1>6, <1>8, <2>4, <2>5, <2>6, <2>7
<1>10. CASE TerminatePrevious(t) /\ u0UtilityInterruptThreadId = NULL
  <2>1. /\ utility' = Terminated({u0PreviousUtilityInterruptThreadId})
        /\ u0PreviousUtilityInterruptThreadId' = NULL
        /\ UNCHANGED <<u0UtilityInterruptThreadId, uNewThreadId>>
    BY <1>10 DEF TerminatePrevious
  <2>2. X64Inv'
    BY <2>1, InterruptFrame, ConstantsAssumption
       DEF X64Inv, Pending, Terminated, TypeOK, Events, Application, Breakpoint, AccessViolation
  <2>3. ReportedInv'
    BY <2>1, InterruptFrame DEF ReportedInv, Terminated, TypeOK
  <2>4. uNewThreadId = NULL
    BY <1>10, HolderFacts DEF TerminatePrevious, LockedPcs
  <2>5. ComingInv'
    BY <1>10, <2>1, <2>4 DEF ComingInv
  <2>6. FrozenInv'
    BY <2>1, InterruptFrame DEF FrozenInv, Terminated, TypeOK
  <2> QED
    BY <1>1, <1>2, <1>3, <1>4, <1>5, <1>6, <1>8, <2>2, <2>3, <2>5, <2>6
<1>11. CASE ~(CreateThread(t) /\ cdb # "gone")
            /\ ~(TerminatePrevious(t) /\ u0UtilityInterruptThreadId = NULL)
  <2>1. /\ UNCHANGED <<utility, u0PreviousUtilityInterruptThreadId>>
        /\ \/ UNCHANGED <<u0UtilityInterruptThreadId, uNewThreadId>>
           \/ RecordThread(t)
    BY <1>11 DEF fInterruptApplicationExecution, AcquireLock, TerminatePrevious, AssertRunning,
       CreateThread, idVars
       , RecordThread
  <2>2. {u0UtilityInterruptThreadId', uNewThreadId'} \ {NULL}
          \subseteq {u0UtilityInterruptThreadId, uNewThreadId} \ {NULL}
    BY <2>1 DEF RecordThread
  <2>3. u0UtilityInterruptThreadId = NULL \/ UNCHANGED <<u0UtilityInterruptThreadId, uNewThreadId>>
    BY <2>1 DEF RecordThread, IdInv, ClearedPcs
  <2>4. X64Inv'
    BY <2>1, InterruptFrame DEF X64Inv, Pending
  <2>5. ReportedInv'
    BY <2>1, <2>3, InterruptFrame DEF ReportedInv, RecordThread
  <2>6. ComingInv'
    BY <2>1, <2>2, InterruptFrame DEF ComingInv
  <2>7. FrozenInv'
    BY <2>1, InterruptFrame DEF FrozenInv
  <2> QED
    BY <1>1, <1>2, <1>3, <1>4, <1>5, <1>6, <1>8, <2>4, <2>5, <2>6, <2>7
<1> QED
  BY <1>9, <1>10, <1>11

\* A step that leaves the utility process, the recorded ids and the body of
\* fInterruptApplicationExecution alone keeps everything that is about these, if it
\* neither makes an access violation pending nor leaves one that is.
LEMMA CalmSteps ==
  ASSUME SessionInv, Quiet, UNCHANGED <<sCdbISA, utility>>, bStopping => bStopping',
         Pending' => Pending /\ lastEvent' = lastEvent,
         bStopping /\ mainPc \in {"timeouts", "resume", "quit", "done"}
           => mainPc' \in {"timeouts", "resume", "quit", "done"}
  PROVE  /\ LockInv' /\ IdInv' /\ FaultInv' /\ PendingInv' /\ X64Inv' /\ ReportedInv'
         /\ ComingInv' /\ FrozenInv'
<1> USE DEF SessionInv, InterruptInv, Quiet, idVars
<1>1. LockInv' /\ IdInv' /\ FaultInv'
  BY QuietSteps
<1>2. PendingInv'
  BY DEF PendingInv
<1>3. X64Inv'
  BY DEF X64Inv
<1>4. ReportedInv'
  BY DEF ReportedInv
<1>5. ComingInv'
  BY DEF ComingInv
<1>6. FrozenInv'
  BY DEF FrozenInv
<1> QED
  BY <1>1, <1>2, <1>3, <1>4, <1>5, <1>6

\* The other steps of the interrupt-on-timeout helper thread keep the invariant.
LEMMA HelperKeepsSession ==
  ASSUME SessionInv, [Next]_vars, Poll \/ Sleep \/ Scan
  PROVE  SessionInv'
<1> USE DEF SessionInv, InterruptInv, Poll, Sleep, Scan, TimerMoves, flagVars, cdbVars
<1>1. TypeOK'
  BY TypeInductive
<1>2. Quiet
  BY DEF Quiet, TypeOK, LockedPcs
<1>3. UserInv'
  BY ConstantsAssumption DEF UserInv, TypeOK, Callers
<1>4. RunInv' /\ InterruptHandledUnlessStopping'
  BY DEF RunInv, InterruptHandledUnlessStopping
<1>5. TimerOnlyWhileRunning'
  BY DEF TimerOnlyWhileRunning
<1> QED
  BY <1>1, <1>2, <1>3, <1>4, <1>5, CalmSteps DEF Pending

\* The other steps of an API call keep the invariant.
LEMMA UserKeepsSession ==
  ASSUME SessionInv, [Next]_vars, NEW u \in Users,
         StopRequest(u) \/ StopInterrupt(u) \/ foSetTimeout(u) \/ fClearTimeout(u)
  PROVE  SessionInv'
<1> USE DEF SessionInv, InterruptInv
<1>1. TypeOK'
  BY TypeInductive
<1>2. /\ UNCHANGED <<sCdbISA, mainPc, cdb, lastEvent, utility, oLock, uNewThreadId, idVars>>
      /\ bStopping => bStopping'
  BY DEF StopRequest, StopInterrupt, foSetTimeout, fClearTimeout, threadVars, flagVars, cdbVars
<1>3. /\ \A t \in Callers \ {u} : pc'[t] = pc[t]
      /\ pc'[u] = pc[u] \/ (pc[u] \notin LockedPcs /\ pc'[u] \in {"idle", "stop", "lock"})
      /\ pc'[u] # "idle" => bStopping'
  BY DEF StopRequest, StopInterrupt, foSetTimeout, fClearTimeout, threadVars, flagVars, UserInv,
     TypeOK, LockedPcs, Callers
<1>4. Quiet
  BY <1>2, <1>3 DEF Quiet, LockedPcs
<1>5. UserInv'
  BY <1>2, <1>3 DEF UserInv, Callers
<1>6. RunInv' /\ InterruptHandledUnlessStopping'
  BY <1>2 DEF RunInv, InterruptHandledUnlessStopping
<1>7. TimerOnlyWhileRunning'
  BY <1>2, <1>3, ConstantsAssumption DEF TimerOnlyWhileRunning, Callers
<1> QED
  BY <1>1, <1>2, <1>4, <1>5, <1>6, <1>7, CalmSteps DEF Pending

\* The steps of the cdb stdin/out thread other than the handling of an event.
LEMMA MainKeepsSession ==
  ASSUME SessionInv, [Next]_vars, TimerOnlyWhileRunning',
         \/ fRunTimeoutCallbacks \/ CheckStopping \/ Resume \/ MarkRunning \/ StartTimer
         \/ ReadPrompt \/ MarkPaused \/ JoinTimer \/ CommandFails \/ Quit
  PROVE  SessionInv'
<1> USE DEF SessionInv, InterruptInv
<1>1. TypeOK'
  BY TypeInductive
<1>2. /\ UNCHANGED <<sCdbISA, utility, oLock, uNewThreadId, idVars>>
      /\ bStopping => bStopping'
  BY DEF fRunTimeoutCallbacks, CheckStopping, Resume, MarkRunning, StartTimer, ReadPrompt,
     MarkPaused, JoinTimer, CommandFails, Quit, MainMoves, StopHere, GoOn
<1>3. /\ \A t \in Callers \ {Timer} : pc'[t] = pc[t]
      /\ pc'[Timer] = pc[Timer] \/ (pc[Timer] \notin LockedPcs /\ pc'[Timer] = "poll")
  BY DEF fRunTimeoutCallbacks, CheckStopping, Resume, MarkRunning, StartTimer, ReadPrompt,
     MarkPaused, JoinTimer, CommandFails, Quit, MainMoves, TypeOK, LockedPcs,
     TimerOnlyWhileRunning
<1>4. Quiet
  BY <1>2, <1>3 DEF Quiet, LockedPcs
<1>5. UserInv'
  BY <1>2, <1>3, ConstantsAssumption DEF UserInv, Callers
<1>6. RunInv'
  BY DEF RunInv, fRunTimeoutCallbacks, CheckStopping, Resume, MarkRunning, StartTimer,
     ReadPrompt, MarkPaused, JoinTimer, CommandFails, Quit, MainMoves, cdbVars
<1>7. InterruptHandledUnlessStopping'
  BY <1>2 DEF InterruptHandledUnlessStopping, fRunTimeoutCallbacks, CheckStopping, Resume,
     MarkRunning, StartTimer, ReadPrompt, MarkPaused, JoinTimer, CommandFails, Quit, MainMoves
<1>8. Pending' => Pending /\ lastEvent' = lastEvent
  BY DEF Pending, AwaitedPcs, fRunTimeoutCallbacks, CheckStopping, Resume, MarkRunning,
     StartTimer, ReadPrompt, MarkPaused, JoinTimer, CommandFails, Quit, MainMoves, cdbVars,
     Application
<1>9. bStopping /\ mainPc \in {"timeouts", "resume", "quit", "done"}
        => mainPc' \in {"timeouts", "resume", "quit", "done"}
  BY DEF fRunTimeoutCallbacks, CheckStopping, Resume, MarkRunning, StartTimer, ReadPrompt,
     MarkPaused, JoinTimer, CommandFails, Quit, MainMoves
<1> QED
  BY <1>1, <1>2, <1>4, <1>5, <1>6, <1>7, <1>8, <1>9, CalmSteps

\* While the cdb stdin/out thread handles an event no id is waiting to be recorded, unless fStop
\* has been called: the helper thread has ended.
LEMMA NothingToRecord ==
  ASSUME SessionInv, mainPc = "event", ~bStopping
  PROVE  uNewThreadId = NULL
<1>1. \A t \in Callers : pc[t] # "record"
  BY DEF SessionInv, UserInv, TimerOnlyWhileRunning, Callers
<1> QED
  BY <1>1 DEF SessionInv, InterruptInv, IdInv

\* ftbHandleLastCdbEvent keeps the invariant.
LEMMA EventKeepsSession ==
  ASSUME SessionInv, [Next]_vars, ftbHandleLastCdbEvent
  PROVE  SessionInv'
<1> USE DEF SessionInv, InterruptInv
<1>1. TypeOK'
  BY TypeInductive
<1>2. LockInv' /\ IdInv' /\ FaultInv'
  BY EventSteps
<1>3. /\ mainPc = "event" /\ cdb = "prompt"
      /\ mainPc' \in {"timeouts", "quit", "failed"}
      /\ UNCHANGED <<sCdbISA, pc, uNewThreadId, cdb>>
      /\ bStopping => bStopping'
  BY DEF ftbHandleLastCdbEvent, HandleApplicationEvent, HandleUtilityBreakpoint, IgnoreEcho,
     HandleInterrupt, StopHere, GoOn, cdbVars
<1>4. UserInv' /\ RunInv' /\ TimerOnlyWhileRunning' /\ PendingInv'
  BY <1>3 DEF UserInv, RunInv, TimerOnlyWhileRunning, PendingInv, Pending, AwaitedPcs
<1>5. ~Pending'
  BY <1>3 DEF Pending, AwaitedPcs
\* A frozen thread is the previous one, as the session was not to stop when cdb was resumed.
<1>6. \A tid \in ThreadIds :
        utility[tid] = "suspended" => tid = u0PreviousUtilityInterruptThreadId
  BY <1>3 DEF FrozenInv
<1>7. CASE HandleApplicationEvent \/ HandleUtilityBreakpoint
  <2>1. UNCHANGED <<idVars, utility>> /\ mainPc' # "failed"
    BY <1>7 DEF HandleApplicationEvent, HandleUtilityBreakpoint
  <2>2. X64Inv'
    BY <1>3, <1>5, <2>1 DEF X64Inv, idVars
  <2>3. ReportedInv'
    BY <1>3, <2>1 DEF ReportedInv, idVars
  <2>4. ComingInv'
    BY <1>3, <2>1 DEF ComingInv, idVars
  <2>5. FrozenInv'
    BY <1>6, <2>1 DEF FrozenInv, idVars
  <2> QED
    BY <1>1, <1>2, <1>4, <2>1, <2>2, <2>3, <2>4, <2>5 DEF InterruptHandledUnlessStopping
<1>8. CASE IgnoreEcho
  <2>1. /\ UNCHANGED <<idVars, bStopping>> /\ utility' = Become("reported", "faulting")
        /\ mainPc' # "failed"
    BY <1>8 DEF IgnoreEcho, GoOn
  <2>2. \A tid \in ThreadIds :
          \/ utility'[tid] = utility[tid]
          \/ utility[tid] = "reported" /\ utility'[tid] = "faulting"
    BY <2>1 DEF Become
  <2>3. X64Inv'
    BY <1>3, <1>5, <2>1, <2>2 DEF X64Inv, idVars
  <2>4. ReportedInv'
    BY <1>3, <2>1, <2>2 DEF ReportedInv, idVars
  <2>5. ComingInv'
    BY <1>3, <2>1, <2>2 DEF ComingInv, idVars, TypeOK
  <2>6. FrozenInv'
    BY <1>6, <2>1, <2>2 DEF FrozenInv, idVars
  <2> QED
    BY <1>1, <1>2, <1>4, <2>1, <2>3, <2>4, <2>5, <2>6 DEF InterruptHandledUnlessStopping
<1>9. CASE HandleInterrupt
  <2>1. /\ u0PreviousUtilityInterruptThreadId = NULL
        /\ UNCHANGED bStopping
        /\ lastEvent.thread \in ThreadIds
    BY <1>3, <1>9 DEF HandleInterrupt, GoOn, PendingInv, Pending, AwaitedPcs, TypeOK, Events,
       Application, Breakpoint, AccessViolation
  <2>2. \A tid \in ThreadIds : utility[tid] # "suspended"
    BY <1>6, <2>1, ConstantsAssumption
  <2>3. ASSUME ~bStopping, NEW tid \in ThreadIds, utility[tid] = "reported"
        PROVE  tid = u0UtilityInterruptThreadId
    BY <1>3, <2>1, <2>3, NothingToRecord, ConstantsAssumption DEF ReportedInv
  <2>4. CASE sCdbISA = "x86"
    <3>1. /\ utility' = Become("reported", "suspended")
          /\ u0PreviousUtilityInterruptThreadId' = u0UtilityInterruptThreadId
          /\ u0UtilityInterruptThreadId' = NULL
          /\ mainPc' = "timeouts"
      BY <1>9, <2>4 DEF HandleInterrupt
    <3>2. \A tid \in ThreadIds :
            \/ utility'[tid] = utility[tid]
            \/ utility[tid] = "reported" /\ utility'[tid] = "suspended"
      BY <3>1 DEF Become
    <3>3. X64Inv'
      BY <1>3, <2>4 DEF X64Inv
    <3>4. ReportedInv'
      BY <2>1, <2>3, <3>1, <3>2 DEF ReportedInv
    <3>5. ComingInv'
      BY <1>3, <2>1, <3>1, NothingToRecord DEF ComingInv
    <3>6. FrozenInv'
      BY <2>1, <2>2, <2>3, <3>1, <3>2 DEF FrozenInv
    <3> QED
      BY <1>1, <1>2, <1>4, <3>1, <3>3, <3>4, <3>5, <3>6 DEF InterruptHandledUnlessStopping
  <2>5. CASE sCdbISA = "x64"
    <3>1. bStopping \/ u0UtilityInterruptThreadId = lastEvent.thread
      BY <1>3, <1>9, <2>1, <2>3, <2>5 DEF HandleInterrupt, X64Inv, Pending, AwaitedPcs
    <3>2. InterruptHandledUnlessStopping'
      BY <1>9, <2>1, <2>5, <3>1, ConstantsAssumption
         DEF HandleInterrupt, InterruptHandledUnlessStopping
    <3>3. CASE UNCHANGED <<idVars, utility>> /\ bStopping
      <4>1. X64Inv' /\ ReportedInv' /\ ComingInv' /\ FrozenInv'
        BY <1>3, <1>5, <2>1, <2>2, <3>3 DEF X64Inv, ReportedInv, ComingInv, FrozenInv, idVars
      <4> QED
        BY <1>1, <1>2, <1>4, <3>2, <4>1
    <3>4. CASE /\ utility' = Terminated({u0UtilityInterruptThreadId})
               /\ u0UtilityInterruptThreadId' = NULL
               /\ UNCHANGED u0PreviousUtilityInterruptThreadId
      <4>1. \A tid \in ThreadIds :
              utility'[tid] = IF tid = u0UtilityInterruptThreadId THEN "none" ELSE utility[tid]
        BY <3>4 DEF Terminated
      <4>2. X64Inv' /\ FrozenInv'
        BY <1>5, <2>1, <2>2, <4>1, <3>4 DEF X64Inv, FrozenInv
      <4>3. ReportedInv'
        BY <2>1, <2>3, <4>1 DEF ReportedInv
      <4>4. ComingInv'
        BY <1>3, <2>1, <3>4, NothingToRecord DEF ComingInv
      <4> QED
        BY <1>1, <1>2, <1>4, <3>2, <4>2, <4>3, <4>4
    <3> QED
      BY <1>9, <2>1, <2>5, <3>1, <3>3, <3>4, ConstantsAssumption DEF HandleInterrupt
  <2> QED
    BY <2>4, <2>5 DEF TypeOK
<1> QED
  BY <1>7, <1>8, <1>9 DEF ftbHandleLastCdbEvent

\* cdb keeps the invariant when it reports an event.
LEMMA ReportKeepsSession ==
  ASSUME SessionInv, [Next]_vars, NEW event \in Events, Report(event),
         event.kind = "accessViolation"
           => /\ u0PreviousUtilityInterruptThreadId # NULL
                   => event.thread = u0PreviousUtilityInterruptThreadId
              /\ sCdbISA = "x64" => utility'[event.thread] = "reported",
         \/ UNCHANGED utility
         \/ \E tid \in ThreadIds : utility[tid] = "faulting"
                                   /\ utility' = [utility EXCEPT ![tid] = "reported"]
  PROVE  SessionInv'
<1> USE DEF SessionInv, InterruptInv, Report
<1>1. TypeOK'
  BY TypeInductive
<1>2. \A tid \in ThreadIds :
        \/ utility'[tid] = utility[tid]
        \/ utility[tid] = "faulting" /\ utility'[tid] = "reported"
  BY DEF TypeOK
<1>3. UNCHANGED <<sCdbISA, mainPc, pc, oLock, uNewThreadId, bStopping, idVars>>
  BY DEF threadVars, flagVars
<1>4. Quiet
  BY <1>2, <1>3 DEF Quiet
<1>5. LockInv' /\ IdInv' /\ FaultInv'
  BY <1>4, QuietSteps
<1>6. UserInv' /\ RunInv' /\ TimerOnlyWhileRunning' /\ InterruptHandledUnlessStopping'
  BY <1>3 DEF UserInv, RunInv, TimerOnlyWhileRunning, InterruptHandledUnlessStopping
<1>7. PendingInv'
  BY <1>3 DEF PendingInv, Pending, idVars
<1>8. X64Inv'
  BY <1>2, <1>3 DEF X64Inv, Pending, idVars
<1>9. ReportedInv'
  BY <1>2, <1>3 DEF ReportedInv, FaultInv, idVars
<1>10. ComingInv'
  BY <1>2, <1>3 DEF ComingInv, idVars, TypeOK
<1>11. FrozenInv'
  BY <1>2, <1>3 DEF FrozenInv, idVars
<1> QED
  BY <1>1, <1>5, <1>6, <1>7, <1>8, <1>9, <1>10, <1>11

\* cdb, the processes it debugs and the passing of time keep the invariant.
LEMMA EnvironmentKeepsSession ==
  ASSUME SessionInv, [Next]_vars, Environment
  PROVE  SessionInv'
<1> USE DEF SessionInv, InterruptInv
<1>1. CASE ReportApplicationEvent \/ ReportCtrlBreak
  <2>1. \E event \in Events :
          Report(event) /\ event.kind # "accessViolation" /\ UNCHANGED utility
    BY <1>1 DEF ReportApplicationEvent, ReportCtrlBreak, Events, Application, Breakpoint
  <2> QED
    BY <2>1, ReportKeepsSession
<1>2. ASSUME NEW tid \in ThreadIds, ReportInterruptThread(tid) PROVE SessionInv'
  <2>1. CASE Report(Breakpoint(tid)) /\ UNCHANGED utility
    <3>1. Breakpoint(tid) \in Events /\ Breakpoint(tid).kind # "accessViolation"
      BY DEF Events, Breakpoint
    <3> QED
      BY <2>1, <3>1, ReportKeepsSession
  <2>2. CASE Report(AccessViolation(tid)) /\ utility' = [utility EXCEPT ![tid] = "reported"]
    <3>1. AccessViolation(tid) \in Events /\ AccessViolation(tid).thread = tid
      BY DEF Events, AccessViolation
    <3>2. utility[tid] = "faulting" /\ utility'[tid] = "reported"
      BY <1>2, <2>2 DEF ReportInterruptThread, TypeOK
    <3>3. u0PreviousUtilityInterruptThreadId # NULL => tid = u0PreviousUtilityInterruptThreadId
      BY <3>2, ConstantsAssumption DEF FaultInv, IdInv
    <3> QED
      BY <2>2, <3>1, <3>2, <3>3, ReportKeepsSession
  <2> QED
    BY <1>2, <2>1, <2>2 DEF ReportInterruptThread
<1>3. ASSUME NEW tid \in ThreadIds, ReportEcho(tid) PROVE SessionInv'
  <2>1. AccessViolation(tid) \in Events /\ AccessViolation(tid).thread = tid
    BY DEF Events, AccessViolation
  <2>2. tid = u0PreviousUtilityInterruptThreadId
    BY <1>3 DEF ReportEcho, Report, FrozenInv, RunInv
  <2>3. sCdbISA # "x64"
    BY <1>3 DEF ReportEcho, X64Inv
  <2> QED
    BY <1>3, <2>1, <2>2, <2>3, ReportKeepsSession DEF ReportEcho
<1>4. ASSUME NEW o \in Timeouts, TimePasses(o) PROVE SessionInv'
  <2>1. /\ UNCHANGED <<sCdbISA, threadVars, flagVars, idVars, cdbVars, utility>>
    BY <1>4 DEF TimePasses
  <2>2. Quiet
    BY <2>1 DEF Quiet, threadVars
  <2>3. UserInv' /\ RunInv' /\ TimerOnlyWhileRunning' /\ InterruptHandledUnlessStopping'
    BY <2>1 DEF UserInv, RunInv, TimerOnlyWhileRunning, InterruptHandledUnlessStopping,
       threadVars, flagVars, cdbVars
  <2> QED
    BY <2>1, <2>2, <2>3, TypeInductive, CalmSteps DEF threadVars, flagVars, cdbVars, Pending
<1> QED
  BY <1>1, <1>2, <1>3, <1>4 DEF Environment

\* The invariant is about the variables of the specification only.
LEMMA StutterKeepsSession ==
  ASSUME SessionInv, [Next]_vars, UNCHANGED vars
  PROVE  SessionInv'
<1>1. Quiet
  BY DEF Quiet, vars, threadVars
<1>2. UserInv' /\ RunInv' /\ TimerOnlyWhileRunning' /\ InterruptHandledUnlessStopping'
  BY DEF SessionInv, UserInv, RunInv, TimerOnlyWhileRunning, InterruptHandledUnlessStopping,
     vars, threadVars, flagVars, cdbVars
<1> QED
  BY <1>1, <1>2, TypeInductive, CalmSteps
     DEF SessionInv, InterruptInv, vars, threadVars, flagVars, cdbVars, Pending

\* Every step keeps the invariant.
LEMMA SessionInductive == SessionInv /\ [Next]_vars => SessionInv'
<1> SUFFICES ASSUME SessionInv, [Next]_vars PROVE SessionInv'
  OBVIOUS
<1>1. TypeOK /\ TimerOnlyWhileRunning /\ [Next]_vars => TimerOnlyWhileRunning'
  BY HelperInductive
<1>2. CASE fCdbStdInOutHelperThread
  BY <1>1, <1>2, MainKeepsSession, EventKeepsSession
     DEF fCdbStdInOutHelperThread, SessionInv, InterruptInv
<1>3. CASE fCdbInterruptOnTimeoutHelperThread
  BY <1>3, HelperKeepsSession, InterruptKeepsSession
     DEF fCdbInterruptOnTimeoutHelperThread, Callers
<1>4. ASSUME NEW u \in Users, User(u) PROVE SessionInv'
  BY <1>4, UserKeepsSession, InterruptKeepsSession DEF User, UserInterrupt, Callers
<1>5. CASE Environment
  BY <1>5, EnvironmentKeepsSession
<1>6. CASE UNCHANGED vars
  BY <1>6, StutterKeepsSession
<1> QED
  BY <1>2, <1>3, <1>4, <1>5, <1>6 DEF Next

\* The invariant holds when debugging starts.
LEMMA SessionInitial == Init => SessionInv
<1> SUFFICES ASSUME Init PROVE SessionInv
  OBVIOUS
<1> USE ConstantsAssumption DEF Init, Callers
<1>1. TypeOK
  BY TypeInitial
<1>2. LockInv /\ IdInv /\ FaultInv /\ PendingInv
  BY DEF LockInv, IdInv, FaultInv, PendingInv, Pending, LockedPcs, ClearedPcs
<1>3. UserInv /\ RunInv /\ X64Inv /\ ReportedInv /\ ComingInv /\ FrozenInv
  BY DEF UserInv, RunInv, X64Inv, ReportedInv, ComingInv, FrozenInv, Pending, Application
<1>4. TimerOnlyWhileRunning /\ InterruptHandledUnlessStopping
  BY DEF TimerOnlyWhileRunning, InterruptHandledUnlessStopping
<1> QED
  BY <1>1, <1>2, <1>3, <1>4 DEF SessionInv, InterruptInv

\* The inductive invariant of the interrupt protocol.
THEOREM SessionCorrect == Spec => []SessionInv
BY SessionInitial, SessionInductive, PTL DEF Spec

-----------------------------------------------------------------------------
(* What the invariant is for                                               *)

\* However many threads call the API, the application is interrupted for one at a time.
THEOREM OneAtATime == Spec => []OneInterruptOutstanding
<1>1. SessionInv => OneInterruptOutstanding
  BY ConstantsAssumption
     DEF SessionInv, InterruptInv, FaultInv, IdInv, OneInterruptOutstanding, Outstanding
<1> QED
  BY <1>1, SessionCorrect, PTL

\* Whoever is turned away by the assertion at line 14 is turned away for an interrupt that is
\* on its way, unless the session is stopping.
THEOREM RecordedIsComing == Spec => []RecordedInterruptIsComing
<1>1. SessionInv => RecordedInterruptIsComing
  BY DEF SessionInv, ComingInv, RecordedInterruptIsComing
<1> QED
  BY <1>1, SessionCorrect, PTL

\* No frozen thread is forgotten in the utility process.
THEOREM FrozenIsRemembered == Spec => []FrozenThreadIsRemembered
<1>1. SessionInv => FrozenThreadIsRemembered
  BY DEF SessionInv, InterruptInv, TypeOK, FrozenInv, X64Inv, FrozenThreadIsRemembered
<1> QED
  BY <1>1, SessionCorrect, PTL

\* Handling an interrupt raises an exception only when fStop has been called.
THEOREM HandledUnlessStopping == Spec => []InterruptHandledUnlessStopping
<1>1. SessionInv => InterruptHandledUnlessStopping
  BY DEF SessionInv
<1> QED
  BY <1>1, SessionCorrect, PTL

\* The record of an interrupt is never overwritten: it is dropped when the access violation
\* of an interrupt thread is handled.
THEOREM DroppedOnReport == Spec => InterruptRecordDroppedOnReport
<1>1. SessionInv /\ [Next]_vars
        => [ u0UtilityInterruptThreadId # NULL
               => \/ u0UtilityInterruptThreadId' = u0UtilityInterruptThreadId
                  \/ /\ u0UtilityInterruptThreadId' = NULL
                     /\ lastEvent.kind = "accessViolation"
                     /\ lastEvent.thread # u0PreviousUtilityInterruptThreadId ]_vars
  <2> SUFFICES ASSUME SessionInv, Next, u0UtilityInterruptThreadId # NULL
               PROVE  \/ u0UtilityInterruptThreadId' = u0UtilityInterruptThreadId
                      \/ HandleInterrupt /\ u0UtilityInterruptThreadId' = NULL
    BY DEF HandleInterrupt
  <2>1. CASE fCdbStdInOutHelperThread
    BY <2>1 DEF fCdbStdInOutHelperThread, ftbHandleLastCdbEvent, HandleApplicationEvent,
       HandleUtilityBreakpoint, IgnoreEcho, HandleInterrupt, fRunTimeoutCallbacks, CheckStopping,
       Resume, MarkRunning, StartTimer, ReadPrompt, MarkPaused, JoinTimer, CommandFails, Quit,
       MainMoves, idVars
  <2>2. ASSUME NEW t \in Callers, fInterruptApplicationExecution(t)
        PROVE  u0UtilityInterruptThreadId' = u0UtilityInterruptThreadId
    BY <2>2 DEF fInterruptApplicationExecution, AcquireLock, TerminatePrevious, AssertRunning,
       CreateThread, RecordThread, idVars, SessionInv, InterruptInv, IdInv, ClearedPcs
  <2>3. CASE fCdbInterruptOnTimeoutHelperThread
    BY <2>2, <2>3 DEF fCdbInterruptOnTimeoutHelperThread, Callers, Poll, Sleep, Scan, TimerMoves,
       idVars
  <2>4. ASSUME NEW u \in Users, User(u)
        PROVE  u0UtilityInterruptThreadId' = u0UtilityInterruptThreadId
    BY <2>2, <2>4 DEF User, UserInterrupt, Callers, StopRequest, StopInterrupt, foSetTimeout,
       fClearTimeout, idVars
  <2>5. CASE Environment
    BY <2>5 DEF Environment, ReportApplicationEvent, ReportCtrlBreak, ReportInterruptThread,
       ReportEcho, Report, TimePasses, idVars
  <2> QED
    BY <2>1, <2>3, <2>4, <2>5 DEF Next
<1> QED
  BY <1>1, SessionCorrect, PTL DEF Spec, InterruptRecordDroppedOnReport
=============================================================================
