---------------------------- MODULE CdbInterrupt ----------------------------
(***************************************************************************)
(* How mBugId runs, interrupts and stops the application it debugs.        *)
(*                                                                         *)
(* The cdb stdin/out thread owns cdb.exe: it handles the last event, fires *)
(* timeouts, and resumes the application with a "g" command.  cdb cannot   *)
(* be asked to stop, so any other thread that needs the application paused *)
(* creates a thread at an invalid address in the utility process, whose    *)
(* access violation cdb reports like any other event.  Two kinds of thread *)
(* do so: the interrupt-on-timeout helper, started at every resume, and    *)
(* the threads that call the API (fStop, foSetTimeout, fClearTimeout).     *)
(*                                                                         *)
(* The model starts at the first event of a debugging session in which all *)
(* processes have been attached to; attaching is in module AttachQueue.    *)
(***************************************************************************)
CONSTANTS
  Users,      \* the threads that call the API of cBugId
  Timeouts,   \* cTimeout objects
  ThreadIds,  \* ids Windows can give to a thread in the utility process
  Timer,      \* the interrupt-on-timeout helper thread
  CtrlBreak,  \* the thread cdb creates when the user presses CTRL+BREAK
  NULL        \* Python's None

ASSUME ConstantsAssumption ==
  /\ Timer \notin Users
  /\ CtrlBreak \notin ThreadIds
  /\ NULL \notin ThreadIds \cup Users \cup {Timer, CtrlBreak}

Callers == Users \cup {Timer}

VARIABLES
  sCdbISA,                \* which cdb.exe is used; never changes
  mainPc,                 \* what the cdb stdin/out thread does next
  pc,                     \* what each other thread does next
  oLock,                  \* holder of fInterruptApplicationExecution's lock
  uNewThreadId,           \* thread its holder has created and not recorded
  bStopping,
  bCdbWasTerminatedOnPurpose,
  bCdbIsRunning,
  bApplicationIsRunning,
  u0UtilityInterruptThreadId,
  u0PreviousUtilityInterruptThreadId,
  aoTimeouts,             \* per timeout: not set, set, or due to fire
  cdb,                    \* cdb.exe: at its prompt, running, or gone
  lastEvent,              \* the event that made cdb return to its prompt
  utility                 \* the interrupt threads in the utility process

threadVars == <<mainPc, pc, oLock, uNewThreadId>>
flagVars == <<bStopping, bCdbWasTerminatedOnPurpose, bCdbIsRunning, bApplicationIsRunning>>
idVars == <<u0UtilityInterruptThreadId, u0PreviousUtilityInterruptThreadId>>
cdbVars == <<cdb, lastEvent>>
vars == <<sCdbISA, threadVars, flagVars, idVars, aoTimeouts, cdbVars, utility>>

Application == [kind |-> "application", thread |-> NULL]
Breakpoint(tid) == [kind |-> "breakpoint", thread |-> tid]
AccessViolation(tid) == [kind |-> "accessViolation", thread |-> tid]

Events ==
  {Application} \cup {Breakpoint(tid) : tid \in ThreadIds \cup {CtrlBreak}}
                \cup {AccessViolation(tid) : tid \in ThreadIds}

MainPcs == {"event", "timeouts", "resume", "go", "mark", "startTimer", "read",
            "unmark", "join", "quit", "done", "failed"}
InterruptPcs == {"lock", "guard", "assert", "create", "record"}
TimerPcs == {"off", "poll", "sleep", "scan"} \cup InterruptPcs
UserPcs == {"idle", "stop"} \cup InterruptPcs

TypeOK ==
  /\ sCdbISA \in {"x86", "x64"}
  /\ mainPc \in MainPcs
  /\ pc \in [Callers -> TimerPcs \cup UserPcs]
  /\ pc[Timer] \in TimerPcs
  /\ \A u \in Users : pc[u] \in UserPcs
  /\ oLock \in Callers \cup {NULL}
  /\ uNewThreadId \in ThreadIds \cup {NULL}
  /\ bStopping \in BOOLEAN
  /\ bCdbWasTerminatedOnPurpose \in BOOLEAN
  /\ bCdbIsRunning \in BOOLEAN
  /\ bApplicationIsRunning \in BOOLEAN
  /\ u0UtilityInterruptThreadId \in ThreadIds \cup {NULL}
  /\ u0PreviousUtilityInterruptThreadId \in ThreadIds \cup {NULL}
  /\ aoTimeouts \in [Timeouts -> {"none", "set", "due"}]
  /\ cdb \in {"prompt", "running", "gone"}
  /\ lastEvent \in Events
  /\ utility \in [ThreadIds -> {"none", "faulting", "reported", "suspended"}]

Init ==
  /\ sCdbISA \in {"x86", "x64"}
  /\ mainPc = "event"
  /\ pc = [t \in Callers |-> IF t = Timer THEN "off" ELSE "idle"]
  /\ oLock = NULL
  /\ uNewThreadId = NULL
  /\ bStopping = FALSE
  /\ bCdbWasTerminatedOnPurpose = FALSE
  /\ bCdbIsRunning = TRUE
  /\ bApplicationIsRunning = FALSE
  /\ u0UtilityInterruptThreadId = NULL
  /\ u0PreviousUtilityInterruptThreadId = NULL
  /\ aoTimeouts = [o \in Timeouts |-> "none"]
  /\ cdb = "prompt"
  /\ lastEvent = Application
  /\ utility = [tid \in ThreadIds |-> "none"]

Due == {o \in Timeouts : aoTimeouts[o] = "due"}
Ended == mainPc \in {"done", "failed"}

-----------------------------------------------------------------------------
(* fInterruptApplicationExecution, called by t.                            *)

\* Mutant: the call that terminates the thread is dropped.
NotTerminated(tids) == utility

\* mWindowsAPI.fbTerminateForThreadId; no thread has the id None.
Terminated(tids) == [tid \in ThreadIds |-> IF tid \in tids THEN "none" ELSE utility[tid]]

\* Mutant: an API thread is taken for the helper thread.
LeavesAsTimer(t) == "off"

\* What a caller does when the call is over: the helper thread ends.
Leaves(t) == IF t = Timer THEN "off" ELSE "idle"

\* An assertion fails: the finally clause releases the lock and the caller gets the
\* exception.  An API thread passes it on to its own caller; the helper thread fires
\* "Internal exception" and, if nothing handles that event, terminates cdb.
Raise(t) ==
  /\ oLock' = NULL
  /\ pc' = [pc EXCEPT ![t] = Leaves(t)]
  /\ \/ UNCHANGED <<cdb, bCdbWasTerminatedOnPurpose>>
     \/ t = Timer /\ cdb' = "gone" /\ bCdbWasTerminatedOnPurpose' = TRUE

\* Mutant: the body is not protected by the lock.
AcquireNothing(t) ==
  /\ pc[t] = "lock"
  /\ oLock' = t
  /\ pc' = [pc EXCEPT ![t] = "guard"]
  /\ UNCHANGED <<sCdbISA, mainPc, uNewThreadId, flagVars, idVars, aoTimeouts, cdbVars, utility>>

AcquireLock(t) ==
  /\ pc[t] = "lock"
  /\ oLock = NULL
  /\ oLock' = t
  /\ pc' = [pc EXCEPT ![t] = "guard"]
  /\ UNCHANGED <<sCdbISA, mainPc, uNewThreadId, flagVars, idVars, aoTimeouts, cdbVars,
                 utility>>

\* One interrupt at a time; the thread left frozen by the previous one is terminated.
TerminatePrevious(t) ==
  /\ pc[t] = "guard"
  /\ \/ /\ u0UtilityInterruptThreadId # NULL
        /\ Raise(t)
        /\ UNCHANGED <<u0PreviousUtilityInterruptThreadId, utility>>
     \/ /\ u0UtilityInterruptThreadId = NULL
        /\ utility' = Terminated({u0PreviousUtilityInterruptThreadId})
        /\ u0PreviousUtilityInterruptThreadId' = NULL
        /\ pc' = [pc EXCEPT ![t] = "assert"]
        /\ UNCHANGED <<oLock, cdb, bCdbWasTerminatedOnPurpose>>
  /\ UNCHANGED <<sCdbISA, mainPc, uNewThreadId, bStopping, bCdbIsRunning,
                 bApplicationIsRunning, u0UtilityInterruptThreadId, aoTimeouts, lastEvent>>

AssertRunning(t) ==
  /\ pc[t] = "assert"
  /\ \/ /\ bCdbIsRunning /\ bApplicationIsRunning
        /\ pc' = [pc EXCEPT ![t] = "create"]
        /\ UNCHANGED <<oLock, cdb, bCdbWasTerminatedOnPurpose>>
     \/ /\ ~(bCdbIsRunning /\ bApplicationIsRunning)
        /\ Raise(t)
  /\ UNCHANGED <<sCdbISA, mainPc, uNewThreadId, bStopping, bCdbIsRunning,
                 bApplicationIsRunning, idVars, aoTimeouts, lastEvent, utility>>

\* Ids of threads that no longer exist can be used again.
FreeThreadIds ==
  {tid \in ThreadIds : utility[tid] = "none"}
    \ {lastEvent.thread, u0UtilityInterruptThreadId, u0PreviousUtilityInterruptThreadId}

\* Creating the thread fails when the utility process went down with cdb.
CreateThread(t) ==
  /\ pc[t] = "create"
  /\ \/ /\ cdb # "gone"
        /\ \E tid \in FreeThreadIds :
             /\ utility' = [utility EXCEPT ![tid] = "faulting"]
             /\ uNewThreadId' = tid
        /\ pc' = [pc EXCEPT ![t] = "record"]
        /\ UNCHANGED <<oLock, cdb, bCdbWasTerminatedOnPurpose>>
     \/ /\ cdb = "gone"
        /\ Raise(t)
        /\ UNCHANGED <<utility, uNewThreadId>>
  /\ UNCHANGED <<sCdbISA, mainPc, bStopping, bCdbIsRunning, bApplicationIsRunning, idVars,
                 aoTimeouts, lastEvent>>

\* The assignment happens after the call that creates the thread has returned.
RecordThread(t) ==
  /\ pc[t] = "record"
  /\ u0UtilityInterruptThreadId' = uNewThreadId
  /\ uNewThreadId' = NULL
  /\ oLock' = NULL
  /\ pc' = [pc EXCEPT ![t] = Leaves(t)]
  /\ UNCHANGED <<sCdbISA, mainPc, flagVars, u0PreviousUtilityInterruptThreadId, aoTimeouts,
                 cdbVars, utility>>

fInterruptApplicationExecution(t) ==
  AcquireLock(t) \/ TerminatePrevious(t) \/ AssertRunning(t) \/ CreateThread(t) \/ RecordThread(t)

-----------------------------------------------------------------------------
(* The interrupt-on-timeout helper thread.                                 *)

TimerMoves(from, to) ==
  /\ pc[Timer] = from
  /\ pc' = [pc EXCEPT ![Timer] = to]
  /\ UNCHANGED <<sCdbISA, mainPc, oLock, uNewThreadId, flagVars, idVars, aoTimeouts, cdbVars,
                 utility>>

\* bApplicationIsRunning is read before the sleep and not again after it.
Poll == TimerMoves("poll", IF bApplicationIsRunning THEN "sleep" ELSE "off")
Sleep == TimerMoves("sleep", "scan")

\* Mutant: the thread ends when the first look finds nothing to fire.
ScanOnce == TimerMoves("scan", IF Due # {} THEN "lock" ELSE "off")
Scan == TimerMoves("scan", IF Due # {} THEN "lock" ELSE "poll")

fCdbInterruptOnTimeoutHelperThread ==
  Poll \/ Sleep \/ Scan \/ fInterruptApplicationExecution(Timer)

-----------------------------------------------------------------------------
(* The API, called by u.                                                   *)

StopRequest(u) ==
  /\ pc[u] = "idle"
  /\ bCdbWasTerminatedOnPurpose' = TRUE
  /\ bStopping' = TRUE
  /\ pc' = [pc EXCEPT ![u] = "stop"]
  /\ UNCHANGED <<sCdbISA, mainPc, oLock, uNewThreadId, bCdbIsRunning, bApplicationIsRunning,
                 idVars, aoTimeouts, cdbVars, utility>>

StopInterrupt(u) ==
  /\ pc[u] = "stop"
  /\ pc' = [pc EXCEPT ![u] = IF bApplicationIsRunning THEN "lock" ELSE "idle"]
  /\ UNCHANGED <<sCdbISA, mainPc, oLock, uNewThreadId, flagVars, idVars, aoTimeouts, cdbVars,
                 utility>>

\* A timeout of zero seconds is due at once.  Any other fails while the application runs: it
\* reads nApplicationRunTimeInSeconds, which waits for the lock foSetTimeout itself holds.
foSetTimeout(u) ==
  /\ pc[u] = "idle"
  /\ \E o \in Timeouts, status \in {"due"} \cup (IF bApplicationIsRunning THEN {} ELSE {"set"}) :
       aoTimeouts[o] = "none" /\ aoTimeouts' = [aoTimeouts EXCEPT ![o] = status]
  /\ UNCHANGED <<sCdbISA, threadVars, flagVars, idVars, cdbVars, utility>>

fClearTimeout(u) ==
  /\ pc[u] = "idle"
  /\ \E o \in Timeouts :
       aoTimeouts[o] # "none" /\ aoTimeouts' = [aoTimeouts EXCEPT ![o] = "none"]
  /\ UNCHANGED <<sCdbISA, threadVars, flagVars, idVars, cdbVars, utility>>

UserInterrupt(u) == StopInterrupt(u) \/ fInterruptApplicationExecution(u)

-----------------------------------------------------------------------------
(* The cdb stdin/out thread.                                               *)

\* fStop on this thread: the application is paused, so there is nothing to interrupt.
StopHere == bStopping' = TRUE /\ bCdbWasTerminatedOnPurpose' = TRUE
GoOn == UNCHANGED <<bStopping, bCdbWasTerminatedOnPurpose>>

\* The thread of the last event changes from one state to another.
Become(from, to) ==
  [tid \in ThreadIds |-> IF tid = lastEvent.thread /\ utility[tid] = from
                         THEN to ELSE utility[tid]]

\* An event of the application: a report may call fStop or be fatal.
HandleApplicationEvent ==
  /\ lastEvent.kind = "application"
  /\ StopHere \/ GoOn
  /\ mainPc' \in {"timeouts", "quit"}
  /\ UNCHANGED <<idVars, utility>>

\* A breakpoint in the utility process is CTRL+BREAK, unless the interrupt thread hit it.
HandleUtilityBreakpoint ==
  /\ lastEvent.kind = "breakpoint"
  /\ IF lastEvent.thread # u0UtilityInterruptThreadId THEN StopHere ELSE GoOn
  /\ mainPc' = "timeouts"
  /\ UNCHANGED <<idVars, utility>>

\* cdb repeats the access violation of the previous interrupt thread.
IgnoreEcho ==
  /\ lastEvent.kind = "accessViolation"
  /\ lastEvent.thread = u0PreviousUtilityInterruptThreadId
  /\ utility' = Become("reported", "faulting")  \* unless frozen it runs into 0xB1D again
  /\ mainPc' = "timeouts"
  /\ GoOn
  /\ UNCHANGED idVars

\* x86: freeze the current thread; the next interrupt terminates it.
\* x64: terminate the recorded thread; there is none to terminate if None is recorded.
HandleInterrupt ==
  /\ lastEvent.kind = "accessViolation"
  /\ lastEvent.thread # u0PreviousUtilityInterruptThreadId
  /\ GoOn
  /\ \/ /\ sCdbISA = "x86"
        /\ utility' = Become("reported", "suspended")
        /\ u0PreviousUtilityInterruptThreadId' = u0UtilityInterruptThreadId
        /\ u0UtilityInterruptThreadId' = NULL
        /\ mainPc' = "timeouts"
     \/ /\ sCdbISA = "x64"
        /\ u0UtilityInterruptThreadId # NULL
        /\ utility' = Terminated({u0UtilityInterruptThreadId})
        /\ u0UtilityInterruptThreadId' = NULL
        /\ mainPc' = "timeouts"
        /\ UNCHANGED u0PreviousUtilityInterruptThreadId
     \/ /\ sCdbISA = "x64"
        /\ u0UtilityInterruptThreadId = NULL
        /\ mainPc' = "failed"
        /\ UNCHANGED <<idVars, utility>>

ftbHandleLastCdbEvent ==
  /\ mainPc = "event"
  /\ cdb = "prompt"
  /\ HandleApplicationEvent \/ HandleUtilityBreakpoint \/ IgnoreEcho \/ HandleInterrupt
  /\ UNCHANGED <<sCdbISA, pc, oLock, uNewThreadId, bCdbIsRunning, bApplicationIsRunning,
                 aoTimeouts, cdbVars>>

\* Every timeout that is due fires; a callback may set it again and may call fStop.
fRunTimeoutCallbacks ==
  /\ mainPc = "timeouts"
  /\ \E again \in SUBSET Due :
       aoTimeouts' = [o \in Timeouts |-> IF o \in again THEN "set"
                                         ELSE IF o \in Due THEN "none" ELSE aoTimeouts[o]]
  /\ (Due # {} /\ StopHere) \/ GoOn
  /\ mainPc' = "resume"
  /\ UNCHANGED <<sCdbISA, pc, oLock, uNewThreadId, bCdbIsRunning, bApplicationIsRunning, idVars,
                 cdbVars, utility>>

MainMoves(from, to) ==
  /\ mainPc = from
  /\ mainPc' = to
  /\ UNCHANGED <<sCdbISA, oLock, uNewThreadId, bStopping, idVars, aoTimeouts, utility>>

\* Mutant: the application is resumed without looking at bStopping.
NeverCheckStopping ==
  /\ MainMoves("resume", "go")
  /\ UNCHANGED <<pc, bCdbWasTerminatedOnPurpose, bCdbIsRunning, bApplicationIsRunning, cdbVars>>

CheckStopping ==
  /\ MainMoves("resume", IF bStopping THEN "quit" ELSE "go")
  /\ UNCHANGED <<pc, bCdbWasTerminatedOnPurpose, bCdbIsRunning, bApplicationIsRunning, cdbVars>>

\* The g command is written before fasbReadOutput marks the application as running.
Resume ==
  /\ cdb = "prompt"
  /\ MainMoves("go", "mark")
  /\ cdb' = "running"
  /\ lastEvent' = Application
  /\ UNCHANGED <<pc, bCdbWasTerminatedOnPurpose, bCdbIsRunning, bApplicationIsRunning>>

MarkRunning ==
  /\ MainMoves("mark", "startTimer")
  /\ bApplicationIsRunning' = TRUE
  /\ UNCHANGED <<pc, bCdbWasTerminatedOnPurpose, bCdbIsRunning, cdbVars>>

StartTimer ==
  /\ MainMoves("startTimer", "read")
  /\ pc' = [pc EXCEPT ![Timer] = "poll"]
  /\ UNCHANGED <<flagVars, cdbVars>>

\* The prompt, or the end of the output of a cdb that is gone.
ReadPrompt ==
  /\ cdb # "running"
  /\ MainMoves("read", "unmark")
  /\ bCdbIsRunning' = (bCdbIsRunning /\ cdb = "prompt")
  /\ UNCHANGED <<pc, bCdbWasTerminatedOnPurpose, bApplicationIsRunning, cdbVars>>

MarkPaused ==
  /\ MainMoves("unmark", "join")
  /\ bApplicationIsRunning' = FALSE
  /\ UNCHANGED <<pc, bCdbWasTerminatedOnPurpose, bCdbIsRunning, cdbVars>>

\* Mutant: the next event is handled while the helper thread may still run.
SkipJoin ==
  /\ MainMoves("join", IF bCdbIsRunning THEN "event" ELSE "done")
  /\ UNCHANGED <<pc, flagVars, cdbVars>>

JoinTimer ==
  /\ pc[Timer] = "off"
  /\ MainMoves("join", IF bCdbIsRunning THEN "event" ELSE "done")
  /\ UNCHANGED <<pc, flagVars, cdbVars>>

\* A command cannot be sent to a cdb that is gone: cCdbStoppedException ends the thread.
CommandFails ==
  /\ cdb = "gone"
  /\ mainPc \in {"event", "go", "quit"}
  /\ MainMoves(mainPc, "done")
  /\ bCdbIsRunning' = FALSE
  /\ UNCHANGED <<pc, bCdbWasTerminatedOnPurpose, bApplicationIsRunning, cdbVars>>

Quit ==
  /\ cdb = "prompt"
  /\ MainMoves("quit", "done")
  /\ bCdbWasTerminatedOnPurpose' = TRUE
  /\ bCdbIsRunning' = FALSE
  /\ cdb' = "gone"
  /\ UNCHANGED <<pc, bApplicationIsRunning, lastEvent>>

fCdbStdInOutHelperThread ==
  \/ ftbHandleLastCdbEvent \/ fRunTimeoutCallbacks \/ CheckStopping \/ Resume \/ MarkRunning
  \/ StartTimer \/ ReadPrompt \/ MarkPaused \/ JoinTimer \/ CommandFails \/ Quit

-----------------------------------------------------------------------------
(* cdb.exe and the processes it debugs.                                    *)

Report(event) ==
  /\ cdb = "running"
  /\ cdb' = "prompt"
  /\ lastEvent' = event
  /\ UNCHANGED <<sCdbISA, threadVars, flagVars, idVars, aoTimeouts>>

ReportApplicationEvent == Report(Application) /\ UNCHANGED utility
ReportCtrlBreak == Report(Breakpoint(CtrlBreak)) /\ UNCHANGED utility

\* An interrupt thread faults, possibly after a breakpoint event of the new thread.
ReportInterruptThread(tid) ==
  /\ utility[tid] = "faulting"
  /\ \/ Report(Breakpoint(tid)) /\ UNCHANGED utility
     \/ Report(AccessViolation(tid)) /\ utility' = [utility EXCEPT ![tid] = "reported"]

ReportEcho(tid) ==
  /\ utility[tid] = "suspended"
  /\ Report(AccessViolation(tid))
  /\ UNCHANGED utility

TimePasses(o) ==
  /\ cdb = "running"
  /\ aoTimeouts[o] = "set"
  /\ aoTimeouts' = [aoTimeouts EXCEPT ![o] = "due"]
  /\ UNCHANGED <<sCdbISA, threadVars, flagVars, idVars, cdbVars, utility>>

-----------------------------------------------------------------------------

Environment ==
  \/ ReportApplicationEvent
  \/ ReportCtrlBreak
  \/ \E tid \in ThreadIds : ReportInterruptThread(tid) \/ ReportEcho(tid)
  \/ \E o \in Timeouts : TimePasses(o)

User(u) == StopRequest(u) \/ UserInterrupt(u) \/ foSetTimeout(u) \/ fClearTimeout(u)

Next ==
  \/ fCdbStdInOutHelperThread
  \/ fCdbInterruptOnTimeoutHelperThread
  \/ \E u \in Users : User(u)
  \/ Environment

Spec == Init /\ [][Next]_vars

\* Windows schedules every runnable thread, and a thread that faults is reported to cdb.
\* Nothing makes the application raise events, the user call the API or time pass.
Fairness ==
  /\ WF_vars(fCdbStdInOutHelperThread)
  /\ WF_vars(fCdbInterruptOnTimeoutHelperThread)
  /\ \A u \in Users : WF_vars(UserInterrupt(u))
  /\ WF_vars(\E tid \in ThreadIds : ReportInterruptThread(tid))

FairSpec == Spec /\ Fairness

-----------------------------------------------------------------------------
(* Safety                                                                  *)

\* Threads that will interrupt the application without anybody asking again.
Outstanding == {tid \in ThreadIds : utility[tid] = "faulting"}

\* However the callers of fInterruptApplicationExecution interleave, the application is
\* never interrupted for two of them at once: the guard at line 14 is tested and the id
\* recorded under one hold of the lock.
OneInterruptOutstanding == \A tid1, tid2 \in Outstanding : tid1 = tid2

\* A recorded interrupt thread has its access violation still to come or being handled, so
\* that the assertion at line 14 turns callers away only while the interrupt they need is on
\* its way.  Only fStop can record a thread that cdb has already reported (it may lose the
\* race between creating and recording it); the cdb stdin/out thread then stops anyway.
RecordedInterruptIsComing ==
  u0UtilityInterruptThreadId # NULL
    => utility[u0UtilityInterruptThreadId] \in {"faulting", "reported"} \/ bStopping

\* On x86 at most the previous interrupt thread is left frozen in the utility process, and
\* its id is not lost before it is terminated; x64 leaves none behind.
FrozenThreadIsRemembered ==
  \A tid \in ThreadIds :
    utility[tid] = "suspended"
      => sCdbISA = "x86" /\ (u0PreviousUtilityInterruptThreadId = tid \/ bStopping)

\* While the cdb stdin/out thread uses cdb, the helper thread has ended: it cannot start an
\* interrupt for a pause that has already happened.
TimerOnlyWhileRunning ==
  mainPc \in {"event", "timeouts", "resume", "go", "mark", "startTimer"} => pc[Timer] = "off"

\* Handling the interrupt in the utility process fails only when the session is stopping.
InterruptHandledUnlessStopping == mainPc = "failed" => bStopping

-----------------------------------------------------------------------------
(* What a step may never do                                                *)

\* The record of an interrupt is dropped only when cdb has reported an access violation of
\* a thread other than the previous one: never to make room for another interrupt.
InterruptRecordDroppedOnReport ==
  [][ u0UtilityInterruptThreadId # NULL
        => \/ u0UtilityInterruptThreadId' = u0UtilityInterruptThreadId
           \/ /\ u0UtilityInterruptThreadId' = NULL
              /\ lastEvent.kind = "accessViolation"
              /\ lastEvent.thread # u0PreviousUtilityInterruptThreadId ]_vars

-----------------------------------------------------------------------------
(* Liveness                                                                *)

\* A timeout that is due fires even if the application never raises another event, unless
\* it is cleared or debugging ends.
DueTimeoutFires == \A o \in Timeouts : aoTimeouts[o] = "due" ~> aoTimeouts[o] # "due" \/ Ended

\* A stop that is requested before the cdb stdin/out thread decides to resume, or while an
\* interrupt is on its way, ends the session.
StopWhilePausedEnds ==
  bStopping /\ (mainPc \in {"event", "timeouts", "resume"} \/ Outstanding # {}) ~> Ended

\* fStop is documented to "cleanly terminate cdb": every stop ends the session.
StopEnds == bStopping ~> Ended

=============================================================================
