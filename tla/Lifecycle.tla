----------------------------- MODULE Lifecycle -----------------------------
(***************************************************************************)
(* How a debugging session starts and how it is taken down again.          *)
(*                                                                         *)
(* fStart creates the utility process and cdb.exe, then starts the helper  *)
(* threads: one that talks to cdb (Main), one that reads cdb's stderr, and *)
(* the cleanup thread.  If there is an application to start it then does   *)
(* so, while those threads already run, and starts a helper thread for     *)
(* each of the application's pipes.  The cleanup thread waits until Main   *)
(* has ended, takes down what is left and fires "Finished", which releases *)
(* the lock cBugId.fWait waits for.                                        *)
(*                                                                         *)
(* What Main does while it runs is in modules CdbInterrupt, AttachQueue    *)
(* and others: here it ends at any time, in any of the ways it can.        *)
(***************************************************************************)
CONSTANTS
  Main, StdErr, Cleanup,  \* the vital helper threads
  Pipes,                  \* a helper thread per redirected pipe of the application
  Cdb, Utility            \* the processes every session has

Vital == {Main, StdErr, Cleanup}
Helpers == Vital \cup Pipes

ASSUME PartsAreDistinct ==
  /\ Main \notin {StdErr, Cleanup, Cdb, Utility} /\ StdErr \notin {Cleanup, Cdb, Utility}
  /\ Cleanup \notin {Cdb, Utility} /\ Cdb # Utility
  /\ Pipes \cap {Main, StdErr, Cleanup, Cdb, Utility} = {}

VARIABLES
  bStartsApplication,         \* whether fStart has a binary to start; never changes
  starter,                    \* what fStart does next
  pc,                         \* what each helper thread does next
  aoActiveHelperThreads,
  bStopping,
  bCdbWasTerminatedOnPurpose,
  bCdbIsRunning,
  cdb,                        \* running, exiting with its pipes closed, or gone
  utility,                    \* whether the utility process exists
  application,                \* the process fStart creates; "survived" when terminating it failed
  aoApplicationProcesses,     \* {} or {"application"}
  finished                    \* the lock fWait waits for has been released

threadVars == <<pc, aoActiveHelperThreads>>
flagVars == <<bStopping, bCdbWasTerminatedOnPurpose, bCdbIsRunning>>
processVars == <<cdb, utility, application, aoApplicationProcesses>>
vars == <<bStartsApplication, starter, threadVars, flagVars, processVars, finished>>

StarterPcs ==
  {"main", "stderr", "cleanup", "create", "isa", "pipes", "queue", "terminate", "done"}
CleanupPcs ==
  {"waitMain", "exitCode", "utility", "waitStdErr", "waitCdb", "applications", "waitThreads",
   "alone"}
LeavePcs == {"remove", "vital", "ended"}

TypeOK ==
  /\ bStartsApplication \in BOOLEAN
  /\ starter \in StarterPcs
  /\ pc \in [Helpers -> {"none", "run", "quit", "eof"} \cup CleanupPcs \cup LeavePcs]
  /\ aoActiveHelperThreads = {h \in Helpers : pc[h] \notin {"none", "vital", "ended"}}
  /\ bStopping \in BOOLEAN
  /\ bCdbWasTerminatedOnPurpose \in BOOLEAN
  /\ bCdbIsRunning \in BOOLEAN
  /\ cdb \in {"running", "exiting", "gone"}
  /\ utility \in BOOLEAN
  /\ application \in {"none", "alive", "survived", "gone"}
  /\ aoApplicationProcesses \subseteq {"application"}
  /\ finished \in BOOLEAN

Init ==
  /\ bStartsApplication \in BOOLEAN
  /\ starter = "main"
  /\ pc = [h \in Helpers |-> "none"]
  /\ aoActiveHelperThreads = {}
  /\ bStopping = FALSE
  /\ bCdbWasTerminatedOnPurpose = FALSE
  /\ bCdbIsRunning = TRUE
  /\ cdb = "running"
  /\ utility = TRUE
  /\ application = "none"
  /\ aoApplicationProcesses = {}
  /\ finished = FALSE

-----------------------------------------------------------------------------
(* fStart, in the thread that calls it.                                    *)

\* Helper threads are listed as active before they run, and fStart waits until they do.
StartHelper(h, phase) ==
  /\ pc[h] = "none"
  /\ pc' = [pc EXCEPT ![h] = phase]
  /\ aoActiveHelperThreads' = aoActiveHelperThreads \cup {h}
  /\ UNCHANGED <<bStartsApplication, flagVars, processVars, finished>>

StarterMoves(from, to) ==
  /\ starter = from
  /\ starter' = to

StartMain == StarterMoves("main", "stderr") /\ StartHelper(Main, "run")
StartStdErr == StarterMoves("stderr", "cleanup") /\ StartHelper(StdErr, "run")
StartCleanup ==
  /\ StarterMoves("cleanup", IF bStartsApplication THEN "create" ELSE "done")
  /\ StartHelper(Cleanup, "waitMain")

\* "Failed to debug application" is fired, after which fStart terminates cdb; when there is no
\* callback for it, an assertion leaves fStart at once.
FailsToDebug(from) == \E to \in {"terminate", "done"} : StarterMoves(from, to)

\* The process is created suspended; it cannot be if Windows refuses.
CreateApplication ==
  /\ \/ /\ StarterMoves("create", "isa")
        /\ application' = "alive"
        /\ aoApplicationProcesses' = {"application"}
     \/ /\ FailsToDebug("create")
        /\ UNCHANGED <<application, aoApplicationProcesses>>
  /\ UNCHANGED <<bStartsApplication, threadVars, flagVars, cdb, utility, finished>>

\* A 32-bit cdb cannot debug a 64-bit process, which is terminated.  If that takes more than 5
\* seconds an assertion leaves fStart.
CheckISA ==
  /\ \/ StarterMoves("isa", "pipes") /\ UNCHANGED application
     \/ FailsToDebug("isa") /\ application' = "gone"
     \/ StarterMoves("isa", "done") /\ UNCHANGED application
  /\ UNCHANGED <<bStartsApplication, threadVars, flagVars, cdb, utility, aoApplicationProcesses,
                 finished>>

StartPipe(p) == StarterMoves("pipes", "pipes") /\ StartHelper(p, "run")

QueueAttach ==
  /\ \A p \in Pipes : pc[p] # "none"
  /\ StarterMoves("pipes", "done")
  /\ UNCHANGED <<bStartsApplication, threadVars, flagVars, processVars, finished>>

\* fTerminate: cdb is terminated at once and its pipes close.
fTerminate ==
  /\ bCdbWasTerminatedOnPurpose' = TRUE
  /\ cdb' = "gone"

TerminateOnFailure ==
  /\ StarterMoves("terminate", "done")
  /\ fTerminate
  /\ UNCHANGED <<bStartsApplication, threadVars, bStopping, bCdbIsRunning, utility, application,
                 aoApplicationProcesses, finished>>

fStart ==
  \/ StartMain \/ StartStdErr \/ StartCleanup \/ CreateApplication \/ CheckISA
  \/ \E p \in Pipes : StartPipe(p)
  \/ QueueAttach \/ TerminateOnFailure

\* fStop can be called by any thread as soon as fStart has been called.
fStop ==
  /\ ~bStopping
  /\ bStopping' = TRUE
  /\ bCdbWasTerminatedOnPurpose' = TRUE
  /\ UNCHANGED <<bStartsApplication, starter, threadVars, bCdbIsRunning, processVars, finished>>

-----------------------------------------------------------------------------
(* The body of a helper thread and what cHelperThread does after it.       *)

HelperMoves(h, from, to) ==
  /\ pc[h] = from
  /\ pc' = [pc EXCEPT ![h] = to]
  /\ UNCHANGED <<bStartsApplication, starter, aoActiveHelperThreads, bStopping, aoApplicationProcesses>>

\* An exception in the activity fires "Internal exception", whose callback may call fStop.
\* When there is no callback cdb is terminated.
Raise ==
  /\ \/ UNCHANGED <<bCdbWasTerminatedOnPurpose, cdb>>
     \/ bCdbWasTerminatedOnPurpose' = TRUE /\ UNCHANGED cdb
     \/ fTerminate
  /\ UNCHANGED <<bCdbIsRunning, utility, application, finished>>

Fail(h) ==
  /\ h \in {Main, StdErr} \cup Pipes
  /\ HelperMoves(h, "run", "remove")
  /\ Raise

\* Mutant: a thread that ends stays on the list.
StayActive(h) ==
  /\ pc[h] = "remove"
  /\ pc' = [pc EXCEPT ![h] = IF h \in Vital THEN "vital" ELSE "ended"]
  /\ UNCHANGED <<bStartsApplication, starter, aoActiveHelperThreads, flagVars, processVars, finished>>

RemoveFromActive(h) ==
  /\ pc[h] = "remove"
  /\ pc' = [pc EXCEPT ![h] = IF h \in Vital THEN "vital" ELSE "ended"]
  /\ aoActiveHelperThreads' = aoActiveHelperThreads \ {h}
  /\ UNCHANGED <<bStartsApplication, starter, flagVars, processVars, finished>>

\* Mutant: a vital thread ends without terminating cdb.
LeaveCdbRunning(h) ==
  /\ HelperMoves(h, "vital", "ended")
  /\ bCdbIsRunning' = FALSE
  /\ UNCHANGED <<bCdbWasTerminatedOnPurpose, cdb, utility, application, finished>>

\* A vital thread does not leave cdb running behind it.
TerminateCdb(h) ==
  /\ HelperMoves(h, "vital", "ended")
  /\ cdb' = IF bCdbIsRunning THEN "gone" ELSE cdb
  /\ bCdbIsRunning' = FALSE
  /\ UNCHANGED <<bCdbWasTerminatedOnPurpose, utility, application, finished>>

Leave(h) == RemoveFromActive(h) \/ TerminateCdb(h)

-----------------------------------------------------------------------------
(* The threads that talk to cdb and to the application.                    *)

\* The main loop is over: nothing is left to debug, a bug is fatal, or fStop was called.
BreakMainLoop ==
  /\ HelperMoves(Main, "run", "quit")
  /\ bCdbWasTerminatedOnPurpose' = TRUE
  /\ UNCHANGED <<bCdbIsRunning, cdb, utility, application, finished>>

SendQuit ==
  /\ cdb = "running"
  /\ HelperMoves(Main, "quit", "eof")
  /\ cdb' = "exiting"
  /\ UNCHANGED <<bCdbWasTerminatedOnPurpose, bCdbIsRunning, utility, application, finished>>

\* The stdout pipe of cdb is closed.
MainReadsEOF ==
  /\ cdb # "running"
  /\ pc[Main] \in {"run", "quit", "eof"}
  /\ HelperMoves(Main, pc[Main], "remove")
  /\ bCdbIsRunning' = FALSE
  /\ UNCHANGED <<bCdbWasTerminatedOnPurpose, cdb, utility, application, finished>>

StdErrReadsEOF ==
  /\ cdb # "running"
  /\ HelperMoves(StdErr, "run", "remove")
  /\ bCdbIsRunning' = FALSE
  /\ UNCHANGED <<bCdbWasTerminatedOnPurpose, cdb, utility, application, finished>>

PipeReadsEOF(p) ==
  /\ application = "gone"
  /\ HelperMoves(p, "run", "remove")
  /\ UNCHANGED <<bCdbWasTerminatedOnPurpose, bCdbIsRunning, cdb, utility, application, finished>>

-----------------------------------------------------------------------------
(* The cleanup thread.                                                     *)

CleanupMoves(from, to) ==
  /\ HelperMoves(Cleanup, from, to)
  /\ UNCHANGED <<bCdbIsRunning>>

WaitForMain ==
  /\ pc[Main] = "ended"
  /\ CleanupMoves("waitMain", "exitCode")
  /\ UNCHANGED <<bCdbWasTerminatedOnPurpose, cdb, utility, application, finished>>

\* A cdb that was not terminated on purpose must have exited with STATUS_PROCESS_IS_TERMINATING.
CheckExitCode ==
  \/ /\ bCdbWasTerminatedOnPurpose
     /\ CleanupMoves("exitCode", "utility")
     /\ UNCHANGED <<bCdbWasTerminatedOnPurpose, cdb, utility, application, finished>>
  \/ /\ ~bCdbWasTerminatedOnPurpose
     /\ CleanupMoves("exitCode", "utility")
     /\ cdb' = "gone"
     /\ UNCHANGED <<bCdbWasTerminatedOnPurpose, utility, application, finished>>
  \/ /\ ~bCdbWasTerminatedOnPurpose
     /\ HelperMoves(Cleanup, "exitCode", "remove")
     /\ cdb' = "gone"
     /\ bCdbWasTerminatedOnPurpose' \in BOOLEAN
     /\ UNCHANGED <<bCdbIsRunning, utility, application, finished>>

\* fbTerminate is given no time limit: it returns when the process is gone.
TerminateUtility ==
  /\ CleanupMoves("utility", "waitStdErr")
  /\ utility' = FALSE
  /\ UNCHANGED <<bCdbWasTerminatedOnPurpose, cdb, application, finished>>

WaitForStdErr ==
  /\ pc[StdErr] = "ended"
  /\ CleanupMoves("waitStdErr", "waitCdb")
  /\ UNCHANGED <<bCdbWasTerminatedOnPurpose, cdb, utility, application, finished>>

\* Mutant: only a cdb that was not terminated on purpose is waited for.
SkipCdb ==
  /\ CleanupMoves("waitCdb", "applications")
  /\ UNCHANGED <<bCdbWasTerminatedOnPurpose, cdb, utility, application, finished>>

WaitForCdb ==
  /\ bCdbWasTerminatedOnPurpose => cdb = "gone"
  /\ CleanupMoves("waitCdb", "applications")
  /\ UNCHANGED <<bCdbWasTerminatedOnPurpose, cdb, utility, application, finished>>

\* Mutant: the application processes are left alone.
SkipApplications ==
  /\ CleanupMoves("applications", "waitThreads")
  /\ UNCHANGED <<bCdbWasTerminatedOnPurpose, cdb, utility, application, finished>>

\* That a process cannot be terminated is logged, and no reason to stop.
TerminateApplications ==
  /\ CleanupMoves("applications", "waitThreads")
  /\ application' \in IF aoApplicationProcesses # {} /\ application = "alive"
                        THEN {"gone", "survived"} ELSE {application}
  /\ UNCHANGED <<bCdbWasTerminatedOnPurpose, cdb, utility, finished>>

WaitForThreads ==
  /\ aoActiveHelperThreads \subseteq {Cleanup}
  /\ CleanupMoves("waitThreads", "alone")
  /\ UNCHANGED <<bCdbWasTerminatedOnPurpose, cdb, utility, application, finished>>

FireFinished ==
  \/ /\ aoActiveHelperThreads = {Cleanup}
     /\ CleanupMoves("alone", "remove")
     /\ finished' = TRUE
     /\ UNCHANGED <<bCdbWasTerminatedOnPurpose, cdb, utility, application>>
  \/ /\ aoActiveHelperThreads # {Cleanup}
     /\ HelperMoves(Cleanup, "alone", "remove")
     /\ Raise

fCleanupHelperThread ==
  \/ WaitForMain \/ CheckExitCode \/ TerminateUtility \/ WaitForStdErr \/ WaitForCdb
  \/ TerminateApplications \/ WaitForThreads \/ FireFinished

-----------------------------------------------------------------------------
(* Windows.                                                                *)

EnvironmentMoves ==
  UNCHANGED <<bStartsApplication, starter, threadVars, flagVars, aoApplicationProcesses, finished>>

CdbDies == cdb = "running" /\ cdb' = "exiting" /\ EnvironmentMoves /\ UNCHANGED <<utility, application>>

\* A debugger takes the processes it is attached to with it.
CdbExits ==
  /\ cdb = "exiting"
  /\ cdb' = "gone"
  /\ utility' \in {utility, FALSE}
  /\ application' \in {application} \cup (IF application = "alive" THEN {"gone"} ELSE {})
  /\ EnvironmentMoves

ApplicationEnds ==
  /\ application \in {"alive", "survived"}
  /\ application' = "gone"
  /\ EnvironmentMoves
  /\ UNCHANGED <<cdb, utility>>

-----------------------------------------------------------------------------

HelperSteps(h) ==
  \/ Leave(h)
  \/ h = Main /\ (SendQuit \/ MainReadsEOF)
  \/ h = StdErr /\ StdErrReadsEOF
  \/ h \in Pipes /\ PipeReadsEOF(h)
  \/ h = Cleanup /\ fCleanupHelperThread

Done ==
  /\ starter = "done"
  /\ \A h \in Helpers : pc[h] \in {"none", "ended"}
  /\ UNCHANGED vars

Next ==
  \/ fStart \/ fStop \/ BreakMainLoop
  \/ \E h \in Helpers : HelperSteps(h) \/ Fail(h)
  \/ CdbDies \/ CdbExits \/ ApplicationEnds
  \/ Done

Spec == Init /\ [][Next]_vars

\* Windows schedules every thread and lets a process that exits be gone.  Nothing makes the main
\* loop end, cdb die or the application end.
Fairness ==
  /\ WF_vars(fStart)
  /\ \A h \in Helpers : WF_vars(HelperSteps(h))
  /\ WF_vars(CdbExits)

FairSpec == Spec /\ Fairness

-----------------------------------------------------------------------------
(* Safety                                                                  *)

\* However the cdb stdin/out thread ends - "q", an exception, cdb gone - cdb has closed its
\* pipes or is gone by then: no thread is left to handle its events.
NoCdbWithoutMain == pc[Main] = "ended" => cdb # "running"

\* A thread that finds bCdbIsRunning cleared can rely on cdb having closed its pipes.
CdbFlagIsSafe == ~bCdbIsRunning => cdb # "running"

\* The session keeps the promise of module Session for the parts every session has.
Parts == {Main, StdErr, Cdb, Utility}

Promise == INSTANCE Session WITH
  Parts <- Parts,
  begun <- {Cdb, Utility} \cup {h \in {Main, StdErr} : pc[h] # "none"},
  alive <- (IF cdb # "gone" THEN {Cdb} ELSE {}) \cup (IF utility THEN {Utility} ELSE {})
             \cup {h \in {Main, StdErr} : pc[h] \notin {"none", "ended"}},
  finished <- finished

KeepsPromise == Promise!Spec

-----------------------------------------------------------------------------
(* Liveness                                                                *)

\* If the session was stopped on purpose and fStart has returned by the time the cdb stdin/out
\* thread has ended, "Finished" fires and fWait returns: no thread the cleanup thread waits for
\* waits for something in turn.  The one exception is an application that could not be
\* terminated and never ends: the threads that read its pipes are waited for without a time
\* limit, "so we may hang forever".
StoppedSessionFinishes ==
  (/\ pc[Main] = "ended" /\ pc[Cleanup] = "waitMain"
   /\ bCdbWasTerminatedOnPurpose /\ starter = "done")
    ~> (finished \/ [](application = "survived"))

-----------------------------------------------------------------------------
(* What the comments say                                                   *)

\* fCleanupHelperThread: "Make sure all application processes we started are terminated".  One
\* that it tried to terminate and could not is not counted: it was logged.
NoApplicationLeft == finished => application # "alive"
=============================================================================
