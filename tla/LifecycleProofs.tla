---------------------------- MODULE LifecycleProofs ----------------------------
(***************************************************************************)
(* For an application with any number of pipes, module Lifecycle           *)
(* implements module Session: the parts of a session begin and end once,   *)
(* and "Finished" is fired once, when all of them have ended.              *)
(*                                                                         *)
(* Most steps only end parts, or change nothing of what Session sees; this *)
(* needs no invariant.  That nothing is left at "Finished" is collected by *)
(* the cleanup thread on its way: OrderInv says what it knows after each   *)
(* of its steps, of which the least obvious is that cdb is gone: either it *)
(* was terminated on purpose and is waited for, or the cleanup thread      *)
(* itself has made sure.                                                   *)
(***************************************************************************)
EXTENDS Lifecycle, TLAPS

PcOK == pc \in [Helpers -> {"none", "run", "quit", "eof"} \cup CleanupPcs \cup LeavePcs]

AfterCdb == {"applications", "waitThreads", "alone"}
AfterStdErr == {"waitCdb"} \cup AfterCdb
AfterUtility == {"waitStdErr"} \cup AfterStdErr
AfterExitCode == {"utility"} \cup AfterUtility
AfterMain == {"exitCode"} \cup AfterExitCode

\* fStart starts the threads in this order.
StartInv ==
  /\ starter # "main" => pc[Main] # "none"
  /\ starter \notin {"main", "stderr"} => pc[StdErr] # "none"
  /\ pc[Cleanup] # "none" => starter \notin {"main", "stderr", "cleanup"}

\* What the cleanup thread knows.
OrderInv ==
  /\ pc[Cleanup] \in AfterMain => pc[Main] = "ended"
  /\ pc[Cleanup] \in AfterExitCode => bCdbWasTerminatedOnPurpose \/ cdb = "gone"
  /\ pc[Cleanup] \in AfterUtility => ~utility
  /\ pc[Cleanup] \in AfterStdErr => pc[StdErr] = "ended"
  /\ pc[Cleanup] \in AfterCdb => cdb = "gone"
  /\ finished => pc[Cleanup] \in LeavePcs

LInv == PcOK /\ CdbFlagIsSafe /\ NoCdbWithoutMain /\ StartInv /\ OrderInv

-----------------------------------------------------------------------------
(* What most steps do.                                                     *)

Pcs == {"none", "run", "quit", "eof"} \cup CleanupPcs \cup LeavePcs

\* Nothing begins, nothing that has ended is back, and nothing is announced.
OnlyEnds ==
  /\ pc' \in [Helpers -> Pcs]
  /\ \A h \in {Main, StdErr} : /\ pc[h] = "none" <=> pc'[h] = "none"
                               /\ pc[h] = "ended" => pc'[h] = "ended"
  /\ cdb = "gone" => cdb' = "gone"
  /\ utility' => utility
  /\ finished' = finished

\* In addition the cleanup thread stays where it is, and cdb is not forgotten.
Quiet ==
  /\ OnlyEnds
  /\ pc'[Cleanup] = pc[Cleanup] \/ {pc[Cleanup], pc'[Cleanup]} \subseteq LeavePcs
  /\ bCdbWasTerminatedOnPurpose => bCdbWasTerminatedOnPurpose'
  /\ starter' = starter \/ {starter, starter'} \cap {"main", "stderr", "cleanup"} = {}
  /\ ~bCdbIsRunning' => cdb' # "running"
  /\ pc'[Main] = "ended" => cdb' # "running"

LEMMA Distinct ==
  /\ Main \in Helpers /\ StdErr \in Helpers /\ Cleanup \in Helpers
  /\ Main # StdErr /\ Main # Cleanup /\ StdErr # Cleanup
  /\ Main # Cdb /\ Main # Utility /\ StdErr # Cdb /\ StdErr # Utility /\ Cdb # Utility
  /\ \A p \in Pipes : p \in Helpers /\ p # Main /\ p # StdErr /\ p # Cleanup
  BY PartsAreDistinct DEF Helpers, Vital

LEMMA QuietStep == ASSUME LInv, Quiet PROVE LInv'
<1> USE Distinct DEF LInv, Quiet, OnlyEnds
<1>1. PcOK'
  BY DEF PcOK, Pcs
<1>2. CdbFlagIsSafe' /\ NoCdbWithoutMain'
  BY DEF CdbFlagIsSafe, NoCdbWithoutMain
<1>3. pc'[Cleanup] = "none" <=> pc[Cleanup] = "none"
  BY DEF LeavePcs
<1>4. StartInv'
  BY <1>3 DEF StartInv
<1>5. \A S \in {AfterMain, AfterExitCode, AfterUtility, AfterStdErr, AfterCdb} :
        pc'[Cleanup] \in S => pc[Cleanup] \in S
  BY DEF LeavePcs, AfterMain, AfterExitCode, AfterUtility, AfterStdErr, AfterCdb
<1>6. OrderInv'
  BY <1>5 DEF OrderInv
<1> QED
  BY <1>1, <1>2, <1>4, <1>6

\* A helper thread moves on its own.
LEMMA Moves ==
  ASSUME PcOK, NEW h \in Helpers, NEW from, NEW to \in Pcs, pc[h] = from, pc' = [pc EXCEPT ![h] = to]
  PROVE  /\ pc' \in [Helpers -> Pcs]
         /\ pc'[h] = to
         /\ \A g \in Helpers : g # h => pc'[g] = pc[g]
  BY DEF PcOK, Pcs

-----------------------------------------------------------------------------
(* The steps that do no more.                                              *)

\* Everything but the threads that fStart starts.
LEMMA StarterQuiet ==
  ASSUME LInv, CreateApplication \/ CheckISA \/ QueueAttach \/ TerminateOnFailure \/ fStop
  PROVE  Quiet
  BY DEF LInv, PcOK, Pcs, CdbFlagIsSafe, NoCdbWithoutMain, CreateApplication, CheckISA, FailsToDebug, QueueAttach,
         TerminateOnFailure, fStop, fTerminate, StarterMoves, Quiet, OnlyEnds, threadVars, flagVars, processVars

LEMMA EnvironmentQuiet ==
  ASSUME LInv, CdbDies \/ CdbExits \/ ApplicationEnds
  PROVE  Quiet
<1>1. UNCHANGED <<starter, pc, bCdbWasTerminatedOnPurpose, bCdbIsRunning, finished>>
  BY DEF CdbDies, CdbExits, ApplicationEnds, EnvironmentMoves, threadVars, flagVars
<1>2. (cdb = "gone" => cdb' = "gone") /\ (cdb # "running" => cdb' # "running")
  BY DEF CdbDies, CdbExits, ApplicationEnds
<1>3. utility' => utility
  <2>1. utility' \in {utility, FALSE}
    BY DEF CdbDies, CdbExits, ApplicationEnds
  <2> QED
    BY <2>1, Zenon
<1> QED
  BY <1>1, <1>2, <1>3 DEF LInv, PcOK, Pcs, CdbFlagIsSafe, NoCdbWithoutMain, Quiet, OnlyEnds

\* A thread fails or leaves.
LEMMA FailQuiet == ASSUME LInv, NEW h \in Helpers, Fail(h) PROVE Quiet
<1>1. h # Cleanup /\ pc[h] = "run" /\ pc' = [pc EXCEPT ![h] = "remove"]
  BY Distinct DEF Fail, HelperMoves
<1>2. /\ pc' \in [Helpers -> Pcs] /\ pc'[h] = "remove" /\ \A g \in Helpers : g # h => pc'[g] = pc[g]
  BY <1>1, Moves DEF LInv, Pcs, LeavePcs
<1>3. /\ starter' = starter /\ UNCHANGED <<bCdbIsRunning, utility, finished>>
      /\ cdb' \in {cdb, "gone"} /\ (bCdbWasTerminatedOnPurpose => bCdbWasTerminatedOnPurpose')
  BY DEF Fail, HelperMoves, Raise, fTerminate
<1> QED
  BY <1>1, <1>2, <1>3, Distinct DEF LInv, CdbFlagIsSafe, NoCdbWithoutMain, Quiet, OnlyEnds

LEMMA LeaveQuiet == ASSUME LInv, NEW h \in Helpers, Leave(h) PROVE Quiet
<1>1. CASE RemoveFromActive(h)
  <2>1. PICK to \in {"vital", "ended"} : /\ pc[h] = "remove" /\ pc' = [pc EXCEPT ![h] = to]
                                         /\ h \in Vital => to = "vital"
    BY <1>1 DEF RemoveFromActive
  <2>2. /\ pc' \in [Helpers -> Pcs] /\ pc'[h] = to /\ \A g \in Helpers : g # h => pc'[g] = pc[g]
    BY <2>1, Moves DEF LInv, Pcs, LeavePcs
  <2>3. UNCHANGED <<starter, flagVars, processVars, finished>>
    BY <1>1 DEF RemoveFromActive
  <2> QED
    BY <2>1, <2>2, <2>3, Distinct
       DEF LInv, CdbFlagIsSafe, NoCdbWithoutMain, Quiet, OnlyEnds, LeavePcs, Vital, flagVars, processVars
<1>2. CASE TerminateCdb(h)
  <2>1. pc[h] = "vital" /\ pc' = [pc EXCEPT ![h] = "ended"]
    BY <1>2 DEF TerminateCdb, HelperMoves
  <2>2. /\ pc' \in [Helpers -> Pcs] /\ pc'[h] = "ended" /\ \A g \in Helpers : g # h => pc'[g] = pc[g]
    BY <2>1, Moves DEF LInv, Pcs, LeavePcs
  <2>3. /\ UNCHANGED <<starter, bCdbWasTerminatedOnPurpose, utility, finished>>
        /\ cdb' \in {cdb, "gone"} /\ cdb' # "running"
    BY <1>2 DEF TerminateCdb, HelperMoves, LInv, CdbFlagIsSafe
  <2> QED
    BY <2>1, <2>2, <2>3, Distinct DEF Quiet, OnlyEnds, LeavePcs
<1> QED
  BY <1>1, <1>2 DEF Leave

\* The threads that read pipes, and the main loop when it is over.
LEMMA ReaderQuiet ==
  ASSUME LInv, NEW h \in Helpers,
         \/ h = Main /\ (BreakMainLoop \/ SendQuit \/ MainReadsEOF)
         \/ h = StdErr /\ StdErrReadsEOF
         \/ h \in Pipes /\ PipeReadsEOF(h)
  PROVE  Quiet
<1>1. PICK to \in {"quit", "eof", "remove"} :
        pc[h] \in {"run", "quit", "eof"} /\ pc' = [pc EXCEPT ![h] = to]
  BY DEF BreakMainLoop, SendQuit, MainReadsEOF, StdErrReadsEOF, PipeReadsEOF, HelperMoves
<1>2. /\ pc' \in [Helpers -> Pcs] /\ pc'[h] = to /\ \A g \in Helpers : g # h => pc'[g] = pc[g]
  BY <1>1, Moves DEF LInv, Pcs, LeavePcs
<1>3. /\ UNCHANGED <<starter, utility, finished>>
      /\ cdb = "gone" => cdb' = "gone"
      /\ cdb # "running" => cdb' # "running"
      /\ bCdbWasTerminatedOnPurpose => bCdbWasTerminatedOnPurpose'
      /\ ~bCdbIsRunning' => cdb' # "running"
  BY DEF BreakMainLoop, SendQuit, MainReadsEOF, StdErrReadsEOF, PipeReadsEOF, HelperMoves, LInv, CdbFlagIsSafe
<1>4. h # Cleanup
  BY Distinct
<1> QED
  BY <1>1, <1>2, <1>3, <1>4, Distinct DEF LInv, NoCdbWithoutMain, Quiet, OnlyEnds

-----------------------------------------------------------------------------
(* The steps of fStart that start a thread, and those of cleanup.          *)

\* What starting a thread leaves alone.
LEMMA StartMoves ==
  ASSUME LInv, NEW h \in Helpers, NEW phase \in Pcs \ {"none", "ended"}, StartHelper(h, phase)
  PROVE  /\ pc[h] = "none" /\ pc'[h] = phase /\ pc' \in [Helpers -> Pcs]
         /\ \A g \in Helpers : g # h => pc'[g] = pc[g]
         /\ UNCHANGED <<bCdbWasTerminatedOnPurpose, bCdbIsRunning, cdb, utility, finished>>
<1>1. pc[h] = "none" /\ pc' = [pc EXCEPT ![h] = phase]
  BY DEF StartHelper
<1>2. UNCHANGED <<bCdbWasTerminatedOnPurpose, bCdbIsRunning, cdb, utility, finished>>
  BY DEF StartHelper, flagVars, processVars
<1> QED
  BY <1>1, <1>2, Moves DEF LInv

LEMMA StartVitalStep == ASSUME LInv, StartMain \/ StartStdErr \/ StartCleanup PROVE LInv'
<1> USE Distinct DEF LInv
<1>1. CASE StartMain
  <2>1. StartHelper(Main, "run") /\ starter = "main" /\ starter' = "stderr"
    BY <1>1 DEF StartMain, StarterMoves
  <2>2. /\ pc[Main] = "none" /\ pc'[Main] = "run" /\ pc' \in [Helpers -> Pcs]
        /\ \A g \in Helpers : g # Main => pc'[g] = pc[g]
        /\ UNCHANGED <<bCdbWasTerminatedOnPurpose, bCdbIsRunning, cdb, utility, finished>>
    BY <2>1, StartMoves DEF Pcs
  <2>3. pc[Cleanup] = "none" /\ pc'[Cleanup] = "none"
    BY <2>1, <2>2 DEF StartInv
  <2>4. PcOK' /\ CdbFlagIsSafe' /\ NoCdbWithoutMain' /\ StartInv'
    BY <2>1, <2>2, <2>3 DEF PcOK, Pcs, CdbFlagIsSafe, NoCdbWithoutMain, StartInv
  <2>5. OrderInv'
    BY <2>2, <2>3
       DEF OrderInv, AfterMain, AfterExitCode, AfterUtility, AfterStdErr, AfterCdb, LeavePcs
  <2> QED
    BY <2>4, <2>5
<1>2. CASE StartStdErr
  <2>1. StartHelper(StdErr, "run") /\ starter = "stderr" /\ starter' = "cleanup"
    BY <1>2 DEF StartStdErr, StarterMoves
  <2>2. /\ pc[StdErr] = "none" /\ pc'[StdErr] = "run" /\ pc' \in [Helpers -> Pcs]
        /\ \A g \in Helpers : g # StdErr => pc'[g] = pc[g]
        /\ UNCHANGED <<bCdbWasTerminatedOnPurpose, bCdbIsRunning, cdb, utility, finished>>
    BY <2>1, StartMoves DEF Pcs
  <2>3. pc[Cleanup] = "none" /\ pc'[Cleanup] = "none"
    BY <2>1, <2>2 DEF StartInv
  <2>4. PcOK' /\ CdbFlagIsSafe' /\ NoCdbWithoutMain' /\ StartInv'
    BY <2>1, <2>2, <2>3 DEF PcOK, Pcs, CdbFlagIsSafe, NoCdbWithoutMain, StartInv
  <2>5. OrderInv'
    BY <2>2, <2>3
       DEF OrderInv, AfterMain, AfterExitCode, AfterUtility, AfterStdErr, AfterCdb, LeavePcs
  <2> QED
    BY <2>4, <2>5
<1>3. CASE StartCleanup
  <2>1. StartHelper(Cleanup, "waitMain") /\ starter = "cleanup" /\ starter' \in {"create", "done"}
    BY <1>3 DEF StartCleanup, StarterMoves
  <2>2. /\ pc[Cleanup] = "none" /\ pc'[Cleanup] = "waitMain" /\ pc' \in [Helpers -> Pcs]
        /\ \A g \in Helpers : g # Cleanup => pc'[g] = pc[g]
        /\ UNCHANGED <<bCdbWasTerminatedOnPurpose, bCdbIsRunning, cdb, utility, finished>>
    BY <2>1, StartMoves DEF Pcs, CleanupPcs
  <2>4. PcOK' /\ CdbFlagIsSafe' /\ NoCdbWithoutMain' /\ StartInv'
    BY <2>1, <2>2 DEF PcOK, Pcs, CdbFlagIsSafe, NoCdbWithoutMain, StartInv
  <2>5. OrderInv'
    BY <2>2
       DEF OrderInv, AfterMain, AfterExitCode, AfterUtility, AfterStdErr, AfterCdb, LeavePcs
  <2> QED
    BY <2>4, <2>5
<1> QED
  BY <1>1, <1>2, <1>3

LEMMA StartPipeQuiet == ASSUME LInv, NEW p \in Pipes, StartPipe(p) PROVE Quiet
<1>1. StartHelper(p, "run") /\ starter = "pipes" /\ starter' = "pipes"
  BY DEF StartPipe, StarterMoves
<1>2. /\ pc' \in [Helpers -> Pcs] /\ \A g \in Helpers : g # p => pc'[g] = pc[g]
      /\ UNCHANGED <<bCdbWasTerminatedOnPurpose, bCdbIsRunning, cdb, utility, finished>>
  BY <1>1, StartMoves, Distinct DEF Pcs
<1> QED
  BY <1>1, <1>2, Distinct DEF LInv, CdbFlagIsSafe, NoCdbWithoutMain, Quiet, OnlyEnds

\* A step of the cleanup thread, and what it has to have found out for the next one.
LEMMA CleanupStep ==
  ASSUME LInv, NEW from \in CleanupPcs, NEW to \in CleanupPcs \cup {"remove"},
         HelperMoves(Cleanup, from, to),
         UNCHANGED bCdbIsRunning,
         bCdbWasTerminatedOnPurpose => bCdbWasTerminatedOnPurpose',
         cdb' \in {cdb, "gone"}, utility' => utility,
         to \in AfterMain => pc[Main] = "ended",
         to \in AfterExitCode => bCdbWasTerminatedOnPurpose' \/ cdb' = "gone",
         to \in AfterUtility => ~utility',
         to \in AfterStdErr => pc[StdErr] = "ended",
         to \in AfterCdb => cdb' = "gone",
         finished' => to \in LeavePcs
  PROVE  LInv'
<1> USE Distinct DEF LInv
<1>1. pc[Cleanup] = from /\ pc' = [pc EXCEPT ![Cleanup] = to] /\ starter' = starter
  BY DEF HelperMoves
<1>2. /\ pc' \in [Helpers -> Pcs] /\ pc'[Cleanup] = to
      /\ \A g \in Helpers : g # Cleanup => pc'[g] = pc[g]
  BY <1>1, Moves DEF Pcs, LeavePcs
<1>3. PcOK' /\ CdbFlagIsSafe' /\ NoCdbWithoutMain'
  BY <1>2 DEF PcOK, Pcs, CdbFlagIsSafe, NoCdbWithoutMain
<1>4. from # "none" /\ to # "none"
  BY DEF CleanupPcs
<1>5. StartInv'
  BY <1>1, <1>2, <1>4 DEF StartInv
<1>6. OrderInv'
  BY <1>2 DEF OrderInv
<1> QED
  BY <1>3, <1>5, <1>6

LEMMA CleanupStepLInv == ASSUME LInv, fCleanupHelperThread PROVE LInv'
<1> USE DEF CleanupMoves, CleanupPcs, LeavePcs, AfterMain, AfterExitCode, AfterUtility, AfterStdErr, AfterCdb
<1>0. OrderInv
  BY DEF LInv
<1>1. CASE WaitForMain
  <2>1. HelperMoves(Cleanup, "waitMain", "exitCode") /\ pc[Main] = "ended" /\ pc[Cleanup] = "waitMain"
        /\ UNCHANGED <<bCdbIsRunning, bCdbWasTerminatedOnPurpose, cdb, utility, finished>>
    BY <1>1 DEF WaitForMain, HelperMoves
  <2> QED
    BY <1>0, <2>1, CleanupStep DEF OrderInv
<1>2. CASE CheckExitCode
  <2>1. PICK to \in {"utility", "remove"} :
          /\ HelperMoves(Cleanup, "exitCode", to) /\ pc[Cleanup] = "exitCode"
          /\ UNCHANGED <<bCdbIsRunning, utility, finished>>
          /\ cdb' \in {cdb, "gone"}
          /\ bCdbWasTerminatedOnPurpose => bCdbWasTerminatedOnPurpose'
          /\ bCdbWasTerminatedOnPurpose' \/ cdb' = "gone"
    BY <1>2 DEF CheckExitCode, HelperMoves
  <2> QED
    BY <1>0, <2>1, CleanupStep DEF OrderInv
<1>3. CASE TerminateUtility
  <2>1. HelperMoves(Cleanup, "utility", "waitStdErr") /\ pc[Cleanup] = "utility" /\ utility' = FALSE
        /\ UNCHANGED <<bCdbIsRunning, bCdbWasTerminatedOnPurpose, cdb, finished>>
    BY <1>3 DEF TerminateUtility, HelperMoves
  <2> QED
    BY <1>0, <2>1, CleanupStep DEF OrderInv
<1>4. CASE WaitForStdErr
  <2>1. HelperMoves(Cleanup, "waitStdErr", "waitCdb") /\ pc[Cleanup] = "waitStdErr" /\ pc[StdErr] = "ended"
        /\ UNCHANGED <<bCdbIsRunning, bCdbWasTerminatedOnPurpose, cdb, utility, finished>>
    BY <1>4 DEF WaitForStdErr, HelperMoves
  <2> QED
    BY <1>0, <2>1, CleanupStep DEF OrderInv
<1>5. CASE WaitForCdb
  <2>1. HelperMoves(Cleanup, "waitCdb", "applications") /\ pc[Cleanup] = "waitCdb"
        /\ (bCdbWasTerminatedOnPurpose => cdb = "gone")
        /\ UNCHANGED <<bCdbIsRunning, bCdbWasTerminatedOnPurpose, cdb, utility, finished>>
    BY <1>5 DEF WaitForCdb, HelperMoves
  <2>2. cdb' = "gone"
    BY <1>0, <2>1 DEF OrderInv
  <2> QED
    BY <1>0, <2>1, <2>2, CleanupStep DEF OrderInv
<1>6. CASE TerminateApplications
  <2>1. HelperMoves(Cleanup, "applications", "waitThreads") /\ pc[Cleanup] = "applications"
        /\ UNCHANGED <<bCdbIsRunning, bCdbWasTerminatedOnPurpose, cdb, utility, finished>>
    BY <1>6 DEF TerminateApplications, HelperMoves
  <2> QED
    BY <1>0, <2>1, CleanupStep DEF OrderInv
<1>7. CASE WaitForThreads
  <2>1. HelperMoves(Cleanup, "waitThreads", "alone") /\ pc[Cleanup] = "waitThreads"
        /\ UNCHANGED <<bCdbIsRunning, bCdbWasTerminatedOnPurpose, cdb, utility, finished>>
    BY <1>7 DEF WaitForThreads, HelperMoves
  <2> QED
    BY <1>0, <2>1, CleanupStep DEF OrderInv
<1>8. CASE FireFinished
  <2>1. HelperMoves(Cleanup, "alone", "remove") /\ pc[Cleanup] = "alone"
        /\ UNCHANGED <<bCdbIsRunning, utility>>
    BY <1>8 DEF FireFinished, HelperMoves, Raise
  <2>2. cdb' \in {cdb, "gone"}
    BY <1>8 DEF FireFinished, Raise, fTerminate
  <2>3. bCdbWasTerminatedOnPurpose => bCdbWasTerminatedOnPurpose'
    BY <1>8 DEF FireFinished, Raise, fTerminate
  <2>4. "alone" \in CleanupPcs /\ "remove" \in CleanupPcs \cup {"remove"} /\ "remove" \in LeavePcs
    OBVIOUS
  <2>5. /\ "remove" \notin AfterMain /\ "remove" \notin AfterExitCode /\ "remove" \notin AfterUtility
        /\ "remove" \notin AfterStdErr /\ "remove" \notin AfterCdb
    OBVIOUS
  <2> HIDE DEF CleanupPcs, LeavePcs, AfterMain, AfterExitCode, AfterUtility, AfterStdErr, AfterCdb
  <2> QED
    BY <2>1, <2>2, <2>3, <2>4, <2>5, CleanupStep, Zenon
<1> QED
  BY <1>1, <1>2, <1>3, <1>4, <1>5, <1>6, <1>7, <1>8 DEF fCleanupHelperThread

\* Every step is one of those above.
LEMMA Steps ==
  ASSUME LInv, Next
  PROVE  Quiet \/ StartMain \/ StartStdErr \/ StartCleanup \/ fCleanupHelperThread \/ UNCHANGED vars
<1>1. CASE fStart
  BY <1>1, StarterQuiet, StartPipeQuiet DEF fStart
<1>2. CASE fStop \/ BreakMainLoop
  BY <1>2, StarterQuiet, ReaderQuiet, Distinct
<1>3. ASSUME NEW h \in Helpers, HelperSteps(h) \/ Fail(h)
      PROVE  Quiet \/ fCleanupHelperThread
  BY <1>3, FailQuiet, LeaveQuiet, ReaderQuiet DEF HelperSteps
<1>4. CASE CdbDies \/ CdbExits \/ ApplicationEnds
  BY <1>4, EnvironmentQuiet
<1>5. CASE Done
  BY <1>5 DEF Done
<1> QED
  BY <1>1, <1>2, <1>3, <1>4, <1>5 DEF Next

LEMMA UnchangedQuiet == ASSUME LInv, UNCHANGED vars PROVE Quiet
  BY DEF vars, threadVars, flagVars, processVars, LInv, PcOK, Pcs, CdbFlagIsSafe, NoCdbWithoutMain,
         Quiet, OnlyEnds

LEMMA InitLInv == Init => LInv
<1> SUFFICES ASSUME Init PROVE LInv
  OBVIOUS
<1> QED
  BY Distinct DEF Init, LInv, PcOK, CdbFlagIsSafe, NoCdbWithoutMain, StartInv, OrderInv, AfterMain,
     AfterExitCode, AfterUtility, AfterStdErr, AfterCdb

LEMMA NextLInv == LInv /\ [Next]_vars => LInv'
  BY Steps, UnchangedQuiet, QuietStep, StartVitalStep, CleanupStepLInv

\* What the cleanup thread knows at each of its steps.
THEOREM SpecLInv == Spec => []LInv
  BY InitLInv, NextLInv, PTL DEF Spec

-----------------------------------------------------------------------------
(* Types: the list of helper threads is that of the threads that are       *)
(* started and have not left.                                              *)

ActiveInv == aoActiveHelperThreads = {h \in Helpers : pc[h] \notin {"none", "vital", "ended"}}

\* A thread that moves without starting or leaving.
LEMMA ActiveMoves ==
  ASSUME PcOK, ActiveInv, NEW h \in Helpers, NEW from \in Pcs \ {"none"}, NEW to \in Pcs \ {"none"},
         from \in {"vital", "ended"} <=> to \in {"vital", "ended"}, HelperMoves(h, from, to)
  PROVE  ActiveInv'
<1>1. pc[h] = from /\ pc' = [pc EXCEPT ![h] = to] /\ aoActiveHelperThreads' = aoActiveHelperThreads
  BY DEF HelperMoves
<1>2. pc'[h] = to /\ \A g \in Helpers : g # h => pc'[g] = pc[g]
  BY <1>1, Moves
<1>3. \A g \in Helpers : pc'[g] \notin {"none", "vital", "ended"} <=> pc[g] \notin {"none", "vital", "ended"}
  BY <1>1, <1>2
<1> QED
  BY <1>1, <1>3 DEF ActiveInv

LEMMA ActiveStarts ==
  ASSUME PcOK, ActiveInv, NEW h \in Helpers, NEW phase \in {"run", "waitMain"}, StartHelper(h, phase)
  PROVE  ActiveInv'
<1>1. pc' = [pc EXCEPT ![h] = phase] /\ aoActiveHelperThreads' = aoActiveHelperThreads \cup {h}
  BY DEF StartHelper
<1>2. pc'[h] = phase /\ \A g \in Helpers : g # h => pc'[g] = pc[g]
  BY <1>1 DEF PcOK
<1> QED
  BY <1>1, <1>2 DEF ActiveInv

LEMMA ActiveLeaves == ASSUME PcOK, ActiveInv, NEW h \in Helpers, RemoveFromActive(h) PROVE ActiveInv'
<1>1. /\ \E to \in {"vital", "ended"} : pc' = [pc EXCEPT ![h] = to]
      /\ aoActiveHelperThreads' = aoActiveHelperThreads \ {h}
  BY DEF RemoveFromActive
<1>2. pc'[h] \in {"vital", "ended"} /\ \A g \in Helpers : g # h => pc'[g] = pc[g]
  BY <1>1 DEF PcOK
<1> QED
  BY <1>1, <1>2 DEF ActiveInv

LEMMA ActiveStep == ASSUME PcOK, ActiveInv, Next PROVE ActiveInv'
<1>1. CASE UNCHANGED <<pc, aoActiveHelperThreads>>
  BY <1>1 DEF ActiveInv
<1>2. CASE fStart \/ fStop
  <2>1. CASE StartMain \/ StartStdErr \/ StartCleanup \/ \E p \in Pipes : StartPipe(p)
    BY <2>1, ActiveStarts, Distinct DEF StartMain, StartStdErr, StartCleanup, StartPipe
  <2> QED
    BY <1>1, <1>2, <2>1 DEF fStart, fStop, CreateApplication, CheckISA, QueueAttach, TerminateOnFailure, threadVars
<1>3. CASE BreakMainLoop
  BY <1>3, ActiveMoves, Distinct DEF BreakMainLoop, Pcs
<1>4. ASSUME NEW h \in Helpers, Fail(h) PROVE ActiveInv'
  BY <1>4, ActiveMoves DEF Fail, Pcs, LeavePcs
<1>5. ASSUME NEW h \in Helpers, Leave(h) PROVE ActiveInv'
  <2>1. CASE TerminateCdb(h)
    <3>1. HelperMoves(h, "vital", "ended")
      BY <2>1 DEF TerminateCdb
    <3> QED
      BY <3>1, ActiveMoves DEF Pcs, LeavePcs
  <2> QED
    BY <1>5, <2>1, ActiveLeaves DEF Leave
<1>6. ASSUME NEW h \in Helpers,
             \/ h = Main /\ (SendQuit \/ MainReadsEOF)
             \/ h = StdErr /\ StdErrReadsEOF
             \/ h \in Pipes /\ PipeReadsEOF(h)
      PROVE  ActiveInv'
  <2>1. PICK from \in {"run", "quit", "eof"}, to \in {"eof", "remove"} : HelperMoves(h, from, to)
    BY <1>6 DEF SendQuit, MainReadsEOF, StdErrReadsEOF, PipeReadsEOF
  <2> QED
    BY <2>1, ActiveMoves DEF Pcs, LeavePcs
<1>7. CASE fCleanupHelperThread
  <2>1. PICK from \in CleanupPcs, to \in CleanupPcs \cup {"remove"} : HelperMoves(Cleanup, from, to)
    BY <1>7 DEF fCleanupHelperThread, WaitForMain, CheckExitCode, TerminateUtility, WaitForStdErr,
       WaitForCdb, TerminateApplications, WaitForThreads, FireFinished, CleanupMoves, CleanupPcs
  <2> QED
    BY <2>1, ActiveMoves, Distinct DEF Pcs, LeavePcs, CleanupPcs
<1>8. CASE CdbDies \/ CdbExits \/ ApplicationEnds \/ Done
  BY <1>1, <1>8 DEF CdbDies, CdbExits, ApplicationEnds, Done, EnvironmentMoves, threadVars, vars
<1> QED
  BY <1>2, <1>3, <1>4, <1>5, <1>6, <1>7, <1>8 DEF Next, HelperSteps

FlagsOK ==
  /\ bStartsApplication \in BOOLEAN
  /\ starter \in StarterPcs
  /\ bStopping \in BOOLEAN
  /\ bCdbWasTerminatedOnPurpose \in BOOLEAN
  /\ bCdbIsRunning \in BOOLEAN
  /\ cdb \in {"running", "exiting", "gone"}
  /\ utility \in BOOLEAN
  /\ application \in {"none", "alive", "survived", "gone"}
  /\ aoApplicationProcesses \subseteq {"application"}
  /\ finished \in BOOLEAN

LEMMA FlagsStep == ASSUME FlagsOK, Next PROVE FlagsOK'
<1> USE DEF FlagsOK, flagVars, processVars
<1>1. CASE fStart \/ fStop
  <2> USE DEF StarterMoves, StarterPcs
  <2>1. CASE StartMain \/ StartStdErr
    BY <2>1 DEF StartMain, StartStdErr, StartHelper
  <2>2. CASE StartCleanup
    BY <2>2 DEF StartCleanup, StartHelper
  <2>3. ASSUME NEW p \in Pipes, StartPipe(p) PROVE FlagsOK'
    BY <2>3 DEF StartPipe, StartHelper
  <2>4. CASE CreateApplication \/ CheckISA \/ QueueAttach
    <3>1. starter' \in StarterPcs
      BY <2>4 DEF CreateApplication, CheckISA, FailsToDebug, QueueAttach
    <3>2. /\ application' \in {application, "alive", "gone"}
          /\ aoApplicationProcesses' \in {aoApplicationProcesses, {"application"}}
          /\ UNCHANGED <<bStartsApplication, flagVars, cdb, utility, finished>>
      BY <2>4 DEF CreateApplication, CheckISA, QueueAttach
    <3> QED
      BY <3>1, <3>2
  <2>5. CASE TerminateOnFailure \/ fStop
    BY <2>5 DEF TerminateOnFailure, fTerminate, fStop
  <2> QED
    BY <1>1, <2>1, <2>2, <2>3, <2>4, <2>5 DEF fStart
<1>2. CASE BreakMainLoop
  BY <1>2 DEF BreakMainLoop, HelperMoves
<1>3. ASSUME NEW h \in Helpers, Fail(h) \/ Leave(h) PROVE FlagsOK'
  BY <1>3 DEF Fail, Raise, fTerminate, HelperMoves, Leave, RemoveFromActive, TerminateCdb
<1>4. ASSUME SendQuit \/ MainReadsEOF \/ StdErrReadsEOF \/ \E p \in Pipes : PipeReadsEOF(p) PROVE FlagsOK'
  BY <1>4 DEF SendQuit, MainReadsEOF, StdErrReadsEOF, PipeReadsEOF, HelperMoves
<1>5. CASE fCleanupHelperThread
  <2> USE DEF CleanupMoves, HelperMoves
  <2>1. CASE WaitForMain \/ CheckExitCode \/ TerminateUtility \/ WaitForStdErr
    BY <2>1 DEF WaitForMain, CheckExitCode, TerminateUtility, WaitForStdErr
  <2>2. CASE WaitForCdb \/ TerminateApplications \/ WaitForThreads
    BY <2>2 DEF WaitForCdb, TerminateApplications, WaitForThreads
  <2>3. CASE FireFinished
    BY <2>3 DEF FireFinished, Raise, fTerminate
  <2> QED
    BY <1>5, <2>1, <2>2, <2>3 DEF fCleanupHelperThread
<1>6. CASE CdbDies \/ CdbExits \/ ApplicationEnds \/ Done
  <2>1. utility' \in BOOLEAN
    BY <1>6, Zenon DEF CdbDies, CdbExits, ApplicationEnds, Done, vars
  <2>2. /\ cdb' \in {"running", "exiting", "gone"} /\ application' \in {"none", "alive", "survived", "gone"}
        /\ UNCHANGED <<bStartsApplication, starter, flagVars, aoApplicationProcesses, finished>>
    BY <1>6 DEF CdbDies, CdbExits, ApplicationEnds, Done, EnvironmentMoves, vars
  <2> QED
    BY <2>1, <2>2
<1> QED
  BY <1>1, <1>2, <1>3, <1>4, <1>5, <1>6 DEF Next, HelperSteps

\* Every variable keeps its type; the list of active helper threads, which cleanup waits for, is
\* exactly that of the threads that have been started and have not left it.
THEOREM SpecTypeOK == Spec => []TypeOK
<1> DEFINE I == LInv /\ ActiveInv /\ FlagsOK
<1>1. Init => ActiveInv /\ FlagsOK
  BY DEF Init, ActiveInv, FlagsOK, StarterPcs
<1>2. I /\ [Next]_vars => I'
  <2> SUFFICES ASSUME I, [Next]_vars PROVE I'
    OBVIOUS
  <2>1. CASE UNCHANGED vars
    BY <2>1, NextLInv DEF vars, threadVars, flagVars, processVars, ActiveInv, FlagsOK
  <2>2. CASE Next
    BY <2>2, NextLInv, ActiveStep, FlagsStep DEF LInv
  <2> QED
    BY <2>1, <2>2
<1>3. I => TypeOK
  BY DEF LInv, PcOK, ActiveInv, FlagsOK, TypeOK
<1> QED
  BY <1>1, <1>2, <1>3, InitLInv, PTL DEF Spec

\* No thread that handles the events of cdb has ended while cdb runs.
THEOREM SpecNoCdbWithoutMain == Spec => []NoCdbWithoutMain
<1>1. LInv => NoCdbWithoutMain
  BY DEF LInv
<1> QED
  BY <1>1, SpecLInv, PTL

\* bCdbIsRunning is cleared only when cdb has closed its pipes.
THEOREM SpecCdbFlagIsSafe == Spec => []CdbFlagIsSafe
<1>1. LInv => CdbFlagIsSafe
  BY DEF LInv
<1> QED
  BY <1>1, SpecLInv, PTL

-----------------------------------------------------------------------------
(* The refinement.                                                         *)

Begun == {Cdb, Utility} \cup {h \in {Main, StdErr} : pc[h] # "none"}
Alive == (IF cdb # "gone" THEN {Cdb} ELSE {}) \cup (IF utility THEN {Utility} ELSE {})
           \cup {h \in {Main, StdErr} : pc[h] \notin {"none", "ended"}}

\* A step that only ends parts is the step End of Session.
LEMMA OnlyEndsRefines == ASSUME OnlyEnds PROVE Promise!Next
<1>1. Begun' = Begun
  BY DEF OnlyEnds, Begun
<1>2. Alive' \subseteq Alive
  BY DEF OnlyEnds, Alive
<1>3. Alive \ Alive' \in SUBSET Parts
  BY DEF Alive, Parts
<1>4. Alive' = Alive \ (Alive \ Alive') /\ finished' = finished
  BY <1>2 DEF OnlyEnds
<1>5. PICK ps \in SUBSET Parts : Alive' = Alive \ ps
  BY <1>3, <1>4
<1>6. Promise!End(ps)
  BY <1>1, <1>4, <1>5 DEF Promise!End, Begun, Alive
<1> QED
  BY <1>6 DEF Promise!Next

\* A thread that fStart starts begins.
LEMMA StartRefines ==
  ASSUME LInv, NEW h \in {Main, StdErr}, StartHelper(h, "run")
  PROVE  Promise!Begin(h)
<1>1. /\ pc[h] = "none" /\ pc'[h] = "run" /\ \A g \in Helpers : g # h => pc'[g] = pc[g]
      /\ UNCHANGED <<cdb, utility, finished>>
  BY StartMoves, Distinct DEF Pcs
<1>2. h \notin Begun /\ Begun' = Begun \cup {h}
  BY <1>1, Distinct DEF Begun
<1>3. Alive' = Alive \cup {h}
  BY <1>1, Distinct DEF Alive
<1> QED
  BY <1>1, <1>2, <1>3 DEF Promise!Begin, Begun, Alive

\* "Finished" is fired when every part has begun and ended, and for the first time.
LEMMA FireFinishedRefines ==
  ASSUME LInv, FireFinished, finished' # finished
  PROVE  Promise!Finish
<1>1. /\ pc[Cleanup] = "alone" /\ pc' = [pc EXCEPT ![Cleanup] = "remove"]
      /\ UNCHANGED <<cdb, utility>> /\ finished' = TRUE
  BY DEF FireFinished, CleanupMoves, HelperMoves, Raise
<1>2. /\ pc[Main] = "ended" /\ pc[StdErr] = "ended" /\ cdb = "gone" /\ ~utility /\ ~finished
  BY <1>1 DEF LInv, OrderInv, AfterMain, AfterExitCode, AfterUtility, AfterStdErr, AfterCdb, LeavePcs
<1>3. \A g \in {Main, StdErr} : pc'[g] = pc[g]
  BY <1>1, Moves, Distinct DEF LInv, Pcs, LeavePcs
<1>4. Begun = Parts /\ Begun' = Begun
  BY <1>2, <1>3 DEF Begun, Parts
<1>5. Alive = {}
  BY <1>2 DEF Alive
<1>6. Alive' = {}
  BY <1>1, <1>2, <1>3 DEF Alive
<1> QED
  BY <1>1, <1>2, <1>4, <1>5, <1>6 DEF Promise!Finish, Begun, Alive

\* The other steps of the cleanup thread only end parts.
LEMMA CleanupRefines ==
  ASSUME LInv, fCleanupHelperThread
  PROVE  OnlyEnds \/ Promise!Finish
<1>1. CASE FireFinished /\ finished' # finished
  BY <1>1, FireFinishedRefines
<1>2. CASE ~(FireFinished /\ finished' # finished)
  <2>1. PICK from \in CleanupPcs, to \in CleanupPcs \cup {"remove"} :
          pc[Cleanup] = from /\ pc' = [pc EXCEPT ![Cleanup] = to]
    BY DEF fCleanupHelperThread, WaitForMain, CheckExitCode, TerminateUtility, WaitForStdErr, WaitForCdb,
           TerminateApplications, WaitForThreads, FireFinished, CleanupMoves, HelperMoves, CleanupPcs
  <2>2. /\ pc' \in [Helpers -> Pcs] /\ \A g \in Helpers : g # Cleanup => pc'[g] = pc[g]
    BY <2>1, Moves, Distinct DEF LInv, Pcs, LeavePcs
  <2>3. /\ cdb = "gone" => cdb' = "gone"
        /\ utility' => utility
        /\ finished' = finished
    BY <1>2 DEF fCleanupHelperThread, WaitForMain, CheckExitCode, TerminateUtility, WaitForStdErr,
         WaitForCdb, TerminateApplications, WaitForThreads, FireFinished, Raise, fTerminate
  <2> QED
    BY <2>2, <2>3, Distinct DEF OnlyEnds
<1> QED
  BY <1>1, <1>2

LEMMA InitRefines == Init => Promise!Init
<1> SUFFICES ASSUME Init PROVE Promise!Init
  OBVIOUS
<1>1. Begun = {Cdb, Utility}
  BY Distinct DEF Init, Begun
<1>2. Alive = {Cdb, Utility}
  BY Distinct DEF Init, Alive
<1> QED
  BY <1>1, <1>2 DEF Promise!Init, Begun, Alive, Parts, Init

LEMMA NextRefines == LInv /\ [Next]_vars => [Promise!Next]_(Promise!vars)
<1> SUFFICES ASSUME LInv, [Next]_vars PROVE [Promise!Next]_(Promise!vars)
  OBVIOUS
<1>1. ASSUME OnlyEnds PROVE Promise!Next
  BY <1>1, OnlyEndsRefines
<1>2. CASE StartMain \/ StartStdErr
  <2>1. PICK h \in {Main, StdErr} : StartHelper(h, "run")
    BY <1>2 DEF StartMain, StartStdErr
  <2>2. Promise!Begin(h)
    BY <2>1, StartRefines
  <2> QED
    BY <2>2 DEF Promise!Next, Parts
<1>3. CASE StartCleanup
  <2>1. StartHelper(Cleanup, "waitMain")
    BY <1>3 DEF StartCleanup
  <2>2. /\ pc' \in [Helpers -> Pcs] /\ \A g \in Helpers : g # Cleanup => pc'[g] = pc[g]
        /\ UNCHANGED <<cdb, utility, finished>>
    BY <2>1, StartMoves, Distinct DEF Pcs, CleanupPcs
  <2>3. OnlyEnds
    BY <2>2, Distinct DEF OnlyEnds
  <2> QED
    BY <2>3, <1>1
<1>4. CASE fCleanupHelperThread
  BY <1>1, <1>4, CleanupRefines DEF Promise!Next
<1>5. CASE Quiet
  BY <1>1, <1>5 DEF Quiet
<1> QED
  BY <1>2, <1>3, <1>4, <1>5, Steps, UnchangedQuiet

\* A session keeps the promise of module Session: no part is reported to have ended that has not,
\* and "Finished" is fired once, after all of them.
THEOREM SpecKeepsPromise == Spec => KeepsPromise
  BY InitRefines, NextRefines, SpecLInv, PTL DEF Spec, KeepsPromise, Promise!Spec
===============================================================================
