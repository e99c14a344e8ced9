---------------------------- MODULE CPUUsageWorm ----------------------------
(***************************************************************************)
(* cExcessiveCPUUsageDetector: how the function that uses too much CPU is  *)
(* found with breakpoints and timeouts.                                    *)
(*                                                                         *)
(* When the CPU usage over an interval is excessive, a "worm" breakpoint   *)
(* is set where the busiest thread is.  Each time it is hit it moves to    *)
(* the return address, up the stack.  When it is not hit for some time,    *)
(* the bug breakpoint is set where the worm was hit last, and a bug is     *)
(* reported when that is hit.                                              *)
(*                                                                         *)
(* Everything happens in callbacks of timeouts and of breakpoints, on the  *)
(* cdb stdin/out thread, except that fStartTimeout can be called by        *)
(* another thread.  One thread of one process is watched; another process  *)
(* keeps the session going when it terminates.  A function is one address: *)
(* what is executed over and over in it.  A stack pointer is the depth of  *)
(* the stack: less deep is a higher stack pointer.                         *)
(*                                                                         *)
(* Left out: the late exceptions of removed breakpoints, which are         *)
(* ignored, and how CPU usage is measured: it is excessive or not.         *)
(***************************************************************************)
EXTENDS Naturals, Sequences, SequencesExt, Lists

CONSTANTS
  Functions,     \* what the watched thread executes
  Startup,       \* the return address of its first function
  NotExecutable, \* the addresses where no breakpoint can be set
  MaxDepth,      \* bound: the depth of its stack
  TimeoutIds,    \* bound: the timeouts that exist at the same time
  Careful,       \* whether the API is not used twice at a time, nor while timeouts are fired
  NULL           \* Python's None

ASSUME CPUUsageWormAssumption ==
  /\ Startup \notin Functions
  /\ NotExecutable \subseteq {Startup}
  /\ NULL \notin Functions \cup {Startup} \cup TimeoutIds
  /\ MaxDepth \in Nat \ {0}
  /\ Careful \in BOOLEAN

Addresses == Functions \cup {Startup}

VARIABLES
  sUse,                    \* which of the two entries of the API is used
  mainPc,                  \* what the cdb stdin/out thread does
  sProcess,                \* the watched process
  stack,                   \* the functions of the watched thread
  aoTimeouts,              \* what each is for and whether it is due
  aoTimeoutsToFire,
  bStarted,
  oStartTimeout, oCleanupTimeout, oCheckUsageTimeout, oWormRunTimeout,
  dfCallback_by_uAddress,  \* the role of the breakpoint at each address
  uWormBreakpointId,       \* identified by its address
  uBugBreakpointId,
  uLastInstructionPointer, uLastDepth, uNextBreakpointAddress,
  reported                 \* the depth at which a bug was reported

handleVars == <<oStartTimeout, oCleanupTimeout, oCheckUsageTimeout, oWormRunTimeout>>
breakpointVars == <<dfCallback_by_uAddress, uWormBreakpointId, uBugBreakpointId>>
lastVars == <<uLastInstructionPointer, uLastDepth, uNextBreakpointAddress>>
vars == <<sUse, mainPc, sProcess, stack, aoTimeouts, aoTimeoutsToFire, bStarted, handleVars,
          breakpointVars, lastVars, reported>>

Kinds == {"start", "cleanup", "check", "manual", "worm"}
Timeout == [id : TimeoutIds, kind : Kinds, due : BOOLEAN]
Roles == {"none", "worm", "bug"}
Depth == Len(stack)
IP == stack[Depth]

TypeOK ==
  /\ sUse \in {"check", "start"}
  /\ mainPc \in {"run", "hit", "timeouts", "fire", "started", "reported", "failed"}
  /\ sProcess \in {"known", "exited", "gone"}
  /\ stack \in Seq(Functions) /\ Depth \in 1..MaxDepth
  /\ aoTimeouts \in Seq(Timeout)
  /\ aoTimeoutsToFire \in Seq(Timeout)
  /\ IsInjective([i \in DOMAIN (aoTimeouts \o aoTimeoutsToFire) |-> (aoTimeouts \o aoTimeoutsToFire)[i].id])
  /\ bStarted \in BOOLEAN
  /\ \A o \in {oStartTimeout, oCleanupTimeout, oCheckUsageTimeout, oWormRunTimeout} :
       o \in TimeoutIds \cup {NULL}
  /\ dfCallback_by_uAddress \in [Addresses -> Roles]
  /\ uWormBreakpointId \in Addresses \cup {NULL}
  /\ uBugBreakpointId \in Addresses \cup {NULL}
  /\ uLastInstructionPointer \in Functions \cup {NULL}
  /\ uLastDepth \in 0..MaxDepth
  /\ uNextBreakpointAddress \in Addresses \cup {NULL}
  /\ reported \in 0..MaxDepth

Init ==
  /\ sUse \in {"check", "start"}
  /\ mainPc = "run"
  /\ sProcess = "known"
  /\ \E f \in Functions : stack = <<f>>
  /\ aoTimeouts = <<>>
  /\ aoTimeoutsToFire = <<>>
  /\ bStarted = FALSE
  /\ oStartTimeout = NULL /\ oCleanupTimeout = NULL
  /\ oCheckUsageTimeout = NULL /\ oWormRunTimeout = NULL
  /\ dfCallback_by_uAddress = [a \in Addresses |-> "none"]
  /\ uWormBreakpointId = NULL
  /\ uBugBreakpointId = NULL
  /\ uLastInstructionPointer = NULL
  /\ uLastDepth = 0
  /\ uNextBreakpointAddress = NULL
  /\ reported = 0

Ended == mainPc \in {"reported", "failed"}

-----------------------------------------------------------------------------
(* Timeouts.                                                               *)

\* Clearing a timeout that has been taken off the list to be fired does nothing.
Cleared(ids) == Only(aoTimeouts, {o \in Range(aoTimeouts) : o.id \notin ids})

\* An id that is not used by a timeout and that no variable refers to.
FreeIds ==
  TimeoutIds \ ({oStartTimeout, oCleanupTimeout, oCheckUsageTimeout, oWormRunTimeout}
                  \cup {o.id : o \in Range(aoTimeouts \o aoTimeoutsToFire)})
FreeId == CHOOSE id \in FreeIds : TRUE
OtherFreeId == CHOOSE id \in FreeIds \ {FreeId} : TRUE

New(id, kind, due) == [id |-> id, kind |-> kind, due |-> due]
Exists(kind) == \E o \in Range(aoTimeouts \o aoTimeoutsToFire) : o.kind = kind

-----------------------------------------------------------------------------
(* Breakpoints in the watched process.  When that has just terminated, it  *)
(* is not in doProcess_by_uId but still the current process of cdb.        *)

\* Removing one has cdb select the process, which has to be known unless it is current.
CanRemove(ids) == ids \subseteq {NULL} \/ sProcess # "gone"

Without(ids) == [a \in Addresses |-> IF a \in ids THEN "none" ELSE dfCallback_by_uAddress[a]]

\* Setting one needs the process to be known and no other breakpoint at the address.
CanAdd(callbacks, a) == sProcess = "known" /\ callbacks[a] = "none"

\* An exception that nothing in the detector handles ends the cdb stdin/out thread.
Fail ==
  /\ mainPc' = "failed"
  /\ UNCHANGED <<sUse, sProcess, stack, aoTimeouts, aoTimeoutsToFire, bStarted, handleVars,
                 breakpointVars, lastVars, reported>>

-----------------------------------------------------------------------------
(* The API.                                                                *)

ApiUnchanged ==
  UNCHANGED <<sUse, mainPc, stack, aoTimeoutsToFire, bStarted, oWormRunTimeout,
              breakpointVars, lastVars, reported>>

\* The timeouts that fStartTimeout clears.
Stopped == {oStartTimeout, oCheckUsageTimeout, oCleanupTimeout}

\* fStartTimeout, on the cdb stdin/out thread or on another while the lock is free.  Any timeout
\* but one of zero seconds cannot be set while the application runs, after all else is done.
fStartTimeout(sWhen) ==
  /\ sUse = "start"
  /\ ~Ended
  /\ Careful => mainPc \in {"run", "timeouts"} /\ (bStarted \/ ~Exists("start"))
  /\ \E id, other \in FreeIds : id # other
  /\ LET bStart == sWhen = "now" \/ (sWhen = "later" /\ mainPc # "run")
         aoRest == IF bStarted THEN Append(Cleared(Stopped), New(FreeId, "cleanup", TRUE))
                               ELSE aoTimeouts
     IN /\ aoTimeouts' = IF bStart THEN Append(aoRest, New(OtherFreeId, "start", sWhen = "now"))
                                   ELSE aoRest
        /\ oStartTimeout' = IF bStart THEN OtherFreeId
                            ELSE IF bStarted THEN NULL ELSE oStartTimeout
  /\ oCleanupTimeout' = IF bStarted THEN FreeId ELSE oCleanupTimeout
  /\ oCheckUsageTimeout' = IF bStarted THEN NULL ELSE oCheckUsageTimeout
  /\ UNCHANGED sProcess
  /\ ApiUnchanged

\* fGetUsageData selects every process that is known.
SelectOther == IF sProcess = "exited" THEN "gone" ELSE sProcess
GetUsageData == sProcess' = SelectOther

\* fCheckForExcessiveCPUUsage needs cdb, so it can only be called on the cdb stdin/out thread.
fCheckForExcessiveCPUUsage ==
  /\ sUse = "check"
  /\ mainPc = "timeouts"
  /\ Careful => ~Exists("manual") /\ uWormBreakpointId = NULL /\ uBugBreakpointId = NULL
  /\ FreeIds # {}
  /\ aoTimeouts' = Append(aoTimeouts, New(FreeId, "manual", FALSE))
  /\ GetUsageData
  /\ UNCHANGED <<oStartTimeout, oCleanupTimeout, oCheckUsageTimeout>>
  /\ ApiUnchanged

-----------------------------------------------------------------------------
(* Callbacks of timeouts, fired one by one.                                *)

Fires(kind) ==
  /\ mainPc = "fire"
  /\ Head(aoTimeoutsToFire).kind = kind

Fired ==
  /\ aoTimeoutsToFire' = Tail(aoTimeoutsToFire)
  /\ mainPc' = IF Tail(aoTimeoutsToFire) = <<>> THEN "timeouts" ELSE "fire"
  /\ UNCHANGED <<sUse, stack, reported>>

\* Mutant: only the bug breakpoint is removed.
LeaveWorm ==
  IF oCleanupTimeout = NULL
  THEN UNCHANGED <<aoTimeouts, oCleanupTimeout, oWormRunTimeout, breakpointVars>>
  ELSE /\ CanRemove({uBugBreakpointId})
       /\ aoTimeouts' = Cleared({oCleanupTimeout, oWormRunTimeout})
       /\ oCleanupTimeout' = NULL
       /\ oWormRunTimeout' = NULL
       /\ dfCallback_by_uAddress' = Without({uBugBreakpointId})
       /\ uBugBreakpointId' = NULL
       /\ UNCHANGED uWormBreakpointId

\* fCleanup does nothing unless a cleanup is still wanted.
Cleanup ==
  IF oCleanupTimeout = NULL
  THEN UNCHANGED <<aoTimeouts, oCleanupTimeout, oWormRunTimeout, breakpointVars>>
  ELSE /\ CanRemove({uWormBreakpointId, uBugBreakpointId})
       /\ aoTimeouts' = Cleared({oCleanupTimeout, oWormRunTimeout})
       /\ oCleanupTimeout' = NULL
       /\ oWormRunTimeout' = NULL
       /\ dfCallback_by_uAddress' = Without({uWormBreakpointId, uBugBreakpointId})
       /\ uWormBreakpointId' = NULL
       /\ uBugBreakpointId' = NULL

CleanupFails == oCleanupTimeout # NULL /\ ~CanRemove({uWormBreakpointId, uBugBreakpointId}) /\ Fail

fCleanup ==
  /\ Fires("cleanup")
  /\ \/ Cleanup /\ Fired
        /\ UNCHANGED <<sProcess, bStarted, oStartTimeout, oCheckUsageTimeout, lastVars>>
     \/ CleanupFails

\* fStart reads the CPU usage after it has released the lock and before it takes it again.
fStart ==
  /\ Fires("start")
  /\ \/ /\ Cleanup
        /\ bStarted' = TRUE
        /\ mainPc' = "started"
        /\ GetUsageData
        /\ UNCHANGED <<sUse, stack, aoTimeoutsToFire, oStartTimeout, oCheckUsageTimeout,
                       lastVars, reported>>
     \/ CleanupFails

SetCheckTimeout ==
  /\ mainPc = "started"
  /\ FreeIds # {}
  /\ oCheckUsageTimeout' = FreeId
  /\ aoTimeouts' = Append(aoTimeouts, New(FreeId, "check", FALSE))
  /\ Fired
  /\ UNCHANGED <<sProcess, bStarted, oStartTimeout, oCleanupTimeout, oWormRunTimeout,
                 breakpointVars, lastVars>>

\* fInstallWorm: the first breakpoint is where the thread is.
InstallWorm ==
  /\ CanAdd(dfCallback_by_uAddress, IP)
  /\ dfCallback_by_uAddress' = [dfCallback_by_uAddress EXCEPT ![IP] = "worm"]
  /\ uWormBreakpointId' = IP
  /\ uLastInstructionPointer' = IP
  /\ uLastDepth' = Depth
  /\ uNextBreakpointAddress' = IP
  /\ oWormRunTimeout' = FreeId
  /\ aoTimeouts' = Append(aoTimeouts, New(FreeId, "worm", FALSE))
  /\ Fired
  /\ UNCHANGED <<sProcess, uBugBreakpointId>>

\* Only a process that exists can have used too much CPU.
InstallFails == sProcess = "known" /\ ~CanAdd(dfCallback_by_uAddress, IP) /\ Fail

\* The timeout that fCheckForExcessiveCPUUsage sets.
fExcessiveCPUUsageCheckIntervalTimeoutHandler ==
  /\ Fires("manual")
  /\ FreeIds # {}
  /\ \/ GetUsageData /\ Fired
        /\ UNCHANGED <<stack, aoTimeouts, bStarted, handleVars, breakpointVars, lastVars>>
     \/ InstallWorm
        /\ UNCHANGED <<bStarted, oStartTimeout, oCleanupTimeout, oCheckUsageTimeout>>
     \/ InstallFails

\* fCheckUsage has no data, measures again, or installs the worm.
fCheckUsage ==
  /\ Fires("check")
  /\ FreeIds # {}
  /\ \/ /\ oCheckUsageTimeout = NULL
        /\ Fired
        /\ UNCHANGED <<sProcess, stack, aoTimeouts, bStarted, handleVars, breakpointVars, lastVars>>
     \/ /\ oCheckUsageTimeout # NULL
        /\ GetUsageData
        /\ \/ oCheckUsageTimeout' = NULL /\ UNCHANGED aoTimeouts
           \/ oCheckUsageTimeout' = FreeId /\ aoTimeouts' = Append(aoTimeouts, New(FreeId, "check", FALSE))
        /\ Fired
        /\ UNCHANGED <<stack, bStarted, oStartTimeout, oCleanupTimeout, oWormRunTimeout,
                       breakpointVars, lastVars>>
     \/ /\ oCheckUsageTimeout # NULL
        /\ oCheckUsageTimeout' = NULL
        /\ InstallWorm
        /\ UNCHANGED <<bStarted, oStartTimeout, oCleanupTimeout>>
     \/ oCheckUsageTimeout # NULL /\ InstallFails

\* Mutant: the worm stays.
KeepWormBreakpoint ==
  /\ oWormRunTimeout' = NULL
  /\ dfCallback_by_uAddress' = [dfCallback_by_uAddress EXCEPT ![uLastInstructionPointer] = "bug"]
  /\ uWormBreakpointId' = NULL
  /\ uBugBreakpointId' = uLastInstructionPointer
  /\ uNextBreakpointAddress' = uLastInstructionPointer

\* fSetBugBreakpointAfterTimeout replaces the worm by the bug breakpoint where it was hit last.
SetBugBreakpoint ==
  /\ oWormRunTimeout' = NULL
  /\ dfCallback_by_uAddress' = [Without({uWormBreakpointId}) EXCEPT ![uLastInstructionPointer] = "bug"]
  /\ uWormBreakpointId' = NULL
  /\ uBugBreakpointId' = uLastInstructionPointer
  /\ uNextBreakpointAddress' = uLastInstructionPointer

fSetBugBreakpointAfterTimeout ==
  /\ Fires("worm")
  /\ \/ /\ oWormRunTimeout = NULL
        /\ Fired
        /\ UNCHANGED <<handleVars, breakpointVars, lastVars>>
     \/ /\ oWormRunTimeout # NULL
        /\ CanAdd(Without({uWormBreakpointId}), uLastInstructionPointer)
        /\ SetBugBreakpoint
        /\ Fired
        /\ UNCHANGED <<oStartTimeout, oCleanupTimeout, oCheckUsageTimeout,
                       uLastInstructionPointer, uLastDepth>>
     \/ /\ oWormRunTimeout # NULL
        /\ ~CanAdd(Without({uWormBreakpointId}), uLastInstructionPointer)
        /\ Fail
  /\ UNCHANGED <<sProcess, stack, aoTimeouts, bStarted>>

-----------------------------------------------------------------------------
(* Callbacks of breakpoints.                                               *)

Hits(role) ==
  /\ mainPc = "hit"
  /\ dfCallback_by_uAddress[IP] = role

HitUnchanged ==
  UNCHANGED <<sUse, sProcess, stack, aoTimeoutsToFire, bStarted,
              oStartTimeout, oCleanupTimeout, oCheckUsageTimeout>>

uReturnAddress == IF Depth = 1 THEN Startup ELSE stack[Depth - 1]

\* The code that is returned to may be called first: the stack must be less deep.
HasReturned == Depth < uLastDepth

\* Mutant: the address where the worm is expected next is not updated.
ForgetNextAddress ==
  /\ CanAdd(dfCallback_by_uAddress, uReturnAddress)
  /\ dfCallback_by_uAddress' = [Without({uWormBreakpointId}) EXCEPT ![uReturnAddress] = "worm"]
  /\ uWormBreakpointId' = uReturnAddress
  /\ uLastInstructionPointer' = IP
  /\ uLastDepth' = Depth
  /\ UNCHANGED <<uBugBreakpointId, uNextBreakpointAddress>>

MoveBreakpoint ==
  /\ CanAdd(dfCallback_by_uAddress, uReturnAddress)
  /\ dfCallback_by_uAddress' = [Without({uWormBreakpointId}) EXCEPT ![uReturnAddress] = "worm"]
  /\ uWormBreakpointId' = uReturnAddress
  /\ uLastInstructionPointer' = IP
  /\ uLastDepth' = Depth
  /\ uNextBreakpointAddress' = uReturnAddress
  /\ UNCHANGED uBugBreakpointId

\* The breakpoint stays where it is when it cannot be set at the return address.
MoveUp ==
  \/ /\ uReturnAddress = uNextBreakpointAddress
     /\ uLastDepth' = Depth
     /\ UNCHANGED <<breakpointVars, uLastInstructionPointer, uNextBreakpointAddress>>
  \/ /\ uReturnAddress # uNextBreakpointAddress
     /\ uReturnAddress \in NotExecutable
     /\ UNCHANGED <<breakpointVars, lastVars>>
  \/ /\ uReturnAddress # uNextBreakpointAddress
     /\ uReturnAddress \notin NotExecutable
     /\ MoveBreakpoint

RestartWormTimeout ==
  /\ aoTimeouts' = Append(Cleared({oWormRunTimeout}), New(FreeId, "worm", FALSE))
  /\ oWormRunTimeout' = FreeId

\* Mutant: a hit that is ignored restarts the timeout too.
RestartAlways ==
  \/ HasReturned /\ MoveUp /\ RestartWormTimeout
  \/ ~HasReturned /\ RestartWormTimeout /\ UNCHANGED <<breakpointVars, lastVars>>

HandleWormHit ==
  \/ HasReturned /\ MoveUp /\ RestartWormTimeout
  \/ ~HasReturned /\ UNCHANGED <<aoTimeouts, oWormRunTimeout, breakpointVars, lastVars>>

fMoveWormBreakpointUpTheStack ==
  /\ Hits("worm")
  /\ FreeIds # {}
  /\ \/ /\ IP = uNextBreakpointAddress
        /\ HandleWormHit
        /\ mainPc' = "timeouts"
        /\ HitUnchanged /\ UNCHANGED reported
     \/ /\ \/ IP # uNextBreakpointAddress
           \/ /\ HasReturned
              /\ uReturnAddress \notin NotExecutable \cup {uNextBreakpointAddress}
              /\ ~CanAdd(dfCallback_by_uAddress, uReturnAddress)
        /\ Fail

\* A bug is reported and the session stopped.
ReportBug ==
  /\ Depth <= uLastDepth
  /\ dfCallback_by_uAddress' = Without({uBugBreakpointId})
  /\ uBugBreakpointId' = NULL
  /\ reported' = Depth
  /\ mainPc' = "reported"
  /\ UNCHANGED uWormBreakpointId

IgnoreBugHit ==
  /\ Depth > uLastDepth
  /\ mainPc' = "timeouts"
  /\ UNCHANGED <<breakpointVars, reported>>

fReportCPUUsageBug ==
  /\ Hits("bug")
  /\ \/ /\ IP = uNextBreakpointAddress
        /\ ReportBug \/ IgnoreBugHit
        /\ HitUnchanged /\ UNCHANGED <<aoTimeouts, oWormRunTimeout, lastVars>>
     \/ IP # uNextBreakpointAddress /\ Fail

-----------------------------------------------------------------------------
(* The main loop: all timeouts that are due are taken off the list before  *)
(* the first is fired, until there are none and the application is resumed.*)

\* Mutant: the timeouts that fire stay on the list.
KeepDue ==
  /\ mainPc = "timeouts"
  /\ aoTimeoutsToFire' = Only(aoTimeouts, {o \in Range(aoTimeouts) : o.due})
  /\ mainPc' = IF aoTimeoutsToFire' = <<>> THEN "run" ELSE "fire"
  /\ UNCHANGED <<sUse, sProcess, stack, aoTimeouts, bStarted, handleVars, breakpointVars,
                 lastVars, reported>>

TakeDue ==
  /\ mainPc = "timeouts"
  /\ aoTimeoutsToFire' = Only(aoTimeouts, {o \in Range(aoTimeouts) : o.due})
  /\ aoTimeouts' = Only(aoTimeouts, {o \in Range(aoTimeouts) : ~o.due})
  /\ mainPc' = IF aoTimeoutsToFire' = <<>> THEN "run" ELSE "fire"
  /\ UNCHANGED <<sUse, sProcess, stack, bStarted, handleVars, breakpointVars, lastVars, reported>>

fRunTimeoutCallbacks ==
  \/ TakeDue
  \/ fCleanup \/ fStart \/ SetCheckTimeout \/ fCheckUsage
  \/ fExcessiveCPUUsageCheckIntervalTimeoutHandler
  \/ fSetBugBreakpointAfterTimeout

fHandleBreakpoint == fMoveWormBreakpointUpTheStack \/ fReportCPUUsageBug

-----------------------------------------------------------------------------
(* The application and time.                                               *)

\* The thread calls a function, returns from one, or goes on in the one it is in.
Execute ==
  /\ mainPc = "run"
  /\ sProcess = "known"
  /\ \/ Depth < MaxDepth /\ \E f \in Functions : stack' = Append(stack, f)
     \/ Depth > 1 /\ stack' = Front(stack)
     \/ UNCHANGED stack
  /\ mainPc' = IF dfCallback_by_uAddress[Last(stack')] = "none" THEN "run" ELSE "hit"
  /\ UNCHANGED <<sUse, sProcess, aoTimeouts, aoTimeoutsToFire, bStarted, handleVars,
                 breakpointVars, lastVars, reported>>

\* The application is paused: the watched process terminates, or by any other event.
Pause ==
  /\ mainPc = "run"
  /\ mainPc' = "timeouts"
  /\ \/ sProcess = "known" /\ sProcess' = "exited"
     \/ sProcess' = SelectOther
  /\ UNCHANGED <<sUse, stack, aoTimeouts, aoTimeoutsToFire, bStarted, handleVars,
                 breakpointVars, lastVars, reported>>

TimePasses(id) ==
  /\ ~Ended
  /\ \E i \in DOMAIN aoTimeouts :
       /\ aoTimeouts[i].id = id
       /\ ~aoTimeouts[i].due
       /\ aoTimeouts' = [aoTimeouts EXCEPT ![i] = New(id, aoTimeouts[i].kind, TRUE)]
  /\ UNCHANGED <<sUse, mainPc, sProcess, stack, aoTimeoutsToFire, bStarted, handleVars,
                 breakpointVars, lastVars, reported>>

Api == fCheckForExcessiveCPUUsage \/ \E sWhen \in {"never", "now", "later"} : fStartTimeout(sWhen)
Environment == Execute \/ Pause \/ \E id \in TimeoutIds : TimePasses(id)

Next == Api \/ fRunTimeoutCallbacks \/ fHandleBreakpoint \/ Environment

Spec == Init /\ [][Next]_vars

\* The cdb stdin/out thread goes on, time passes, and the application is paused for timeouts.
Fairness ==
  /\ WF_vars(fRunTimeoutCallbacks)
  /\ WF_vars(fHandleBreakpoint)
  /\ \A id \in TimeoutIds : WF_vars(TimePasses(id))
  /\ SF_vars((\E o \in Range(aoTimeouts) : o.due) /\ Pause)
FairSpec == Spec /\ Fairness

-----------------------------------------------------------------------------
(* Properties.                                                             *)

\* The detector has the id of each breakpoint that it has set, so that none is left behind to be
\* hit when nothing expects it: there is at most one worm and at most one bug breakpoint.
BreakpointsAreRemembered ==
  mainPc # "failed" =>
    \A a \in Addresses :
      /\ dfCallback_by_uAddress[a] = "worm" <=> a = uWormBreakpointId
      /\ dfCallback_by_uAddress[a] = "bug" <=> a = uBugBreakpointId

\* A breakpoint is hit only where the detector expects that: the assertions of both callbacks
\* hold, and a breakpoint is set only where there is none.  A detector that fails while its
\* process exists ends the session.
FailsOnlyWithoutProcess == mainPc = "failed" => sProcess # "known"

\* At most one search goes on at a time: while the CPU usage is checked there are no breakpoints,
\* and there are never a worm and a bug breakpoint.
OneChain ==
  /\ oCheckUsageTimeout # NULL => uWormBreakpointId = NULL /\ uBugBreakpointId = NULL
  /\ uWormBreakpointId = NULL \/ uBugBreakpointId = NULL

\* The worm is hit but cannot be moved.
CannotMove == Hits("worm") /\ HasReturned /\ uReturnAddress \in NotExecutable

\* The worm ends, unless it is hit where it cannot be moved.
WormEnds == (uWormBreakpointId # NULL) ~> (uWormBreakpointId = NULL \/ Ended \/ CannotMove)

\* cExcessiveCPUUsageDetector.py:260 "whenever this breakpoint is hit, it moves up the stack" and
\* 284 "we can use the instruction pointer to set our first breakpoint and when it is hit, the
\* return address will be correct": the first hit, in the function it was set in, moves the worm.
FirstHitMoves ==
  [][( /\ fMoveWormBreakpointUpTheStack
       /\ uLastInstructionPointer = uNextBreakpointAddress
       /\ Depth = uLastDepth
       /\ uReturnAddress \notin NotExecutable \cup {IP} )
     => uWormBreakpointId' # uWormBreakpointId]_vars

=============================================================================
