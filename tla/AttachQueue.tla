---------------------------- MODULE AttachQueue ----------------------------
(***************************************************************************)
(* How cdb comes to debug the processes it has to, and how mBugId decides  *)
(* that there is nothing left to debug.                                    *)
(*                                                                         *)
(* Process ids to attach to wait in auProcessIdsPendingAttach.  fStart     *)
(* puts ids there before the cdb stdin/out thread starts, and the id of a  *)
(* process it creates (suspended) while that thread runs; API threads add  *)
(* the ids of processes they find by name.  Each time cdb reports an event *)
(* the cdb stdin/out thread asks cdb to attach to the first of the queue,  *)
(* which is removed once cdb reports an event of that process.  Debugging  *)
(* is over when the utility process is the only one left.                  *)
(*                                                                         *)
(* External: cdb attaches when it resumes, debugs children of debugged     *)
(* processes, and gets the events of all of them in order from one port.   *)
(* Universal Windows apps, which cdb starts itself, are not modelled.      *)
(***************************************************************************)
EXTENDS Naturals, Sequences, FiniteSets

CONSTANTS
  Applications,  \* process ids of applications
  Utility,       \* process id of the utility process
  Started,       \* the process fStart creates, if it is told to
  Stale,         \* a process id left behind by an earlier session
  MaxQueue,      \* bound: API threads add to a queue shorter than this
  MaxPort        \* bound: events happen while fewer than this wait in the port

ASSUME ProcessesAssumption ==
  /\ Started \in Applications
  /\ Utility \notin Applications
  /\ Stale \notin Applications \cup {Utility}

Processes == Applications \cup {Utility}

VARIABLES
  sMode,                       \* attach to processes, start one, or debug just in time
  starter,                     \* what foStartApplicationProcess does next
  api,                         \* what an API thread does next, with which process id
  mainPc,
  auProcessIdsPendingAttach,
  doProcess_by_uId,            \* the process ids mBugId knows of
  auTerminated,                \* those with bTerminated
  auShouldBeResumed,           \* __gauProcessesThatShouldBeResumedAfterAttaching
  bResumeCallback,             \* whether this session's callback resumes processes
  bStopping,
  bApplicationIsRunning,
  bInterruptSet,               \* a timeout of zero seconds is set
  cdb,                         \* at its prompt or running
  attaching,                   \* processes cdb attaches to when it is resumed
  debugged,                    \* processes cdb has attached to
  port,                        \* events that cdb has still to report
  event,                       \* the event cdb reported last
  status                       \* of each process

queueVars == <<auProcessIdsPendingAttach, doProcess_by_uId, auTerminated>>
resumeVars == <<auShouldBeResumed, bResumeCallback>>
cdbVars == <<cdb, attaching, debugged, port, event>>
vars == <<sMode, starter, api, mainPc, queueVars, resumeVars, bStopping, bApplicationIsRunning,
          bInterruptSet, cdbVars, status>>

Event(kind, p) == [kind |-> kind, process |-> p]
EventKinds == {"create", "exit", "other", "interrupt"}

TypeOK ==
  /\ sMode \in {"attach", "start", "jit"}
  /\ starter \in {"create", "queue", "interrupt", "done"}
  /\ api \in [step : {"idle", "queue", "interrupt"}, process : Applications]
  /\ mainPc \in {"event", "prune", "attach", "resume", "go", "mark", "read", "over", "quit"}
  /\ auProcessIdsPendingAttach \in Seq(Processes)
  /\ doProcess_by_uId \subseteq Processes
  /\ auTerminated \subseteq doProcess_by_uId
  /\ auShouldBeResumed \subseteq {Started, Stale}
  /\ bResumeCallback \in BOOLEAN
  /\ bStopping \in BOOLEAN
  /\ bApplicationIsRunning \in BOOLEAN
  /\ bInterruptSet \in BOOLEAN
  /\ cdb \in {"prompt", "running"}
  /\ attaching \subseteq Processes
  /\ debugged \subseteq Processes
  /\ port \in Seq([kind : EventKinds, process : Processes])
  /\ event \in [kind : EventKinds, process : Processes]
  /\ status \in [Processes -> {"none", "suspended", "running", "gone"}]

\* The utility process comes first unless the application runs already, just in time.
InitialQueue(p) ==
  CASE sMode = "attach" -> <<Utility, p>>
    [] sMode = "start" -> <<Utility>>
    [] sMode = "jit" -> <<p, Utility>>

\* cdb.exe is started with the id of the first process, which it reports before anything else.
Init ==
  /\ sMode \in {"attach", "start", "jit"}
  /\ starter = IF sMode = "start" THEN "create" ELSE "done"
  /\ mainPc = "event"
  /\ \E p \in Applications \ {Started} :
       /\ api = [step |-> "idle", process |-> p]
       /\ auProcessIdsPendingAttach = InitialQueue(p)
       /\ event = Event("create", Head(auProcessIdsPendingAttach))
       /\ status = [q \in Processes |-> IF q \in {p, Utility} THEN "running" ELSE "none"]
  /\ debugged = {event.process}
  /\ doProcess_by_uId = {}
  /\ auTerminated = {}
  /\ auShouldBeResumed \in {{}, {Stale}}
  /\ bResumeCallback = FALSE
  /\ bStopping = FALSE
  /\ bApplicationIsRunning = FALSE
  /\ bInterruptSet = FALSE
  /\ cdb = "prompt"
  /\ attaching = {}
  /\ port = <<>>

Ended == mainPc \in {"over", "quit"}
Queued(p) == \E i \in DOMAIN auProcessIdsPendingAttach : auProcessIdsPendingAttach[i] = p

-----------------------------------------------------------------------------
(* fQueueAttachForProcessId.                                               *)

Append_(p) == auProcessIdsPendingAttach' = Append(auProcessIdsPendingAttach, p)

\* If the application is running a timeout of zero seconds makes sure it is interrupted.
InterruptIfRunning == bInterruptSet' = (bInterruptSet \/ bApplicationIsRunning)

-----------------------------------------------------------------------------
(* foStartApplicationProcess, called by fStart while the cdb thread runs.  *)

StarterUnchanged ==
  UNCHANGED <<sMode, api, mainPc, doProcess_by_uId, auTerminated, bStopping,
              bApplicationIsRunning, cdbVars>>

CreateProcess ==
  /\ starter = "create"
  /\ starter' = "queue"
  /\ status[Started] = "none"
  /\ status' = [status EXCEPT ![Started] = "suspended"]
  /\ UNCHANGED <<auProcessIdsPendingAttach, resumeVars, bInterruptSet>>
  /\ StarterUnchanged

\* Mutant: the callback is not added.
NoResumeCallback ==
  /\ starter = "queue"
  /\ starter' = "interrupt"
  /\ auShouldBeResumed' = auShouldBeResumed \cup {Started}
  /\ Append_(Started)
  /\ UNCHANGED <<bInterruptSet, status, bResumeCallback>>
  /\ StarterUnchanged

\* The callback that resumes the process is added only if the list of such processes is empty.
QueueStarted ==
  /\ starter = "queue"
  /\ starter' = "interrupt"
  /\ bResumeCallback' = (bResumeCallback \/ auShouldBeResumed = {})
  /\ auShouldBeResumed' = auShouldBeResumed \cup {Started}
  /\ Append_(Started)
  /\ UNCHANGED <<bInterruptSet, status>>
  /\ StarterUnchanged

InterruptForStarted ==
  /\ starter = "interrupt"
  /\ starter' = "done"
  /\ InterruptIfRunning
  /\ UNCHANGED <<auProcessIdsPendingAttach, resumeVars, status>>
  /\ StarterUnchanged

foStartApplicationProcess == CreateProcess \/ QueueStarted \/ InterruptForStarted

-----------------------------------------------------------------------------
(* fQueueAttachForProcessExecutableNames, called by an API thread.         *)

ApiUnchanged ==
  UNCHANGED <<sMode, starter, mainPc, doProcess_by_uId, auTerminated, resumeVars, bStopping,
              bApplicationIsRunning, cdbVars, status>>

\* A process that is running an executable with the name and not known yet.
FindProcess ==
  /\ api.step = "idle"
  /\ Len(auProcessIdsPendingAttach) < MaxQueue
  /\ \E p \in Applications :
       /\ status[p] \in {"running", "suspended"}
       /\ p \notin doProcess_by_uId
       /\ api' = [step |-> "queue", process |-> p]
  /\ UNCHANGED <<auProcessIdsPendingAttach, bInterruptSet>>
  /\ ApiUnchanged

QueueFound ==
  /\ api.step = "queue"
  /\ api' = [api EXCEPT !.step = "interrupt"]
  /\ Append_(api.process)
  /\ UNCHANGED bInterruptSet
  /\ ApiUnchanged

\* Mutant: nobody is told that there is something to attach to.
NoInterrupt ==
  /\ api.step = "interrupt"
  /\ api' = [api EXCEPT !.step = "idle"]
  /\ UNCHANGED <<auProcessIdsPendingAttach, bInterruptSet>>
  /\ ApiUnchanged

InterruptForFound ==
  /\ api.step = "interrupt"
  /\ api' = [api EXCEPT !.step = "idle"]
  /\ InterruptIfRunning
  /\ UNCHANGED auProcessIdsPendingAttach
  /\ ApiUnchanged

-----------------------------------------------------------------------------
(* The cdb stdin/out thread.                                               *)

MainMoves(from, to) ==
  /\ mainPc = from
  /\ mainPc' = to
  /\ UNCHANGED <<sMode, starter, api>>

\* The process is removed from the queue only if it is the first of the queue and new.
Dequeued(p) ==
  IF auProcessIdsPendingAttach # <<>> /\ Head(auProcessIdsPendingAttach) = p
  THEN Tail(auProcessIdsPendingAttach)
  ELSE auProcessIdsPendingAttach

\* "Process attached" resumes a process that was created suspended.
ResumeStarted(p) ==
  IF p \in auShouldBeResumed /\ bResumeCallback
  THEN /\ auShouldBeResumed' = auShouldBeResumed \ {p}
       /\ bResumeCallback' = (auShouldBeResumed' # {})
       /\ status' = [status EXCEPT ![p] = IF @ = "suspended" THEN "running" ELSE @]
  ELSE UNCHANGED <<resumeVars, status>>

\* A new process may turn out not to be accessible.
HandleNewProcess(p) ==
  /\ p \notin doProcess_by_uId
  /\ doProcess_by_uId' = doProcess_by_uId \cup {p}
  /\ auProcessIdsPendingAttach' = Dequeued(p)
  /\ \/ /\ mainPc' = "prune"
        /\ ResumeStarted(p)
        /\ auTerminated' = IF event.kind = "exit" THEN auTerminated \cup {p} ELSE auTerminated
     \/ /\ mainPc' = "quit"
        /\ UNCHANGED <<resumeVars, status, auTerminated>>

\* The event may be a bug that is fatal, or a report may call fStop.
HandleKnownProcess(p) ==
  /\ p \in doProcess_by_uId
  /\ auTerminated' = IF event.kind = "exit" THEN auTerminated \cup {p} ELSE auTerminated
  /\ mainPc' \in {"prune"} \cup (IF event.kind = "other" THEN {"quit"} ELSE {})
  /\ UNCHANGED <<auProcessIdsPendingAttach, doProcess_by_uId, resumeVars, status>>

ftbHandleLastCdbEvent ==
  /\ mainPc = "event"
  /\ HandleNewProcess(event.process) \/ HandleKnownProcess(event.process)
  /\ UNCHANGED <<sMode, starter, api, bStopping, bApplicationIsRunning, bInterruptSet, cdbVars>>

\* Mutant: terminated processes stay in the list.
KeepTerminated ==
  /\ MainMoves("prune", "attach")
  /\ UNCHANGED <<queueVars, resumeVars, bStopping, bApplicationIsRunning, bInterruptSet, cdbVars, status>>

DeleteTerminated ==
  /\ MainMoves("prune", "attach")
  /\ doProcess_by_uId' = doProcess_by_uId \ auTerminated
  /\ auTerminated' = {}
  /\ UNCHANGED <<auProcessIdsPendingAttach, resumeVars, bStopping, bApplicationIsRunning,
                 bInterruptSet, cdbVars, status>>

\* cdb attaches to a process unless it does not exist, is being debugged or is not accessible.
\* Any failure calls fStop.
fAttachCdbToProcessForId(p) ==
  \/ /\ p \notin debugged /\ status[p] \in {"running", "suspended"}
     /\ attaching' = attaching \cup {p}
     /\ UNCHANGED bStopping
  \/ /\ bStopping' = TRUE
     /\ UNCHANGED attaching

AttachFirst ==
  /\ auProcessIdsPendingAttach # <<>>
  /\ MainMoves("attach", "resume")
  /\ fAttachCdbToProcessForId(Head(auProcessIdsPendingAttach))
  /\ UNCHANGED <<queueVars, resumeVars, bApplicationIsRunning, bInterruptSet, cdb, debugged,
                 port, event, status>>

\* Mutant: the list of known processes may hold one more.
OverTooEarly ==
  /\ auProcessIdsPendingAttach = <<>>
  /\ MainMoves("attach", IF Cardinality(doProcess_by_uId) \in {1, 2} THEN "over" ELSE "resume")
  /\ bInterruptSet' = (bInterruptSet /\ mainPc' = "over")
  /\ UNCHANGED <<queueVars, resumeVars, bStopping, bApplicationIsRunning, cdbVars, status>>

\* Only the utility process is left, or the timeouts fire.
OverOrTimeouts ==
  /\ auProcessIdsPendingAttach = <<>>
  /\ MainMoves("attach", IF Cardinality(doProcess_by_uId) = 1 THEN "over" ELSE "resume")
  /\ bInterruptSet' = (bInterruptSet /\ mainPc' = "over")
  /\ UNCHANGED <<queueVars, resumeVars, bStopping, bApplicationIsRunning, cdbVars, status>>

CheckStopping ==
  /\ MainMoves("resume", IF bStopping THEN "quit" ELSE "go")
  /\ UNCHANGED <<queueVars, resumeVars, bStopping, bApplicationIsRunning, bInterruptSet,
                 cdbVars, status>>

\* cdb attaches to the process it was asked to, if any, and gets an event of it.
Resume ==
  /\ MainMoves("go", "mark")
  /\ cdb' = "running"
  /\ debugged' = debugged \cup attaching
  /\ \/ attaching = {} /\ UNCHANGED port
     \/ \E p \in attaching : port' = Append(port, Event("create", p))
  /\ attaching' = {}
  /\ UNCHANGED <<queueVars, resumeVars, bStopping, bApplicationIsRunning, bInterruptSet, event,
                 status>>

MarkRunning ==
  /\ MainMoves("mark", "read")
  /\ bApplicationIsRunning' = TRUE
  /\ UNCHANGED <<queueVars, resumeVars, bStopping, bInterruptSet, cdbVars, status>>

ReadPrompt ==
  /\ cdb = "prompt"
  /\ MainMoves("read", "event")
  /\ bApplicationIsRunning' = FALSE
  /\ UNCHANGED <<queueVars, resumeVars, bStopping, bInterruptSet, cdbVars, status>>

fCdbStdInOutHelperThread ==
  \/ ftbHandleLastCdbEvent \/ DeleteTerminated \/ AttachFirst \/ OverOrTimeouts
  \/ CheckStopping \/ Resume \/ MarkRunning \/ ReadPrompt

-----------------------------------------------------------------------------
(* cdb, and the processes it debugs or does not debug.                     *)

WindowsUnchanged ==
  UNCHANGED <<sMode, starter, api, mainPc, queueVars, resumeVars, bStopping,
              bApplicationIsRunning, bInterruptSet>>

ReportEvent ==
  /\ cdb = "running"
  /\ port # <<>>
  /\ cdb' = "prompt"
  /\ event' = Head(port)
  /\ port' = Tail(port)
  /\ debugged' = IF event'.kind = "exit" THEN debugged \ {event'.process} ELSE debugged
  /\ UNCHANGED <<attaching, status>>
  /\ WindowsUnchanged

\* The interrupt-on-timeout helper thread makes the utility process fault, which cdb reports
\* after the creation of that process.
ReportInterrupt ==
  /\ bInterruptSet /\ bApplicationIsRunning
  /\ Utility \in debugged
  /\ \A i \in DOMAIN port : port[i] # Event("create", Utility)
  /\ cdb = "running"
  /\ cdb' = "prompt"
  /\ event' = Event("interrupt", Utility)
  /\ UNCHANGED <<attaching, debugged, port, status>>
  /\ WindowsUnchanged

\* What a debugged application does while cdb is running.
RunApplication(p) ==
  /\ cdb = "running"
  /\ Len(port) < MaxPort
  /\ p \in debugged /\ status[p] = "running"
  /\ \/ port' = Append(port, Event("other", p)) /\ UNCHANGED <<debugged, status>>
     \/ /\ port' = Append(port, Event("exit", p))
        /\ status' = [status EXCEPT ![p] = "gone"]
        /\ UNCHANGED debugged
     \/ \E child \in Applications \ {Started} :
          /\ child \notin debugged /\ status[child] \in {"none", "gone"}
          /\ status' = [status EXCEPT ![child] = "running"]
          /\ debugged' = debugged \cup {child}
          /\ port' = Append(port, Event("create", child))
  /\ UNCHANGED <<cdb, attaching, event>>
  /\ WindowsUnchanged

\* A process that is not debugged starts, maybe with the id of one that is gone, or ends.
RunOther(p) ==
  /\ p \notin debugged
  /\ \/ status[p] \in {"none", "gone"} /\ p # Started /\ status' = [status EXCEPT ![p] = "running"]
     \/ status[p] = "running" /\ status' = [status EXCEPT ![p] = "gone"]
  /\ UNCHANGED cdbVars
  /\ WindowsUnchanged

-----------------------------------------------------------------------------

Next ==
  \/ foStartApplicationProcess
  \/ FindProcess \/ QueueFound \/ InterruptForFound
  \/ fCdbStdInOutHelperThread
  \/ ReportEvent \/ ReportInterrupt
  \/ \E p \in Applications : RunApplication(p) \/ RunOther(p)

Spec == Init /\ [][Next]_vars

\* Every thread is scheduled; events that wait in the port, and interrupts, are reported.
Fairness ==
  /\ WF_vars(foStartApplicationProcess)
  /\ WF_vars(QueueFound \/ InterruptForFound)
  /\ WF_vars(fCdbStdInOutHelperThread)
  /\ WF_vars(ReportEvent \/ ReportInterrupt)

FairSpec == Spec /\ Fairness

-----------------------------------------------------------------------------
(* Safety                                                                  *)

\* When debugging ends because nothing is left, no process that cdb debugs is abandoned: each of
\* them was reported, and is in doProcess_by_uId until its termination has been handled.
NothingDebuggedIsAbandoned == mainPc = "over" => debugged = {Utility}

\* An event that cdb has reported and the cdb stdin/out thread has yet to handle, or that cdb
\* has yet to report.
Unread == mainPc = "event" \/ (mainPc \in {"mark", "read"} /\ cdb = "prompt")
Awaited(e) == (Unread /\ event = e) \/ \E i \in DOMAIN port : port[i] = e

\* From the deletion of terminated processes until it handles the next event, mBugId knows of
\* exactly the processes whose creation it has handled and whose exit it has not: each one that
\* cdb debugs is known unless its creation is still to come, and one that is known but not
\* debugged any more is about to be found to have terminated.
KnownAreReported ==
  mainPc \in {"attach", "resume", "go", "mark", "read"}
    => \A p \in Processes :
         p \in doProcess_by_uId
           <=> /\ p \in debugged \/ Awaited(Event("exit", p))
               /\ ~Awaited(Event("create", p))

-----------------------------------------------------------------------------
(* Liveness                                                                *)

\* A process whose id is queued while the application is marked as running becomes known, or
\* debugging ends, even if the application never raises another event: whoever queued it has
\* yet to look at bApplicationIsRunning, and sets the timeout that interrupts the application
\* unless the cdb stdin/out thread gets to the queue anyway.
QueuedWhileRunningIsAttached ==
  \A p \in Applications :
    Queued(p) /\ bApplicationIsRunning /\ (api.step = "interrupt" \/ starter = "interrupt")
      ~> p \in doProcess_by_uId \/ Ended

\* Until the session ends, something to report keeps happening.
EventsComeUnlessEnded == []<>(mainPc = "event" \/ Ended)

\* The process that fStart has created suspended is not left suspended in a session that goes on:
\* it is resumed, or the session ends.  The latter happens if an API thread finds the process by
\* name and cdb attaches to it before fStart has listed it as one to be resumed: it is not
\* resumed then, but the id that fStart queues cannot be attached to and stops the session.  An
\* id that an earlier session has left in the list is excluded: no callback is added then.
StartedIsNotLeftSuspended ==
  EventsComeUnlessEnded /\ [](Stale \notin auShouldBeResumed)
    => (status[Started] = "suspended" ~> (status[Started] # "suspended" \/ Ended))

=============================================================================
