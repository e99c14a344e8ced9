--------------------------- MODULE AttachQueueProofs ---------------------------
(***************************************************************************)
(* When mBugId decides that nothing is left to debug, cdb debugs nothing   *)
(* but the utility process: for any number of processes that start each    *)
(* other, with any number of events that wait to be reported.              *)
(*                                                                         *)
(* The decision is made from what mBugId knows.  A process it does not     *)
(* know yet was attached to, and is the first of the queue, or is the      *)
(* child of a process that was debugged.  The latter either is known, or   *)
(* its own first event waits in front of that of the child (CreateInv).    *)
(* There is no such chain without a beginning: if nothing is known but the *)
(* utility process, and nothing queued, then no first event waits.         *)
(***************************************************************************)
EXTENDS AttachQueue, FiniteSetTheorems, NaturalsInduction, WellFoundedInduction, TLAPS

-----------------------------------------------------------------------------
(* Types.                                                                  *)

EventType == [kind : EventKinds, process : Processes]

LEMMA EventsHaveType ==
  ASSUME NEW kind \in EventKinds, NEW p \in Processes
  PROVE  Event(kind, p) \in EventType
  BY DEF Event, EventType

LEMMA EventIs ==
  ASSUME NEW e \in EventType, NEW kind, NEW p
  PROVE  e = Event(kind, p) <=> e.kind = kind /\ e.process = p
  BY DEF Event, EventType

LEMMA Sequences ==
  ASSUME NEW S, NEW s \in Seq(S)
  PROVE  /\ \A e \in S : Append(s, e) \in Seq(S)
         /\ s # <<>> => Head(s) \in S /\ Tail(s) \in Seq(S)
  OBVIOUS

LEMMA PortHasType == TypeOK => port \in Seq(EventType) /\ event \in EventType
  BY DEF TypeOK, EventType

LEMMA Utilities == Utility \in Processes /\ Started \in Processes /\ Applications \subseteq Processes
  BY ProcessesAssumption DEF Processes

LEMMA InitTypeOK == Init => TypeOK
<1> SUFFICES ASSUME Init PROVE TypeOK
  OBVIOUS
<1> USE Utilities DEF Init
<1>1. PICK p \in Applications \ {Started} :
        /\ api = [step |-> "idle", process |-> p]
        /\ auProcessIdsPendingAttach = InitialQueue(p)
        /\ event = Event("create", Head(auProcessIdsPendingAttach))
        /\ status = [q \in Processes |-> IF q \in {p, Utility} THEN "running" ELSE "none"]
  OBVIOUS
<1>2. auProcessIdsPendingAttach \in Seq(Processes) /\ Head(auProcessIdsPendingAttach) \in Processes
  BY <1>1 DEF InitialQueue
<1>3. event \in EventType
  BY <1>1, <1>2, EventsHaveType DEF EventKinds
<1>4. debugged \subseteq Processes
  BY <1>3 DEF EventType
<1>5. api \in [step : {"idle", "queue", "interrupt"}, process : Applications]
  BY <1>1
<1>6. status \in [Processes -> {"none", "suspended", "running", "gone"}]
  BY <1>1
<1>7. port \in Seq(EventType)
  OBVIOUS
<1>8. /\ sMode \in {"attach", "start", "jit"} /\ starter \in {"create", "queue", "interrupt", "done"}
      /\ mainPc = "event" /\ auShouldBeResumed \subseteq {Started, Stale} /\ cdb = "prompt"
  OBVIOUS
<1>9. doProcess_by_uId = {} /\ auTerminated = {} /\ attaching = {}
  OBVIOUS
<1>10. /\ bResumeCallback \in BOOLEAN /\ bStopping \in BOOLEAN
       /\ bApplicationIsRunning \in BOOLEAN /\ bInterruptSet \in BOOLEAN
  OBVIOUS
<1> HIDE DEF Init
<1> QED
  BY <1>2, <1>3, <1>4, <1>5, <1>6, <1>7, <1>8, <1>9, <1>10 DEF TypeOK, EventType

LEMMA OtherThreadsTypeOK ==
  ASSUME TypeOK, foStartApplicationProcess \/ FindProcess \/ QueueFound \/ InterruptForFound
  PROVE  TypeOK'
<1> USE Utilities DEF TypeOK, Append_, InterruptIfRunning, cdbVars, resumeVars
<1>1. CASE CreateProcess \/ InterruptForStarted
  BY <1>1 DEF CreateProcess, InterruptForStarted, StarterUnchanged
<1>2. CASE QueueStarted
  BY <1>2 DEF QueueStarted, StarterUnchanged
<1>3. CASE FindProcess
  BY <1>3 DEF FindProcess, ApiUnchanged
<1>4. CASE QueueFound
  <2>1. api.process \in Processes /\ auProcessIdsPendingAttach' \in Seq(Processes)
    BY <1>4, Sequences DEF QueueFound
  <2>2. api' \in [step : {"idle", "queue", "interrupt"}, process : Applications]
    BY <1>4 DEF QueueFound
  <2> QED
    BY <1>4, <2>1, <2>2 DEF QueueFound, ApiUnchanged
<1>5. CASE InterruptForFound
  <2>1. api' \in [step : {"idle", "queue", "interrupt"}, process : Applications]
    BY <1>5 DEF InterruptForFound
  <2> QED
    BY <1>5, <2>1 DEF InterruptForFound, ApiUnchanged
<1> QED
  BY <1>1, <1>2, <1>3, <1>4, <1>5 DEF foStartApplicationProcess

LEMMA HandleTypeOK == ASSUME TypeOK, ftbHandleLastCdbEvent PROVE TypeOK'
<1> USE DEF TypeOK, ftbHandleLastCdbEvent
<1>0. event.process \in Processes
  OBVIOUS
<1>1. CASE HandleNewProcess(event.process)
  <2>1. auProcessIdsPendingAttach' \in Seq(Processes)
    BY <1>1 DEF HandleNewProcess, Dequeued
  <2>2. /\ auShouldBeResumed' \subseteq {Started, Stale} /\ bResumeCallback' \in BOOLEAN
        /\ status' \in [Processes -> {"none", "suspended", "running", "gone"}]
    BY <1>0, <1>1 DEF HandleNewProcess, ResumeStarted, resumeVars
  <2>3. /\ doProcess_by_uId' \subseteq Processes /\ auTerminated' \subseteq doProcess_by_uId'
        /\ mainPc' \in {"prune", "quit"}
    BY <1>0, <1>1 DEF HandleNewProcess
  <2> QED
    BY <2>1, <2>2, <2>3 DEF cdbVars
<1>2. CASE HandleKnownProcess(event.process)
  BY <1>0, <1>2 DEF HandleKnownProcess, resumeVars, cdbVars
<1> QED
  BY <1>1, <1>2

LEMMA MainTypeOK == ASSUME TypeOK, fCdbStdInOutHelperThread PROVE TypeOK'
<1> USE DEF TypeOK, queueVars, resumeVars, cdbVars, MainMoves
<1>1. CASE ftbHandleLastCdbEvent
  BY <1>1, HandleTypeOK
<1>2. CASE DeleteTerminated
  BY <1>2 DEF DeleteTerminated
<1>3. CASE AttachFirst
  <2>1. Head(auProcessIdsPendingAttach) \in Processes
    BY <1>3 DEF AttachFirst
  <2> QED
    BY <1>3, <2>1 DEF AttachFirst, fAttachCdbToProcessForId
<1>4. CASE OverOrTimeouts
  BY <1>4 DEF OverOrTimeouts
<1>5. CASE CheckStopping \/ MarkRunning \/ ReadPrompt
  BY <1>5 DEF CheckStopping, MarkRunning, ReadPrompt
<1>6. CASE Resume
  <2>1. \A p \in attaching : Event("create", p) \in EventType
    BY EventsHaveType DEF EventKinds
  <2>2. port' = port \/ \E p \in attaching : port' = Append(port, Event("create", p))
    BY <1>6 DEF Resume
  <2>3. port \in Seq(EventType)
    BY PortHasType
  <2>4. port' \in Seq(EventType)
    <3> HIDE DEF TypeOK
    <3>1. \A e \in EventType : Append(port, e) \in Seq(EventType)
      BY <2>3, Sequences
    <3> QED
      BY <2>1, <2>2, <2>3, <3>1, Zenon
  <2> QED
    BY <1>6, <2>4 DEF Resume, EventType
<1> QED
  BY <1>1, <1>2, <1>3, <1>4, <1>5, <1>6 DEF fCdbStdInOutHelperThread

LEMMA WindowsTypeOK ==
  ASSUME TypeOK, ReportEvent \/ ReportInterrupt \/ \E p \in Applications : RunApplication(p) \/ RunOther(p)
  PROVE  TypeOK'
<1> USE DEF TypeOK, queueVars, resumeVars, cdbVars, WindowsUnchanged
<1>1. CASE ReportEvent
  <2>1. event' \in EventType /\ port' \in Seq(EventType)
    BY <1>1, PortHasType, Sequences DEF ReportEvent
  <2>2. debugged' \subseteq Processes
    BY <1>1 DEF ReportEvent
  <2> QED
    BY <1>1, <2>1, <2>2 DEF ReportEvent, EventType
<1>2. CASE ReportInterrupt
  <2>1. Event("interrupt", Utility) \in EventType
    BY EventsHaveType, Utilities DEF EventKinds
  <2> QED
    BY <1>2, <2>1 DEF ReportInterrupt, EventType
<1>3. ASSUME NEW p \in Applications, RunApplication(p) PROVE TypeOK'
  <2>1. \A kind \in EventKinds, q \in Applications : Event(kind, q) \in EventType
    BY EventsHaveType, Utilities
  <2>2. \E kind \in EventKinds, q \in Applications : port' = Append(port, Event(kind, q))
    BY <1>3 DEF RunApplication, EventKinds
  <2>3. port' \in Seq(EventType)
    BY <2>1, <2>2, PortHasType, Sequences
  <2>4. debugged' \subseteq Processes
    BY <1>3, Utilities DEF RunApplication
  <2>5. status' \in [Processes -> {"none", "suspended", "running", "gone"}]
    BY <1>3 DEF RunApplication
  <2> QED
    BY <1>3, <2>3, <2>4, <2>5 DEF RunApplication, EventType
<1>4. ASSUME NEW p \in Applications, RunOther(p) PROVE TypeOK'
  BY <1>4 DEF RunOther
<1> QED
  BY <1>1, <1>2, <1>3, <1>4

LEMMA NextTypeOK == TypeOK /\ [Next]_vars => TypeOK'
<1> SUFFICES ASSUME TypeOK, [Next]_vars PROVE TypeOK'
  OBVIOUS
<1>1. CASE UNCHANGED vars
  BY <1>1 DEF TypeOK, vars, queueVars, resumeVars, cdbVars
<1> QED
  BY <1>1, OtherThreadsTypeOK, MainTypeOK, WindowsTypeOK DEF Next

\* Every variable keeps its type.
THEOREM SpecTypeOK == Spec => []TypeOK
  BY InitTypeOK, NextTypeOK, PTL DEF Spec

-----------------------------------------------------------------------------
(* The events that mBugId has still to handle, in their order: event 0 is  *)
(* the one cdb reported last, the others wait in the port.                 *)

Positions == (IF Unread THEN {0} ELSE {}) \cup 1 .. Len(port)
Ev(i) == IF i = 0 THEN event ELSE port[i]
Created(i, p) == Ev(i).kind = "create" /\ Ev(i).process = p
Exited(i, p) == Ev(i).kind = "exit" /\ Ev(i).process = p

HeadIs(p) == auProcessIdsPendingAttach # <<>> /\ Head(auProcessIdsPendingAttach) = p

CdbInv == mainPc \notin {"mark", "read"} => cdb = "prompt"

TerminatedInv ==
  /\ auTerminated # {} => mainPc \in {"prune", "quit"}
  /\ \A p \in auTerminated : p \notin debugged /\ p # Utility

\* cdb is only ever about to attach to the first process of the queue.
AttachingInv ==
  \A p \in attaching : /\ mainPc \in {"resume", "go", "quit"}
                       /\ HeadIs(p)
                       /\ p \notin debugged /\ p \notin doProcess_by_uId

\* The events are those of processes that are debugged, or that have just exited.
EventsInv ==
  /\ \A i \in Positions : Ev(i).kind = "exit" => Ev(i).process \in Applications
  /\ Unread => (event.process \in debugged <=> event.kind # "exit")
  /\ \A i \in 1 .. Len(port) : port[i].process \in debugged
  /\ \A i \in 1 .. Len(port) : port[i].kind = "exit" => status[port[i].process] = "gone"

\* The first event of a process is its creation, its last one its exit.
OrderInv ==
  \A i, j \in Positions : i < j =>
    /\ ~Exited(i, Ev(j).process)
    /\ Ev(j).kind = "create" => Ev(i).process # Ev(j).process

KnownInv ==
  mainPc # "quit" =>
    \A p \in doProcess_by_uId :
      p \in debugged \/ p \in auTerminated \/ (Unread /\ Exited(0, p))

\* A process whose exit is to be handled next is still known.
ExitInv == mainPc # "quit" /\ Unread /\ event.kind = "exit" => event.process \in doProcess_by_uId

\* A process that cdb debugs is known, or is about to be.
DebuggedInv ==
  mainPc # "quit" =>
    \A p \in debugged :
      p \in doProcess_by_uId \/ \E i \in Positions : Created(i, p)

UtilityInv == mainPc # "quit" => Utility \in doProcess_by_uId \/ Queued(Utility)

\* Before event i there is an application that can have started another one: it is known or its
\* creation is reported first, and its exit is not.
Parent(i) ==
  \E r \in Applications :
    /\ r \in doProcess_by_uId \ auTerminated \/ \E j \in Positions : j < i /\ Created(j, r)
    /\ \A k \in Positions : k < i => ~Exited(k, r)

\* A process that is not known yet is the first of the queue, or has a parent.
CreateInv ==
  mainPc # "quit" =>
    \A i \in Positions, q \in Processes :
      Created(i, q) => q \notin doProcess_by_uId /\ (HeadIs(q) \/ Parent(i))

StepInv == CdbInv /\ TerminatedInv /\ AttachingInv
PortInv == EventsInv /\ OrderInv /\ KnownInv /\ ExitInv /\ DebuggedInv /\ UtilityInv /\ CreateInv
IInv == TypeOK /\ IsFiniteSet(doProcess_by_uId) /\ StepInv /\ PortInv

-----------------------------------------------------------------------------
(* The positions of events.                                                *)

LEMMA PositionsAre ==
  ASSUME TypeOK
  PROVE  /\ Len(port) \in Nat
         /\ Positions \subseteq Nat
         /\ 0 \in Positions <=> Unread
         /\ \A i \in Nat \ {0} : i \in Positions <=> i \in 1 .. Len(port)
         /\ \A i \in 1 .. Len(port) : i # 0 /\ i \in Positions /\ Ev(i) = port[i]
         /\ Ev(0) = event
<1>1. Len(port) \in Nat
  BY DEF TypeOK
<1> QED
  BY <1>1 DEF Positions, Ev

LEMMA QueueGrows ==
  ASSUME TypeOK, NEW p, Append_(p)
  PROVE  /\ \A q : HeadIs(q) => HeadIs(q)'
         /\ Queued(Utility) => Queued(Utility)'
<1>1. auProcessIdsPendingAttach \in Seq(Processes)
  BY DEF TypeOK
<1> QED
  BY <1>1 DEF Append_, HeadIs, Queued

-----------------------------------------------------------------------------
(* Steps that leave the events, and the processes that are known or        *)
(* debugged, as they are.                                                  *)

Quiet ==
  /\ UNCHANGED <<port, event, debugged, doProcess_by_uId, auTerminated>>
  /\ Unread' <=> Unread
  /\ mainPc' # "quit" => mainPc # "quit"
  /\ \A q : HeadIs(q) => HeadIs(q)'
  /\ Queued(Utility) => Queued(Utility)'
  /\ \A q \in debugged : status[q] = "gone" => status'[q] = "gone"

LEMMA QuietPortInv == ASSUME TypeOK, PortInv, Quiet PROVE PortInv'
<1> USE DEF Quiet
<1>1. Positions' = Positions /\ \A i : Ev(i)' = Ev(i)
  BY DEF Positions, Ev
<1>2. /\ \A i, q : Created(i, q)' <=> Created(i, q)
      /\ \A i, q : Exited(i, q)' <=> Exited(i, q)
  BY <1>1 DEF Created, Exited
<1>3. EventsInv'
  BY <1>1 DEF PortInv, EventsInv
<1>4. OrderInv'
  BY <1>1, <1>2 DEF PortInv, OrderInv
<1>5. KnownInv' /\ ExitInv'
  BY <1>2 DEF PortInv, KnownInv, ExitInv
<1>6. DebuggedInv'
  BY <1>1, <1>2 DEF PortInv, DebuggedInv
<1>7. UtilityInv'
  BY DEF PortInv, UtilityInv
<1>8. \A i : Parent(i) => Parent(i)'
  BY <1>1, <1>2 DEF Parent
<1>9. CreateInv'
  BY <1>1, <1>2, <1>8 DEF PortInv, CreateInv
<1> QED
  BY <1>3, <1>4, <1>5, <1>6, <1>7, <1>9 DEF PortInv

LEMMA OtherThreadsInv ==
  ASSUME IInv, foStartApplicationProcess \/ FindProcess \/ QueueFound \/ InterruptForFound
  PROVE  IInv'
<1> USE DEF IInv
<1>1. TypeOK'
  BY OtherThreadsTypeOK
<1>2. UNCHANGED <<mainPc, cdb, attaching, port, event, debugged, doProcess_by_uId, auTerminated>>
  BY DEF foStartApplicationProcess, CreateProcess, QueueStarted, InterruptForStarted, FindProcess,
         QueueFound, InterruptForFound, StarterUnchanged, ApiUnchanged, cdbVars
<1>3. UNCHANGED auProcessIdsPendingAttach \/ \E p : Append_(p)
  BY DEF foStartApplicationProcess, CreateProcess, QueueStarted, InterruptForStarted, FindProcess,
         QueueFound, InterruptForFound
<1>4. /\ \A q : HeadIs(q) => HeadIs(q)'
      /\ Queued(Utility) => Queued(Utility)'
  <2>1. CASE UNCHANGED auProcessIdsPendingAttach
    BY <2>1 DEF HeadIs, Queued
  <2>2. CASE \E p : Append_(p)
    BY <2>2, QueueGrows
  <2> QED
    BY <1>3, <2>1, <2>2
<1>5. \A q \in debugged : status[q] = "gone" => status'[q] = "gone"
  BY DEF TypeOK, foStartApplicationProcess, CreateProcess, QueueStarted, InterruptForStarted, FindProcess,
         QueueFound, InterruptForFound, StarterUnchanged, ApiUnchanged
<1>6. Quiet
  BY <1>2, <1>4, <1>5 DEF Quiet, Unread
<1>7. StepInv'
  BY <1>2, <1>4 DEF StepInv, CdbInv, TerminatedInv, AttachingInv
<1>8. PortInv'
  BY <1>6, QuietPortInv
<1> QED
  BY <1>1, <1>2, <1>7, <1>8

LEMMA QuietMainInv ==
  ASSUME IInv, AttachFirst \/ OverOrTimeouts \/ CheckStopping \/ MarkRunning \/ ReadPrompt
  PROVE  IInv'
<1> USE DEF IInv, MainMoves, queueVars, resumeVars, cdbVars
<1>1. TypeOK'
  BY MainTypeOK DEF fCdbStdInOutHelperThread
<1>2. UNCHANGED <<cdb, port, event, debugged, auProcessIdsPendingAttach, doProcess_by_uId,
                  auTerminated, status>>
  BY DEF AttachFirst, OverOrTimeouts, CheckStopping, MarkRunning, ReadPrompt
<1>3. /\ \A q : HeadIs(q)' <=> HeadIs(q)
      /\ Queued(Utility)' <=> Queued(Utility)
  BY <1>2 DEF HeadIs, Queued
<1>4. CASE AttachFirst
  <2>1. Quiet
    BY <1>2, <1>3, <1>4 DEF Quiet, Unread, AttachFirst
  <2>2. PortInv'
    BY <2>1, QuietPortInv
  <2>3. CdbInv' /\ TerminatedInv'
    BY <1>2, <1>4 DEF StepInv, CdbInv, TerminatedInv, AttachFirst
  <2>4. attaching = {}
    BY <1>4 DEF StepInv, AttachingInv, AttachFirst
  <2>5. \A p \in attaching' : HeadIs(p) /\ p \notin debugged
    BY <1>4, <2>4 DEF AttachFirst, fAttachCdbToProcessForId, HeadIs
  <2>6. \A p \in doProcess_by_uId : p \in debugged
    <3>1. mainPc = "attach" /\ ~Unread /\ auTerminated = {}
      BY <1>4 DEF AttachFirst, Unread, StepInv, TerminatedInv
    <3> QED
      BY <3>1 DEF PortInv, KnownInv
  <2>7. AttachingInv'
    BY <1>2, <1>3, <1>4, <2>5, <2>6 DEF AttachingInv, AttachFirst
  <2> QED
    BY <1>1, <1>2, <2>2, <2>3, <2>7 DEF StepInv
<1>5. CASE OverOrTimeouts \/ CheckStopping \/ MarkRunning \/ ReadPrompt
  <2> USE DEF OverOrTimeouts, CheckStopping, MarkRunning, ReadPrompt
  <2>1. UNCHANGED attaching
    BY <1>5
  <2>2. Quiet
    BY <1>2, <1>3, <1>5 DEF Quiet, Unread
  <2>3. PortInv'
    BY <2>2, QuietPortInv
  <2>4. CdbInv' /\ TerminatedInv'
    BY <1>2, <1>5 DEF StepInv, CdbInv, TerminatedInv
  <2>5. AttachingInv'
    BY <1>2, <1>3, <1>5, <2>1 DEF StepInv, AttachingInv
  <2> QED
    BY <1>1, <1>2, <2>3, <2>4, <2>5 DEF StepInv
<1> QED
  BY <1>4, <1>5

LEMMA RunOtherInv == ASSUME IInv, NEW p \in Applications, RunOther(p) PROVE IInv'
<1> USE DEF IInv
<1>1. TypeOK'
  BY WindowsTypeOK
<1>2. UNCHANGED <<mainPc, cdb, attaching, port, event, debugged, auProcessIdsPendingAttach,
                  doProcess_by_uId, auTerminated>>
  BY DEF RunOther, WindowsUnchanged, cdbVars, queueVars
<1>3. \A q \in debugged : status[q] = "gone" => status'[q] = "gone"
  BY DEF TypeOK, RunOther
<1>4. Quiet
  BY <1>2, <1>3 DEF Quiet, Unread, HeadIs, Queued
<1>5. StepInv'
  BY <1>2 DEF StepInv, CdbInv, TerminatedInv, AttachingInv, HeadIs
<1>6. PortInv'
  BY <1>4, QuietPortInv
<1> QED
  BY <1>1, <1>2, <1>5, <1>6

-----------------------------------------------------------------------------
(* The last event is handled; terminated processes are deleted.            *)

LEMMA TailKeepsOthers ==
  ASSUME NEW S, NEW q \in Seq(S), NEW i \in 1 .. Len(q), Head(q) # q[i]
  PROVE  \E j \in 1 .. Len(Tail(q)) : Tail(q)[j] = q[i]
<1>1. i # 1
  OBVIOUS
<1>2. i - 1 \in 1 .. Len(Tail(q)) /\ Tail(q)[i - 1] = q[i]
  BY <1>1
<1> QED
  BY <1>2

LEMMA HandleInv == ASSUME IInv, ftbHandleLastCdbEvent PROVE IInv'
<1> DEFINE p == event.process
<1>1. TypeOK /\ TypeOK'
  BY HandleTypeOK DEF IInv
<1>2. /\ UNCHANGED <<cdb, attaching, port, event, debugged>>
      /\ mainPc = "event" /\ mainPc' \in {"prune", "quit"}
  BY DEF ftbHandleLastCdbEvent, HandleNewProcess, HandleKnownProcess, cdbVars
<1>3. /\ doProcess_by_uId' = doProcess_by_uId \cup {p}
      /\ auTerminated' \subseteq auTerminated \cup {p}
      /\ p \in auTerminated' => event.kind = "exit"
      /\ mainPc' # "quit" /\ event.kind = "exit" => p \in auTerminated'
  <2>1. auTerminated = {}
    BY <1>2 DEF IInv, StepInv, TerminatedInv
  <2> QED
    BY <1>2, <2>1 DEF ftbHandleLastCdbEvent, HandleNewProcess, HandleKnownProcess
<1>4. auTerminated = {} /\ attaching = {} /\ Unread /\ ~Unread'
  BY <1>2 DEF IInv, StepInv, TerminatedInv, AttachingInv, Unread
<1>5. /\ Positions' = Positions \ {0} /\ 0 \in Positions
      /\ \A i : Ev(i)' = Ev(i)
      /\ Ev(0) = event
      /\ \A i \in Positions : i # 0 => 0 < i
      /\ Positions \subseteq Nat
  <2>1. Len(port) \in Nat
    BY <1>1 DEF TypeOK
  <2> QED
    BY <1>2, <1>4, <2>1 DEF Positions, Ev
<1>6. auProcessIdsPendingAttach' \in {auProcessIdsPendingAttach, Dequeued(p)}
  BY DEF ftbHandleLastCdbEvent, HandleNewProcess, HandleKnownProcess
<1>7. \A q : HeadIs(q) /\ q # p => HeadIs(q)'
  BY <1>6 DEF HeadIs, Dequeued
<1>8. Queued(Utility) => Queued(Utility)' \/ p = Utility
  <2> SUFFICES ASSUME Queued(Utility), p # Utility, auProcessIdsPendingAttach' # auProcessIdsPendingAttach
               PROVE  Queued(Utility)'
    BY DEF Queued
  <2>1. /\ auProcessIdsPendingAttach # <<>> /\ Head(auProcessIdsPendingAttach) = p
        /\ auProcessIdsPendingAttach' = Tail(auProcessIdsPendingAttach)
    BY <1>6 DEF Dequeued
  <2>2. auProcessIdsPendingAttach \in Seq(Processes)
    BY <1>1 DEF TypeOK
  <2>3. PICK i \in 1 .. Len(auProcessIdsPendingAttach) : auProcessIdsPendingAttach[i] = Utility
    BY <2>2 DEF Queued
  <2> QED
    <3>1. Head(auProcessIdsPendingAttach) # auProcessIdsPendingAttach[i]
      BY <2>1, <2>3
    <3>2. \E j \in 1 .. Len(Tail(auProcessIdsPendingAttach)) :
            Tail(auProcessIdsPendingAttach)[j] = auProcessIdsPendingAttach[i]
      BY <2>2, <3>1, TailKeepsOthers, Zenon
    <3>3. DOMAIN Tail(auProcessIdsPendingAttach) = 1 .. Len(Tail(auProcessIdsPendingAttach))
      BY <2>1, <2>2
    <3> QED
      BY <2>1, <2>3, <3>2, <3>3, Zenon DEF Queued
<1>9. /\ \A i, q : Created(i, q)' <=> Created(i, q)
      /\ \A i, q : Exited(i, q)' <=> Exited(i, q)
  BY <1>5 DEF Created, Exited
<1>10. /\ event.kind = "exit" => p \in Applications
       /\ event.kind # "exit" <=> p \in debugged
  BY <1>4, <1>5 DEF IInv, PortInv, EventsInv
<1>11. IsFiniteSet(doProcess_by_uId')
  BY <1>3, FS_AddElement DEF IInv
<1>12. StepInv'
  <2>1. CdbInv'
    BY <1>2 DEF IInv, StepInv, CdbInv
  <2>2. TerminatedInv'
    BY <1>2, <1>3, <1>4, <1>10, ProcessesAssumption DEF TerminatedInv
  <2>3. AttachingInv'
    BY <1>2, <1>4 DEF AttachingInv
  <2> QED
    BY <2>1, <2>2, <2>3 DEF StepInv
<1>13. EventsInv'
  <2>1. UNCHANGED status \/ status' = [status EXCEPT ![p] = IF @ = "suspended" THEN "running" ELSE @]
    BY DEF ftbHandleLastCdbEvent, HandleNewProcess, HandleKnownProcess, ResumeStarted
  <2>2. \A q \in Processes : status[q] = "gone" => status'[q] = "gone"
    BY <1>1, <2>1 DEF TypeOK
  <2>3. \A i \in 1 .. Len(port) : port[i].process \in Processes
    BY <1>1 DEF TypeOK, IInv, PortInv, EventsInv
  <2> QED
    BY <1>2, <1>4, <1>5, <2>2, <2>3 DEF IInv, PortInv, EventsInv
<1>14. OrderInv'
  BY <1>5, <1>9 DEF IInv, PortInv, OrderInv
<1>19. ExitInv'
  BY <1>4 DEF ExitInv
<1>15. KnownInv'
  <2>1. \A q \in doProcess_by_uId : q \in debugged \/ Exited(0, q)
    BY <1>2, <1>4 DEF IInv, PortInv, KnownInv
  <2> QED
    BY <1>2, <1>3, <1>5, <1>10, <2>1 DEF KnownInv, Exited
<1>16. DebuggedInv'
  <2>1. \A q \in debugged :
          q \in doProcess_by_uId \/ \E i \in Positions : Created(i, q)
    BY <1>2 DEF IInv, PortInv, DebuggedInv
  <2>2. \A q : Created(0, q) => q = p
    BY <1>5 DEF Created
  <2> QED
    BY <1>2, <1>3, <1>5, <1>9, <2>1, <2>2 DEF DebuggedInv
<1>17. UtilityInv'
  BY <1>2, <1>3, <1>8 DEF IInv, PortInv, UtilityInv
<1>18. CreateInv'
  <2> SUFFICES ASSUME mainPc' # "quit", NEW i \in Positions', NEW q \in Processes, Created(i, q)
               PROVE  q \notin doProcess_by_uId' /\ (HeadIs(q)' \/ Parent(i)')
    BY <1>9 DEF CreateInv
  <2>1. i \in Positions /\ i # 0 /\ 0 < i
    BY <1>5
  <2>2. q \notin doProcess_by_uId /\ (HeadIs(q) \/ Parent(i))
    BY <1>2, <2>1 DEF IInv, PortInv, CreateInv
  <2>3. q # p
    BY <1>5, <2>1 DEF IInv, PortInv, OrderInv, Created
  <2>4. ASSUME Parent(i) PROVE Parent(i)'
    <3>1. PICK r \in Applications :
            /\ r \in doProcess_by_uId \ auTerminated \/ \E j \in Positions : j < i /\ Created(j, r)
            /\ \A k \in Positions : k < i => ~Exited(k, r)
      BY <2>4 DEF Parent
    <3>2. \A k \in Positions' : k < i => ~Exited(k, r)'
      BY <1>5, <1>9, <3>1
    <3>3. r \notin auTerminated'
      BY <1>3, <1>4, <1>5, <2>1, <3>1 DEF Exited
    <3>4. r \in doProcess_by_uId' \/ \E j \in Positions' : j < i /\ Created(j, r)'
      <4>1. CASE r \in doProcess_by_uId
        BY <1>3, <4>1
      <4>2. ASSUME NEW j \in Positions, j < i, Created(j, r)
            PROVE  r \in doProcess_by_uId' \/ \E jj \in Positions' : jj < i /\ Created(jj, r)'
        BY <1>3, <1>5, <1>9, <4>2 DEF Created
      <4> QED
        BY <3>1, <4>1, <4>2
    <3> QED
      BY <3>2, <3>3, <3>4 DEF Parent
  <2> QED
    BY <1>3, <1>7, <2>2, <2>3, <2>4
<1> QED
  BY <1>1, <1>11, <1>12, <1>13, <1>14, <1>15, <1>16, <1>17, <1>18, <1>19 DEF IInv, PortInv

LEMMA DeleteTerminatedInv == ASSUME IInv, DeleteTerminated PROVE IInv'
<1> USE DEF MainMoves, resumeVars, cdbVars
<1>1. TypeOK /\ TypeOK'
  BY MainTypeOK DEF IInv, fCdbStdInOutHelperThread
<1>2. /\ UNCHANGED <<cdb, attaching, port, event, debugged, auProcessIdsPendingAttach, status>>
      /\ mainPc = "prune" /\ mainPc' = "attach"
      /\ doProcess_by_uId' = doProcess_by_uId \ auTerminated /\ auTerminated' = {}
  BY DEF DeleteTerminated
<1>3. ~Unread /\ ~Unread' /\ Positions' = Positions /\ \A i : Ev(i)' = Ev(i)
  BY <1>2 DEF Unread, Positions, Ev
<1>4. /\ \A i, q : Created(i, q)' <=> Created(i, q)
      /\ \A i, q : Exited(i, q)' <=> Exited(i, q)
  BY <1>3 DEF Created, Exited
<1>5. \A q \in auTerminated : q \notin debugged /\ q # Utility
  BY DEF IInv, StepInv, TerminatedInv
<1>6. IsFiniteSet(doProcess_by_uId')
  BY <1>2, FS_Subset DEF IInv
<1>7. StepInv'
  BY <1>2 DEF IInv, StepInv, CdbInv, TerminatedInv, AttachingInv, HeadIs
<1>8. EventsInv' /\ OrderInv'
  BY <1>2, <1>3, <1>4 DEF IInv, PortInv, EventsInv, OrderInv
<1>9. KnownInv' /\ ExitInv' /\ DebuggedInv' /\ UtilityInv'
  BY <1>2, <1>3, <1>4, <1>5 DEF IInv, PortInv, KnownInv, ExitInv, DebuggedInv, UtilityInv, Queued
<1>10. \A i : Parent(i) => Parent(i)'
  BY <1>2, <1>3, <1>4 DEF Parent
<1>11. CreateInv'
  BY <1>2, <1>3, <1>4, <1>10 DEF IInv, PortInv, CreateInv, HeadIs
<1> QED
  BY <1>1, <1>6, <1>7, <1>8, <1>9, <1>11 DEF IInv, PortInv

-----------------------------------------------------------------------------
(* Steps that add an event to the port, while cdb is running or is about   *)
(* to.                                                                     *)

LEMMA AppendedPositions ==
  ASSUME TypeOK, ~Unread, ~Unread', NEW e, port' = Append(port, e), UNCHANGED event,
         NEW n, n = Len(port) + 1
  PROVE  /\ n \notin Positions
         /\ Positions' = Positions \cup {n}
         /\ \A i \in Positions : i \in Nat /\ i < n /\ ~(n < i)
         /\ ~(n < n)
         /\ \A i \in Positions : Ev(i)' = Ev(i)
         /\ Ev(n)' = e
         /\ Positions = 1 .. Len(port) /\ Positions' = 1 .. Len(port')
         /\ \A i \in Positions : Ev(i) = port[i]
         /\ \A i \in Positions' : Ev(i)' = port'[i]
<1>1. port \in Seq(EventType) /\ Len(port) \in Nat
  BY PortHasType
<1>2. Positions = 1 .. Len(port) /\ Positions' = 1 .. Len(port')
  BY DEF Positions
<1>3. Len(port') = n /\ port'[n] = e /\ \A i \in 1 .. Len(port) : port'[i] = port[i]
  BY <1>1
<1>4. \A i \in Positions : Ev(i)' = Ev(i) /\ Ev(i) = port[i]
  BY <1>1, <1>2, <1>3 DEF Ev
<1>5. \A i \in Positions' : Ev(i)' = port'[i]
  BY <1>1, <1>2, <1>3 DEF Ev
<1>6. Ev(n)' = e
  BY <1>1, <1>2, <1>3, <1>5
<1> QED
  BY <1>1, <1>2, <1>3, <1>4, <1>5, <1>6

\* What an event that is added has to satisfy.
LEMMA AppendedPortInv ==
  ASSUME TypeOK, PortInv, ~Unread, ~Unread', NEW e, port' = Append(port, e),
         NEW n, n = Len(port) + 1,
         UNCHANGED <<event, auProcessIdsPendingAttach, doProcess_by_uId, auTerminated>>,
         mainPc # "quit",
         e.process \in debugged', e.kind = "exit" => e.process \in Applications,
         debugged' = debugged \cup {e.process},
         e.process \in debugged' \ debugged => e.kind = "create",
         \A q \in debugged : status[q] = "gone" => status'[q] = "gone",
         e.kind = "exit" => status'[e.process] = "gone",
         \A i \in Positions : ~Exited(i, e.process),
         e.kind = "create" =>
           /\ e.process \notin debugged
           /\ e.process \notin doProcess_by_uId
           /\ \/ HeadIs(e.process)
              \/ \E r \in Applications :
                   /\ r \in doProcess_by_uId \ auTerminated \/ \E j \in Positions : Created(j, r)
                   /\ \A k \in Positions : ~Exited(k, r)
  PROVE  PortInv'
<1>1. /\ n \notin Positions /\ Positions' = Positions \cup {n}
      /\ \A i \in Positions : i \in Nat /\ i < n /\ ~(n < i)
      /\ ~(n < n)
      /\ \A i \in Positions : Ev(i)' = Ev(i)
      /\ Ev(n)' = e
  BY AppendedPositions
<1>2. /\ Positions = 1 .. Len(port) /\ Positions' = 1 .. Len(port')
      /\ \A i \in Positions : Ev(i) = port[i]
      /\ \A i \in Positions' : Ev(i)' = port'[i]
  BY AppendedPositions
<1>3. /\ \A i \in Positions : \A q : Created(i, q)' <=> Created(i, q)
      /\ \A i \in Positions : \A q : Exited(i, q)' <=> Exited(i, q)
      /\ \A q : Created(n, q)' <=> e.kind = "create" /\ e.process = q
  BY <1>1 DEF Created, Exited
<1>4. \A i \in Positions : Ev(i).process \in debugged
  BY <1>2 DEF PortInv, EventsInv
<1>5. EventsInv'
  <2>1. \A i \in Positions' : Ev(i)'.kind = "exit" => Ev(i)'.process \in Applications
    BY <1>1 DEF PortInv, EventsInv
  <2>2. \A i \in Positions' : Ev(i)'.process \in debugged'
    BY <1>1, <1>4
  <2>3. \A i \in Positions' : Ev(i)'.kind = "exit" => status'[Ev(i)'.process] = "gone"
    <3>1. \A i \in Positions : Ev(i).kind = "exit" => status[Ev(i).process] = "gone"
      BY <1>2 DEF PortInv, EventsInv
    <3> QED
      BY <1>1, <1>4, <3>1
  <2> QED
    BY <1>2, <2>1, <2>2, <2>3 DEF EventsInv
<1>6. OrderInv'
  <2> SUFFICES ASSUME NEW i \in Positions', NEW j \in Positions', i < j
               PROVE  /\ ~Exited(i, Ev(j).process)'
                      /\ (Ev(j).kind = "create" => Ev(i).process # Ev(j).process)'
    BY DEF OrderInv
  <2>1. i \in Positions
    BY <1>1
  <2>2. CASE j \in Positions
    BY <1>1, <2>1, <2>2 DEF PortInv, OrderInv, Exited
  <2>3. CASE j = n
    BY <1>1, <1>4, <2>1, <2>3 DEF Exited
  <2> QED
    BY <1>1, <2>2, <2>3
<1>7. KnownInv' /\ ExitInv'
  BY DEF PortInv, KnownInv, ExitInv
<1>8. DebuggedInv'
  <2>1. \A q \in debugged :
          q \in doProcess_by_uId \/ \E i \in Positions : Created(i, q)
    BY DEF PortInv, DebuggedInv
  <2> QED
    BY <1>1, <1>3, <2>1 DEF DebuggedInv
<1>9. UtilityInv'
  BY DEF PortInv, UtilityInv, Queued
<1>10. CreateInv'
  <2> SUFFICES ASSUME NEW i \in Positions', NEW q \in Processes, Created(i, q)'
               PROVE  q \notin doProcess_by_uId /\ (HeadIs(q) \/ Parent(i)')
    BY DEF CreateInv, HeadIs
  <2>1. CASE i \in Positions
    <3>1. q \notin doProcess_by_uId /\ (HeadIs(q) \/ Parent(i))
      BY <1>3, <2>1 DEF PortInv, CreateInv
    <3>2. ASSUME Parent(i) PROVE Parent(i)'
      <4>1. PICK r \in Applications :
              /\ r \in doProcess_by_uId \ auTerminated \/ \E j \in Positions : j < i /\ Created(j, r)
              /\ \A k \in Positions : k < i => ~Exited(k, r)
        BY <3>2 DEF Parent
      <4>2. \A k \in Positions' : k < i => ~Exited(k, r)'
        BY <1>1, <1>3, <2>1, <4>1
      <4>3. (\E j \in Positions : j < i /\ Created(j, r)) => \E j \in Positions' : j < i /\ Created(j, r)'
        BY <1>1, <1>3
      <4> QED
        BY <4>1, <4>2, <4>3 DEF Parent
    <3> QED
      BY <3>1, <3>2
  <2>2. CASE i = n
    <3>1. e.kind = "create" /\ q = e.process
      BY <1>3, <2>2
    <3>2. ASSUME NEW r \in Applications,
                 r \in doProcess_by_uId \ auTerminated \/ \E j \in Positions : Created(j, r),
                 \A k \in Positions : ~Exited(k, r)
          PROVE  Parent(n)'
      <4>1. \A k \in Positions' : k < n => ~Exited(k, r)'
        BY <1>1, <1>3, <3>2
      <4>2. (\E j \in Positions : Created(j, r)) => \E j \in Positions' : j < n /\ Created(j, r)'
        BY <1>1, <1>3
      <4> QED
        BY <3>2, <4>1, <4>2 DEF Parent
    <3> QED
      BY <2>2, <3>1, <3>2
  <2> QED
    BY <1>1, <2>1, <2>2
<1> QED
  BY <1>5, <1>6, <1>7, <1>8, <1>9, <1>10 DEF PortInv

LEMMA ResumeInv == ASSUME IInv, Resume PROVE IInv'
<1> USE DEF MainMoves, queueVars, resumeVars
<1>1. TypeOK /\ TypeOK'
  BY MainTypeOK DEF IInv, fCdbStdInOutHelperThread
<1>2. /\ mainPc = "go" /\ mainPc' = "mark" /\ cdb' = "running" /\ attaching' = {}
      /\ debugged' = debugged \cup attaching
      /\ UNCHANGED <<event, auProcessIdsPendingAttach, doProcess_by_uId, auTerminated, status>>
  BY DEF Resume
<1>3. ~Unread /\ ~Unread' /\ auTerminated = {}
  BY <1>2 DEF Unread, IInv, StepInv, TerminatedInv
<1>4. \A p \in attaching : HeadIs(p) /\ p \notin debugged /\ p \notin doProcess_by_uId
  BY DEF IInv, StepInv, AttachingInv
<1>5. StepInv'
  BY <1>2, <1>3 DEF StepInv, CdbInv, TerminatedInv, AttachingInv
<1>6. CASE attaching = {} /\ UNCHANGED port
  <2>1. Quiet
    BY <1>2, <1>3, <1>6 DEF Quiet, HeadIs, Queued
  <2>2. PortInv'
    BY <1>1, <2>1, QuietPortInv DEF IInv
  <2> QED
    BY <1>1, <1>2, <1>5, <2>2 DEF IInv
<1>7. ASSUME NEW p \in attaching, port' = Append(port, Event("create", p)) PROVE IInv'
  <2> DEFINE e == [kind |-> "create", process |-> p]
  <2>1. e.kind = "create" /\ e.process = p /\ port' = Append(port, e)
    BY <1>7 DEF Event
  <2> HIDE DEF e
  <2>2. attaching = {p} /\ HeadIs(p) /\ p \notin debugged /\ p \notin doProcess_by_uId
    BY <1>4, <1>7 DEF HeadIs
  <2>3. \A i \in Positions : ~Exited(i, p)
    <3>1. Len(port) \in Nat
      BY <1>1 DEF TypeOK
    <3>2. \A i \in Positions : Ev(i).process \in debugged
      BY <1>3, <3>1 DEF IInv, PortInv, EventsInv, Positions, Ev
    <3> QED
      BY <2>2, <3>2 DEF Exited
  <2>4. PICK n : n = Len(port) + 1
    OBVIOUS
  <2>5. PortInv'
    <3>1. debugged' = debugged \cup {e.process} /\ e.process \in debugged'
      BY <1>2, <2>1, <2>2
    <3>2. mainPc # "quit" /\ TypeOK /\ PortInv
      BY <1>1, <1>2 DEF IInv
    <3> QED
      BY <1>2, <1>3, <2>1, <2>2, <2>3, <2>4, <3>1, <3>2, AppendedPortInv
  <2> QED
    BY <1>1, <1>2, <1>5, <2>5 DEF IInv
<1> QED
  BY <1>6, <1>7 DEF Resume

LEMMA RunApplicationInv == ASSUME IInv, NEW p \in Applications, RunApplication(p) PROVE IInv'
<1> USE DEF WindowsUnchanged, queueVars, resumeVars
<1>1. TypeOK /\ TypeOK'
  BY WindowsTypeOK DEF IInv
<1>2. /\ cdb = "running" /\ p \in debugged /\ status[p] = "running"
      /\ UNCHANGED <<cdb, attaching, event, mainPc, auProcessIdsPendingAttach, doProcess_by_uId,
                     auTerminated>>
  BY DEF RunApplication
<1>3. mainPc \in {"mark", "read"} /\ ~Unread /\ ~Unread' /\ auTerminated = {} /\ attaching = {}
  BY <1>2 DEF Unread, IInv, StepInv, CdbInv, TerminatedInv, AttachingInv
<1>4. StepInv'
  BY <1>2, <1>3 DEF StepInv, CdbInv, TerminatedInv, AttachingInv
<1>5. /\ \A i \in Positions : Ev(i).process \in debugged
      /\ \A i \in Positions : Ev(i).kind = "exit" => status[Ev(i).process] = "gone"
  <2>1. Len(port) \in Nat
    BY <1>1 DEF TypeOK
  <2> QED
    BY <1>3, <2>1 DEF IInv, PortInv, EventsInv, Positions, Ev
<1>6. \A i \in Positions : ~Exited(i, p)
  BY <1>2, <1>5 DEF Exited
<1>7. PICK n : n = Len(port) + 1
  OBVIOUS
<1>8. mainPc # "quit" /\ PortInv
  BY <1>3 DEF IInv
<1>9. ASSUME NEW kind \in {"other", "exit"}, port' = Append(port, Event(kind, p)), UNCHANGED debugged,
             status' = IF kind = "exit" THEN [status EXCEPT ![p] = "gone"] ELSE status
      PROVE  PortInv'
  <2> DEFINE e == [kind |-> kind, process |-> p]
  <2>1. e.kind = kind /\ e.process = p /\ port' = Append(port, e)
    BY <1>9 DEF Event
  <2> HIDE DEF e
  <2>2. /\ \A q \in debugged : status[q] = "gone" => status'[q] = "gone"
        /\ kind = "exit" => status'[p] = "gone"
    BY <1>1, <1>2, <1>9 DEF TypeOK
  <2>3. debugged' = debugged \cup {e.process} /\ e.process \in debugged'
    BY <1>2, <1>9, <2>1
  <2> QED
    BY <1>1, <1>2, <1>3, <1>6, <1>7, <1>8, <1>9, <2>1, <2>2, <2>3, AppendedPortInv
<1>10. ASSUME NEW child \in Applications, child \notin debugged, debugged' = debugged \cup {child},
              status' = [status EXCEPT ![child] = "running"],
              port' = Append(port, Event("create", child))
       PROVE  PortInv'
  <2> DEFINE e == [kind |-> "create", process |-> child]
  <2>1. e.kind = "create" /\ e.process = child /\ port' = Append(port, e)
    BY <1>10 DEF Event
  <2> HIDE DEF e
  <2>2. \A q \in debugged : status[q] = "gone" => status'[q] = "gone"
    BY <1>1, <1>10 DEF TypeOK
  <2>3. debugged' = debugged \cup {e.process} /\ e.process \in debugged'
    BY <1>10, <2>1
  <2>4. \A i \in Positions : ~Exited(i, child)
    BY <1>5, <1>10 DEF Exited
  <2>5. child \notin doProcess_by_uId
    BY <1>3, <1>10 DEF IInv, PortInv, KnownInv
  <2>6. p \in doProcess_by_uId \ auTerminated \/ \E j \in Positions : Created(j, p)
    BY <1>2, <1>3 DEF IInv, PortInv, DebuggedInv
  <2> QED
    BY <1>1, <1>2, <1>3, <1>6, <1>7, <1>8, <1>10, <2>1, <2>2, <2>3, <2>4, <2>5, <2>6, AppendedPortInv
<1>11. PortInv'
  BY <1>9, <1>10 DEF RunApplication
<1> QED
  BY <1>1, <1>2, <1>4, <1>11 DEF IInv

-----------------------------------------------------------------------------
(* cdb reports.                                                            *)

LEMMA ReportedPositions ==
  ASSUME TypeOK, ~Unread, Unread', port # <<>>, event' = Head(port), port' = Tail(port)
  PROVE  /\ \A i \in Positions' : i \in Nat /\ i + 1 \in Positions /\ Ev(i)' = Ev(i + 1)
         /\ \A i \in Positions : i \in Nat /\ i - 1 \in Positions' /\ Ev(i - 1)' = Ev(i)
         /\ Positions = 1 .. Len(port) /\ Positions' = {0} \cup 1 .. Len(port')
         /\ \A i \in Positions : Ev(i) = port[i]
         /\ \A i \in 1 .. Len(port') : port'[i] = Ev(i + 1) /\ i + 1 \in Positions
         /\ 1 \in Positions /\ Ev(1) = event' /\ \A i \in Positions : i # 1 => 1 < i
<1>1. port \in Seq(EventType) /\ Len(port) \in Nat \ {0}
  BY PortHasType
<1>2. Positions = 1 .. Len(port) /\ Positions' = {0} \cup 1 .. Len(port')
  BY DEF Positions
<1>3. Len(port') = Len(port) - 1 /\ \A i \in 1 .. Len(port) - 1 : port'[i] = port[i + 1]
  BY <1>1
<1>4. \A i \in Positions : Ev(i) = port[i]
  BY <1>1, <1>2 DEF Ev
<1>5. \A i \in Positions' : i \in Nat /\ i + 1 \in Positions
  BY <1>1, <1>2, <1>3
<1>6. 1 \in Positions /\ Ev(1) = event'
  BY <1>1, <1>2, <1>4
<1>7. \A i \in 1 .. Len(port') : port'[i] = Ev(i + 1) /\ i + 1 \in Positions
  BY <1>1, <1>2, <1>3, <1>4, <1>5
<1>8. \A i \in Positions' : Ev(i)' = Ev(i + 1)
  BY <1>2, <1>6, <1>7 DEF Ev
<1>9. \A i \in Positions : i \in Nat /\ i - 1 \in Positions' /\ (i - 1) + 1 = i
  BY <1>1, <1>2, <1>3
<1>10. \A i \in Positions : Ev(i - 1)' = Ev(i)
  BY <1>8, <1>9
<1>11. \A i \in Positions : i # 1 => 1 < i
  BY <1>1, <1>2
<1> QED
  BY <1>2, <1>4, <1>5, <1>6, <1>7, <1>8, <1>9, <1>10, <1>11

LEMMA ReportEventInv == ASSUME IInv, ReportEvent PROVE IInv'
<1> USE DEF WindowsUnchanged, queueVars, resumeVars
<1>1. TypeOK /\ TypeOK'
  BY WindowsTypeOK DEF IInv
<1>2. /\ cdb = "running" /\ cdb' = "prompt" /\ port # <<>>
      /\ event' = Head(port) /\ port' = Tail(port)
      /\ debugged' = IF event'.kind = "exit" THEN debugged \ {event'.process} ELSE debugged
      /\ UNCHANGED <<attaching, status, mainPc, auProcessIdsPendingAttach, doProcess_by_uId,
                     auTerminated>>
  BY DEF ReportEvent
<1>3. mainPc \in {"mark", "read"} /\ ~Unread /\ Unread' /\ auTerminated = {} /\ attaching = {}
  BY <1>2 DEF Unread, IInv, StepInv, CdbInv, TerminatedInv, AttachingInv
<1>4. StepInv'
  BY <1>2, <1>3 DEF StepInv, CdbInv, TerminatedInv, AttachingInv
<1>5. /\ \A i \in Positions' : i \in Nat /\ i + 1 \in Positions /\ Ev(i)' = Ev(i + 1)
      /\ \A i \in Positions : i \in Nat /\ i - 1 \in Positions' /\ Ev(i - 1)' = Ev(i)
      /\ Positions = 1 .. Len(port) /\ Positions' = {0} \cup 1 .. Len(port')
      /\ \A i \in Positions : Ev(i) = port[i]
      /\ \A i \in 1 .. Len(port') : port'[i] = Ev(i + 1) /\ i + 1 \in Positions
      /\ 1 \in Positions /\ Ev(1) = event' /\ \A i \in Positions : i # 1 => 1 < i
  BY <1>1, <1>2, <1>3, ReportedPositions
<1>6. /\ \A i \in Positions' : \A q : Created(i, q)' <=> Created(i + 1, q)
      /\ \A i \in Positions' : \A q : Exited(i, q)' <=> Exited(i + 1, q)
      /\ \A i \in Positions : \A q : Created(i - 1, q)' <=> Created(i, q)
  BY <1>5 DEF Created, Exited
<1>7. \A i \in Positions : Ev(i).process \in debugged
  BY <1>5 DEF IInv, PortInv, EventsInv
<1>8. EventsInv'
  <2>1. \A i \in Positions' : Ev(i)'.kind = "exit" => Ev(i)'.process \in Applications
    BY <1>5 DEF IInv, PortInv, EventsInv
  <2>2. event'.process \in debugged' <=> event'.kind # "exit"
    BY <1>2, <1>5, <1>7
  <2>3. ASSUME NEW i \in 1 .. Len(port') PROVE port'[i].process \in debugged'
    <3>1. i \in Positions' /\ 1 < i + 1
      BY <1>5
    <3>2. i + 1 \in Positions /\ port'[i] = Ev(i + 1)
      BY <1>5
    <3>3. ~Exited(1, Ev(i + 1).process)
      BY <1>5, <3>1, <3>2 DEF IInv, PortInv, OrderInv
    <3> QED
      BY <1>2, <1>5, <1>7, <3>2, <3>3 DEF Exited
  <2>4. ASSUME NEW i \in 1 .. Len(port') PROVE port'[i].kind = "exit" => status[port'[i].process] = "gone"
    <3>1. \A j \in Positions : Ev(j).kind = "exit" => status[Ev(j).process] = "gone"
      BY <1>5 DEF IInv, PortInv, EventsInv
    <3>2. i + 1 \in Positions /\ port'[i] = Ev(i + 1)
      BY <1>5
    <3> QED
      BY <3>1, <3>2
  <2> QED
    BY <1>2, <2>1, <2>2, <2>3, <2>4 DEF EventsInv
<1>9. OrderInv'
  <2> SUFFICES ASSUME NEW i \in Positions', NEW j \in Positions', i < j
               PROVE  /\ ~Exited(i, Ev(j).process)'
                      /\ (Ev(j).kind = "create" => Ev(i).process # Ev(j).process)'
    BY DEF OrderInv
  <2>1. i + 1 \in Positions /\ j + 1 \in Positions /\ i + 1 < j + 1
    BY <1>5
  <2>2. /\ ~Exited(i + 1, Ev(j + 1).process)
        /\ Ev(j + 1).kind = "create" => Ev(i + 1).process # Ev(j + 1).process
    BY <2>1 DEF IInv, PortInv, OrderInv
  <2> QED
    BY <1>5, <2>2 DEF Exited
<1>10. KnownInv'
  <2>1. \A q \in doProcess_by_uId : q \in debugged
    BY <1>3 DEF IInv, PortInv, KnownInv
  <2>2. Ev(0)' = event'
    BY DEF Ev
  <2> QED
    BY <1>2, <1>3, <2>1, <2>2 DEF KnownInv, Exited
<1>15. ExitInv'
  <2> SUFFICES ASSUME event'.kind = "exit" PROVE event'.process \in doProcess_by_uId
    BY <1>2 DEF ExitInv
  <2>1. Exited(1, event'.process)
    BY <1>5 DEF Exited
  <2>2. \A i \in Positions : ~Created(i, event'.process)
    BY <1>5, <2>1 DEF IInv, PortInv, OrderInv, Created, Exited
  <2> QED
    BY <1>3, <1>5, <1>7, <2>2 DEF IInv, PortInv, DebuggedInv
<1>11. DebuggedInv'
  <2>1. \A q \in debugged :
          q \in doProcess_by_uId \/ \E i \in Positions : Created(i, q)
    BY <1>3 DEF IInv, PortInv, DebuggedInv
  <2>2. \A q : (\E i \in Positions : Created(i, q)) => \E i \in Positions' : Created(i, q)'
    BY <1>5, <1>6
  <2> QED
    BY <1>2, <2>1, <2>2 DEF DebuggedInv
<1>12. UtilityInv'
  BY <1>2 DEF IInv, PortInv, UtilityInv, Queued
<1>13. ASSUME NEW i \in Positions', Parent(i + 1) PROVE Parent(i)'
  <2>1. PICK r \in Applications :
          /\ r \in doProcess_by_uId \ auTerminated \/ \E j \in Positions : j < i + 1 /\ Created(j, r)
          /\ \A k \in Positions : k < i + 1 => ~Exited(k, r)
    BY <1>13 DEF Parent
  <2>2. \A k \in Positions' : k < i => ~Exited(k, r)'
    <3> SUFFICES ASSUME NEW k \in Positions', k < i PROVE ~Exited(k, r)'
      OBVIOUS
    <3>1. k + 1 \in Positions /\ k + 1 < i + 1
      BY <1>5
    <3> QED
      BY <1>6, <2>1, <3>1
  <2>3. ASSUME NEW j \in Positions, j < i + 1, Created(j, r)
        PROVE  \E jj \in Positions' : jj < i /\ Created(jj, r)'
    <3>1. j - 1 \in Positions' /\ j - 1 < i
      BY <1>5, <2>3
    <3> QED
      BY <1>6, <2>3, <3>1
  <2> QED
    BY <1>2, <2>1, <2>2, <2>3 DEF Parent
<1>14. CreateInv'
  <2> SUFFICES ASSUME NEW i \in Positions', NEW q \in Processes, Created(i, q)'
               PROVE  q \notin doProcess_by_uId /\ (HeadIs(q) \/ Parent(i)')
    BY <1>2 DEF CreateInv, HeadIs
  <2>1. i + 1 \in Positions /\ Created(i + 1, q)
    BY <1>5, <1>6
  <2>2. q \notin doProcess_by_uId /\ (HeadIs(q) \/ Parent(i + 1))
    BY <1>3, <2>1 DEF IInv, PortInv, CreateInv
  <2> QED
    BY <1>13, <2>2
<1> QED
  BY <1>1, <1>2, <1>4, <1>8, <1>9, <1>10, <1>11, <1>12, <1>14, <1>15 DEF IInv, PortInv

LEMMA ReportInterruptInv == ASSUME IInv, ReportInterrupt PROVE IInv'
<1> USE DEF WindowsUnchanged, queueVars, resumeVars
<1>1. TypeOK /\ TypeOK'
  BY WindowsTypeOK DEF IInv
<1>2. /\ cdb = "running" /\ cdb' = "prompt" /\ Utility \in debugged
      /\ event' = Event("interrupt", Utility)
      /\ UNCHANGED <<attaching, debugged, port, status, mainPc, auProcessIdsPendingAttach,
                     doProcess_by_uId, auTerminated>>
  BY DEF ReportInterrupt
<1>3. mainPc \in {"mark", "read"} /\ ~Unread /\ Unread' /\ auTerminated = {} /\ attaching = {}
  BY <1>2 DEF Unread, IInv, StepInv, CdbInv, TerminatedInv, AttachingInv
<1>4. StepInv'
  BY <1>2, <1>3 DEF StepInv, CdbInv, TerminatedInv, AttachingInv
<1>5. /\ Positions' = Positions \cup {0} /\ 0 \notin Positions /\ Positions \subseteq Nat
      /\ \A i \in Positions : Ev(i)' = Ev(i) /\ 0 < i /\ ~(i < 0)
      /\ Ev(0)'.kind = "interrupt" /\ Ev(0)'.process = Utility /\ Ev(0)' = event'
  <2>1. Len(port) \in Nat
    BY <1>1 DEF TypeOK
  <2> QED
    BY <1>2, <1>3, <2>1 DEF Positions, Ev, Event
<1>6. /\ \A i \in Positions : \A q : Created(i, q)' <=> Created(i, q)
      /\ \A i \in Positions : \A q : Exited(i, q)' <=> Exited(i, q)
      /\ \A q : ~Created(0, q)' /\ ~Exited(0, q)'
  BY <1>5 DEF Created, Exited
<1>7. EventsInv'
  BY <1>2, <1>5 DEF IInv, PortInv, EventsInv
<1>8. OrderInv'
  <2> SUFFICES ASSUME NEW i \in Positions', NEW j \in Positions', i < j
               PROVE  /\ ~Exited(i, Ev(j).process)'
                      /\ (Ev(j).kind = "create" => Ev(i).process # Ev(j).process)'
    BY DEF OrderInv
  <2>1. j \in Positions
    BY <1>5
  <2>2. CASE i \in Positions
    BY <1>5, <2>1, <2>2 DEF IInv, PortInv, OrderInv, Exited
  <2>3. CASE i = 0
    <3>1. port \in Seq(EventType) /\ j \in 1 .. Len(port) /\ Ev(j) = port[j]
      BY <1>1, <1>3, <2>1, PortHasType, PositionsAre DEF Positions
    <3>2. port[j] # Event("create", Utility)
      BY <3>1 DEF ReportInterrupt
    <3>3. ~(Ev(j).kind = "create" /\ Ev(j).process = Utility)
      BY <3>1, <3>2, EventIs
    <3> QED
      BY <1>5, <1>6, <2>1, <2>3, <3>3
  <2> QED
    BY <1>5, <2>2, <2>3
<1>9. KnownInv' /\ ExitInv' /\ DebuggedInv' /\ UtilityInv'
  BY <1>2, <1>3, <1>5, <1>6 DEF IInv, PortInv, KnownInv, ExitInv, DebuggedInv, UtilityInv, Queued
<1>10. ASSUME NEW i \in Positions, Parent(i) PROVE Parent(i)'
  BY <1>2, <1>5, <1>6, <1>10 DEF Parent
<1>11. CreateInv'
  BY <1>2, <1>3, <1>5, <1>6, <1>10 DEF IInv, PortInv, CreateInv, HeadIs
<1> QED
  BY <1>1, <1>2, <1>4, <1>7, <1>8, <1>9, <1>11 DEF IInv, PortInv

-----------------------------------------------------------------------------
(* The theorems.                                                           *)

LEMMA InitInv == Init => IInv
<1> SUFFICES ASSUME Init PROVE IInv
  OBVIOUS
<1>1. TypeOK
  BY InitTypeOK
<1>2. /\ doProcess_by_uId = {} /\ auTerminated = {} /\ attaching = {} /\ cdb = "prompt"
      /\ mainPc = "event" /\ debugged = {event.process} /\ port = <<>>
  BY DEF Init
<1>3. PICK p \in Applications \ {Started} : auProcessIdsPendingAttach = InitialQueue(p)
  BY DEF Init
<1>4. event = Event("create", Head(auProcessIdsPendingAttach))
  BY DEF Init
<1>5. /\ auProcessIdsPendingAttach # <<>>
      /\ \E i \in DOMAIN auProcessIdsPendingAttach : auProcessIdsPendingAttach[i] = Utility
  <2>1. sMode \in {"attach", "start", "jit"}
    BY DEF Init
  <2>2. auProcessIdsPendingAttach \in {<<Utility, p>>, <<Utility>>, <<p, Utility>>}
    BY <1>3, <2>1 DEF InitialQueue
  <2> QED
    BY <2>2
<1>6. /\ Unread /\ Positions = {0} /\ Ev(0) = event
      /\ event.kind = "create" /\ HeadIs(event.process)
  BY <1>2, <1>4, <1>5 DEF Unread, Positions, Ev, Event, HeadIs
<1>7. IsFiniteSet(doProcess_by_uId)
  BY <1>2, FS_EmptySet
<1>8. StepInv
  BY <1>2 DEF StepInv, CdbInv, TerminatedInv, AttachingInv
<1>9. EventsInv /\ OrderInv
  BY <1>2, <1>6 DEF EventsInv, OrderInv
<1>10. KnownInv /\ ExitInv /\ DebuggedInv /\ UtilityInv /\ CreateInv
  BY <1>2, <1>5, <1>6 DEF KnownInv, ExitInv, DebuggedInv, UtilityInv, CreateInv, Queued, Created
<1> QED
  BY <1>1, <1>7, <1>8, <1>9, <1>10 DEF IInv, PortInv

LEMMA NextInv == IInv /\ [Next]_vars => IInv'
<1> SUFFICES ASSUME IInv, [Next]_vars PROVE IInv'
  OBVIOUS
<1>1. CASE UNCHANGED vars
  <2>1. UNCHANGED <<mainPc, cdb, attaching, port, event, debugged, status, auProcessIdsPendingAttach,
                    doProcess_by_uId, auTerminated>>
    BY <1>1 DEF vars, queueVars, cdbVars
  <2>2. TypeOK'
    BY <1>1, NextTypeOK DEF IInv
  <2>3. Quiet
    BY <2>1 DEF Quiet, Unread, HeadIs, Queued
  <2>4. StepInv'
    BY <2>1 DEF IInv, StepInv, CdbInv, TerminatedInv, AttachingInv, HeadIs
  <2> QED
    BY <2>1, <2>2, <2>3, <2>4, QuietPortInv DEF IInv
<1>2. CASE fCdbStdInOutHelperThread
  BY <1>2, HandleInv, DeleteTerminatedInv, QuietMainInv, ResumeInv DEF fCdbStdInOutHelperThread
<1> QED
  BY <1>1, <1>2, OtherThreadsInv, ReportEventInv, ReportInterruptInv, RunApplicationInv, RunOtherInv
  DEF Next

LEMMA SpecInv == Spec => []IInv
  BY InitInv, NextInv, PTL DEF Spec

LEMMA LeastPosition ==
  ASSUME NEW S, S \subseteq Nat, S # {}
  PROVE  \E i \in S : \A j \in S : ~(j < i)
<1> DEFINE R == {ss \in Nat \X Nat : ss[1] < ss[2]}
<1>1. IsWellFoundedOn(R, Nat)
  BY NatLessThanWellFounded, Zenon DEF OpToRel
<1>2. PICK i \in S : \A j \in S : ~(<<j, i>> \in R)
  BY <1>1, WFMin, Zenon
<1> QED
  BY <1>2

LEMMA OnlyMember ==
  ASSUME NEW S, NEW u \in S, IsFiniteSet(S), Cardinality(S) = 1
  PROVE  S = {u}
  BY FS_Singleton

\* The events that property KnownAreReported speaks of are those at the positions.
LEMMA AwaitedAre ==
  ASSUME TypeOK, NEW p
  PROVE  /\ Awaited(Event("create", p)) <=> \E i \in Positions : Created(i, p)
         /\ Awaited(Event("exit", p)) <=> \E i \in Positions : Exited(i, p)
<1>1. event \in EventType /\ port \in Seq(EventType)
  BY PortHasType
<1>2. DOMAIN port = 1 .. Len(port) /\ \A i \in 1 .. Len(port) : port[i] \in EventType
  BY <1>1
<1>3. ASSUME NEW kind
      PROVE  Awaited(Event(kind, p))
               <=> \E i \in Positions : Ev(i).kind = kind /\ Ev(i).process = p
  <2>1. event = Event(kind, p) <=> event.kind = kind /\ event.process = p
    BY <1>1, EventIs
  <2>2. \A i \in 1 .. Len(port) :
          port[i] = Event(kind, p) <=> port[i].kind = kind /\ port[i].process = p
    BY <1>2, EventIs
  <2>3. /\ 0 \in Positions <=> Unread
        /\ \A i \in Positions : i # 0 => i \in 1 .. Len(port)
        /\ \A i \in 1 .. Len(port) : i \in Positions /\ Ev(i) = port[i]
        /\ Ev(0) = event
    BY PositionsAre
  <2> QED
    BY <1>2, <2>1, <2>2, <2>3 DEF Awaited
<1> QED
  BY <1>3 DEF Created, Exited

\* If only one process is known and none is queued, no new process waits to be reported.
LEMMA NothingLeft ==
  ASSUME IInv, mainPc \notin {"quit", "prune"}, ~Unread,
         auProcessIdsPendingAttach = <<>>, Cardinality(doProcess_by_uId) = 1
  PROVE  debugged = {Utility}
<1>1. TypeOK /\ IsFiniteSet(doProcess_by_uId) /\ auTerminated = {}
  BY DEF IInv, StepInv, TerminatedInv
<1>2. doProcess_by_uId = {Utility}
  <2>1. Utility \in doProcess_by_uId
    BY DEF IInv, PortInv, UtilityInv, Queued
  <2> QED
    BY <1>1, <2>1, OnlyMember
<1>3. Utility \in debugged
  BY <1>1, <1>2 DEF IInv, PortInv, KnownInv
<1> DEFINE S == {i \in Positions : \E q \in Applications : Created(i, q)}
<1>4. S = {}
  <2> SUFFICES ASSUME S # {} PROVE FALSE
    OBVIOUS
  <2>1. S \subseteq Nat
    BY <1>1, PositionsAre
  <2>2. PICK i \in S : \A j \in S : ~(j < i)
    BY <2>1, LeastPosition
  <2>3. PICK q \in Applications : Created(i, q)
    OBVIOUS
  <2>4. Parent(i)
    BY <2>3, Utilities DEF IInv, PortInv, CreateInv, HeadIs
  <2>5. PICK r \in Applications : r \in doProcess_by_uId \/ \E j \in Positions : j < i /\ Created(j, r)
    BY <2>4 DEF Parent
  <2> QED
    BY <1>2, <2>2, <2>5, ProcessesAssumption
<1>5. debugged \cap Applications = {}
  BY <1>2, <1>4, ProcessesAssumption DEF IInv, PortInv, DebuggedInv
<1> QED
  BY <1>1, <1>3, <1>5 DEF TypeOK, Processes

\* Whenever the cdb stdin/out thread is between deleting the terminated processes and handling
\* the next event, it knows of a process if and only if the creation of that process has been
\* handled and its exit has not.
THEOREM SpecKnown == Spec => []KnownAreReported
<1>1. IInv => KnownAreReported
  <2> SUFFICES ASSUME IInv, mainPc \in {"attach", "resume", "go", "mark", "read"},
                      NEW p \in Processes
               PROVE  p \in doProcess_by_uId
                        <=> /\ p \in debugged \/ Awaited(Event("exit", p))
                            /\ ~Awaited(Event("create", p))
    BY DEF KnownAreReported
  <2>1. TypeOK /\ auTerminated = {} /\ mainPc # "quit"
    BY DEF IInv, StepInv, TerminatedInv
  <2>2. /\ Awaited(Event("create", p)) <=> \E i \in Positions : Created(i, p)
        /\ Awaited(Event("exit", p)) <=> \E i \in Positions : Exited(i, p)
    BY <2>1, AwaitedAre
  <2>3. ASSUME p \in doProcess_by_uId
        PROVE  /\ p \in debugged \/ \E i \in Positions : Exited(i, p)
               /\ \A i \in Positions : ~Created(i, p)
    BY <2>1, <2>3, PositionsAre DEF IInv, PortInv, KnownInv, CreateInv
  <2>4. ASSUME p \in debugged, \A i \in Positions : ~Created(i, p)
        PROVE  p \in doProcess_by_uId
    BY <2>1, <2>4 DEF IInv, PortInv, DebuggedInv
  <2>5. ASSUME NEW i \in Positions, Exited(i, p), p \notin debugged
        PROVE  p \in doProcess_by_uId
    <3>1. i = 0 /\ Unread /\ Ev(0) = event
      BY <2>1, <2>5, PositionsAre DEF IInv, PortInv, EventsInv, Exited
    <3> QED
      BY <2>1, <2>5, <3>1 DEF IInv, PortInv, ExitInv, Exited
  <2> QED
    BY <2>2, <2>3, <2>4, <2>5
<1> QED
  BY <1>1, SpecInv, PTL

\* When mBugId stops because the utility process is the only process left, cdb debugs no other
\* process: none that was attached to or started by another one is left behind unnoticed.
THEOREM SpecNotAbandoned == Spec => []NothingDebuggedIsAbandoned
<1>1. Init => NothingDebuggedIsAbandoned
  BY DEF Init, NothingDebuggedIsAbandoned
<1>2. IInv /\ NothingDebuggedIsAbandoned /\ [Next]_vars => NothingDebuggedIsAbandoned'
  <2> SUFFICES ASSUME IInv, NothingDebuggedIsAbandoned, [Next]_vars, mainPc' = "over"
               PROVE  debugged' = {Utility}
    BY DEF NothingDebuggedIsAbandoned
  <2>1. CASE mainPc = "over"
    <3>1. UNCHANGED debugged
      <4>1. cdb = "prompt"
        BY <2>1 DEF IInv, StepInv, CdbInv
      <4> QED
        BY <2>1, <4>1 DEF Next, vars, cdbVars, foStartApplicationProcess, CreateProcess, QueueStarted,
          InterruptForStarted, StarterUnchanged, FindProcess, QueueFound, InterruptForFound,
          ApiUnchanged, fCdbStdInOutHelperThread, ftbHandleLastCdbEvent, DeleteTerminated,
          AttachFirst, OverOrTimeouts, CheckStopping, Resume, MarkRunning, ReadPrompt, MainMoves,
          ReportEvent, ReportInterrupt, RunApplication, RunOther
    <3> QED
      BY <2>1, <3>1 DEF NothingDebuggedIsAbandoned
  <2>2. CASE mainPc # "over"
    <3>1. OverOrTimeouts /\ mainPc = "attach" /\ UNCHANGED debugged /\ Cardinality(doProcess_by_uId) = 1
      <4>1. ~UNCHANGED mainPc
        BY <2>2
      <4>2. fCdbStdInOutHelperThread
        BY <4>1 DEF Next, vars, foStartApplicationProcess, CreateProcess, QueueStarted,
          InterruptForStarted, StarterUnchanged, FindProcess, QueueFound, InterruptForFound,
          ApiUnchanged, ReportEvent, ReportInterrupt, RunApplication, RunOther, WindowsUnchanged
      <4>3. OverOrTimeouts
        BY <4>2 DEF fCdbStdInOutHelperThread, ftbHandleLastCdbEvent, HandleNewProcess,
          HandleKnownProcess, DeleteTerminated, AttachFirst, CheckStopping, Resume, MarkRunning,
          ReadPrompt, MainMoves
      <4> QED
        BY <4>3 DEF OverOrTimeouts, MainMoves, cdbVars
    <3>2. auProcessIdsPendingAttach = <<>> /\ ~Unread
      BY <3>1 DEF OverOrTimeouts, Unread
    <3> QED
      BY <3>1, <3>2, NothingLeft
  <2> QED
    BY <2>1, <2>2
<1> QED
  BY <1>1, <1>2, SpecInv, PTL DEF Spec
=============================================================================
