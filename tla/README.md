# Verification of mBugId

mBugId finds bugs in Windows applications: it starts or attaches to them with
`cdb.exe`, runs them, and turns the events that cdb reports into bug reports.
This directory holds TLA+ modules that model the code under `src/`, the TLC
configurations that check them, and TLAPS proofs.  File names below are relative
to `src/`; `cdb*` stands for `cCdbWrapper/cCdbWrapper_*.py`.

## 1. The system

### Components, their state and what makes them correct

| component | state | operations | correct means |
|---|---|---|---|
| `cBugId` (API) | a lock that "Finished" releases | `fStart`, `fStop`, `fWait`, `foSetTimeout`, ... all forward to `cCdbWrapper` | `fWait` returns, once everything has ended |
| `cCdbWrapper`: life of a session | helper threads, `bStopping`, `bCdbIsRunning`, `bCdbWasTerminatedOnPurpose`, cdb, the utility process, application processes | `fStart`, `fStop`, `fTerminate`, `cHelperThread`, the cleanup thread | no cdb without a thread that handles its events; "Finished" once and last; nothing left behind |
| `cCdbWrapper`: running and interrupting | `bApplicationIsRunning`, `aoTimeouts`, the ids of two threads in the utility process | main loop, `fInterruptApplicationExecution`, the interrupt-on-timeout thread | one interrupt at a time, none lost, due timeouts fire, stops end the session |
| `cCdbWrapper`: processes | `auProcessIdsPendingAttach`, `doProcess_by_uId`, a global list of processes to resume | queue, attach, start, resume, terminate | every queued process is attached to; the session ends when, and only when, nothing is left |
| `cCdbWrapper`: commands | output being read, markers, attempts | `fasbExecuteCdbCommand`, `fasbReadOutput` | output belongs to its command; retries do not mix |
| `cCdbWrapper`: events | current process, thread, ISA, collected error details | `ftbHandleLastCdbEvent` | each event is handled once, by the right part |
| `cExcessiveCPUUsageDetector` | four timeouts, two breakpoints, where the "worm" is | start, check, worm, report | one search at a time, breakpoints never lost, ends |
| `cCollateralBugHandler` | a function that may ignore the exception, the number of bugs, poisoned addresses and values | set, try, discard; fake the instruction that failed | one verdict per bug, the application changed only if its bug is ignored, poison recognized |
| `cVerifierStopDetector` | none: reads a message, then the heap block | match output, look at the block, report, stop | each mistake is reported; what is said of the block is true, whatever the message says |
| `cASanErrorDetector` | lines of stderr of each process | match output | details go with the right exception |
| `mProcess`, `mModule`, `mStack` | caches of what cdb said, cleared at resume; the frames of a stack | read, cache, clear, merge the lines of a stack | no stale value after the process ran |
| `mBugReport`: access violations | the type and address, the handler that is tried | the handlers of `mAccessViolation` | the access is not misread, what is blamed denies it, what is said of the heap is true |
| `mHeapManager` | a page heap block, read from memory | find, check headers and padding | the right block; only what was overwritten is called corrupt |
| `mBugReport`: ids, `mBugTranslations` | stack, type, hidden frames, rounds | analysis, recursion, translations | translations end, the id starts with a frame that matters, recursion gets one id |
| `cException`, `cStowedException`, `cErrorDetails`, `mDisassembler`, `mSourceCodeLinks`, `mCP437`, `dxConfig` | none that changes | parsing, formatting, tables | - |

### How they interact

The **cdb stdin/out thread** owns cdb.  Its loop handles the last event, cleans
up terminated processes, attaches to the first queued process, or else fires
timeouts, and resumes the application; it blocks until cdb is back at its
prompt.  Everything that needs cdb runs as a callback on this thread (events,
timeouts, breakpoints).  Every other thread can only set flags, change lists, or
make cdb report an event: it creates a thread at an invalid address in the
**utility process**, whose access violation pauses all processes.  These
threads are: the caller of the API, the **interrupt-on-timeout thread** that is
started at each resume, the **stderr** and **pipe threads** that read output,
and the **cleanup thread** that waits for the others.  Lists and flags are
mostly shared without locks; two locks exist (for the interrupt and for time).

### What is hard

Threads that act on flags that have just changed (stop, interrupt, attach), the
two names for an interrupt thread, failures of any thread at any time and the
order of cleanup, a queue filled by three threads, and callbacks that set and
clear timeouts while timeouts are being fired.  One console that cdb, the
application and mBugId's own markers share, with commands that are retried.
Exception records that are wrong, caches that outlive a resume, instructions
that are faked and fail halfway.  Rules that undo what an analysis found, and
loops in a stack that are loops in several ways.  `PROJECT.json` lists the
hazards, each at its line, with the properties that would catch it going wrong.

## 2. The modules

| module | models | composed with |
|---|---|---|
| `CdbInterrupt` | main loop, interrupting, timeouts, stop (`cdb*fInterruptApplicationExecution`, `*fCdbInterruptOnTimeoutHelperThread`, `*fHandleExceptionInUtilityProcess`, `*fCdbStdInOutHelperThread`, `*fasbReadOutput`, `fStop`, `foSetTimeout`, `fClearTimeout`) | a model of cdb and the utility process |
| `Session` | what a session promises to `fWait`, abstractly | |
| `Lifecycle` | threads, start, failure, termination, cleanup | implements `Session` |
| `AttachQueue` | queueing, attaching, resuming, the end of the application | a model of cdb's event port and of Windows processes |
| `CPUUsageWorm` | the search for the function that uses too much CPU, breakpoints | a model of the stack of the watched thread |
| `CommandIO` | `cdb*fasbExecuteCdbCommand`, `*fasbReadOutput` | a model of the console that cdb and the application print on |
| `CollateralBugs` | `cCollateralBugHandler`, exceptions in `*ftbHandleLastCdbEvent` | a model of two-bit bytes, registers and instructions |
| `PageHeap` | `mHeapManager/cPageHeapManagerData` | a model of memory with one page heap block in it |
| `VerifierStop` | `cVerifierStopDetector` | extends `PageHeap`; a model of Application Verifier |
| `AccessViolation` | `cBugReport_foAnalyzeException_STATUS_ACCESS_VIOLATION`, `mAccessViolation`, the heap cache of `cProcess` | extends `PageHeap`; a model of the processor |
| `HeapBugs` | an application that fails and goes on, or frees a block by mistake | composes `AccessViolation` and `VerifierStop` |
| `BugTranslations` | every rule of `mBugTranslations`, in order | |
| `StackReport` | `cStack`, `cStackFrame`, `cBugReport`, `..._STATUS_STACK_OVERFLOW`, `..._fxProcessStack`, `fApplyBugTranslationsToBugReport` | extends `BugTranslations`; a model of calls |
| `Lists` | a list filtered by a list comprehension | used by `CPUUsageWorm` and `StackReport` |
| `CdbInterruptProofs`, `LifecycleProofs`, `AttachQueueProofs`, `CPUUsageWormProofs`, `CommandIOProofs`, `CollateralBugsProofs`, `HeapBugsProofs`, `StackReportProofs` | the theorems about these modules | |

`MC<module>` instantiates a module for TLC; `CommandIO` needs none.

**CdbInterrupt.**  `mainPc` is where the cdb stdin/out thread is: handling the
`event`, firing `timeouts`, deciding to `resume`, sending `go`, then inside
`fasbReadOutput` `mark`ing the application as running, starting the helper
(`startTimer`), `read`ing, `unmark`ing and `join`ing the helper.  These are
the points between which other threads can act.  `fInterruptApplicationExecution`
is five steps (`lock`, `guard`, `assert`, `create`, `record`), run by the helper
and by `fStop`.  `utility` is the fate of each thread created in the utility
process; `u0UtilityInterruptThreadId` and `u0PreviousUtilityInterruptThreadId`
are the two records of them.  On x86 cdb may report such a thread twice
(`ReportEcho`), and CTRL+BREAK makes a thread of its own.

**Lifecycle.**  `starter` is where `fStart` is, `pc` where each helper thread
is; `Fail(h)` is an exception in a thread (at any moment), with both outcomes of
the "Internal exception" callback.  What the main thread does meanwhile is
abstracted to "it ends at some time, in one of its ways".  `FailsToDebug` is how
`fStart` leaves when there is no process to debug: with or without terminating cdb.
An application that cleanup fails to terminate has `survived` (the failure is
logged, and cleanup goes on); it may still end by itself.  The utility process is
taken to end when it is terminated, which the code waits for without a time limit.

**AttachQueue.**  The port holds the events cdb will report, in order.  A
process is created suspended by `fStart`, runs, creates children, and exits; the id of a
process that is gone can be used again, except that of the started one.
The interrupt of the helper thread takes effect once cdb has reported the
creation of the utility process.
`Stale` is a process id that an earlier session left in the module-global list.

**CPUUsageWorm.**  A function is one address and a stack pointer is a depth.
The callbacks are modelled at the granularity of `oLock`; `fStart` is two steps
because it releases the lock in between.  A callback that raises ends the session
(`failed`): what it had done before is not recorded.

**CommandIO.**  What is read is a sequence of pieces: a marker, the prompt, a
line feed, half a line of output, text of the application.  `ReadText`,
`ReadLineFeed`, `ReadError` and `ReadEOF` are the branches of the loop of
`fasbReadOutput`; `EndOfText` is what it decides after each byte.  `cdb` decides
what an execution prints when the command is written: all of it, or a beginning
without the end marker, with an error anywhere.  The application prints
between any two pieces.

**CollateralBugs.**  `pc` follows one event through
`ftbHandleLastCdbEvent`: looked at by debuggers' own checks, analysed, reported,
and, when there is a function to ignore it, the steps of
`cCollateralBugHandler_fbIgnoreAccessViolationException` one by one, each of
which can fail.  The instructions are the whole table of that file.  A register
that was given a poisoned value may be used as an address later, whole or in its
lower half.

**PageHeap** and **AccessViolation.**  Memory is a function from pages to a
protection.  The application overwrites addresses in and around its block, before and after it is
freed, and a freed block may keep its memory for a while, with the stamp of a freed block
(`InvalidWrite`, `FreeBlock`).  Then the application fails on an
access; the exception record is right, or wrong in the ways the comments in
the code describe.  The handlers are tried in their order (`Handle`), each
with its own guard, and the heap manager is asked through the cache.  `Resume`
clears the cache.

**VerifierStop** and **HeapBugs.**  Application Verifier sees some mistakes when a block is
freed (`FreeByMistake`) or released later (`StopForOtherReasons`) and prints a message; which
message it prints of which mistake is taken from the comments of the detector and from the tests.
The detector (`fCheckDebugOutputForVerifierStopMessage`) looks at the same memory as the
analysis of access violations, and `HeapBugs` lets both happen to one application: an access
violation that is ignored leaves memory that the verifier stop then finds.

**BugTranslations** and **StackReport.**  A frame is its function and why it is
hidden.  A crash is a type, functions at the top, and a loop of functions that
call each other a number of times.  `AddLine` makes frames of what cdb shows;
`fApplyBugTranslationsToBugReport` tries one rule per step and starts the list
again after one that applies; the analysis marks the frames of a recursion, and
`fxProcessStack` makes the id.

## 3. The runs

| run | module | checks | bounds |
|---|---|---|---|
| `interrupt` | `CdbInterrupt` | safety, what may never happen to a record, liveness | 2 API threads, 1 timeout, 3 thread ids, both ISAs |
| `interrupt_stop` | `CdbInterrupt` | `StopEnds`, violated | 1 API thread |
| `lifecycle` | `Lifecycle` | safety, refinement of `Session`, liveness | 2 pipes |
| `lifecycle_left_behind` | `Lifecycle` | `NoApplicationLeft`, violated | 2 pipes |
| `attach` | `AttachQueue` | safety, liveness | 2 applications, queue and port of 2 |
| `worm` | `CPUUsageWorm` | safety, liveness | 2 functions, depth 3, 4 timeouts |
| `worm_first_hit` | `CPUUsageWorm` | `FirstHitMoves`, violated | as above |
| `command` | `CommandIO` | safety, liveness | 2 commands of 2 lines after the output of the start, 2 pieces of the application |
| `collateral` | `CollateralBugs` | safety, an action property | an x86 and an x64 process, 3 exceptions, maximum of none, 1 or 2 bugs |
| `av` | `HeapBugs` | safety | 10 pages of 8 addresses, 5 layouts of memory, 3 overwritten addresses, 4 wrong pointers |
| `stack` | `StackReport` | safety | every rule with every frame it is for; 5 loops at 6 depths |
| `stack_hidden` | `StackReport` | `IdFramesAreVisible`, violated | as above |

What they show:

*CdbInterrupt.* `OneInterruptOutstanding`, `RecordedInterruptIsComing`,
`FrozenThreadIsRemembered`, `TimerOnlyWhileRunning` and
`InterruptHandledUnlessStopping` relate the records, the threads in the utility
process and where the two parties are; `InterruptRecordDroppedOnReport` says
that the only thing that clears a record is the report it waits for.
`DueTimeoutFires` and `StopWhilePausedEnds` are what the mechanism is for.

*Lifecycle.* No thread that handles events ends without cdb (`NoCdbWithoutMain`),
the session refines `Session` (`KeepsPromise`), and a session stopped on purpose
fires "Finished" (`StoppedSessionFinishes`), with one exception: an application that
cannot be terminated and never ends keeps its pipes open, and cleanup joins the
threads that read them ("we may hang forever", `cdb*fCleanupHelperThread.py:41-42`).

*AttachQueue.* When debugging ends because nothing is left, cdb debugs nothing
(`NothingDebuggedIsAbandoned`).  Between the handling of two events, mBugId knows
exactly the processes whose creation it has handled and whose exit it has not
(`KnownAreReported`, in both directions: nothing that was reported is forgotten, and
nothing is known that is gone).  A process that is queued while the application is marked as running is
attached to without another event (`QueuedWhileRunningIsAttached`).  The process that
`fStart` creates suspended is not left so in a session that goes on
(`StartedIsNotLeftSuspended`), provided that no earlier session left an entry
behind: it is resumed, or, if an API thread had it attached to before `fStart` listed it,
the second attempt to attach stops the session.

*CPUUsageWorm.* Breakpoints are never forgotten (`BreakpointsAreRemembered`),
nothing is hit or set where it is not expected unless the process is gone
(`FailsOnlyWithoutProcess`), one search goes on at a time - no breakpoint while the CPU
usage is checked, and never both of them - (`OneChain`) and it ends (`WormEnds`).

*CommandIO.* What a command returns is the output of its last attempt, all of it,
in order and once, whatever the application prints and wherever cdb puts an error;
what the exception carries if the end marker never comes is the beginning of it
(`OutputIsOfLastAttempt`).  A read ends, unless the application has left text in
front of the prompt (`ReadEndsUnlessPromptIsMidLine`).

*CollateralBugs.* The function that ignores an exception is there only for that
exception (`IgnoreFunctionIsCurrent`), each report gets one verdict (`OneVerdict`) unless the user's
answer is out of range and an assertion ends the session,
registers change only together with the verdict "ignored"
(`NotIgnoredNotChanged`), and a poisoned value is recognized with its right offset
when it comes back, whole or in parts (`PoisonIsRecognized`).

*HeapBugs.* The type and address that are found are those of the access that failed - for
code that is fetched from two pages, the first byte that may not be executed -
however wrong the record is (`AccessIsNotMisread`); an allocation that is blamed
does deny the access (`BlamedAllocationDeniesAccess`); what is said about the heap
block - where it is, freed or not, which bytes were overwritten - is true at the
time it is said, after any number of ignored exceptions (`HeapVerdictIsTrue`).  A verifier stop
for a block that was not freed before is reported, unless nothing lies between the headers of
the block; the range that is said to be corrupt is what was overwritten, "BOF"
is said only when nothing in front of the end of the block was, and what is said to have been freed
was (`VerifierVerdictIsTrue`).

*StackReport.* What is reported as a recursion is one, wherever on the stack it is found
(`RecursionRepeats`); a recursion is recognized whatever the depth,
if cdb found memory for the stack (`RecursionIsRecognized`) and its id is made of the frames of the loop, starting
at the same one (`RecursionIdIsOfLoop`); the id of a bug does not start with a frame
that is irrelevant to every bug, provided that a rule that hides a frame finds the
frames that must come after it (`ExplainedIdStartsWithRelevantFrame`); the translations come
to an end (`TranslationsEnd`).  Without the proviso the id can start with an irrelevant
frame: see `cBugTranslation.py:165` under "Known divergences".

### Why the bounds are enough

Two API threads and the helper are three callers of one function under one
lock: two contend and a third finds a changed record.  Three thread ids are one
recorded, one previous and one new; more are covered by the proofs.  Timeouts
interact only through "one is due".  Two pipes are enough for one to end
before and one after the application is terminated.  Two applications are one
that is started and one that is found or a child; a port of two lets an event wait
behind another.  Depth 3 gives the worm a place to start, a move, and a place
where it cannot move; two functions give recursion of both kinds.  Four
timeouts are enough that no callback ever waits for a free one (checked while the
model was written); only calls of the API are held back by that bound.

`CommandIO`: two lines let an error or the application's text come inside, between
and after lines; two pieces of the application are text and the line feed that
ends it, or one of them twice; with up to five attempts and a second command,
what is left of one attempt or command would be seen in the next.
`CollateralBugs`: a byte has two bits, so a pointer of an x64 process has sixteen
and both halves and their ends are visible; the page has four addresses and the
offsets are both its ends and beyond.  Three exceptions exceed the largest
maximum.  `HeapBugs`: a page of 8 addresses holds both headers, a block
and padding; the layouts put the block before reserved, inaccessible and free
memory and its header in the page before it, with and without bytes between the headers; three
overwritten addresses reach the header that leads to the block, a stamp and what is behind the block
at once; an access of 8 stands for the largest
(64 bytes), the whole page it may extend over.  `StackReport`: at most 6 frames and then more
for the loops, 3 loops of fewer than 4 functions; the depths leave every remainder
of an incomplete loop, once with the whole stack shown and once cut off.  The
sanity maximum of 48 rounds is the smallest that `SanityAssumption` allows for stacks of this size: more
than two frames for every line that is asked for, and one.  With the tables of `dxConfig` (100 frames, and 4
times 100 more for a recursion) that would be 1004, and the code's own maximum is 0x1000.

### Fairness

*CdbInterrupt*: weak fairness of the cdb stdin/out thread, the helper and the
API threads inside a call (Windows schedules them), and of the report of
an access violation that is due (the processor raises it, cdb reports it).  No
fairness of the application's own events, nor of time.  *Lifecycle*: weak
fairness of every thread and of the exit of a process that is exiting; nothing makes the
main loop end or cdb die.  *AttachQueue*: weak fairness of the threads and of
reporting what waits in the port; `EventsComeUnlessEnded`, that something to report
keeps happening until the session ends, is a hypothesis of the
property that needs it, since an idle application raises no events.
*CPUUsageWorm*: weak fairness of callbacks and of the passing of time for each
timeout (a timeout that is cleared and set again starts anew), and strong fairness of
pausing the application while a timeout is due, which is `DueTimeoutFires` of
`CdbInterrupt`.  `worm` does not assume that the watched thread makes progress.
*CommandIO*: weak fairness of the thread that talks to cdb, and of cdb ending once it
was told to quit; the application need not print anything.

`CHECK_DEADLOCK FALSE` is set where a session may really stop: in `AttachQueue`
when the application is over, in `CPUUsageWorm` when a bug was reported or
a callback failed, in `CollateralBugs` when a bug cannot be ignored, in
`HeapBugs` when a bug was reported, and in `StackReport`, which follows one crash to its end.

## 4. What is proved

`CdbInterruptProofs`, for any set of API threads, timeouts and thread ids,
from `ConstantsAssumption` alone (the helper is not an API thread, CTRL+BREAK is
not one of the ids, and None is none of them):

- `TypeCorrect`: `Spec => []TypeOK`;
- `HelperEndsBeforeEvents`: `TimerOnlyWhileRunning`, by itself inductive given the
  types: the helper is started after and joined before everything else;
- `SessionCorrect`: the inductive invariant `SessionInv`;
- from it `OneAtATime`, `RecordedIsComing`, `FrozenIsRemembered`,
  `HandledUnlessStopping`, and the action property `DroppedOnReport`.

None of the safety properties is inductive.  That at most one interrupt is
outstanding needs to know where the ids of threads that may fault are kept:
`FaultInv` says in one of three places, `IdInv` that at most one of the three is in
use and `LockInv` that whoever fills the third holds the lock.  That an id is
not dropped needs to know what event is still to be handled (`PendingInv`), and
what is frozen or reported depends on the ISA (`X64Inv`, `ReportedInv`,
`ComingInv`, `FrozenInv`) and on whether the session is stopping: only `fStop`
may record a thread that has been reported already, which is why several
properties say "unless stopping".  The proof has one lemma per group of
actions (steps inside the lock, the helper, API threads, the main loop, the event
handler, reports by cdb, the environment).

`LifecycleProofs`, for any number of pipes, from `PartsAreDistinct`:

- `SpecLInv`: the inductive invariant `LInv`.  Most steps only end parts
  (`OnlyEnds`, `Quiet`) and need no more; `OrderInv` collects what the
  cleanup thread knows at each of its steps: the main thread has ended, cdb was
  terminated on purpose or is gone, the utility process is gone, and so on.
- `SpecTypeOK`: the types, of which the one that matters is that the list cleanup
  waits for holds exactly the threads that are started and have not left it (`ActiveInv`);
- `SpecNoCdbWithoutMain`, `SpecCdbFlagIsSafe` (a cleared `bCdbIsRunning` means
  that cdb has closed its pipes);
- `SpecKeepsPromise`: the refinement of `Session`.  Each step is mapped to
  `Begin` (a thread is started), `Finish` (where `OrderInv` gives that all
  parts have ended) or `End` of what it ends, possibly nothing.

`CollateralBugsProofs`, for any processes, values, maximum, page size and number of
exceptions, from `CollateralBugsAssumption` and, where it is named, `PagesAreApart`:

- `SpecCInv`: an inductive invariant about control.  The three invariants need each other, and
  `AtMostMaximum` (no more bugs are reported than the maximum) needs `BelowMaximum`:
  a maximum that is reached stops everything, so a bug is only reported while fewer
  were counted.
- `SpecIgnoreFunctionIsCurrent`, `SpecOneVerdict`, `SpecAtMostMaximum`, and the action
  property `SpecNotIgnoredNotChanged`.
- `SpecTypeOK` and `SpecPoisonIsRecognized`, from the inductive invariant `PInv` about data:
  a register that holds poison holds as many bytes of it as were read (`ThreadInv`), and the
  address of an exception is the one that the application computed from it (`AddressInv`).
  What was read of a poisoned address is recognized by the pages around what may be left of
  it, so these must not overlap: `PagesAreApart` says that of the model's two-bit bytes.
  In the code the addresses are 0x41414141, 0x414141414141 and 0x4141414141414141 and the
  page has 0x1000 bytes, so there it holds by far.

`AttachQueueProofs`, for any applications and any length of the queue and the port,
from `ProcessesAssumption`:

- `SpecTypeOK`, and `SpecKnown` for `KnownAreReported`, which needs the order of the events that
  wait (the first of a process is its creation, the last its exit: `OrderInv`) and that a process is still
  known when its exit is to be handled next (`ExitInv`);
- `SpecNotAbandoned`: when the main loop decides that only the utility process is left, cdb
  debugs nothing else.  The decision counts what mBugId knows, so the inductive
  invariant `IInv` is about what it does not know yet: the events that wait, at
  `Positions`, in their order.  A process that is debugged is known or its creation waits
  (`DebuggedInv`); the creation of a process waits only for the first of the queue, or behind a
  parent that is known or waits itself (`CreateInv`).  With nothing queued and only
  the utility process known, the first creation that waits has no parent, so none waits
  (`NothingLeft`).  The proof has one lemma per kind of step: `Quiet` steps, an event
  that is handled, terminated processes deleted, an event added to the port, cdb reporting.

`CPUUsageWormProofs`, for any functions, depth of the stack and number of timeouts, from
`CPUUsageWormAssumption` and `Careful`:

- `SpecWInv`: the inductive invariant.  Whether a breakpoint is expected depends on the timeouts
  that exist: those that wait and those that are to be fired are the ones that the
  variables of the detector refer to, except that a cleanup or a worm may have been given up
  after its timeout was taken off the list (`HandleInv`).  `ChainInv` has the stages of a search:
  which of them excludes which, and what is known of the worm while it is set;
  `UseInv` what each of the two entries of the API is not used for; `ListsInv` that a timeout is
  on one of the two lists, once.
- `SpecTypeOK`, `SpecBreakpointsAreRemembered`, `SpecFailsOnlyWithoutProcess`, `SpecOneChain`.

`Careful` is a hypothesis of these theorems as it is a constant of the run; it restricts the caller
of the API, and section 6 says what happens without it.

`CommandIOProofs`, for any number of lines, commands and writes of the application, from
`CommandIOAssumption`:

- `SpecIOInv`: the inductive invariant.  `OutputIsOfLastAttempt` is about the end of a read;
  `ReadingInv` says of every moment before that there is a cursor in what cdb prints for
  this attempt, such that what is left to read follows from it (`Follows`) and the halves of lines
  that were read are exactly those before it (`HasReadUpTo`), wherever the application and
  errors have torn them.  A cursor is needed because an error or the application's text is
  between pieces, and because cdb may stop anywhere.
- `SpecTypeOK`, `SpecOutputIsOfLastAttempt`.

`HeapBugsProofs`, for any address space, layouts of memory, instructions, accesses and
mistakes, from the assumptions of `PageHeap`, `AccessViolation` and `VerifierStop`: sizes are
positive, an access is not larger than a page, None is none of the values:

- `SpecHInv`: the inductive invariant.  What memory can be like (`MemoryInv`: what is overwritten
  is in or around the block, and a block that was not freed is a page heap block), that an
  access that failed was denied and has one of the records an access like that can have (`AccessInv`),
  that the analysis has a result and it is that access (`AnalysisInv`), that the second
  allocation of an access is looked at only when the first allows it (`StartIsAllowed`), and that what
  is cached is what would be found now (`CacheInv`): the cache is the only state in which the verdict on
  a block could outlive the block.
- `SpecHeapTypeOK`, `SpecAccessIsNotMisread`, `SpecBlamedAllocationDeniesAccess`,
  `SpecHeapVerdictIsTrue`, `SpecVerifierVerdictIsTrue`.
  The lemmas below them are about virtual allocations: the pages of one are contiguous and of one
  state (`VirtualAllocation`), and the smallest and largest corrupted address exist.

`StackReportProofs`, for any functions, exceptions, stacks and loops and any configuration, with the rules
of the code, from `StackReportAssumption` (sizes are positive; no exception starts as a recursion),
`NoneAssumption` and `SanityAssumption` (the maximum of rounds exceeds two for each line of the stack
that is asked for; see the bounds of the run for the values of the code):

- `SpecTypeOK` (TLC does not check `TypeOK` here, nor that of `AttachQueue`, which the proofs cover);
- `SpecTranslationsEnd`.  `RoundsInv`: the rounds, the frames that are still visible and one for a type
  that a rule may replace without a look at the stack are together no more than the
  frames, and one.  A rule that is applied hides a visible frame, or is one of the two that replace a
  type which no rule brings back (`AppliedHides`).  So the number of rounds is bounded by the stack whatever the
  rules do to each other;
- `SpecExplainedIdStartsWithRelevantFrame`.  `TriedInv`: a general rule that was tried, and is not going to be
  tried again, does not hide the frame that is visible first.  It survives a rule that does not apply only
  because such a rule changes nothing (`NotAppliedChangesNothing`), which is what the hypothesis
  `RulesFindWhatTheyHide` is for and needs to know which frames lie between two visible ones
  (`HiddenInOrder`: only those that are always hidden).  An id is of marked
  frames for a recursion only, because what is marked remains on top until a rule hides it (`MarksInv`);
- `SpecRecursionRepeats`.  A best loop exists because the frames that a loop covers, its place and its
  size are bounded numbers (`BestLoop`).  The frames that are marked are not those with which it was
  found but the last ones that repeat; these have as many repetitions above them
  (`LastStart`, `LoopsAbove`: from the start on every frame is the same as the one a loop
  later, up to the first that is not, which is at least as far down as the loop was counted).

What is said of the rules is checked for each list of them (`AbandonmentIsGood` and so on): a general rule hides
frames, a rule that hides none is for a type of its own, none is for a recursion or makes a bug one,
none makes one of the types that are replaced, and what must come after a top frame is not
hidden from the beginning.  A new rule that is not like that makes its lemma fail.

Two of these modules do an induction.  The provers cannot do one over a predicate, but they can over a set:
`NatSetInduction` (a set with 0 and the successor of each of its members holds all numbers) follows from
the well-founded order of finite sets by inclusion (`Least`).  In `CommandIOProofs` it gives the recursion
of `Flat` and that it distributes over appending; in `StackReportProofs` the recursion of
`Stack`, the quotient that loops are counted with, and that a loop repeats all the way up (`LoopsAbove`).

Model-checked only:

- liveness under fairness (`DueTimeoutFires`, `StopWhilePausedEnds`, `StoppedSessionFinishes`,
  `QueuedWhileRunningIsAttached`, `WormEnds`, `ReadEndsUnlessPromptIsMidLine`), and
  `StartedIsNotLeftSuspended`, which is about what happens eventually: out of the prover's reach;
- `RecursionIsRecognized` and `RecursionIdIsOfLoop`, the completeness of the search for a recursion where
  `RecursionRepeats` is its soundness.  They are about which of all loops on a stack is the best, which rests on
  the periods a word can have, and they do not hold of every loop: functions that call each other as in
  `<<"f", "f", "g", "f", "f", "g">>` are a smaller recursion too, and what is called last may belong to another one.
  The run has the loops and tops for which they are meant.

## 5. What the checks found

Four runs end in a violation: disagreements of the code with its own comments,
docs or assertions, quoted under `findings` in `PROJECT.json`.
`interrupt_stop`: a stop between the look at `bStopping` and the flag that says
the application runs is not noticed (the passing form is `StopWhilePausedEnds`).
`lifecycle_left_behind`: a process that `fStart` creates while cleanup is under way
is left suspended (one that cannot be terminated is not held against the code).  `worm_first_hit`: the first hit of the worm, in the function it was
set in, is taken for a recursive call.  `stack_hidden`: translations after the analysis
hide a frame that is part of the id, and the report fails.

### Known divergences

More of the same kind, met while modelling.  The models do what the code
does; each was seen in a run or follows from the lines that are named, and no run of
this project states it.

- `cdb*fInterruptApplicationExecution.py:33`: the helper thread looks at
  `bApplicationIsRunning` and the timeouts before it interrupts, and an event in
  between makes its assertion "Cannot interrupt application if it is not running!" fail.
- `cdb*fCdbStdInOutHelperThread.py:82-83`: "There are no more application processes
  running." is decided while `fStart` has created a process it has not queued yet.
- `cdb*fQueueAttachForProcessId.py:9`: "it's easier to always queue and have the main cdb std I/O loop
  handle executing the attach commands" (lines 5-7): a process that is queued after the main loop has
  looked at the queue and before it sets `bApplicationIsRunning` interrupts nothing, and waits for the
  next event of the application.
- `cdb*fQueueAttachForProcessExecutableNames.py:8-9`: a process that is queued but not
  yet known is queued again; the second attach fails and stops the session.
- `cdb*foStartApplicationProcess.py:84-88`: an id that an earlier session left in the
  module-global list keeps the callback that resumes a started process from being added.
- `cExcessiveCPUUsageDetector.py:358-382`: a worm that cannot be moved restarts its
  timeout with each hit ("or the timeout fires and we get a stack").
- `mBugReport/mAccessViolation/fUpdateReport...OptionalSize.py:14-15`: "No such cases are
  currently known": a push, call or pop with an operand in memory that fails on the stack
  has type "?", which no handler explains; line 122 then raises `NotImplemented`, which
  cannot be called.
- `fbUpdateReportForHeapManagerPointer.py:121-131`: the value is read at an offset in the
  heap block, but the function takes an offset in the virtual allocation.
- `cPageHeapManagerData.py:338,357`: an assertion fails when a header was overwritten, or is
  looked at, and no bytes lie between the allocation header and the block header; a block of which the
  memory is only reserved ends in an `UnboundLocalError`
  (`cPageHeapManagerData_fo0Get...NearHeapBlock.py:325-344`).
- `cVerifierStopDetector.py:212,285`: page heap data has no attribute `oVirtualAllocation`, so the
  stamp of a freed block raises `AttributeError` and is not reported (line 27: "report them before stopping
  cdb").  The condition is also the opposite of what lines 219-220 say ("it is only reserved").
- `cVerifierStopDetector.py:142-147`: "Let's try to see if the address points to the heap block
  itself" repeats the lookup of line 126 with the same address.
- `cVerifierStopDetector.py:238-239`: "When the page heap data shows no signs of corruption" is not
  looked at: freeing a wrong pointer into a corrupted block is reported as `MisalignedFree` only.
- `cVerifierStopDetector.py:256-258`: "corrupted heap pointer or using wrong heap" is always reported
  as `WrongHeap`, also when the heap in the header of the block was overwritten.
- `cASanErrorDetector.py:391-402`: the process id is taken for a thread id, so the end of the
  message is looked for as "==pid:pid==ABORTING" and not found (lines 77 and 333 show what is
  printed).  What follows was thus never run: `oAddressInfoMatch` (437) and `uSize` (471) do not exist.
- `cCollateralBugHandler_fbIgnoreAccessViolationException.py:141-142`: "as if it had been
  executed": after a faked `ret` the stack pointer is unchanged, and `addsd`, `mulsd` and
  `subsd` change the flags.
- `mBugTranslations/wil.py:16`: "# AppExit -> Assert" is applied before the analysis, which
  then replaces the type again (`..._STATUS_STACK_BUFFER_OVERRUN.py:98`).
- `cBugTranslation.py:165`: a rule whose additional frames are not there returns without
  applying, with the top frame already hidden (lines 121-131), so the list is not started again and the
  general rules, which "hide irrelevant heap management frames" (`Cpp.py:52`), never see the frame
  that is on top now: SafeInt's `Cast`, called from a function of `std::vector`, gets an id that starts with
  that function.  `IdStartsWithRelevantFrame` as an invariant of the run `stack` fails on it.
- The types "AVW@NULL", "AVE@NULL", "AVE@Arbitrary" and "AVR@Reserved" of some rules are
  never produced ("AVW:NULL" and so on are).
- Functions that a general rule hides are not seen by the rule that names them later: Firefox
  `arena_run_split`, chakra `ThrowOutOfMemoryError`, wil `ReportFailure_Hr`, `_Win32`,
  `_Unexpected` and `_NullAlloc`.
- `..._STATUS_STACK_OVERFLOW.py:119-120`: with a partial stack the id of a recursion starts
  at another function of the loop.
- `cdb*fasbReadOutput.py:192` resets only the current line: lines of the application that are
  read before the start marker are returned with the output of the command, although
  lines 78-81 and `cdb*fasbExecuteCdbCommand.py:11-15` say that they are ignored.
- `cdb*fasbReadOutput.py:59-65`: `grbEventFailedError` matches a status of one hexadecimal
  digit, so the messages quoted at lines 138-139 never match.
- `cdb*fasbReadOutput.py:118-123`: a line feed of the application after the end marker fails
  an assertion, and text there or before any prompt makes the prompt unrecognizable
  (line 205): both sides then wait for each other.

## 6. Not modelled

- Universal Windows apps (`cdb*fStartUWPApplication`, `*fTerminateUWPApplication`):
  cdb starts these; just-in-time debugging beyond the mode of `AttachQueue`.
- Time as a number: timeouts are due or not.  `nApplicationRunTimeInSeconds` and
  its estimate while running are not modelled, and a positive timeout set
  by another thread while the application runs is left out (it waits for the
  lock that its caller holds).
- Data races inside one Python list or dictionary operation: the interpreter makes
  these atomic.  Races over several operations on `aoTimeouts` and on the
  dictionaries of pipes are listed as hazards without a property.
- What was sampled by the CPU usage detector, and late exceptions of
  removed breakpoints, which are ignored.
- In `CPUUsageWorm` the passing run uses the API once at a time (`Careful`): two
  calls of `fStartTimeout` before the first start lead to two searches and a lost
  breakpoint; `Careful <- FALSE` shows that.
- The ASan detector, which matches the text the application prints and finds nothing (see
  "Known divergences"); the format of the messages of Application Verifier, which the model takes
  from comments and tests, and sizes and offsets in the id;
  the analysis of exceptions other than access violations and stack overflows (a name
  in `StackReport`), fast fail descriptions and security impacts, bugs without a stack,
  and the callback of the rule for ASan.
- The normal Windows heap (its data is the text of `!heap`); memory dumps and
  remarks (`fAddMemoryDump`).
- `cException`: all exceptions share one object, since `__init__` is a class method.
- Text: symbols, HTML, code pages, disassembly, source code links; the tests.

## 7. Plan

What would come next, in this order:

1. `fAddMemoryDump` and the remarks of a dump, as a pure algorithm on regions.
2. `ApplicationTime`: confirmed and estimated run time under its lock.
3. The ASan detector as far as its state goes: lines collected over several events, against the
   exception they are attached to, once the header of its messages is right.
4. `ProcessCache`: what is cached between two resumes against the process itself.
5. A recursion is recognized, for loops of distinct functions that are called from other functions:
   a lemma on the periods of such a stack, and then `RecursionIsRecognized` as a theorem.
