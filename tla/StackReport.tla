------------------------------ MODULE StackReport ------------------------------
(***************************************************************************)
(* From a crash to the id of a bug: the stack that cdb shows becomes a     *)
(* list of frames (cStack), bug translations change the type of the bug    *)
(* and hide frames, recursion is looked for when the stack was exhausted,  *)
(* translations are applied again, and the frames that identify the bug    *)
(* are put together (cBugReport).                                          *)
(*                                                                         *)
(* A frame is identified with its function: calls from two places in one   *)
(* function are two functions here, and the hash of a function is that     *)
(* function.  One crash is followed: the next one gets a report of its     *)
(* own.  Left out: HTML, locations, registers and memory.                  *)
(***************************************************************************)
EXTENDS BugTranslations, SequencesExt, Lists

CONSTANTS
  uMaxStackFramesCount,
  uMinStackRecursionLoops,
  uMaxStackRecursionLoopSize,
  uStackHashFramesCount,
  uSanityCheckMaximumLoops,
  Functions,         \* what cdb shows to have been called; None has no symbol
  Exceptions,        \* [type, found, top]: its type, the type analysis finds, the functions at the top
  Tops,              \* what the functions of a loop called last
  Loops,             \* functions that call each other, the first one last
  Depths,            \* how many of those calls there are
  JumpedFrom         \* [function |-> the function that was called, and jumped to it]

ASSUME StackReportAssumption ==
  /\ {uMaxStackFramesCount, uMinStackRecursionLoops, uMaxStackRecursionLoopSize} \subseteq Nat \ {0}
  /\ {uStackHashFramesCount, uSanityCheckMaximumLoops} \subseteq Nat \ {0, 1}
  /\ {None, "main", "BaseThreadInitThunk"} \subseteq Functions
  /\ \A e \in Exceptions : e.top \in Seq(Functions) /\ "RecursiveCall" \notin {e.type, e.found}
  /\ Tops \subseteq Seq(Functions) /\ Loops \subseteq Seq(Functions) \ {<<>>} /\ Depths \subseteq Nat
  /\ \A f \in DOMAIN JumpedFrom : JumpedFrom[f] \in Functions

uMaxLinesCount == uMaxStackFramesCount + (uMinStackRecursionLoops + 1) * uMaxStackRecursionLoopSize + 1

\* Two frames for every line are fewer than the rounds that are "never" reached (dxConfig, and line
\* 62 of fApplyBugTranslationsToBugReport).
ASSUME SanityAssumption == 2 * uMaxLinesCount + 1 < uSanityCheckMaximumLoops

VARIABLES
  crash,             \* what happened: its type and the calls that were made
  pc,
  frames,            \* oStack.aoFrames
  bPartialStack,
  type,              \* s0BugTypeId, without the size of a recursion loop
  uLoopSize,         \* that size
  bTopDownStackInId,
  translation,       \* the translation that is tried next
  rounds,            \* how many translations were applied
  stackId            \* s0StackId: functions, the last of which may stand for several

stackVars == <<frames, bPartialStack>>
reportVars == <<type, uLoopSize, bTopDownStackInId, stackId>>
translationVars == <<translation, rounds>>
vars == <<crash, pc, stackVars, reportVars, translationVars>>

-----------------------------------------------------------------------------
(* The application.                                                        *)

Bottom == <<"main", "BaseThreadInitThunk">>

\* The functions that were called, the last one first, as cdb finds them on the stack.
CallStack(c) ==
  c.top \o [i \in 1 .. c.depth |-> c.loop[((c.depth - i) % Len(c.loop)) + 1]] \o Bottom

\* The same functions, with those that jumped to another one.
WithJumps(functions) ==
  FoldLeft(LAMBDA s, f : s \o (IF f \in DOMAIN JumpedFrom THEN <<f, JumpedFrom[f]>> ELSE <<f>>), <<>>, functions)

\* The functions of the loop in the order in which they call each other.
CalledInLoop(c) == Reverse(WithJumps(Reverse(c.loop)))

Crashes ==
  {[type |-> e.type, found |-> e.found, top |-> e.top, loop |-> <<None>>, depth |-> 0] : e \in Exceptions}
  \cup {[type |-> "StackExhaustion", found |-> Unchanged, top |-> top, loop |-> loop, depth |-> depth] :
          top \in Tops, loop \in Loops, depth \in Depths}

-----------------------------------------------------------------------------
(* The stack.                                                              *)

uStackFramesCount(c) ==
  IF c.type = "StackExhaustion"
  THEN uMaxStackFramesCount + (uMinStackRecursionLoops + 1) * uMaxStackRecursionLoopSize
  ELSE uMaxStackFramesCount

UpTo(n, s) == SubSeq(s, 1, Min({n, Len(s)}))

\* The lines that cdb outputs.  It may warn, and it may show a function with a return address on
\* the stack ("incorrect"), followed by a line for that address with the right one ("bogus").  There
\* are none if it could not allocate memory for the stack.
Line(kind, function) == [kind |-> kind, function |-> function]

Outputs(c) ==
  LET functions == CallStack(c)
      plain == [i \in DOMAIN functions |-> Line("frame", functions[i])]
      Odd(odd, f) == IF odd = "warning" THEN <<Line("warning", None), Line("frame", f)>>
                     ELSE <<Line("incorrect", f), Line("bogus", f)>>
      Output(odd, at) ==
        IF at \notin DOMAIN functions THEN plain
        ELSE SubSeq(plain, 1, at - 1) \o Odd(odd, functions[at]) \o SubSeq(plain, at + 1, Len(plain))
      lines == uStackFramesCount(c) + 1
  IN {<<>>} \cup {UpTo(lines, Output(odd, at)) : odd \in {"warning", "bogus"}, at \in {0, 1, Len(c.top) + 2, uStackFramesCount(c)}}

HiddenWhenCreated == {"BaseThreadInitThunk", "LdrpDispatchUserCallTarget", "guard_dispatch_icall", "garbage"}

foCreateStackFrame(function) ==
  [ function |-> function, id |-> FALSE,
    hidden |-> IF function \in HiddenWhenCreated THEN "created" ELSE None ]

\* A bogus line replaces the line before it; where the instruction that called the function is
\* found and calls another one, there is a frame for that one too.
AddLine(count, stack, line) ==
  LET kept == IF line.kind = "bogus" THEN Front(stack.frames) ELSE stack.frames
      frame == <<foCreateStackFrame(line.function)>>
      jumped == IF line.kind # "incorrect" /\ line.function \in DOMAIN JumpedFrom
                THEN <<foCreateStackFrame(JumpedFrom[line.function])>> ELSE <<>>
  IN CASE stack.partial \/ Len(stack.frames) = count -> [stack EXCEPT !.partial = TRUE]
       [] line.kind = "warning" -> stack
       [] OTHER -> [stack EXCEPT !.frames = kept \o frame \o jumped]

Stack(c, lines) ==
  LET stack[n \in 0 .. Len(lines)] ==
        IF n = 0 THEN [frames |-> <<>>, partial |-> FALSE]
        ELSE AddLine(uStackFramesCount(c), stack[n - 1], lines[n])
  IN stack[Len(lines)]

\* An exception is reported by cdb, and the first translation that looks at its stack creates it.
foCreate ==
  /\ pc = "running"
  /\ crash' \in Crashes
  /\ \E lines \in Outputs(crash') :
       LET stack == Stack(crash', lines) IN frames' = stack.frames /\ bPartialStack' = stack.partial
  /\ type' = crash'.type /\ uLoopSize' = 0 /\ bTopDownStackInId' = FALSE /\ stackId' = <<>>
  /\ translation' = 1 /\ rounds' = 0
  /\ pc' = "translating"

-----------------------------------------------------------------------------
(* Translations, and the analysis between the two times they are applied.  *)

\* Mutant: the translations before the one that was applied are not tried again.
GoOnWithNext ==
  LET t == fbApplyToBugReport(aoBugTranslations[translation], type, frames)
  IN /\ pc \in {"translating", "retranslating"} /\ translation <= Len(aoBugTranslations)
     /\ type' = t.type /\ frames' = t.frames
     /\ rounds' = IF t.applied THEN rounds + 1 ELSE rounds
     /\ translation' = translation + 1
     /\ UNCHANGED <<crash, pc, bPartialStack, uLoopSize, bTopDownStackInId, stackId>>

\* Tries one translation; one that is applied starts from the first again.
Translate ==
  LET t == fbApplyToBugReport(aoBugTranslations[translation], type, frames)
  IN /\ pc \in {"translating", "retranslating"} /\ translation <= Len(aoBugTranslations)
     /\ type # None
     /\ type' = t.type /\ frames' = t.frames
     /\ rounds' = IF t.applied THEN rounds + 1 ELSE rounds
     /\ translation' = IF t.applied THEN 1 ELSE translation + 1
     /\ pc' = IF rounds' = uSanityCheckMaximumLoops THEN "failed" ELSE pc
     /\ UNCHANGED <<crash, bPartialStack, uLoopSize, bTopDownStackInId, stackId>>

NotABug ==
  /\ pc \in {"translating", "retranslating"} /\ type = None
  /\ pc' = "ignored"
  /\ UNCHANGED <<crash, stackVars, reportVars, translationVars>>

\* The exceptions that are analyzed; the others are translated once.
Analyzed == {"StackExhaustion", "C++", "Breakpoint", "AV", "FailFast", "FailFast2", "OOM", "WRTOriginate", "WRTLanguage"}

\* No translation applies any more.
fApplyBugTranslationsToBugReport ==
  /\ pc \in {"translating", "retranslating"} /\ type # None /\ translation > Len(aoBugTranslations)
  /\ pc' = IF pc = "translating" /\ crash.type \in Analyzed THEN "analyzing" ELSE "reporting"
  /\ UNCHANGED <<crash, stackVars, reportVars, translationVars>>

\* The class of a C++ exception is added to its type, if it is found in the memory of the process.
\* The type of an access violation (see AccessViolation), a fail fast or a Windows run-time error,
\* and that of a breakpoint of ASan, replaces the one there is; None: the application handles it.
AnalysisFinds ==
  CASE crash.found = Unchanged -> {type}
    [] crash.type = "C++" -> {type, IF type = "C++" THEN crash.found ELSE "typeAndClass"}
    [] OTHER -> {crash.found}

foAnalyzeException ==
  /\ pc = "analyzing" /\ crash.type # "StackExhaustion"
  /\ pc' = "retranslating" /\ translation' = 1 /\ rounds' = 0
  /\ type' \in AnalysisFinds
  /\ UNCHANGED <<crash, stackVars, uLoopSize, bTopDownStackInId, stackId>>

\* Mutant: only the first frame of a loop is compared.
FirstRepeats(start, size, k) ==
  start + (k + 1) * size <= Len(frames) /\ frames[start].function = frames[start + k * size].function

\* Whether the frames from start on repeat a k-th time, with a frame to spare.
Repeats(start, size, k) ==
  /\ start + (k + 1) * size <= Len(frames)
  /\ \A i \in 0 .. size - 1 : frames[start + i].function = frames[start + k * size + i].function

LoopCount(start, size) == Min({k \in 0 .. Len(frames) : ~Repeats(start, size, k)})

\* The loops there are, with their start, size and number.
RecursionLoops ==
  LET MaxSize(start) == Min({(Len(frames) - start + 1) \div uMinStackRecursionLoops, uMaxStackRecursionLoopSize}) - 1
      all == UNION {{<<start, size, LoopCount(start, size)>> : size \in 1 .. MaxSize(start)} : start \in 1 .. Len(frames) - 1}
  IN {loop \in all : loop[3] >= uMinStackRecursionLoops}

Comes(loop, other) == loop[1] < other[1] \/ (loop[1] = other[1] /\ loop[2] < other[2])

\* Mutant: of loops with the same number of frames the last one found is taken.
LastLoop(loop, other) ==
  LET Covers(l) == l[2] * l[3]
  IN Covers(loop) > Covers(other) \/ (Covers(loop) = Covers(other) /\ ~Comes(loop, other))

\* A loop with more frames is better; of those with as many, the one that is found first.
IsBetter(loop, other) ==
  LET Covers(l) == l[2] * l[3]
  IN Covers(loop) > Covers(other) \/ (Covers(loop) = Covers(other) /\ ~Comes(other, loop))

\* Mutant: the frames above the first loop found identify the bug.
FirstLoopStart(start, size) == start

\* The last frame from which on as many frames repeat: the stack is searched for the first loop.
LastLoopStart(start, size) ==
  Min({i \in start .. Len(frames) : i + size > Len(frames) \/ frames[i].function # frames[i + size].function})

\* The frames above the loop are hidden, and those of the last loop identify the bug.
MarkLoop(start, size) ==
  [i \in DOMAIN frames |->
     IF i < start THEN [frames[i] EXCEPT !.hidden = "recursion", !.id = FALSE]
     ELSE [frames[i] EXCEPT !.id = i < start + size]]

\* Memory that cannot be allocated may be why the stack is exhausted.
foAnalyzeException_STATUS_STACK_OVERFLOW ==
  /\ pc = "analyzing" /\ crash.type = "StackExhaustion"
  /\ pc' = "retranslating" /\ translation' = 1 /\ rounds' = 0
  /\ \/ type' = "OOM" /\ UNCHANGED <<frames, uLoopSize, bTopDownStackInId>>
     \/ LET loops == RecursionLoops
            loop == CHOOSE l \in loops : \A other \in loops : IsBetter(l, other)
        IN IF loops = {}
           THEN type' = "StackExhaustion" /\ UNCHANGED <<frames, uLoopSize, bTopDownStackInId>>
           ELSE /\ type' = "RecursiveCall" /\ uLoopSize' = loop[2] /\ bTopDownStackInId' = TRUE
                /\ frames' = MarkLoop(LastLoopStart(loop[1], loop[2]), loop[2])
  /\ UNCHANGED <<crash, bPartialStack, stackId>>

-----------------------------------------------------------------------------
(* The report.                                                             *)

bIdFramesHaveAlreadyBeenMarked == \E i \in DOMAIN frames : frames[i].id

\* The frames that identify the bug: those that are marked, or else the first visible ones.
IdFrames ==
  LET marked == {f \in ToSet(frames) : f.id}
      visible == {f \in ToSet(frames) : ~bHidden(f)}
  IN IF bIdFramesHaveAlreadyBeenMarked THEN Only(frames, marked)
     ELSE UpTo(uStackHashFramesCount, Only(frames, visible))

\* When there are too many, the last ones are hashed together.
Merge(functions) ==
  IF Len(functions) <= uStackHashFramesCount THEN functions
  ELSE Append(SubSeq(functions, 1, uStackHashFramesCount - 1), "hash")

IdFunctions ==
  LET functions == [i \in DOMAIN IdFrames |-> IdFrames[i].function]
  IN IF bTopDownStackInId THEN Reverse(functions) ELSE functions

\* "Cannot have a hidden frame that is part of the id".
fxProcessStack ==
  /\ pc = "reporting"
  /\ IF \E i \in DOMAIN frames : bHidden(frames[i]) /\ frames[i].id
     THEN pc' = "failed" /\ UNCHANGED stackId
     ELSE pc' = "reported" /\ stackId' = Merge(IdFunctions)
  /\ UNCHANGED <<crash, stackVars, type, uLoopSize, bTopDownStackInId, translationVars>>

Init ==
  /\ crash = [type |-> None, found |-> Unchanged, top |-> <<>>, loop |-> <<None>>, depth |-> 0]
  /\ pc = "running" /\ frames = <<>> /\ bPartialStack = TRUE
  /\ type = None /\ uLoopSize = 0 /\ bTopDownStackInId = FALSE
  /\ translation = 1 /\ rounds = 0 /\ stackId = <<>>

Next ==
  \/ foCreate \/ Translate \/ NotABug \/ fApplyBugTranslationsToBugReport
  \/ foAnalyzeException \/ foAnalyzeException_STATUS_STACK_OVERFLOW \/ fxProcessStack

Spec == Init /\ [][Next]_vars

-----------------------------------------------------------------------------
(* Properties.                                                             *)

Frame == [function : Functions, id : BOOLEAN, hidden : Reasons \cup {None}]

\* The id is of at most as many functions as configured, and a line adds at most two frames.
TypeOK ==
  /\ pc \in {"running", "translating", "analyzing", "retranslating", "reporting", "reported", "ignored", "failed"}
  /\ frames \in Seq(Frame) /\ Len(frames) <= 2 * uMaxLinesCount /\ bPartialStack \in BOOLEAN
  /\ uLoopSize \in 0 .. uMaxStackRecursionLoopSize - 1 /\ bTopDownStackInId \in BOOLEAN
  /\ translation \in 1 .. Len(aoBugTranslations) + 1 /\ rounds \in 0 .. uSanityCheckMaximumLoops
  /\ Len(stackId) \in 0 .. uStackHashFramesCount

\* Functions that call each other until the stack is exhausted are recognized, unless cdb found no
\* stack at all, and as many are
\* reported as there are, neither a part of them nor two loops for one (README.md:2).
RecursionIsRecognized ==
  LET size == Len(CalledInLoop(crash))
  IN ( /\ pc \in {"retranslating", "reported", "failed"} /\ type # "OOM" /\ crash.depth > 0 /\ frames # <<>>
       /\ size < uMaxStackRecursionLoopSize /\ crash.depth >= (uMinStackRecursionLoops + 1) * Len(crash.loop) )
     => type = "RecursiveCall" /\ uLoopSize = size

\* What is reported as a recursion is one: whatever is on the stack, the frames that identify the
\* bug are as many as the loop has, they follow each other, what they show repeats as often as a
\* recursion must at least, and it is the last time that it is there as a whole.
RecursionRepeats ==
  type = "RecursiveCall" =>
    \E start \in DOMAIN frames :
      /\ {i \in DOMAIN frames : frames[i].id} = start .. start + uLoopSize - 1
      /\ \A i \in start .. start + uLoopSize - 1, k \in 1 .. uMinStackRecursionLoops - 1 :
           i - k * uLoopSize >= 1 /\ frames[i - k * uLoopSize].function = frames[i].function
      /\ start + uLoopSize <= Len(frames) => frames[start].function # frames[start + uLoopSize].function

\* When the whole stack is seen, the frames in the id of a recursion are the functions of the loop
\* in the order in which they call each other, however deep it was and wherever it ended.
RecursionIdIsOfLoop ==
  ( /\ pc \in {"reporting", "reported", "failed"} /\ type = "RecursiveCall"
    /\ Len(WithJumps(CallStack(crash))) <= uStackFramesCount(crash) )
  => IdFunctions = CalledInLoop(crash)

\* The first function in the id of another bug is not one that is hidden whatever the bug is: general
\* rules "hide irrelevant heap management frames" (mBugTranslations/Cpp.py:52). Not so
\* in general: see RulesFindWhatTheyHide.
IdStartsWithRelevantFrame ==
  pc = "reported" /\ type # "RecursiveCall" /\ stackId # <<>> => stackId[1] \notin IrrelevantFunctions

\* A rule that hides the top frame hides what must come after it, too: otherwise it does not apply,
\* the frame stays hidden, and the general rules that were tried before it are not tried again.
RulesFindWhatTheyHide ==
  \A rule \in {r \in Rules : r.top # {} /\ r.additional # {}} : \A i \in DOMAIN frames :
    frames[i].function \in rule.top =>
      i < Len(frames) /\ frames[i + 1].function \in rule.top \cup rule.additional

\* With such stacks the id does start with a relevant frame, whichever rules apply and however
\* often: the order of the rules, one that changes the type and one that hides frames do not
\* keep another from being tried (fApplyBugTranslationsToBugReport).
ExplainedIdStartsWithRelevantFrame ==
  pc = "reported" /\ RulesFindWhatTheyHide => IdStartsWithRelevantFrame

\* "A bug translation loop was detected" does not happen: the translations come to an end.
TranslationsEnd == rounds < uSanityCheckMaximumLoops

\* "Cannot have a hidden frame that is part of the id" (cBugReport_fxProcessStack.py:19).
IdFramesAreVisible ==
  pc \in {"reporting", "failed"} => \A i \in DOMAIN frames : ~(frames[i].id /\ bHidden(frames[i]))
===============================================================================
