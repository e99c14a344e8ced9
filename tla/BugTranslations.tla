---------------------------- MODULE BugTranslations ----------------------------
(***************************************************************************)
(* Bug translations: rules that recognize the type of a bug from the       *)
(* functions at the top of its stack, and hide functions that say nothing  *)
(* about it.                                                               *)
(*                                                                         *)
(* A frame is its function and the reason why it is hidden.  A regular     *)
(* expression is the set of the functions that it matches; functions that  *)
(* every rule treats alike are one, named after one of them, and None is   *)
(* a function without a symbol.  Template arguments are not part of a name *)
(* (cFunction).  The types are those that a rule or a crash tells apart:   *)
(* "AVW:NULL" stands for every offset, and "AVW@NULL" is another type.     *)
(* Descriptions and security impacts are left out, they decide nothing; so *)
(* is the callback of the first rule of ASan, which tells cdb to ignore    *)
(* access violations.                                                      *)
(***************************************************************************)
EXTENDS Integers, Sequences, FiniteSetsExt

CONSTANT None

\* Why a frame is hidden, and the types that a rule replaces without looking at the stack.
Reasons == {"created", "recursion", "identifying", "irrelevant"}
CppTypes == {"C++:std::bad_alloc", "C++:SafeIntException"}

ASSUME NoneAssumption == None \notin Reasons \cup CppTypes \cup {"RecursiveCall"}

-----------------------------------------------------------------------------
(* The tables.  A rule without types is for any bug; one without a type    *)
(* only hides frames.                                                      *)

Unchanged == "unchanged"

Rule(types, top, additional, type) ==
  [types |-> types, top |-> top, additional |-> additional, type |-> type]

\* A type of bug that is identified by its top frame, and frames that are hidden.
Identify(types, top, type) == Rule(types, top, {}, type)
Hide(types, additional) == Rule(types, {}, additional, Unchanged)

Abandonment ==
  << Rule({"Breakpoint"}, {"InduceAbandonment"}, {"AssertionFailed"}, "Assert"),
     Identify({"Assert"}, {"CheckAllocation"}, "OOM"),
     Identify({"Assert"}, {"CheckHRESULT", "CheckHRESULTStrict"}, "Assert:HRESULT"),
     Identify({"Assert"}, {"InvalidArguments"}, "Assert:Arguments"),
     Identify({"Assert"}, {"UnreachableCode"}, "Assert:Unreachable"),
     Identify({"Assert"}, {"Fail"}, "Assert:Fail"),
     Rule({"Assert"}, {"InduceHRESULTAbandonment"}, {"CheckHRESULTStrict"}, "Assert:HRESULT"),
     Identify({"Assert"}, {"DeprecatedAPI"}, "Assert:Deprecated"),
     Identify({"Assert"}, {"InduceRequiredQIAbandonment"}, "Assert:QI"),
     Identify({"FailFast"}, {"CheckAllocation"}, "OOM"),
     Hide({"OOM"}, {"CheckAllocationT"}) >>

ASan ==
  << Identify({"AVW:Reserved"}, {"FastPoisonShadow"}, None),
     Identify({"IllegalInstruction"}, {"Trap"}, "ASan"),
     Hide({"ASan"}, {"FastPoisonShadow", "Trap", "asan", "uprv_realloc_60"}) >>

chakra_dll ==
  << Hide({}, {"chakra!ReportFatalException", "ThrowOutOfMemoryError", "HeapAllocator::Alloc"}),
     Identify({"Breakpoint"}, {"FatalInternalError"}, "Assert"),
     Identify({"Breakpoint"}, {"chakra!MarkStack_OOM", "ThrowOutOfMemoryError", "ThrowOutOfMemory"}, "OOM") >>

\* The functions whose name says that they allocate memory, or could not.
Allocating ==
  { "CheckAllocation", "CheckAllocationT", "uprv_realloc_60", "ThrowOutOfMemoryError", "HeapAllocator::Alloc",
    "ThrowOutOfMemory", "BlinkGCOutOfMemory", "CallNewHandler", "malloc", "std::allocator", "InternalAlloc", "moz_xmalloc",
    "mozalloc_handle_oom", "IsoAlloc", "HeapAlloc", "RtlAllocateHeap", "FatalProcessOutOfMemory", "AVrfAllocate",
    "ReportFailure_NullAlloc", "FailFast_NullAlloc" }

Chrome ==
  << Hide({}, {"BreakDebugger", "ApiCheck"}),
     Identify({"Breakpoint"}, {"__sanitizer_cov"}, None),
     Identify({"Breakpoint"}, {"OnNoMemory", "MemoryRegion::Commit"}, "OOM"),
     Identify({"Breakpoint"}, {"reportFatalErrorInMainThread", "ReportApiFailure"}, "Assert"),
     Identify({"AVW@NULL"}, {"ForceCrashOnSigAbort"}, "Assert"),
     Identify({"0xE0000008", "Assert", "AVW@NULL"}, {"OnNoMemory", "BlinkGCOutOfMemory"}, "OOM"),
     Hide({"OOM"}, Allocating) >>

clr_dll == << Hide({}, {"IL_Throw"}) >>

combase_dll == << Hide({}, {"RoOriginateError"}) >>

conhost_exe == << Hide({}, {"o_terminate"}) >>

corpol_dll == << Identify({"AVE@Arbitrary"}, {"IsNxON"}, None) >>

Cpp ==
  << Hide({}, {"CxxThrowException", "abort"}),
     Identify({"Breakpoint"}, {"malloc"}, "OOM"),
     Identify({"C++:std::bad_alloc"}, {}, "OOM"),
     Identify({"AppExit"}, {"purecall"}, "PureCall"),
     Hide({"PureCall"}, {"purecall"}),
     Identify({"StackExhaustion"}, {"chkstk"}, Unchanged),
     Hide({}, {"malloc", "std::allocator", "std"}) >>

edgehtml_dll == << Hide({"OOM"}, {"InternalAlloc"}) >>

edgecontent_dll == << Identify({"Assert"}, {"MemoryLimitWatchdogThreadProc"}, "OOM") >>

Firefox ==
  << Hide({}, {"moz_abort", "moz_xmalloc", "arena_run_split"}),
     Identify({"Breakpoint"}, {"arena_run_split", "mozalloc_handle_oom", "NS_ABORT_OOM"}, "OOM"),
     Identify({"IllegalInstruction"}, {"default_oom_handler"}, "OOM"),
     Identify({"IllegalInstruction"}, {None}, None),
     Identify({"Breakpoint"}, {"NS_DebugBreak"}, "Assert") >>

iso == << Rule({"Assert", "Assert:HRESULT"}, {"_InitializeEntry"}, {"IsoAlloc"}, "OOM") >>

jscript9_dll ==
  << Hide({}, {"jscript9!ReportFatalException"}),
     Identify({"Breakpoint"}, {"JavascriptDispatch_OOM"}, "OOM") >>

kernel32_dll == << Hide({}, {"RaiseExceptionStub"}) >>

kernelbase_dll == << Hide({}, {"RaiseException"}) >>

mshtml_dll == << Rule({"Breakpoint"}, {"mshtml!ReportFatalException"}, {"Memory", "HeapAlloc"}, "OOM") >>

\* The breakpoint of a process that starts is not a bug.
ntdll_dll ==
  << Hide({}, {"RtlRaiseException", "RtlAllocateHeap", "RtlpWaitOnCriticalSection"}),
     Identify({"Breakpoint"}, {"LdrpDoDebuggerBreak"}, None),
     Identify({"Breakpoint"}, {"RtlpHeapHandleError"}, "HeapCorrupt"),
     Identify({"AVR@Reserved", "AVR@Invalid"}, {"LdrpDispatchUserCallTarget", "LdrpValidateUserCallTarget"}, "AVR@CFG"),
     Identify({"AVE:NULL"}, {"NtWow64IsProcessorFeaturePresent"}, None),
     Identify({"AVW:NULL"}, {"RtlpWaitOnCriticalSection"}, None) >>

oledb32_dll == << Identify({"OOBR"}, {"SafeCheckWCharNullTermination"}, None) >>

RTC == << Rule({"Breakpoint"}, {"failwithmessage"}, {"_RTC_CheckStackVars"}, "OOBW:Stack") >>

SafeInt ==
  << Hide({}, {"SafeIntOnOverflow"}),
     Identify({"C++:SafeIntException"}, {}, "SafeInt"),
     Identify({"SafeInt"}, {"operator++"}, "IntegerOverflow"),
     Identify({"SafeInt"}, {"operator--"}, "IntegerUnderflow"),
     Rule({"SafeInt"}, {"Multiply"}, {"operator*="}, "IntegerTruncation"),
     Rule({"SafeInt"}, {"RegMultiply"}, {"RegMultiply", "Multiply", "operator*="}, "IntegerTruncation"),
     Rule({"SafeInt"}, {"Cast"}, {"operator="}, "IntegerTruncation") >>

SlashGS == << Identify({"OOBW:Stack"}, {"__security_check_cookie"}, Unchanged) >>

ucrtbase_dll == << Hide({}, {"abort", "terminate"}) >>

V8 ==
  << Identify({"AVE@NULL"}, {"OS::Abort"}, "Assert"),
     Identify({"AVE@NULL"}, {"V8_Fatal"}, "Assert"),
     Hide({"Assert"}, {"V8_Fatal", "OS::Abort", "ToLocalEmpty", "ReportApiFailure", "ApiCheck"}),
     Identify({"Assert"}, {"FatalProcessOutOfMemory"}, "OOM"),
     Identify({"Assert"}, {"ReportOOMFailure"}, "OOM") >>

verifier_dll == << Hide({}, {"VerifierStopMessage", "AVrfAllocate"}) >>

wil ==
  << Hide({}, {"ReportFailure_Hr", "ReportFailure_Win32", "ReportFailure_Unexpected", "ReportFailure_NullAlloc", "WilFailFast"}),
     Identify({}, {"ReportFailure"}, "Assert"),
     Identify({}, {"ReportFailure_Win32", "FailFast_Win32"}, "Assert:Win32"),
     Identify({}, {"ReportFailure_Hr", "FailFast_Hr"}, "Assert:HRESULT"),
     Identify({}, {"ReportFailure_Unexpected", "FailFast_Unexpected"}, "Assert:Unexpected"),
     Identify({}, {"ReportFailure_NullAlloc", "FailFast_NullAlloc"}, "OOM"),
     Identify({}, {"FailFast_NullAlloc"}, "OOM") >>

aoBugTranslations ==
  Abandonment \o ASan \o chakra_dll \o Chrome \o clr_dll \o combase_dll \o conhost_exe \o corpol_dll \o Cpp
  \o edgehtml_dll \o edgecontent_dll \o Firefox \o iso \o jscript9_dll \o kernel32_dll \o kernelbase_dll
  \o mshtml_dll \o ntdll_dll \o oledb32_dll \o RTC \o SafeInt \o SlashGS \o ucrtbase_dll \o V8
  \o verifier_dll \o wil

Rules == {aoBugTranslations[n] : n \in DOMAIN aoBugTranslations}

\* The functions that are hidden whatever the bug is.
IrrelevantFunctions == UNION {rule.additional : rule \in {r \in Rules : r.types = {} /\ r.top = {}}}

-----------------------------------------------------------------------------
(* Applying a rule.                                                        *)

bHidden(frame) == frame.hidden # None

\* The frames with those from the first visible one hidden that match, without a gap.
HideTopFrames(frames, symbols, reason) ==
  LET visible == {i \in DOMAIN frames : ~bHidden(frames[i])}
      first == Min(visible)
      Matches(i) == \A j \in first .. i : frames[j].function \in symbols
  IN [i \in DOMAIN frames |->
        IF visible # {} /\ i >= first /\ Matches(i) THEN [frames[i] EXCEPT !.hidden = reason] ELSE frames[i]]

\* Mutant: a rule applies to its bugs whether or not there are frames to hide.
ApplyAnyway(rule, type, frames) ==
  LET applies == rule.types = {} \/ type \in rule.types
      afterTop == HideTopFrames(frames, rule.top, "identifying")
  IN [ applied |-> applies,
       type |-> IF applies /\ rule.type # Unchanged THEN rule.type ELSE type,
       frames |-> IF applies THEN HideTopFrames(afterTop, rule.additional, "irrelevant") ELSE frames ]

fbApplyToBugReport(rule, type, frames) ==
  LET isOfType == rule.types = {} \/ type \in rule.types
      afterTop == HideTopFrames(frames, rule.top, "identifying")
      topApplies == isOfType /\ (rule.top = {} \/ afterTop # frames)
      afterAll == HideTopFrames(afterTop, rule.additional, "irrelevant")
      applies == topApplies /\ (rule.additional = {} \/ afterAll # afterTop)
  IN [ applied |-> applies,
       type |-> IF applies /\ rule.type # Unchanged THEN rule.type ELSE type,
       frames |-> IF applies THEN afterAll ELSE IF topApplies THEN afterTop ELSE frames ]
===============================================================================
