----------------------------- MODULE MCStackReport -----------------------------
EXTENDS StackReport

Exception(t, found, functions) == [type |-> t, found |-> found, top |-> functions]

\* The exceptions with which bugs of these types start.
Causes ==
  [ t \in {"AVW:Reserved", "AVW:NULL", "AVE:NULL", "OOBR"} |-> <<"AV", t>> ]
  @@ [ t \in {"AppExit", "OOBW:Stack"} |-> <<"FailFast2", t>> ]
  @@ [ t \in {"SafeInt"} |-> <<"C++", "C++:SafeIntException">> ]
  @@ [ t \in {"Breakpoint", "FailFast", "IllegalInstruction", "Assert", "0xE0000008"} |-> <<t, Unchanged>> ]

\* Every rule that identifies a type by the top frame, with every frame and every bug that it is for.
Identified ==
  UNION { { Exception(Causes[t][1], Causes[t][2], <<f>> \o functions) :
              f \in rule.top, t \in DOMAIN Causes \cap (IF rule.types = {} THEN {"Breakpoint", "AppExit"} ELSE rule.types),
              functions \in {<<"f", "g">>} \cup {<<a, "f", "g">> : a \in rule.additional} } :
          rule \in Rules }

MCExceptions ==
  Identified \cup
  { Exception("Breakpoint", Unchanged, <<"InduceAbandonment", "AssertionFailed", "CheckAllocation", "CheckAllocationT", "f">>),
    Exception("Breakpoint", Unchanged, <<"InduceAbandonment", "AssertionFailed", "InduceHRESULTAbandonment", "CheckHRESULTStrict", "_InitializeEntry", "IsoAlloc", "f">>),
    Exception("Breakpoint", Unchanged, <<"abort", "std", "malloc", "std", "f">>),
    Exception("Breakpoint", "ASan:use-after-free", <<"Trap", "asan", "f">>),
    Exception("C++", "C++:std::bad_alloc", <<"RaiseException", "CxxThrowException", "std", "InternalAlloc", "f">>),
    Exception("C++", "C++:SafeIntException", <<"CxxThrowException", "SafeIntOnOverflow", "Multiply", "f">>),
    Exception("C++", "C++:SafeIntException", <<"CxxThrowException", "SafeIntOnOverflow", "RegMultiply", "Multiply", "operator*=", "f">>),
    Exception("C++", "C++:SafeIntException", <<"CxxThrowException", "SafeIntOnOverflow", "ReportFailure", "f">>),
    Exception("C++", "C++:SafeIntException", <<"CxxThrowException", "SafeIntOnOverflow", "Cast", "std", "f">>),
    Exception("FailFast2", "AppExit", <<"WilFailFast", "ReportFailure_Hr", "f">>),
    Exception("0xE0000008", Unchanged, <<"RaiseException", "IL_Throw", "CxxThrowException", "f">>),
    Exception("WRTOriginate", None, <<"RaiseException", "RoOriginateError", "f">>),
    Exception("WRTLanguage", "Stowed", <<"RaiseException", "f">>),
    Exception("OOM", Unchanged, <<"BlinkGCOutOfMemory", "CallNewHandler", "IL_Throw", "malloc", "f">>),
    Exception("StackExhaustion", Unchanged, <<"chkstk", "std", "f", "g">>),
    Exception("AV", "AVR:Reserved", <<"LdrpValidateUserCallTarget", "guard_dispatch_icall", "f">>),
    Exception("AV", "AVR", <<"std", "leaf", "f">>),
    Exception("AV", "AVR", <<"garbage", None, "f", "g">>) }

\* What the loop called last is another function, or the same one at another place.
MCTops == {<<>>, <<"chkstk">>, <<"std", "h">>, <<"h", "h", "h", "h">>}

MCLoops == {<<"f">>, <<"f", "g">>, <<"f", "g", "g">>, <<"f", "std">>, <<"f", "leaf">>}

MCJumpedFrom == [leaf |-> "thunk"]

MCFunctions ==
  {None, "main", "BaseThreadInitThunk", "thunk"} \cup UNION {ToSet(e.top) : e \in MCExceptions}
  \cup UNION {ToSet(functions) : functions \in MCTops \cup MCLoops}
===============================================================================
