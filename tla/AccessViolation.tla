---------------------------- MODULE AccessViolation ----------------------------
(***************************************************************************)
(* How an access violation is analysed: cBugReport_foAnalyzeException_     *)
(* STATUS_ACCESS_VIOLATION finds out what the processor tried to do from   *)
(* the exception record and the disassembly of the instruction, and the    *)
(* handlers of mAccessViolation are tried one after another until one can  *)
(* say what is wrong with the address.                                     *)
(*                                                                         *)
(* The application writes out of bounds, frees its heap block, and makes   *)
(* accesses that the protection of memory denies.  The exception record is *)
(* not always right, as the comments in the code say: x64 processors       *)
(* report a read at the last address for an invalid address, and x86       *)
(* processors report type 3 and a wrong address for the stack.  When the   *)
(* exception is ignored the application is resumed and may fail again.     *)
(*                                                                         *)
(* Left out: descriptions and security impact, memory remarks and memory   *)
(* dumps, how an exception is ignored, and debug output.                   *)
(***************************************************************************)
EXTENDS PageHeap, Sequences

CONSTANTS
  uGranularity,      \* oSystemInfo.uAllocationAddressGranularity
  MaskSizes,         \* the numbers of addresses that a pointer is truncated to
  Poison,            \* the poisoned address of the collateral bug handler
  SpecialAddresses,
  StackBottom, StackTop,
  MaxAccess,         \* the largest access: 64 bytes
  AccessSizes,
  Operands,          \* bound: the addresses of operands in memory
  StackPointers,     \* bound: the values of the stack pointer
  Overwritable,      \* bound: what the application overwrites
  MaxModified        \* bound: how many bytes it overwrites

ASSUME AccessViolationAssumption ==
  /\ uGranularity \in Nat \ {0}
  /\ MaskSizes \subseteq Nat \ {0}
  /\ SpecialAddresses \cup {Poison, StackBottom} \subseteq Addresses
  /\ StackTop \in 1 .. Space - 1 /\ StackBottom < StackTop
  /\ MaxAccess \in Nat /\ MaxAccess <= uPageSize
  /\ AccessSizes \cup {uPointerSize} \subseteq 1 .. MaxAccess
  /\ Operands \cup StackPointers \cup Overwritable \subseteq Addresses /\ MaxModified \in Nat

VARIABLES
  pc,                \* "running", "analyzing", "handling", "reported" or "failed"
  access,            \* the instruction that failed
  sViolationTypeId,
  uAccessViolationAddress,
  handler,           \* how many handlers were tried
  report,            \* what the report says
  fIgnoreException,  \* what the collateral bug handler was given
  cache              \* the heap manager data by address

avVars == <<sViolationTypeId, uAccessViolationAddress, handler, report, fIgnoreException>>
vars == <<heapVars, pc, access, avVars, cache>>

Types == {"R", "W", "E", "?"}
Wrap(a) == a % Space

-----------------------------------------------------------------------------
(* What the processor does.                                                *)

Denied == [ R |-> {"NoAccess", "Exec"},
            W |-> {"NoAccess", "ReadOnly", "Exec", "ExecRead"},
            E |-> {"NoAccess", "ReadOnly", "ReadWrite"} ]

\* Whether memory in a state does not allow an access.
Denies(s, type) == s \notin Protections \/ s \in Denied[type]

\* The addresses of an access that are denied.
DeniedAddresses(type, a, size) ==
  {b \in a .. a + size - 1 : b \in Addresses /\ Denies(StateAt(b), type)}

\* The instructions that the disassembly tells apart, by what they do and whether their first
\* operand is in memory.  That of "unclear" is not understood, "xchg" is not one that is known,
\* and "fetch" is the attempt to execute any instruction.
Instructions == {"inc", "cmp", "mov", "mov to memory", "push", "push memory", "pop", "pop memory",
                 "ret", "jmp invalid", "fetch", "xchg", "unclear"}

\* A failed access, and what the exception record says of it.
Accesses == [ instruction : Instructions, operand : Addresses, sp : Addresses,
              size : 1 .. MaxAccess, type : {"R", "W", "E"}, address : Addresses,
              record : Types \X Addresses ]

ASSUME NoAccessAssumption == NULL \notin Accesses

\* The accesses of an instruction with operand address a and stack pointer sp.
Operations(i, a, sp) ==
  CASE i \in {"inc", "mov to memory", "xchg"} -> {<<"W", a>>}
    [] i \in {"cmp", "mov"} -> {<<"R", a>>}
    [] i = "unclear" -> {<<"R", a>>, <<"W", a>>}
    [] i = "push" -> {<<"W", Wrap(sp - uPointerSize)>>}
    [] i = "push memory" -> {<<"R", a>>, <<"W", Wrap(sp - uPointerSize)>>}
    [] i = "pop memory" -> {<<"W", a>>, <<"R", sp>>}
    [] i \in {"pop", "ret"} -> {<<"R", sp>>}
    [] i \in {"jmp invalid", "fetch"} -> {<<"E", a>>}

UsesStack(i) == i \in {"push", "push memory", "pop", "pop memory", "ret"}
ShowsOperand(i) == i \notin {"push", "pop", "ret", "unclear"}

\* Only what the instruction uses matters.
OperandsOf(i) == IF i \in {"push", "pop", "ret"} THEN {0} ELSE Operands
StackPointersOf(i) == IF UsesStack(i) THEN StackPointers ELSE {StackBottom}
SizesOf(i) == IF UsesStack(i) \/ i \in {"jmp invalid", "fetch"} THEN {uPointerSize} ELSE AccessSizes

\* What the exception record says of an access.
Records(type, a, size, is_stack) ==
  {<<type, Min(DeniedAddresses(type, a, size))>>} \cup
  (IF StateAt(a) = "Invalid" THEN {<<"R", Space - 1>>} ELSE {}) \cup
  (IF is_stack THEN {<<"?", 0>>} ELSE {})

Access ==
  /\ pc = "running"
  /\ \E i \in Instructions :
       \E a \in OperandsOf(i), sp \in StackPointersOf(i), size \in SizesOf(i) :
         \E op \in Operations(i, a, sp) :
           /\ DeniedAddresses(op[1], op[2], size) # {}
           /\ i = "jmp invalid" => StateAt(a) = "Invalid"
           /\ \E record \in Records(op[1], op[2], size, UsesStack(i) /\ op[2] # a) :
                access' = [ instruction |-> i, operand |-> a, sp |-> sp, size |-> size,
                            type |-> op[1], address |-> op[2], record |-> record ]
  /\ pc' = "analyzing"
  /\ UNCHANGED <<heapVars, avVars, cache>>

Write ==
  /\ pc = "running" /\ Cardinality(modified) < MaxModified
  /\ \E a \in Overwritable : InvalidWrite(a)
  /\ UNCHANGED <<pc, access, avVars, cache>>

Free ==
  /\ pc = "running"
  /\ FreeBlock
  /\ UNCHANGED <<pc, access, avVars, cache>>

-----------------------------------------------------------------------------
(* The type of the access and its address.                                 *)

\* The address that is shown with the disassembly replaces that of the record.  That of an
\* instruction that cannot be read ("??") is its own.
ShownAddress ==
  IF ShowsOperand(access.instruction) THEN access.operand ELSE access.record[2]

\* Mutant: the stack pointer does not wrap around.
NotWrapped == access.sp - uPointerSize
\* Where a push writes to, and a pop reads from.
StackWriteAddress == Wrap(access.sp - uPointerSize)
\* Mutant: the stack pointer is that after the instruction.
AfterPop == Wrap(access.sp + uPointerSize)
StackReadAddress == access.sp

\* What the instruction says.
TypeAndAddress ==
  LET i == access.instruction
  IN CASE i \in {"jmp invalid", "fetch"} -> <<"E", ShownAddress>>
       [] i \in {"inc", "mov to memory"} -> <<"W", ShownAddress>>
       [] i \in {"push memory", "pop memory"} -> <<"?", ShownAddress>>
       [] i = "push" -> <<"W", StackWriteAddress>>
       [] i \in {"cmp", "mov"} -> <<"R", ShownAddress>>
       [] i \in {"pop", "ret"} -> <<"R", StackReadAddress>>
       [] OTHER -> access.record

\* Assertions: the shown address is not zero, and the instruction is known.
AnalysisFails ==
  /\ access.record[1] # "E"
  /\ \/ ShowsOperand(access.instruction) /\ ShownAddress = 0
     \/ access.instruction = "xchg"

foAnalyzeException ==
  /\ pc = "analyzing"
  /\ IF AnalysisFails
     THEN pc' = "failed" /\ UNCHANGED <<sViolationTypeId, uAccessViolationAddress>>
     ELSE /\ pc' = "handling"
          /\ LET result == IF access.record[1] # "E" THEN TypeAndAddress ELSE access.record
             IN sViolationTypeId' = result[1] /\ uAccessViolationAddress' = result[2]
  /\ handler' = 1
  /\ UNCHANGED <<heapVars, access, report, fIgnoreException, cache>>

-----------------------------------------------------------------------------
(* The handlers.                                                           *)

Nothing == [kind |-> "none", allocation |-> NULL, claims |-> {}, corrupted |-> {}]

\* A handler reports what it found, and whether the exception may be ignored.
Reports(kind, va, ignorable) ==
  /\ report' = [Nothing EXCEPT !.kind = kind, !.allocation = va]
  /\ fIgnoreException' = IF ignorable THEN [original |-> NULL] ELSE NULL
  /\ pc' = "reported"

\* A handler has nothing to say.
Passes == UNCHANGED <<pc, report, fIgnoreException>>

Address == uAccessViolationAddress

fbUpdateReportForNULLPointer ==
  /\ IF Address < uGranularity \/ Space - Address < uGranularity
     THEN Reports("NULL", NULL, FALSE) ELSE Passes
  /\ UNCHANGED cache

\* Near the poisoned value, or what is left of it when it is truncated.
IsPoisoned(a) == \E size \in MaskSizes : a - (Poison % size) \in (1 - uPageSize) .. (uPageSize - 1)

fbUpdateReportForCollateralPoisonPointer ==
  /\ IF IsPoisoned(Address) THEN Reports("Poison", NULL, TRUE) ELSE Passes
  /\ UNCHANGED cache

\* The data about the block near an address is looked up once until the application is resumed.
CachedHeapData == {entry.data : entry \in {e \in cache : e.address = Address}}
HeapData == IF CachedHeapData # {} THEN CHOOSE data \in CachedHeapData : TRUE
            ELSE fo0GetPageHeapManagerData(Address)

\* What is said about an access to a block: it is out of its bounds, it is to freed memory, or
\* it is the end of a write that went out of bounds at the end of the block.
OutOfBounds(data) == Address < data.start \/ Address >= data.end
IsOverrun(data) ==
  /\ sViolationTypeId = "W" /\ ~data.freed /\ data.corrupted # {}
  /\ Min(data.corrupted) = data.end /\ Max(data.corrupted) + 1 = Address
HeapClaims(data) ==
  IF data.freed THEN {"AF"} \cup (IF OutOfBounds(data) THEN {"OOB"} ELSE {})
  ELSE IF IsOverrun(data) THEN {"BOF"} ELSE IF OutOfBounds(data) THEN {"OOB"} ELSE {}

\* The value that the application could not read, for when the exception is ignored: it is read
\* at this offset in the allocation of the block.
OriginalValue(data) ==
  IF /\ sViolationTypeId = "R" /\ bAllocated(data.virtual)
     /\ Address >= data.start /\ Address + uPointerSize < data.end
  THEN data.virtual.start + (Address - data.start) ELSE NULL

fbUpdateReportForHeapManagerPointer ==
  LET data == HeapData
  IN /\ IF data = NULL THEN Passes
        ELSE IF sViolationTypeId = "?" \/ FailsToRead(Address)
        THEN pc' = "failed" /\ UNCHANGED <<report, fIgnoreException>>
        ELSE /\ report' = [ kind |-> "Heap", allocation |-> NULL, claims |-> HeapClaims(data),
                            corrupted |-> IF data.freed THEN {} ELSE data.corrupted ]
             /\ fIgnoreException' = [original |-> OriginalValue(data)]
             /\ pc' = "reported"
     /\ cache' = cache \cup {[address |-> Address, data |-> data]}

\* Within an offset of a special address, around the end of the address space.
IsSpecial(a) ==
  \E s \in SpecialAddresses : Wrap(a - s) <= uMaxAddressOffset \/ Wrap(s - a) <= uMaxAddressOffset

fbUpdateReportForSpecialPointer ==
  /\ IF IsSpecial(Address) THEN Reports("Special", NULL, TRUE) ELSE Passes
  /\ UNCHANGED cache

\* Both offsets are taken from the end of the stack.
fbUpdateReportForStackPointer ==
  LET va == VirtualAllocation(StackTop - 1)
  IN /\ IF va.start > StackBottom \/ va.end # StackTop THEN Passes
        ELSE IF Address - va.end \in 0 .. uPageSize THEN Reports("Stack+", va, FALSE)
        ELSE IF va.end - Address \in 0 .. uPageSize THEN Reports("Stack-", va, FALSE)
        ELSE Passes
     /\ UNCHANGED cache

\* What is wrong with an allocation.
fbUpdateReportForUnallocatedPointer(va) == va.state = "Free" /\ Reports("Unallocated", va, TRUE)
fbUpdateReportForReservedPointer(va) == va.state = "Reserved" /\ Reports("Reserved", va, TRUE)
fbUpdateReportForGuardPagePointer(va) == va.state = "Guard" /\ Reports("Guard", va, FALSE)
fbUpdateReportForInvalidPointer(va) == va.state = "Invalid" /\ Reports("Invalid", va, TRUE)

\* The protection prevents the access.  Nothing prevents one whose type is not known.
Prevents(s) == sViolationTypeId # "?" /\ s \in Denied[sViolationTypeId]

\* Mutant: any protection is blamed.
BlameAnyProtection(va) ==
  va.state \in Protections /\ sViolationTypeId # "?" /\ Reports("Allocated", va, FALSE)
fbUpdateReportForAllocatedPointer(va) ==
  va.state \in Protections /\ Prevents(va.state) /\ Reports("Allocated", va, FALSE)

UpdateReportForAllocation(va) ==
  \/ fbUpdateReportForUnallocatedPointer(va)
  \/ fbUpdateReportForReservedPointer(va)
  \/ fbUpdateReportForGuardPagePointer(va)
  \/ fbUpdateReportForInvalidPointer(va)
  \/ fbUpdateReportForAllocatedPointer(va)
  \/ va.state \in Protections /\ ~Prevents(va.state) /\ Passes

StartAllocation == UpdateReportForAllocation(VirtualAllocation(Address)) /\ UNCHANGED cache

\* The allocation after it, if the access may have gone on there.
EndAllocation ==
  LET va == VirtualAllocation(Address)
  IN /\ IF Address + MaxAccess > va.end
        THEN UpdateReportForAllocation(VirtualAllocation(va.end)) ELSE Passes
     /\ UNCHANGED cache

\* Nothing explains the access violation: raise NotImplemented(...).
NotImplemented ==
  /\ pc' = "failed"
  /\ UNCHANGED <<report, fIgnoreException, cache>>

Handle(n, Handler) ==
  /\ pc = "handling" /\ handler = n
  /\ Handler
  /\ handler' = n + 1
  /\ UNCHANGED <<heapVars, access, sViolationTypeId, uAccessViolationAddress>>

fUpdateReport ==
  \/ Handle(1, fbUpdateReportForNULLPointer)
  \/ Handle(2, fbUpdateReportForCollateralPoisonPointer)
  \/ Handle(3, fbUpdateReportForHeapManagerPointer)
  \/ Handle(4, fbUpdateReportForSpecialPointer)
  \/ Handle(5, fbUpdateReportForStackPointer)
  \/ Handle(6, StartAllocation)
  \/ Handle(7, EndAllocation)
  \/ Handle(8, NotImplemented)

\* Mutant: what was cached is kept.
ResumeWithCache ==
  /\ pc = "reported" /\ fIgnoreException # NULL
  /\ pc' = "running"
  /\ access' = NULL /\ handler' = 0 /\ report' = Nothing /\ fIgnoreException' = NULL
  /\ sViolationTypeId' = NULL /\ uAccessViolationAddress' = NULL
  /\ UNCHANGED <<heapVars, cache>>

\* The exception is ignored: what was cached is forgotten and the application goes on.
Resume ==
  /\ pc = "reported" /\ fIgnoreException # NULL
  /\ pc' = "running"
  /\ access' = NULL /\ handler' = 0 /\ report' = Nothing /\ fIgnoreException' = NULL
  /\ sViolationTypeId' = NULL /\ uAccessViolationAddress' = NULL
  /\ cache' = {}
  /\ UNCHANGED heapVars

-----------------------------------------------------------------------------
Init ==
  /\ \E layout \in Layouts : memory = layout.memory /\ block = layout.block
  /\ IsPageHeapBlock
  /\ freed = FALSE /\ modified = {}
  /\ pc = "running"
  /\ access = NULL
  /\ sViolationTypeId = NULL /\ uAccessViolationAddress = NULL
  /\ handler = 0 /\ report = Nothing /\ fIgnoreException = NULL
  /\ cache = {}

Next == Access \/ Write \/ Free \/ foAnalyzeException \/ fUpdateReport \/ Resume

Spec == Init /\ [][Next]_vars

-----------------------------------------------------------------------------
(* Properties.                                                             *)

TypeOK ==
  /\ \E layout \in Layouts : block = layout.block
  /\ memory \in [Pages -> States] /\ freed \in BOOLEAN
  /\ modified \subseteq Surroundings \cup BlockBytes
  /\ pc \in {"running", "analyzing", "handling", "reported", "failed"}
  /\ IF pc = "running" THEN access = NULL ELSE access \in Accesses
  /\ sViolationTypeId \in Types \cup {NULL} /\ uAccessViolationAddress \in Addresses \cup {NULL}
  /\ handler \in 0 .. 9
  /\ (report = Nothing) <=> (pc # "reported")
  /\ fIgnoreException \in {NULL} \cup [original : Addresses \cup {NULL}]
  /\ cache \subseteq [address : Addresses, data : {NULL, HeapManagerData}]

Analyzed == pc \in {"handling", "reported"}
IsClear == access.instruction # "unclear" /\ sViolationTypeId # "?"

\* Where the access is: that of an instruction that is fetched from two pages is the first byte
\* that may not be executed.
AddressOfAccess ==
  IF access.instruction = "fetch"
  THEN Min(DeniedAddresses(access.type, access.address, access.size)) ELSE access.address

\* However wrong the exception record is, a type and address that are found are those of the
\* access that failed (cBugReport_foAnalyzeException_STATUS_ACCESS_VIOLATION.py:65-77).
AccessIsNotMisread ==
  (Analyzed /\ IsClear) =>
    sViolationTypeId = access.type /\ uAccessViolationAddress = AddressOfAccess

\* An allocation is blamed only if it denies the access: some byte of the access is in it, and it
\* may not be used like that.
BlamedAllocationDeniesAccess ==
  (pc = "reported" /\ IsClear /\ report.kind \in States \cup {"Unallocated", "Allocated"}) =>
    LET va == report.allocation
    IN \E a \in DeniedAddresses(access.type, access.address, access.size) :
         va.start <= a /\ a < va.end

\* What is said about a heap block is true when it is said: use after free unless both stamps
\* were overwritten since, out of bounds, and a buffer overflow only if the bytes from the end of
\* the block to the access were overwritten, in a block whose other surroundings are intact.
HeapVerdictIsTrue ==
  (pc = "reported" /\ report.kind = "Heap") =>
    /\ "AF" \in report.claims <=> freed /\ ~({StartStamp, EndStamp} \subseteq modified)
    /\ "BOF" \in report.claims => /\ {BlockEnd, Address - 1} \subseteq modified
                                  /\ \A a \in modified \ {HeapField} : a >= block.start
    /\ "OOB" \in report.claims => Address \notin BlockBytes
    /\ "AF" \notin report.claims => report.corrupted = modified \ ({HeapField} \cup BlockBytes)

=============================================================================
