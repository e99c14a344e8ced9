------------------------------- MODULE PageHeap -------------------------------
(***************************************************************************)
(* The memory of a process with one page heap block in it, and what        *)
(* mHeapManager finds out about that block from an address near it: where  *)
(* it is, whether it was freed, and which bytes around it were overwritten *)
(* by the application before it made an access that failed.                *)
(*                                                                         *)
(* Memory is a function from pages to what may be done with them.  The     *)
(* page heap stores an allocation header at the start of the allocation,   *)
(* or of one page before it, and a header immediately before the block.    *)
(* These are one and three addresses here: the marker, and the start       *)
(* stamp, the heap and the end stamp.  Bytes between the headers and after *)
(* the block have known values.                                            *)
(*                                                                         *)
(* Left out: the DPH_HEAP_BLOCK structure is stored elsewhere and is not   *)
(* overwritten; which wrong value a byte got; the blocks of the normal     *)
(* Windows heap (cWindowsHeapManagerData).                                 *)
(***************************************************************************)
EXTENDS Integers, FiniteSets, FiniteSetsExt

CONSTANTS
  Space,              \* the size of the address space
  uPageSize,          \* divides Space
  uMaxAddressOffset,  \* dxConfig: below it an address is a NULL pointer
  uPointerSize,
  Layouts,            \* the memories with a block that the application can have
  NULL                \* Python's None

Addresses == 0 .. Space - 1
Pages == 0 .. (Space \div uPageSize) - 1
Protections == {"NoAccess", "ReadOnly", "ReadWrite", "Exec", "ExecRead", "Full"}
States == Protections \cup {"Free", "Reserved", "Guard", "Invalid"}

HeaderSize == 3       \* of DPH_BLOCK_INFORMATION: StartStamp, Heap, EndStamp

(* A block: its first address, its size, the start of its own allocation   *)
(* and of the allocation that holds the allocation header.                 *)
Blocks == [start : Addresses, size : 1 .. Space, virtual : Addresses, header : Addresses]

\* What is known about an allocation and about the block.
Allocations == [start : Nat, end : Nat, state : States]
HeapManagerDatas == [ start : Addresses, end : Nat, virtual : Allocations, freed : BOOLEAN,
                      corrupted : SUBSET Addresses ]

ASSUME PageHeapAssumption ==
  /\ uPageSize \in Nat \ {0} /\ Space \in Nat \ {0} /\ Space % uPageSize = 0
  /\ uMaxAddressOffset \in Nat /\ uPointerSize \in Nat \ {0}
  /\ Layouts \subseteq [memory : [Pages -> States], block : Blocks]
  /\ NULL \notin Allocations /\ NULL \notin HeapManagerDatas

VARIABLES
  memory,    \* what may be done with each page
  block,     \* the heap block
  freed,     \* whether the application freed it
  modified   \* the addresses around the block that it overwrote

heapVars == <<memory, block, freed, modified>>

BlockEnd == block.start + block.size
BlockBytes == block.start .. BlockEnd - 1

-----------------------------------------------------------------------------
(* Virtual allocations (mWindowsAPI.cVirtualAllocation).                   *)

PageOf(a) == a \div uPageSize
StateAt(a) == memory[PageOf(a)]
Same(p, q) == \A r \in (p .. q) \cup (q .. p) : memory[r] = memory[p]

\* The allocation at an address: its adjacent pages with the same protection.  That of reserved
\* memory starts at the page of the address.
VirtualAllocation(a) ==
  LET pages == {p \in Pages : Same(p, PageOf(a))}
      first == IF StateAt(a) = "Reserved" THEN PageOf(a) ELSE Min(pages)
  IN [start |-> first * uPageSize, end |-> (Max(pages) + 1) * uPageSize, state |-> StateAt(a)]

bAllocated(va) == va.state \in Protections \cup {"Guard"}
bReserved(va) == va.state = "Reserved"

\* How the page heap lays out a block before it is freed: the allocation of the block starts with
\* the allocation header, or follows a page that does.
IsPageHeapBlock ==
  LET va == VirtualAllocation(block.virtual)
      header == VirtualAllocation(block.header)
  IN /\ bAllocated(va) /\ va.start = block.virtual /\ block.virtual <= block.start
     /\ VirtualAllocation(block.start) = va
     /\ uMaxAddressOffset < block.header
     /\ \/ block.header = block.virtual
        \/ /\ bAllocated(header) /\ header.start = block.header
           /\ header.end = block.virtual /\ block.virtual - block.header = uPageSize

-----------------------------------------------------------------------------
(* What the application does with its block without an access violation.   *)

\* The bytes that are known to it, other than those of the block itself.
Surroundings ==
  LET va == VirtualAllocation(block.virtual)
  IN ({block.header} \cup (va.start .. va.end - 1)) \ BlockBytes

\* A write out of bounds or after free that stays in memory that can be written to.
InvalidWrite(a) ==
  /\ a \in Surroundings \cup (IF freed THEN BlockBytes ELSE {})
  /\ StateAt(a) \in {"ReadWrite", "Full"}
  /\ modified' = modified \cup {a}
  /\ UNCHANGED <<memory, block, freed>>

\* The heap detects what was overwritten when the block is freed: that is a verifier stop.
\* The memory of a freed block is made inaccessible, is reserved, is released, or is kept for a
\* while.
FreeBlock ==
  /\ ~freed /\ modified = {}
  /\ freed' = TRUE
  /\ LET va == VirtualAllocation(block.virtual)
     IN \E s \in {"NoAccess", "Reserved", "Free", va.state} :
          memory' = [p \in Pages |-> IF p * uPageSize \in va.start .. va.end - 1
                                     THEN s ELSE memory[p]]
  /\ UNCHANGED <<block, modified>>

-----------------------------------------------------------------------------
(* Finding the block (cPageHeapManagerData.fo0GetFor...NearHeapBlock).     *)

\* The allocation at an address.  If it is reserved memory it may be extended to the page before.
fo0GetVirtualAllocation(a) ==
  LET va == VirtualAllocation(a)
      before == VirtualAllocation(va.start - 1)
  IN IF a < uMaxAddressOffset \/ va.state \in {"Invalid", "Free"} THEN NULL
     ELSE IF bReserved(va) /\ va.start > 0 /\ bReserved(before) /\ before.end = va.end THEN before
     ELSE va

\* Access in reserved memory is taken to be beyond a block that ends there.
BlockAllocationNear(a) ==
  LET va == fo0GetVirtualAllocation(a)
      before == fo0GetVirtualAllocation(va.start - 1)
  IN IF va = NULL \/ ~bReserved(va) THEN va
     ELSE IF va.start - a >= uPageSize THEN NULL
     ELSE IF before = NULL \/ bReserved(before) THEN NULL ELSE before

HasAllocationHeader(va) == va.start = block.header /\ block.header \notin modified

\* The header may be in a page of its own before the allocation, or in an allocation that is one
\* page larger.
FindsAllocationHeader(va) ==
  \/ HasAllocationHeader(va)
  \/ LET before == fo0GetVirtualAllocation(va.start - 1)
     IN /\ before # NULL /\ ~bReserved(before)
        /\ \/ before.end - before.start = uPageSize
           \/ before.end = va.end /\ before.end - before.start = va.end - va.start + uPageSize
        /\ HasAllocationHeader(before)

\* At most a page before or after the block.
IsNearBlock(a) == block.start - a <= uPageSize /\ a - BlockEnd <= uPageSize

StartStamp == block.start - HeaderSize
HeapField == StartStamp + 1
EndStamp == block.start - 1

\* One intact stamp is enough to know that the block is freed.
StampsSayFreed == freed /\ ~({StartStamp, EndStamp} \subseteq modified)

\* The bytes with an unexpected value.  What the heap field should be is not known, and the bytes
\* of the block are not looked at.  Before the block header only memory in the same allocation is.
CorruptedBytes ==
  {a \in modified \ BlockBytes : /\ a # HeapField /\ a # block.header
                                 /\ VirtualAllocation(block.virtual).start <= a}

\* Where the known bytes before the block header start.  An assertion fails when there are none.
GapStart ==
  LET va == VirtualAllocation(block.virtual)
  IN IF VirtualAllocation(block.header).start = va.start THEN va.start + 1 ELSE va.start
GapIsEmpty == GapStart = StartStamp

\* What is known about the block.
HeapManagerData ==
  [ start |-> block.start, end |-> BlockEnd, virtual |-> VirtualAllocation(block.virtual),
    freed |-> StampsSayFreed, corrupted |-> CorruptedBytes ]

\* An UnboundLocalError, as the header of the block is used although no memory is there, or the
\* assertion.
FailsToRead(a) ==
  LET va == BlockAllocationNear(a)
  IN /\ va # NULL /\ FindsAllocationHeader(va) /\ IsNearBlock(a)
     /\ ~bAllocated(VirtualAllocation(block.virtual)) \/ GapIsEmpty

cPageHeapManagerData(a) ==
  LET va == BlockAllocationNear(a)
  IN IF va = NULL THEN NULL
     ELSE IF ~FindsAllocationHeader(va) \/ ~IsNearBlock(a) THEN NULL
     ELSE HeapManagerData

fo0GetPageHeapManagerData(a) ==
  IF a <= uMaxAddressOffset \/ StateAt(a) = "Invalid" THEN NULL ELSE cPageHeapManagerData(a)

=============================================================================
