---------------------------- MODULE HeapBugsProofs ----------------------------
(***************************************************************************)
(* Proofs about access violations and verifier stops: the properties of    *)
(* HeapBugs that TLC checks hold for every address space, every layout of  *)
(* the page heap, and every instruction, access and mistake.               *)
(***************************************************************************)
EXTENDS HeapBugs, FiniteSetTheorems, SequenceTheorems, TLAPS

-----------------------------------------------------------------------------
(* Numbers and pages.                                                      *)

\* The smallest of some natural numbers.
LEMMA MinOfNaturals ==
  ASSUME NEW S, S \subseteq Nat, S # {}
  PROVE  Min(S) \in S /\ \A x \in S : Min(S) <= x
<1>1. \E m \in S : \A x \in S : m <= x
  <2> DEFINE Up == {1 .. x : x \in S}
  <2>1. Up # {} /\ Up \subseteq FiniteSubsetsOf(Nat)
    <3>1. \A x \in Nat : 1 .. x \in SUBSET Nat /\ IsFiniteSet(1 .. x)
      BY FS_Interval
    <3> QED
      BY <3>1 DEF FiniteSubsetsOf
  <2>2. PICK U \in Up : \A V \in Up : ~(<<V, U>> \in StrictSubsetOrdering(Nat))
    BY <2>1, FS_StrictSubsetOrderingWellFounded, WFMin
  <2>3. PICK m \in S : U = 1 .. m
    OBVIOUS
  <2>4. ASSUME NEW x \in S, x < m PROVE FALSE
    <3>1. 1 .. x \in SUBSET Nat /\ 1 .. m \in SUBSET Nat /\ 1 .. x \subseteq 1 .. m /\ m \in 1 .. m /\ m \notin 1 .. x
      BY <2>4
    <3>2. <<1 .. x, U>> \in StrictSubsetOrdering(Nat)
      BY <2>3, <3>1 DEF StrictSubsetOrdering
    <3> QED
      BY <2>2, <3>2
  <2> QED
    BY <2>4
<1>2. Min(S) = CHOOSE x \in S : \A y \in S : x <= y
  BY DEF Min
<1> QED
  BY <1>1, <1>2

\* The largest of some natural numbers that have a bound.
LEMMA MaxOfNaturals ==
  ASSUME NEW n \in Nat, NEW S, S \subseteq 0 .. n, S # {}
  PROVE  Max(S) \in S /\ \A x \in S : x <= Max(S)
<1> DEFINE D == {n - x : x \in S}
<1>1. D \subseteq Nat /\ D # {}
  <2>1. PICK x \in S : TRUE
    OBVIOUS
  <2>2. n - x \in D
    OBVIOUS
  <2>3. \A y \in S : n - y \in Nat
    OBVIOUS
  <2> QED
    BY <2>2, <2>3
<1>2. Min(D) \in D /\ \A y \in D : Min(D) <= y
  <2> HIDE DEF D
  <2> QED
    BY <1>1, MinOfNaturals
<1>3. PICK m \in S : Min(D) = n - m
  BY <1>2 DEF D
<1>4. \A x \in S : x <= m
  <2> SUFFICES ASSUME NEW x \in S PROVE x <= m
    OBVIOUS
  <2>1. n - m <= n - x
    BY <1>2, <1>3
  <2> QED
    BY <2>1
<1>5. Max(S) = CHOOSE x \in S : \A y \in S : x >= y
  BY DEF Max
<1>6. \A y \in S : m >= y
  BY <1>4
<1>7. Max(S) \in S /\ \A y \in S : Max(S) >= y
  BY <1>5, <1>6
<1> QED
  BY <1>7

\* The page of an address, and where it starts and ends.
LEMMA PageBounds ==
  ASSUME NEW a \in Nat, NEW P \in Nat \ {0}
  PROVE  /\ a \div P \in Nat
         /\ (a \div P) * P <= a
         /\ a < ((a \div P) + 1) * P
<1>1. a \div P \in Nat
  OBVIOUS
<1>2. (a \div P) * P <= a
  OBVIOUS
<1>3. a < ((a \div P) + 1) * P
  OBVIOUS
<1> QED
  BY <1>1, <1>2, <1>3

LEMMA ProductIsMonotonic ==
  ASSUME NEW x \in Int, NEW y \in Int, NEW P \in Nat \ {0}, x <= y
  PROVE  x * P <= y * P
OBVIOUS

LEMMA PageIsUnique ==
  ASSUME NEW q \in Nat, NEW a \in Nat, NEW P \in Nat \ {0}, q * P <= a, a < (q + 1) * P
  PROVE  a \div P = q
OBVIOUS

-----------------------------------------------------------------------------
(* Virtual allocations.                                                    *)

\* The number of pages, and the pages themselves.
LEMMA PagesOfSpace ==
  /\ Space \div uPageSize \in Nat
  /\ (Space \div uPageSize) * uPageSize = Space
  /\ uPageSize \in Nat \ {0} /\ Space \in Nat \ {0}
<1>1. Space \in Nat \ {0} /\ uPageSize \in Nat \ {0} /\ Space % uPageSize = 0
  BY PageHeapAssumption
<1>2. ASSUME NEW a \in Nat, NEW P \in Nat \ {0}, a % P = 0
      PROVE  a \div P \in Nat /\ (a \div P) * P = a
  <2>1. (a \div P) * P = a
    BY <1>2
  <2> QED
    BY <2>1, PageBounds
<1> QED
  BY <1>1, <1>2

\* Every address is in a page.
LEMMA AddressIsInPage ==
  ASSUME NEW a \in Addresses
  PROVE  /\ PageOf(a) \in Pages
         /\ PageOf(a) * uPageSize <= a
         /\ a < (PageOf(a) + 1) * uPageSize
<1> DEFINE P == uPageSize
           N == Space \div uPageSize
           q == a \div P
<1>1. a \in Nat /\ P \in Nat \ {0} /\ N \in Nat /\ N * P = Space /\ a < N * P
  BY PagesOfSpace DEF Addresses
<1>2. q \in Nat /\ q * P <= a /\ a < (q + 1) * P
  <2> HIDE DEF P
  <2> QED
    BY <1>1, PageBounds
<1>3. q < N
  <2> SUFFICES ASSUME N <= q PROVE FALSE
    BY <1>1, <1>2
  <2>1. N * P <= q * P
    <3> HIDE DEF P, N, q
    <3> QED
      BY <1>1, <1>2, ProductIsMonotonic
  <2>2. N * P \in Int /\ q * P \in Int
    BY <1>1, <1>2
  <2> HIDE DEF P, N, q
  <2> QED
    BY <1>1, <1>2, <2>1, <2>2
<1>4. q \in 0 .. N - 1
  <2> HIDE DEF P, N, q
  <2> QED
    BY <1>1, <1>2, <1>3
<1> QED
  BY <1>2, <1>4 DEF PageOf, Pages

\* The pages of an allocation are from its first to its last one, and they have one state.
LEMMA PagesOfAllocation ==
  ASSUME memory \in [Pages -> States], NEW q \in Pages
  PROVE  LET pages == {p \in Pages : Same(p, q)}
         IN /\ pages \subseteq Nat
            /\ Min(pages) \in Pages /\ Max(pages) \in Pages
            /\ Min(pages) <= q /\ q <= Max(pages)
            /\ \A p \in Min(pages) .. Max(pages) : p \in Pages /\ memory[p] = memory[q]
<1> DEFINE pages == {p \in Pages : Same(p, q)}
           last == (Space \div uPageSize) - 1
<1>1. last \in Int /\ Pages = 0 .. last /\ q \in 0 .. last
  BY PagesOfSpace DEF Pages
<1>2. q \in pages /\ pages \subseteq 0 .. last
  BY <1>1 DEF Same
<1>3. last \in Nat
  BY <1>1
<1>4. Min(pages) \in pages /\ \A p \in pages : Min(pages) <= p
  <2>1. pages \subseteq Nat /\ pages # {}
    BY <1>2
  <2> HIDE DEF pages
  <2> QED
    BY <2>1, MinOfNaturals
<1>5. Max(pages) \in pages /\ \A p \in pages : p <= Max(pages)
  <2> HIDE DEF pages, last
  <2> QED
    BY <1>2, <1>3, MaxOfNaturals
<1>6. \A m \in pages, p \in 0 .. last : p \in (m .. q) \cup (q .. m) => memory[p] = memory[q]
  <2> SUFFICES ASSUME NEW m \in pages, NEW p \in (m .. q) \cup (q .. m) PROVE memory[p] = memory[q]
    OBVIOUS
  <2>1. memory[p] = memory[m]
    BY DEF Same
  <2>2. q \in (m .. q) \cup (q .. m)
    BY <1>1
  <2>3. memory[q] = memory[m]
    BY <2>2 DEF Same
  <2> QED
    BY <2>1, <2>3
<1>7. ASSUME NEW p \in Min(pages) .. Max(pages)
      PROVE  p \in Pages /\ memory[p] = memory[q]
  <2>1. Min(pages) \in 0 .. last /\ Max(pages) \in 0 .. last
    BY <1>2, <1>4, <1>5
  <2>2. p \in 0 .. last
    <3> HIDE DEF pages, last
    <3> QED
      BY <1>3, <1>7, <2>1
  <2>3. p \in (Min(pages) .. q) \/ p \in (q .. Max(pages))
    <3> HIDE DEF pages, last
    <3> QED
      BY <1>1, <1>3, <1>7, <2>1
  <2> HIDE DEF pages, last
  <2> QED
    BY <1>1, <1>4, <1>5, <1>6, <2>2, <2>3
<1>8. /\ pages \subseteq Nat
      /\ Min(pages) \in Pages /\ Max(pages) \in Pages
      /\ Min(pages) <= q /\ q <= Max(pages)
  <2>1. Min(pages) \in Pages /\ Max(pages) \in Pages
    BY <1>4, <1>5
  <2>2. Min(pages) <= q /\ q <= Max(pages)
    BY <1>2, <1>4, <1>5
  <2>3. pages \subseteq Nat
    BY <1>2
  <2> QED
    BY <2>1, <2>2, <2>3
<1> QED
  BY <1>7, <1>8

\* What is less than a number of pages is in one of these pages.
LEMMA PageIsBelow ==
  ASSUME NEW p \in Nat, NEW q \in Nat, NEW a \in Nat, NEW P \in Nat \ {0}, p * P <= a, a < q * P
  PROVE  p < q
<1> SUFFICES ASSUME q <= p PROVE FALSE
  OBVIOUS
<1>1. q * P <= p * P
  BY ProductIsMonotonic
<1>2. q * P \in Int /\ p * P \in Int
  OBVIOUS
<1> QED
  BY <1>1, <1>2

\* An address is in the allocation at that address, with the page it is in, and what may be done
\* with other addresses in it is the same.
LEMMA AllocationAtAddress ==
  ASSUME memory \in [Pages -> States], NEW a \in Addresses, NEW va, va = VirtualAllocation(a)
  PROVE  /\ va \in Allocations /\ va.state = StateAt(a) /\ StateAt(a) \in States
         /\ va.start <= a /\ (PageOf(a) + 1) * uPageSize <= va.end
         /\ \E k \in Nat : va.end = k * uPageSize
         /\ \A b \in Addresses : va.start <= b /\ b < va.end => StateAt(b) = StateAt(a)
<1> DEFINE q == PageOf(a)
           P == uPageSize
           pages == {p \in Pages : Same(p, q)}
           first == IF StateAt(a) = "Reserved" THEN q ELSE Min(pages)
           last == Max(pages)
<1>1. q \in Pages /\ q * P <= a /\ a < (q + 1) * P
  BY AddressIsInPage
<1>2. /\ pages \subseteq Nat
      /\ Min(pages) \in Pages /\ last \in Pages
      /\ Min(pages) <= q /\ q <= last
      /\ \A p \in Min(pages) .. last : p \in Pages /\ memory[p] = memory[q]
  <2> HIDE DEF q
  <2> QED
    BY <1>1, PagesOfAllocation
<1>3. Pages \subseteq Nat /\ P \in Nat \ {0} /\ a \in Nat
  BY PagesOfSpace DEF Pages, Addresses
<1>4. /\ first \in Nat /\ last \in Nat /\ q \in Nat
      /\ Min(pages) \in Nat /\ Min(pages) <= first /\ first <= q
  <2>1. Min(pages) \in Nat /\ last \in Nat /\ q \in Nat
    <3> HIDE DEF q, pages, last
    <3> QED
      BY <1>1, <1>2, <1>3
  <2>2. Min(pages) <= q
    BY <1>2
  <2>3. first = q \/ first = Min(pages)
    OBVIOUS
  <2> HIDE DEF q, pages, last, first
  <2> QED
    BY <2>1, <2>2, <2>3
<1>5. va = [start |-> first * P, end |-> (last + 1) * P, state |-> StateAt(a)]
  BY DEF VirtualAllocation
<1>6. StateAt(a) = memory[q] /\ StateAt(a) \in States
  BY <1>1 DEF StateAt
<1>7. first * P \in Nat /\ (last + 1) * P \in Nat /\ last + 1 \in Nat
  <2> HIDE DEF q, pages, last, first, P
  <2> QED
    BY <1>3, <1>4
<1>8. first * P <= a /\ (q + 1) * P <= (last + 1) * P
  <2>1. first * P <= q * P /\ (q + 1) * P <= (last + 1) * P
    <3> HIDE DEF q, pages, last, first, P
    <3>1. q + 1 \in Int /\ last + 1 \in Int /\ q + 1 <= last + 1
      BY <1>2, <1>4
    <3> QED
      BY <1>3, <1>4, <3>1, ProductIsMonotonic
  <2>2. first * P \in Int /\ q * P \in Int
    <3> HIDE DEF q, pages, last, first, P
    <3> QED
      BY <1>3, <1>4
  <2> HIDE DEF q, pages, last, first, P
  <2> QED
    BY <1>1, <1>3, <2>1, <2>2
<1>9. ASSUME NEW b \in Addresses, first * P <= b, b < (last + 1) * P
      PROVE  StateAt(b) = StateAt(a)
  <2> DEFINE p == PageOf(b)
  <2>1. p \in Pages /\ p * P <= b /\ b < (p + 1) * P /\ b \in Nat
    BY AddressIsInPage DEF Addresses
  <2>2. p \in Nat /\ p + 1 \in Nat
    <3> HIDE DEF p, P
    <3> QED
      BY <1>3, <2>1
  <2>3. first < p + 1
    <3> HIDE DEF q, pages, last, first, P, p
    <3> QED
      BY <1>3, <1>4, <1>9, <2>1, <2>2, PageIsBelow
  <2>4. p < last + 1
    <3> HIDE DEF q, pages, last, first, P, p
    <3> QED
      BY <1>3, <1>7, <1>9, <2>1, <2>2, PageIsBelow
  <2>5. p \in Min(pages) .. last
    <3> HIDE DEF q, pages, last, first, P, p
    <3> QED
      BY <1>4, <2>2, <2>3, <2>4
  <2>6. memory[p] = memory[q]
    BY <1>2, <2>5
  <2> QED
    BY <1>6, <2>6 DEF StateAt
<1> HIDE DEF q, pages, last, first, P
<1>10. va \in Allocations /\ va.state = StateAt(a) /\ va.start = first * P /\ va.end = (last + 1) * P
  BY <1>5, <1>6, <1>7 DEF Allocations
<1>11. \E k \in Nat : va.end = k * P
  BY <1>7, <1>10
<1>12. \A b \in Addresses : va.start <= b /\ b < va.end => StateAt(b) = StateAt(a)
  BY <1>9, <1>10
<1> QED
  BY <1>6, <1>8, <1>10, <1>11, <1>12 DEF q, P

-----------------------------------------------------------------------------
(* The inductive invariant.                                                *)

\* What the application can have done to the block and the memory around it.
MemoryInv ==
  /\ memory \in [Pages -> States] /\ freed \in BOOLEAN
  /\ \E layout \in Layouts : block = layout.block
  /\ block \in Blocks /\ block.virtual <= block.start
  /\ modified \subseteq Addresses /\ modified \subseteq Surroundings \cup BlockBytes
  /\ ~freed => IsPageHeapBlock

\* An access that failed was denied, and the exception record is one of it.
AccessInv ==
  IF pc = "running" THEN access = NULL
  ELSE /\ access \in Accesses
       /\ <<access.type, access.address>> \in Operations(access.instruction, access.operand, access.sp)
       /\ DeniedAddresses(access.type, access.address, access.size) # {}
       /\ access.instruction = "jmp invalid" => StateAt(access.operand) = "Invalid"
       /\ access.record \in Records(access.type, access.address, access.size,
                                    UsesStack(access.instruction) /\ access.address # access.operand)

\* The type and address are the result of the analysis.
Result == IF access.record[1] # "E" THEN TypeAndAddress ELSE access.record
AnalysisInv ==
  /\ pc \in {"running", "analyzing", "handling", "reported", "failed"}
  /\ Analyzed => ~AnalysisFails /\ sViolationTypeId = Result[1] /\ Address = Result[2]
  /\ sViolationTypeId \in Types \cup {NULL} /\ Address \in Addresses \cup {NULL}
  /\ Analyzed => sViolationTypeId \in Types /\ Address \in Addresses

\* The allocation at the address was found to allow the access before the next one is looked at.
StartIsAllowed ==
  (pc = "handling" /\ handler = 7) =>
    StateAt(Address) \in Protections /\ ~Prevents(StateAt(Address))

\* What is cached is what would be found now.
CacheInv ==
  /\ pc = "running" => cache = {}
  /\ cache \subseteq {[address |-> a, data |-> fo0GetPageHeapManagerData(a)] : a \in Addresses}

\* What is reported.
ReportInv ==
  /\ handler \in 0 .. 9 /\ (pc = "handling" => handler \in 1 .. 8)
  /\ (report = Nothing) <=> (pc # "reported")
  /\ fIgnoreException \in {NULL} \cup [original : Addresses \cup {NULL}]
  /\ BlamedAllocationDeniesAccess /\ HeapVerdictIsTrue

\* The messages of the verifier.
StampMessages == {"corrupted start stamp", "corrupted end stamp"}
CorruptionMessages == {"corrupted suffix pattern", "corrupted header"}
Messages == StampMessages \cup CorruptionMessages \cup
            {"block already freed", "corrupted heap pointer or using wrong heap",
             "corrupted infix pattern", "NULL handle"}

\* What a message says is true of whether the block was freed, and of the block that is freed if it
\* says that it is corrupted.
StopInv ==
  stop # NULL =>
    /\ pc = "running"
    /\ stop.message \in Messages
    /\ stop.message # "NULL handle" => stop.address \in Addresses
    /\ stop.address \in Addresses \cup {NULL}
    /\ stop.message \in {"block already freed", "corrupted infix pattern"} => freed
    /\ stop.message = "corrupted start stamp" /\ stop.stamp = "freed" => freed
    /\ stop.message \in CorruptionMessages => ~freed /\ stop.address = block.start

VerdictInv ==
  verdict # NULL => stop # NULL /\ verdict.kind \in Kinds /\ VerifierVerdictIsTrue

HInv == /\ MemoryInv /\ AccessInv /\ AnalysisInv /\ StartIsAllowed /\ CacheInv /\ ReportInv
        /\ StopInv /\ VerdictInv

\* The invariant holds in the initial states.
LEMMA HInvInit == HeapInit => HInv
<1> SUFFICES ASSUME HeapInit PROVE HInv
  OBVIOUS
<1> USE DEF HeapInit, Init, VerifierInit
<1>1. MemoryInv
  <2>1. PICK layout \in Layouts : memory = layout.memory /\ block = layout.block
    OBVIOUS
  <2>2. layout \in [memory : [Pages -> States], block : Blocks]
    BY PageHeapAssumption
  <2>3. memory \in [Pages -> States] /\ block \in Blocks
    BY <2>1, <2>2
  <2>4. block.virtual <= block.start
    BY DEF IsPageHeapBlock
  <2>5. freed \in BOOLEAN /\ modified = {} /\ IsPageHeapBlock
    OBVIOUS
  <2> QED
    BY <2>1, <2>3, <2>4, <2>5 DEF MemoryInv
<1>2. AccessInv
  BY DEF AccessInv
<1>3. AnalysisInv
  BY DEF AnalysisInv, Analyzed, Address
<1>4. StartIsAllowed
  BY DEF StartIsAllowed
<1>5. CacheInv
  BY DEF CacheInv
<1>6. ReportInv
  BY DEF ReportInv, BlamedAllocationDeniesAccess, HeapVerdictIsTrue
<1>7. StopInv /\ VerdictInv
  BY DEF StopInv, VerdictInv
<1> QED
  BY <1>1, <1>2, <1>3, <1>4, <1>5, <1>6, <1>7 DEF HInv

-----------------------------------------------------------------------------
(* What a step leaves alone.                                               *)

\* What is found in memory depends on the memory, the block and what was overwritten.
LEMMA AllocationsAreKept ==
  ASSUME UNCHANGED memory
  PROVE  \A a : VirtualAllocation(a)' = VirtualAllocation(a) /\ StateAt(a)' = StateAt(a)
BY DEF VirtualAllocation, StateAt, Same

LEMMA BlockIsKept ==
  ASSUME UNCHANGED heapVars
  PROVE  /\ BlockEnd' = BlockEnd /\ BlockBytes' = BlockBytes /\ Surroundings' = Surroundings
         /\ StartStamp' = StartStamp /\ EndStamp' = EndStamp /\ HeapField' = HeapField
         /\ GapIsEmpty' = GapIsEmpty /\ StampsSayFreed' = StampsSayFreed
         /\ CorruptedBytes' = CorruptedBytes /\ HeapManagerData' = HeapManagerData
         /\ IsPageHeapBlock' = IsPageHeapBlock
<1>1. block' = block /\ freed' = freed /\ modified' = modified /\ memory' = memory
  BY DEF heapVars
<1>2. /\ BlockEnd' = BlockEnd /\ BlockBytes' = BlockBytes
      /\ StartStamp' = StartStamp /\ EndStamp' = EndStamp /\ HeapField' = HeapField
  BY <1>1 DEF BlockEnd, BlockBytes, StartStamp, EndStamp, HeapField
<1>3. StampsSayFreed' = StampsSayFreed
  BY <1>1, <1>2 DEF StampsSayFreed
<1>4. VirtualAllocation(block.virtual)' = VirtualAllocation(block.virtual)
  BY <1>1 DEF VirtualAllocation, StateAt, Same
<1>5. VirtualAllocation(block.header)' = VirtualAllocation(block.header)
  BY <1>1 DEF VirtualAllocation, StateAt, Same
<1>6. VirtualAllocation(block.start)' = VirtualAllocation(block.start)
  BY <1>1 DEF VirtualAllocation, StateAt, Same
<1>7. Surroundings' = Surroundings /\ GapIsEmpty' = GapIsEmpty /\ CorruptedBytes' = CorruptedBytes
  BY <1>1, <1>2, <1>4, <1>5 DEF Surroundings, GapIsEmpty, GapStart, CorruptedBytes
<1>8. HeapManagerData' = HeapManagerData
  BY <1>1, <1>2, <1>3, <1>4, <1>7 DEF HeapManagerData
<1>9. IsPageHeapBlock' = IsPageHeapBlock
  BY <1>1, <1>4, <1>5, <1>6 DEF IsPageHeapBlock
<1> QED
  BY <1>2, <1>3, <1>7, <1>8, <1>9

\* What is found out about an address is the same.
LEMMA HeapDataIsKept ==
  ASSUME UNCHANGED heapVars
  PROVE  \A a : /\ fo0GetPageHeapManagerData(a)' = fo0GetPageHeapManagerData(a)
                /\ FailsToRead(a)' = FailsToRead(a)
<1>1. block' = block /\ freed' = freed /\ modified' = modified /\ memory' = memory
  BY DEF heapVars
<1>2. HeapManagerData' = HeapManagerData /\ GapIsEmpty' = GapIsEmpty /\ BlockEnd' = BlockEnd
  BY BlockIsKept
<1>3. \A a : VirtualAllocation(a)' = VirtualAllocation(a) /\ StateAt(a)' = StateAt(a)
  BY <1>1, AllocationsAreKept
<1>4. \A a : fo0GetVirtualAllocation(a)' = fo0GetVirtualAllocation(a)
  BY <1>3 DEF fo0GetVirtualAllocation
<1>5. \A a : BlockAllocationNear(a)' = BlockAllocationNear(a)
  BY <1>4 DEF BlockAllocationNear
<1>6. \A va : FindsAllocationHeader(va)' = FindsAllocationHeader(va)
  BY <1>1, <1>4 DEF FindsAllocationHeader, HasAllocationHeader
<1>7. \A a : cPageHeapManagerData(a)' = cPageHeapManagerData(a)
  BY <1>1, <1>2, <1>5, <1>6 DEF cPageHeapManagerData, IsNearBlock
<1>8. VirtualAllocation(block.virtual)' = VirtualAllocation(block.virtual)
  BY <1>1 DEF VirtualAllocation, StateAt, Same
<1> QED
  BY <1>1, <1>2, <1>3, <1>5, <1>6, <1>7, <1>8
  DEF fo0GetPageHeapManagerData, FailsToRead, IsNearBlock

\* A step of the analysis leaves memory and the access alone.
LEMMA KeptByAnalysis ==
  ASSUME HInv, UNCHANGED <<heapVars, access, stop, verdict>>, pc # "running", pc' # "running"
  PROVE  MemoryInv' /\ AccessInv' /\ StopInv' /\ VerdictInv'
<1>1. /\ block' = block /\ freed' = freed /\ modified' = modified /\ memory' = memory
      /\ access' = access /\ stop' = stop /\ verdict' = verdict
  BY DEF heapVars
<1>2. MemoryInv'
  <2>1. Surroundings' = Surroundings /\ BlockBytes' = BlockBytes /\ IsPageHeapBlock' = IsPageHeapBlock
    BY BlockIsKept
  <2> QED
    BY <1>1, <2>1 DEF HInv, MemoryInv
<1>3. AccessInv'
  BY <1>1 DEF HInv, AccessInv, DeniedAddresses, Denies, StateAt, Records
<1>4. stop = NULL /\ verdict = NULL
  BY DEF HInv, StopInv, VerdictInv
<1> QED
  BY <1>1, <1>2, <1>3, <1>4 DEF StopInv, VerdictInv

-----------------------------------------------------------------------------
(* The analysis of an access.                                              *)

\* The exception record of an execution is right, and that of another access says so.
LEMMA RecordOfAccess ==
  ASSUME AccessInv, pc # "running"
  PROVE  /\ access.record[1] \in {access.type, "R", "?"}
         /\ access.record[1] = "E" =>
              access.record = <<"E", Min(DeniedAddresses(access.type, access.address, access.size))>>
<1> DEFINE m == Min(DeniedAddresses(access.type, access.address, access.size))
<1>1. access.record \in Records(access.type, access.address, access.size,
                                UsesStack(access.instruction) /\ access.address # access.operand)
  BY DEF AccessInv
<1>2. access.record \in {<<access.type, m>>, <<"R", Space - 1>>, <<"?", 0>>}
  BY <1>1 DEF Records
<1> HIDE DEF m
<1>3. access.record[1] \in {access.type, "R", "?"}
  BY <1>2
<1>4. access.record[1] = "E" => access.record = <<"E", m>>
  BY <1>2
<1> QED
  BY <1>3, <1>4 DEF m

\* The addresses that are denied are addresses of the access, and the lowest one is one of them.
LEMMA FirstDeniedAddress ==
  ASSUME AccessInv, pc # "running", NEW D,
         D = DeniedAddresses(access.type, access.address, access.size)
  PROVE  /\ D \subseteq Addresses /\ D \subseteq Nat /\ D # {}
         /\ Min(D) \in D /\ \A b \in D : Min(D) <= b
<1>1. D \subseteq Addresses /\ D # {}
  BY DEF AccessInv, DeniedAddresses
<1>2. D \subseteq Nat
  BY <1>1 DEF Addresses
<1> QED
  BY <1>1, <1>2, MinOfNaturals

\* What is executed at an invalid address is denied there.
LEMMA InvalidAddressIsDenied ==
  ASSUME AccessInv, pc # "running", StateAt(access.address) = "Invalid"
  PROVE  Min(DeniedAddresses(access.type, access.address, access.size)) = access.address
<1> DEFINE a == access.address
           D == DeniedAddresses(access.type, a, access.size)
<1>1. a \in Addresses /\ a \in Nat /\ access.size \in Nat /\ access.size >= 1
  <2>1. a \in Addresses /\ access.size \in 1 .. MaxAccess
    BY DEF AccessInv, Accesses
  <2>2. MaxAccess \in Nat
    BY AccessViolationAssumption
  <2> HIDE DEF a
  <2> QED
    BY <2>1, <2>2 DEF Addresses
<1>2. Denies(StateAt(a), access.type)
  BY DEF Denies, Protections
<1>3. a \in D
  BY <1>1, <1>2 DEF DeniedAddresses
<1>4. \A b \in D : a <= b
  BY <1>1 DEF DeniedAddresses
<1>5. Min(D) \in D /\ \A b \in D : Min(D) <= b
  BY FirstDeniedAddress
<1>6. D \subseteq Nat
  BY FirstDeniedAddress
<1>7. Min(D) <= a /\ a <= Min(D) /\ Min(D) \in Nat
  BY <1>3, <1>4, <1>5, <1>6
<1>8. Min(D) = a
  <2> HIDE DEF D, a
  <2> QED
    BY <1>1, <1>7
<1> QED
  BY <1>8

\* The type and address that are found are those of the access.
LEMMA ResultIsRight ==
  ASSUME AccessInv, AnalysisInv, Analyzed, IsClear
  PROVE  sViolationTypeId = access.type /\ Address = AddressOfAccess
<1> DEFINE i == access.instruction
           type == access.type
           a == access.address
           first == Min(DeniedAddresses(type, a, access.size))
<1>1. pc # "running" /\ sViolationTypeId = Result[1] /\ Address = Result[2]
  BY DEF AnalysisInv, Analyzed
<1>2. i \in Instructions /\ i # "unclear" /\ ~AnalysisFails
  BY <1>1 DEF AccessInv, Accesses, IsClear, AnalysisInv
<1>3. <<type, a>> \in Operations(i, access.operand, access.sp)
  BY <1>1 DEF AccessInv
<1>4. /\ access.record[1] \in {type, "R", "?"}
      /\ access.record[1] = "E" => access.record = <<"E", first>>
  BY <1>1, RecordOfAccess
<1>5. sViolationTypeId # "?"
  BY DEF IsClear
<1>6. CASE i \in {"inc", "mov to memory"}
  BY <1>1, <1>3, <1>4, <1>6 DEF Operations, Result, TypeAndAddress, ShownAddress, ShowsOperand,
     AddressOfAccess
<1>7. CASE i \in {"cmp", "mov"}
  BY <1>1, <1>3, <1>4, <1>7 DEF Operations, Result, TypeAndAddress, ShownAddress, ShowsOperand,
     AddressOfAccess
<1>8. CASE i = "push"
  BY <1>1, <1>3, <1>4, <1>8 DEF Operations, Result, TypeAndAddress, StackWriteAddress,
     AddressOfAccess
<1>9. CASE i \in {"pop", "ret"}
  BY <1>1, <1>3, <1>4, <1>9 DEF Operations, Result, TypeAndAddress, StackReadAddress,
     AddressOfAccess
<1>10. CASE i \in {"push memory", "pop memory"}
  <2>1. type \in {"R", "W"}
    BY <1>3, <1>10 DEF Operations
  <2> QED
    BY <1>1, <1>4, <1>5, <1>10, <2>1 DEF Result, TypeAndAddress
<1>11. CASE i = "xchg"
  BY <1>2, <1>3, <1>4, <1>11 DEF Operations, AnalysisFails
<1>12. CASE i = "jmp invalid"
  <2>1. type = "E" /\ a = access.operand
    BY <1>3, <1>12 DEF Operations
  <2>2. StateAt(a) = "Invalid"
    BY <1>1, <1>12, <2>1 DEF AccessInv
  <2>3. first = a
    BY <1>1, <2>2, InvalidAddressIsDenied
  <2>4. Result = <<"E", a>>
    BY <1>4, <1>12, <2>1, <2>3 DEF Result, TypeAndAddress, ShownAddress, ShowsOperand
  <2> QED
    BY <1>1, <1>12, <2>1, <2>4 DEF AddressOfAccess
<1>13. CASE i = "fetch"
  <2>1. type = "E" /\ a = access.operand
    BY <1>3, <1>13 DEF Operations
  <2>2. CASE access.record[1] = "E"
    BY <1>1, <1>4, <1>13, <2>1, <2>2 DEF Result, AddressOfAccess
  <2>3. CASE access.record[1] # "E"
    <3>1. ~UsesStack(i)
      BY <1>13 DEF UsesStack
    <3>2. access.record \in Records(type, a, access.size, FALSE)
      BY <1>1, <3>1 DEF AccessInv
    <3>3. access.record # <<"E", first>>
      BY <2>3
    <3>4. StateAt(a) = "Invalid"
      BY <2>1, <3>2, <3>3 DEF Records
    <3>5. first = a
      BY <1>1, <3>4, InvalidAddressIsDenied
    <3>6. Result = <<"E", a>>
      BY <1>13, <2>1, <2>3 DEF Result, TypeAndAddress, ShownAddress, ShowsOperand
    <3> QED
      BY <1>1, <1>13, <2>1, <3>5, <3>6 DEF AddressOfAccess
  <2> QED
    BY <2>2, <2>3
<1> QED
  BY <1>2, <1>6, <1>7, <1>8, <1>9, <1>10, <1>11, <1>12, <1>13 DEF Instructions

-----------------------------------------------------------------------------
(* The steps of the application.                                           *)

\* What is around the block depends on the memory and the block.
LEMMA LayoutIsKept ==
  ASSUME UNCHANGED <<memory, block>>
  PROVE  /\ Surroundings' = Surroundings /\ BlockBytes' = BlockBytes
         /\ IsPageHeapBlock' = IsPageHeapBlock
<1>1. BlockBytes' = BlockBytes
  BY DEF BlockBytes, BlockEnd
<1>2. /\ VirtualAllocation(block.virtual)' = VirtualAllocation(block.virtual)
      /\ VirtualAllocation(block.header)' = VirtualAllocation(block.header)
      /\ VirtualAllocation(block.start)' = VirtualAllocation(block.start)
  BY AllocationsAreKept
<1> QED
  BY <1>1, <1>2 DEF Surroundings, IsPageHeapBlock

\* The addresses of the accesses of an instruction.
LEMMA WrapIsAddress ==
  ASSUME NEW a \in Int
  PROVE  Wrap(a) \in Addresses
<1>1. ASSUME NEW P \in Nat \ {0} PROVE a % P \in 0 .. P - 1
  OBVIOUS
<1> QED
  BY <1>1, PagesOfSpace DEF Wrap, Addresses

LEMMA OperationsOfInstruction ==
  ASSUME NEW i \in Instructions, NEW a \in Addresses, NEW sp \in Addresses,
         NEW op \in Operations(i, a, sp)
  PROVE  op \in {"R", "W", "E"} \X Addresses
<1> DEFINE w == Wrap(sp - uPointerSize)
<1>1. w \in Addresses
  <2>1. sp - uPointerSize \in Int
    BY PageHeapAssumption DEF Addresses
  <2> QED
    BY <2>1, WrapIsAddress
<1>2. op \in {"R", "W", "E"} \X {a, w, sp}
  <2> HIDE DEF w
  <2>1. CASE i \in {"inc", "mov to memory", "xchg"}
    <3>1. Operations(i, a, sp) = {<<"W", a>>}
      BY <2>1 DEF Operations
    <3> QED
      BY <3>1
  <2>2. CASE i \in {"cmp", "mov"}
    <3>1. Operations(i, a, sp) = {<<"R", a>>}
      BY <2>2 DEF Operations
    <3> QED
      BY <3>1
  <2>3. CASE i = "unclear"
    <3>1. Operations(i, a, sp) = {<<"R", a>>, <<"W", a>>}
      BY <2>3 DEF Operations
    <3> QED
      BY <3>1
  <2>4. CASE i = "push"
    <3>1. Operations(i, a, sp) = {<<"W", w>>}
      BY <2>4 DEF Operations, w
    <3> QED
      BY <3>1
  <2>5. CASE i = "push memory"
    <3>1. Operations(i, a, sp) = {<<"R", a>>, <<"W", w>>}
      BY <2>5 DEF Operations, w
    <3> QED
      BY <3>1
  <2>6. CASE i = "pop memory"
    <3>1. Operations(i, a, sp) = {<<"W", a>>, <<"R", sp>>}
      BY <2>6 DEF Operations
    <3> QED
      BY <3>1
  <2>7. CASE i \in {"pop", "ret"}
    <3>1. Operations(i, a, sp) = {<<"R", sp>>}
      BY <2>7 DEF Operations
    <3> QED
      BY <3>1
  <2>8. CASE i \in {"jmp invalid", "fetch"}
    <3>1. Operations(i, a, sp) = {<<"E", a>>}
      BY <2>8 DEF Operations
    <3> QED
      BY <3>1
  <2> QED
    BY <2>1, <2>2, <2>3, <2>4, <2>5, <2>6, <2>7, <2>8 DEF Instructions
<1> HIDE DEF w
<1> QED
  BY <1>1, <1>2

\* An access.
LEMMA AccessKeepsInv ==
  ASSUME HInv, stop = NULL, Access, UNCHANGED verifierVars
  PROVE  HInv'
<1>1. /\ pc = "running" /\ pc' = "analyzing"
      /\ UNCHANGED heapVars /\ UNCHANGED avVars /\ cache' = cache
  BY DEF Access
<1>2. /\ block' = block /\ freed' = freed /\ modified' = modified /\ memory' = memory
      /\ stop' = stop /\ verdict' = verdict /\ handler' = handler /\ report' = report
      /\ sViolationTypeId' = sViolationTypeId /\ fIgnoreException' = fIgnoreException
      /\ uAccessViolationAddress' = uAccessViolationAddress
  BY <1>1 DEF heapVars, avVars, verifierVars
<1>3. PICK i \in Instructions :
        \E a \in OperandsOf(i), sp \in StackPointersOf(i), size \in SizesOf(i) :
          \E op \in Operations(i, a, sp) :
            /\ DeniedAddresses(op[1], op[2], size) # {}
            /\ i = "jmp invalid" => StateAt(a) = "Invalid"
            /\ \E record \in Records(op[1], op[2], size, UsesStack(i) /\ op[2] # a) :
                 /\ access' = [ instruction |-> i, operand |-> a, sp |-> sp, size |-> size,
                                type |-> op[1], address |-> op[2], record |-> record ]
  BY DEF Access
<1>4. PICK a \in OperandsOf(i), sp \in StackPointersOf(i), size \in SizesOf(i) :
        \E op \in Operations(i, a, sp) :
          /\ DeniedAddresses(op[1], op[2], size) # {}
          /\ i = "jmp invalid" => StateAt(a) = "Invalid"
          /\ \E record \in Records(op[1], op[2], size, UsesStack(i) /\ op[2] # a) :
               /\ access' = [ instruction |-> i, operand |-> a, sp |-> sp, size |-> size,
                              type |-> op[1], address |-> op[2], record |-> record ]
  BY <1>3
<1>5. PICK op \in Operations(i, a, sp) :
        /\ DeniedAddresses(op[1], op[2], size) # {}
        /\ i = "jmp invalid" => StateAt(a) = "Invalid"
        /\ \E record \in Records(op[1], op[2], size, UsesStack(i) /\ op[2] # a) :
             /\ access' = [ instruction |-> i, operand |-> a, sp |-> sp, size |-> size,
                            type |-> op[1], address |-> op[2], record |-> record ]
  BY <1>4
<1>6. PICK record \in Records(op[1], op[2], size, UsesStack(i) /\ op[2] # a) :
        /\ access' = [ instruction |-> i, operand |-> a, sp |-> sp, size |-> size,
                       type |-> op[1], address |-> op[2], record |-> record ]
  BY <1>5
<1>7. a \in Addresses /\ sp \in Addresses /\ size \in 1 .. MaxAccess
  <2>1. 0 \in Addresses
    BY PagesOfSpace DEF Addresses
  <2>2. a \in Addresses
    BY <2>1, AccessViolationAssumption DEF OperandsOf
  <2>3. sp \in Addresses
    BY AccessViolationAssumption DEF StackPointersOf
  <2>4. size \in 1 .. MaxAccess
    BY AccessViolationAssumption DEF SizesOf
  <2> QED
    BY <2>2, <2>3, <2>4
<1>8. op \in {"R", "W", "E"} \X Addresses
  BY <1>7, OperationsOfInstruction
<1>9. op[1] \in {"R", "W", "E"} /\ op[2] \in Addresses /\ op = <<op[1], op[2]>>
  BY <1>8
<1>10. record \in Types \X Addresses
  <2> DEFINE D == DeniedAddresses(op[1], op[2], size)
  <2>1. D \subseteq Addresses /\ D # {}
    BY <1>5 DEF DeniedAddresses
  <2>2. D \subseteq Nat
    BY <2>1 DEF Addresses
  <2>3. Min(D) \in Addresses
    <3> HIDE DEF D
    <3> QED
      BY <2>1, <2>2, MinOfNaturals
  <2>4. 0 \in Addresses /\ Space - 1 \in Addresses
    BY PagesOfSpace DEF Addresses
  <2>5. record \in {<<op[1], Min(D)>>, <<"R", Space - 1>>, <<"?", 0>>}
    BY <1>6 DEF Records
  <2> HIDE DEF D
  <2> QED
    BY <1>9, <2>3, <2>4, <2>5 DEF Types
<1>11. access' \in Accesses
  BY <1>6, <1>7, <1>9, <1>10 DEF Accesses
<1>12. AccessInv'
  <2>1. /\ access'.instruction = i /\ access'.operand = a /\ access'.sp = sp /\ access'.size = size
        /\ access'.type = op[1] /\ access'.address = op[2] /\ access'.record = record
    BY <1>6
  <2>2. <<access'.type, access'.address>> \in Operations(access'.instruction, access'.operand, access'.sp)
    BY <1>9, <2>1
  <2>3. \A b : StateAt(b)' = StateAt(b)
    BY <1>2, AllocationsAreKept
  <2>4. \A t, b, n : DeniedAddresses(t, b, n)' = DeniedAddresses(t, b, n)
    BY <2>3 DEF DeniedAddresses
  <2>5. \A t, b, n, s : Records(t, b, n, s)' = Records(t, b, n, s)
    BY <2>3, <2>4 DEF Records
  <2>6. DeniedAddresses(access.type, access.address, access.size)' # {}
    BY <1>5, <2>1, <2>4
  <2>7. access'.record \in Records(access.type, access.address, access.size,
                                   UsesStack(access.instruction) /\ access.address # access.operand)'
    BY <1>6, <2>1, <2>5
  <2>8. access'.instruction = "jmp invalid" => StateAt(access.operand)' = "Invalid"
    BY <1>5, <2>1, <2>3
  <2> QED
    BY <1>1, <1>11, <2>2, <2>6, <2>7, <2>8 DEF AccessInv
<1>13. MemoryInv'
  <2>1. Surroundings' = Surroundings /\ BlockBytes' = BlockBytes /\ IsPageHeapBlock' = IsPageHeapBlock
    BY <1>2, LayoutIsKept
  <2> QED
    BY <1>2, <2>1 DEF HInv, MemoryInv
<1>14. AnalysisInv' /\ StartIsAllowed'
  BY <1>1, <1>2 DEF HInv, AnalysisInv, StartIsAllowed, Analyzed, Address
<1>15. CacheInv'
  BY <1>1 DEF HInv, CacheInv
<1>16. ReportInv'
  BY <1>1, <1>2 DEF HInv, ReportInv, BlamedAllocationDeniesAccess, HeapVerdictIsTrue
<1>17. StopInv' /\ VerdictInv'
  BY <1>2 DEF HInv, StopInv, VerdictInv
<1> QED
  BY <1>12, <1>13, <1>14, <1>15, <1>16, <1>17 DEF HInv

\* While the application runs, nothing is known about an access.
LEMMA RunningKeepsInv ==
  ASSUME HInv, UNCHANGED <<pc, access, avVars, cache>>, pc = "running"
  PROVE  AccessInv' /\ AnalysisInv' /\ StartIsAllowed' /\ CacheInv' /\ ReportInv'
<1>1. /\ pc' = pc /\ access' = access /\ cache' = cache
      /\ handler' = handler /\ report' = report
      /\ sViolationTypeId' = sViolationTypeId /\ fIgnoreException' = fIgnoreException
      /\ uAccessViolationAddress' = uAccessViolationAddress
  BY DEF avVars
<1>2. AccessInv'
  BY <1>1 DEF HInv, AccessInv
<1>3. AnalysisInv' /\ StartIsAllowed'
  BY <1>1 DEF HInv, AnalysisInv, StartIsAllowed, Analyzed, Address
<1>4. CacheInv'
  BY <1>1 DEF HInv, CacheInv
<1>5. ReportInv'
  BY <1>1 DEF HInv, ReportInv, BlamedAllocationDeniesAccess, HeapVerdictIsTrue
<1> QED
  BY <1>2, <1>3, <1>4, <1>5

\* A write out of bounds.
LEMMA WriteKeepsInv ==
  ASSUME HInv, stop = NULL, Write, UNCHANGED verifierVars
  PROVE  HInv'
<1>1. PICK a \in Overwritable : InvalidWrite(a)
  BY DEF Write
<1>2. /\ block' = block /\ freed' = freed /\ modified' = modified \cup {a} /\ memory' = memory
      /\ stop' = stop /\ verdict' = verdict
  BY <1>1 DEF InvalidWrite, verifierVars
<1>3. MemoryInv'
  <2>1. Surroundings' = Surroundings /\ BlockBytes' = BlockBytes /\ IsPageHeapBlock' = IsPageHeapBlock
    BY <1>2, LayoutIsKept
  <2>2. a \in Addresses
    BY AccessViolationAssumption
  <2>3. a \in Surroundings \cup BlockBytes
    BY <1>1 DEF InvalidWrite
  <2> QED
    BY <1>2, <2>1, <2>2, <2>3 DEF HInv, MemoryInv
<1>4. AccessInv' /\ AnalysisInv' /\ StartIsAllowed' /\ CacheInv' /\ ReportInv'
  BY RunningKeepsInv DEF Write
<1>5. StopInv' /\ VerdictInv'
  BY <1>2 DEF HInv, StopInv, VerdictInv
<1> QED
  BY <1>3, <1>4, <1>5 DEF HInv

\* The block is freed.
LEMMA FreeKeepsInv ==
  ASSUME HInv, stop = NULL, Free, UNCHANGED verifierVars
  PROVE  HInv'
<1> DEFINE va == VirtualAllocation(block.virtual)
<1>1. /\ modified = {} /\ modified' = {} /\ freed' = TRUE /\ block' = block
      /\ stop' = stop /\ verdict' = verdict
  BY DEF Free, FreeBlock, verifierVars
<1>2. PICK s \in {"NoAccess", "Reserved", "Free", va.state} :
        memory' = [p \in Pages |-> IF p * uPageSize \in va.start .. va.end - 1
                                   THEN s ELSE memory[p]]
  BY DEF Free, FreeBlock
<1>3. va.state \in States
  <2>1. memory \in [Pages -> States] /\ block.virtual \in Addresses
    BY DEF HInv, MemoryInv, Blocks
  <2> QED
    BY <2>1, AllocationAtAddress
<1>4. s \in States
  BY <1>3 DEF States, Protections
<1>5. memory' \in [Pages -> States]
  BY <1>2, <1>4 DEF HInv, MemoryInv
<1>6. MemoryInv'
  BY <1>1, <1>5 DEF HInv, MemoryInv
<1>7. AccessInv' /\ AnalysisInv' /\ StartIsAllowed' /\ CacheInv' /\ ReportInv'
  BY RunningKeepsInv DEF Free
<1>8. StopInv' /\ VerdictInv'
  BY <1>1 DEF HInv, StopInv, VerdictInv
<1> QED
  BY <1>6, <1>7, <1>8 DEF HInv

\* The application is resumed.
LEMMA ResumeKeepsInv ==
  ASSUME HInv, stop = NULL, Resume, UNCHANGED verifierVars
  PROVE  HInv'
<1>1. /\ block' = block /\ freed' = freed /\ modified' = modified /\ memory' = memory
      /\ stop' = stop /\ verdict' = verdict
  BY DEF Resume, heapVars, verifierVars
<1>2. MemoryInv'
  <2>1. Surroundings' = Surroundings /\ BlockBytes' = BlockBytes /\ IsPageHeapBlock' = IsPageHeapBlock
    BY <1>1, LayoutIsKept
  <2> QED
    BY <1>1, <2>1 DEF HInv, MemoryInv
<1>3. AccessInv'
  BY DEF Resume, AccessInv
<1>4. AnalysisInv' /\ StartIsAllowed'
  BY DEF Resume, AnalysisInv, StartIsAllowed, Analyzed, Address
<1>5. CacheInv'
  BY DEF Resume, CacheInv
<1>6. ReportInv'
  BY DEF Resume, ReportInv, BlamedAllocationDeniesAccess, HeapVerdictIsTrue
<1>7. StopInv' /\ VerdictInv'
  BY <1>1 DEF HInv, StopInv, VerdictInv
<1> QED
  BY <1>2, <1>3, <1>4, <1>5, <1>6, <1>7 DEF HInv

-----------------------------------------------------------------------------
(* The steps of the analysis.                                              *)

\* The result of the analysis is a type and an address.
LEMMA ResultIsTyped ==
  ASSUME AccessInv, pc # "running"
  PROVE  Result \in Types \X Addresses
<1> DEFINE i == access.instruction
           w == StackWriteAddress
           shown == ShownAddress
<1>1. /\ access.operand \in Addresses /\ access.sp \in Addresses
      /\ access.record \in Types \X Addresses
  BY DEF AccessInv, Accesses
<1>2. shown \in Addresses
  <2>1. access.record[2] \in Addresses
    BY <1>1
  <2> QED
    BY <1>1, <2>1 DEF ShownAddress
<1>3. w \in Addresses
  <2>1. access.sp - uPointerSize \in Int
    BY <1>1, PageHeapAssumption DEF Addresses
  <2> QED
    BY <2>1, WrapIsAddress DEF StackWriteAddress
<1>4. TypeAndAddress \in {<<"E", shown>>, <<"W", shown>>, <<"?", shown>>, <<"W", w>>, <<"R", shown>>,
                          <<"R", access.sp>>, access.record}
  <2>1. CASE i \in {"jmp invalid", "fetch"}
    BY <2>1 DEF TypeAndAddress
  <2>2. CASE i \in {"inc", "mov to memory"}
    BY <2>2 DEF TypeAndAddress
  <2>3. CASE i \in {"push memory", "pop memory"}
    BY <2>3 DEF TypeAndAddress
  <2>4. CASE i = "push"
    BY <2>4 DEF TypeAndAddress
  <2>5. CASE i \in {"cmp", "mov"}
    BY <2>5 DEF TypeAndAddress
  <2>6. CASE i \in {"pop", "ret"}
    BY <2>6 DEF TypeAndAddress, StackReadAddress
  <2>7. CASE i \notin {"jmp invalid", "fetch", "inc", "mov to memory", "push memory", "pop memory",
                       "push", "cmp", "mov", "pop", "ret"}
    BY <2>7 DEF TypeAndAddress
  <2> QED
    BY <2>1, <2>2, <2>3, <2>4, <2>5, <2>6, <2>7
<1> HIDE DEF w, shown
<1>5. TypeAndAddress \in Types \X Addresses
  BY <1>1, <1>2, <1>3, <1>4 DEF Types
<1> QED
  BY <1>1, <1>5 DEF Result

\* The type of the access and its address are found.
LEMMA AnalysisKeepsInv ==
  ASSUME HInv, stop = NULL, foAnalyzeException, UNCHANGED verifierVars
  PROVE  HInv'
<1>1. /\ pc = "analyzing" /\ pc' \in {"failed", "handling"} /\ handler' = 1
      /\ UNCHANGED heapVars /\ access' = access /\ report' = report
      /\ fIgnoreException' = fIgnoreException /\ cache' = cache
      /\ stop' = stop /\ verdict' = verdict
  BY DEF foAnalyzeException, verifierVars
<1>2. MemoryInv' /\ AccessInv' /\ StopInv' /\ VerdictInv'
  BY <1>1, KeptByAnalysis
<1>3. Result \in Types \X Addresses
  BY <1>1, ResultIsTyped DEF HInv
<1>4. AnalysisFails' = AnalysisFails /\ Result' = Result
  BY <1>1 DEF AnalysisFails, Result, TypeAndAddress, ShownAddress, StackWriteAddress,
     StackReadAddress
<1>5. AnalysisInv'
  <2>1. CASE AnalysisFails
    BY <1>1, <2>1 DEF foAnalyzeException, HInv, AnalysisInv, Analyzed, Address
  <2>2. CASE ~AnalysisFails
    <3>1. pc' = "handling"
      BY <2>2 DEF foAnalyzeException
    <3>2. sViolationTypeId' = Result[1] /\ uAccessViolationAddress' = Result[2]
      BY <2>2 DEF foAnalyzeException, Result
    <3>3. Result[1] \in Types /\ Result[2] \in Addresses
      BY <1>3
    <3> QED
      BY <1>4, <2>2, <3>1, <3>2, <3>3 DEF AnalysisInv, Address
  <2> QED
    BY <2>1, <2>2
<1>6. StartIsAllowed'
  BY <1>1 DEF StartIsAllowed
<1>7. CacheInv'
  BY <1>1, HeapDataIsKept DEF HInv, CacheInv
<1>8. ReportInv'
  BY <1>1 DEF HInv, ReportInv, BlamedAllocationDeniesAccess, HeapVerdictIsTrue
<1> QED
  BY <1>2, <1>5, <1>6, <1>7, <1>8 DEF HInv

-----------------------------------------------------------------------------
(* The handlers.                                                           *)

\* What a handler does not change.
Handling(n) ==
  /\ HInv /\ stop = NULL /\ pc = "handling" /\ handler = n
  /\ handler' = n + 1 /\ pc' \in {"handling", "reported", "failed"}
  /\ UNCHANGED <<heapVars, access, sViolationTypeId, uAccessViolationAddress, verifierVars>>

LEMMA HandlerKeeps ==
  ASSUME NEW n, Handling(n)
  PROVE  /\ MemoryInv' /\ AccessInv' /\ StopInv' /\ VerdictInv' /\ AnalysisInv'
         /\ (cache' = cache => CacheInv')
<1>1. /\ pc = "handling" /\ pc' \in {"handling", "reported", "failed"}
      /\ UNCHANGED heapVars /\ access' = access /\ stop' = stop /\ verdict' = verdict
      /\ sViolationTypeId' = sViolationTypeId
      /\ uAccessViolationAddress' = uAccessViolationAddress
  BY DEF Handling, verifierVars
<1>2. HInv
  BY DEF Handling
<1>3. MemoryInv' /\ AccessInv' /\ StopInv' /\ VerdictInv'
  BY <1>1, <1>2, KeptByAnalysis
<1>4. AnalysisFails' = AnalysisFails /\ Result' = Result
  BY <1>1 DEF AnalysisFails, Result, TypeAndAddress, ShownAddress, StackWriteAddress,
     StackReadAddress
<1>5. AnalysisInv'
  BY <1>1, <1>2, <1>4 DEF HInv, AnalysisInv, Analyzed, Address
<1>6. cache' = cache => CacheInv'
  BY <1>1, <1>2, HeapDataIsKept DEF HInv, CacheInv
<1> QED
  BY <1>3, <1>5, <1>6

\* A handler that has nothing to say.
LEMMA PassesKeepsInv ==
  ASSUME NEW n \in 1 .. 7, Handling(n), Passes, cache' = cache \/ CacheInv',
         n = 6 => StateAt(Address) \in Protections /\ ~Prevents(StateAt(Address))
  PROVE  HInv'
<1>1. /\ MemoryInv' /\ AccessInv' /\ StopInv' /\ VerdictInv' /\ AnalysisInv' /\ CacheInv'
  BY HandlerKeeps
<1>2. /\ HInv /\ pc = "handling" /\ pc' = "handling" /\ handler' = n + 1
      /\ report' = report /\ fIgnoreException' = fIgnoreException /\ memory' = memory
      /\ sViolationTypeId' = sViolationTypeId
      /\ uAccessViolationAddress' = uAccessViolationAddress
  BY DEF Handling, Passes, heapVars
<1>3. StartIsAllowed'
  <2>1. handler' = 7 => n = 6
    BY <1>2
  <2> QED
    BY <1>2, <2>1 DEF StartIsAllowed, StateAt, Prevents, Address
<1>4. handler' \in 1 .. 8
  BY <1>2
<1>5. ReportInv'
  BY <1>2, <1>4 DEF HInv, ReportInv, BlamedAllocationDeniesAccess, HeapVerdictIsTrue
<1> QED
  BY <1>1, <1>3, <1>5 DEF HInv

\* A handler that says something about the address alone.
LEMMA ReportsKeepsInv ==
  ASSUME NEW n \in 1 .. 8, NEW kind, NEW va, NEW ignorable,
         Handling(n), Reports(kind, va, ignorable), cache' = cache,
         kind \notin {"none", "Heap"},
         kind \in States \cup {"Unallocated", "Allocated"} /\ IsClear =>
           \E a \in DeniedAddresses(access.type, access.address, access.size) :
             va.start <= a /\ a < va.end
  PROVE  HInv'
<1>1. /\ MemoryInv' /\ AccessInv' /\ StopInv' /\ VerdictInv' /\ AnalysisInv' /\ CacheInv'
  BY HandlerKeeps
<1>2. /\ HInv /\ pc = "handling" /\ pc' = "reported" /\ handler' = n + 1
      /\ report' = [Nothing EXCEPT !.kind = kind, !.allocation = va]
      /\ fIgnoreException' \in {[original |-> NULL], NULL}
      /\ memory' = memory /\ access' = access /\ sViolationTypeId' = sViolationTypeId
  BY DEF Handling, Reports, heapVars
<1>3. StartIsAllowed'
  BY <1>2 DEF StartIsAllowed
<1>4. report'.kind = kind /\ report'.allocation = va /\ report' # Nothing
  BY <1>2 DEF Nothing
<1>5. BlamedAllocationDeniesAccess'
  BY <1>2, <1>4 DEF BlamedAllocationDeniesAccess, IsClear, DeniedAddresses, StateAt
<1>6. HeapVerdictIsTrue'
  BY <1>4 DEF HeapVerdictIsTrue
<1>7. handler' \in 0 .. 9
  BY <1>2
<1>8. fIgnoreException' \in {NULL} \cup [original : Addresses \cup {NULL}]
  BY <1>2
<1> QED
  BY <1>1, <1>2, <1>3, <1>4, <1>5, <1>6, <1>7, <1>8 DEF HInv, ReportInv

\* No allocation is blamed by what is said about the address alone.
LEMMA ReportsAloneKeepsInv ==
  ASSUME NEW n \in 1 .. 8, NEW kind \in {"NULL", "Poison", "Special", "Stack+", "Stack-"},
         NEW va, NEW ignorable, Handling(n), Reports(kind, va, ignorable), cache' = cache
  PROVE  HInv'
<1>1. kind \notin States \cup {"Unallocated", "Allocated"} /\ kind \notin {"none", "Heap"}
  BY DEF States, Protections
<1> QED
  BY <1>1, ReportsKeepsInv

\* What is wrong with the start of the access: the allocation there.
LEMMA StartIsDenied ==
  ASSUME HInv, pc = "handling", IsClear, NEW va, va = VirtualAllocation(Address),
         va.state \notin Protections \/ Prevents(va.state)
  PROVE  \E a \in DeniedAddresses(access.type, access.address, access.size) :
           va.start <= a /\ a < va.end
<1> DEFINE D == DeniedAddresses(access.type, access.address, access.size)
<1>1. sViolationTypeId = access.type /\ Address = AddressOfAccess /\ Address \in Addresses
  BY ResultIsRight DEF HInv, Analyzed, AnalysisInv
<1>2. /\ va.state = StateAt(Address) /\ va.start <= Address
      /\ (PageOf(Address) + 1) * uPageSize <= va.end
      /\ va.end \in Nat
  <2>1. memory \in [Pages -> States]
    BY DEF HInv, MemoryInv
  <2>2. va \in Allocations
    BY <1>1, <2>1, AllocationAtAddress
  <2> QED
    BY <1>1, <2>1, <2>2, AllocationAtAddress DEF Allocations
<1>3. Address < va.end
  <2>1. Address < (PageOf(Address) + 1) * uPageSize /\ PageOf(Address) \in Pages
    BY <1>1, AddressIsInPage
  <2>2. (PageOf(Address) + 1) * uPageSize \in Int /\ Address \in Int
    BY <1>1, <2>1, PagesOfSpace DEF Pages, Addresses
  <2> QED
    BY <1>2, <2>1, <2>2
<1>4. Address \in D
  <2>1. CASE access.instruction = "fetch"
    <3>1. Address = Min(D)
      BY <1>1, <2>1 DEF AddressOfAccess
    <3> QED
      BY <3>1, FirstDeniedAddress DEF HInv
  <2>2. CASE access.instruction # "fetch"
    <3>1. Address = access.address
      BY <1>1, <2>2 DEF AddressOfAccess
    <3>2. Denies(StateAt(Address), access.type)
      BY <1>1, <1>2 DEF Prevents, Denies
    <3>3. access.size \in 1 .. MaxAccess
      BY DEF HInv, AccessInv, Accesses
    <3>4. Address \in Address .. Address + access.size - 1
      BY <1>1, <3>3, AccessViolationAssumption DEF Addresses
    <3> QED
      BY <1>1, <3>1, <3>2, <3>4 DEF DeniedAddresses
  <2> QED
    BY <2>1, <2>2
<1> QED
  BY <1>2, <1>3, <1>4

\* What is wrong with the rest of the access: the allocation after it.
LEMMA RestIsDenied ==
  ASSUME HInv, pc = "handling", handler = 7, IsClear, NEW va, va = VirtualAllocation(Address),
         NEW next, next = VirtualAllocation(va.end)
  PROVE  \E a \in DeniedAddresses(access.type, access.address, access.size) :
           next.start <= a /\ a < next.end
<1> DEFINE D == DeniedAddresses(access.type, access.address, access.size)
           P == uPageSize
<1>1. sViolationTypeId = access.type /\ Address = AddressOfAccess /\ Address \in Addresses
  BY ResultIsRight DEF HInv, Analyzed, AnalysisInv
<1>2. memory \in [Pages -> States]
  BY DEF HInv, MemoryInv
<1>3. StateAt(Address) \in Protections /\ ~Denies(StateAt(Address), access.type)
  <2>1. StateAt(Address) \in Protections /\ ~Prevents(StateAt(Address)) /\ access.type # "?"
    BY <1>1 DEF HInv, StartIsAllowed, IsClear
  <2> QED
    BY <1>1, <2>1 DEF Prevents, Denies
<1>4. D \subseteq Addresses /\ D # {} /\ Min(D) \in D
  BY FirstDeniedAddress DEF HInv
<1>5. \A b \in D : Denies(StateAt(b), access.type)
  BY DEF DeniedAddresses
<1>6. Address = access.address
  <2>1. Address # Min(D)
    BY <1>3, <1>4, <1>5
  <2> QED
    BY <1>1, <2>1 DEF AddressOfAccess
<1>7. PICK b \in D : b \in Addresses /\ Address <= b /\ b < Address + access.size
  <2>1. PICK b \in D : TRUE
    BY <1>4
  <2>2. b \in access.address .. access.address + access.size - 1 /\ b \in Addresses
    BY <2>1 DEF DeniedAddresses
  <2>3. access.size \in 1 .. MaxAccess
    BY DEF HInv, AccessInv, Accesses
  <2> HIDE DEF D
  <2> QED
    BY <1>1, <1>6, <2>2, <2>3, AccessViolationAssumption DEF Addresses
<1>8. /\ va \in Allocations /\ va.start <= Address
      /\ (PageOf(Address) + 1) * P <= va.end
      /\ \E k \in Nat : va.end = k * P
      /\ \A a \in Addresses : va.start <= a /\ a < va.end => StateAt(a) = StateAt(Address)
  BY <1>1, <1>2, AllocationAtAddress
<1>9. va.start \in Nat /\ va.end \in Nat /\ Address \in Nat /\ b \in Nat
  BY <1>1, <1>7, <1>8 DEF Allocations, Addresses
<1>10. va.end <= b
  <2>1. StateAt(b) # StateAt(Address)
    BY <1>3, <1>5
  <2>2. ~(va.start <= b /\ b < va.end)
    BY <1>7, <1>8, <2>1
  <2>3. va.start <= b
    BY <1>7, <1>8, <1>9
  <2> HIDE DEF D, P
  <2> QED
    BY <1>9, <2>2, <2>3
<1>11. Address < va.end
  <2>1. Address < (PageOf(Address) + 1) * P /\ PageOf(Address) \in Pages
    BY <1>1, AddressIsInPage
  <2>2. (PageOf(Address) + 1) * P \in Int
    BY <2>1, PagesOfSpace DEF Pages
  <2> QED
    BY <1>8, <1>9, <2>1, <2>2
<1>12. b < va.end + P
  <2>1. access.size \in 1 .. MaxAccess /\ MaxAccess \in Nat /\ MaxAccess <= P /\ P \in Nat
    BY AccessViolationAssumption, PagesOfSpace DEF HInv, AccessInv, Accesses
  <2> HIDE DEF D, P
  <2> QED
    BY <1>7, <1>9, <1>11, <2>1
<1>13. va.end \in Addresses
  BY <1>7, <1>9, <1>10, PagesOfSpace DEF Addresses
<1>14. PICK k \in Nat : va.end = k * P
  BY <1>8
<1>15. P \in Nat \ {0}
  BY PagesOfSpace
<1>16. (k + 1) * P = va.end + P
  BY <1>14, <1>15
<1>17. PageOf(va.end) = k
  <2>1. k * P <= va.end /\ va.end < (k + 1) * P
    <3> HIDE DEF P
    <3> QED
      BY <1>9, <1>14, <1>15, <1>16
  <2> HIDE DEF D
  <2> QED
    BY <1>9, <1>15, <2>1, PageIsUnique DEF PageOf
<1>18. next \in Allocations /\ next.start <= va.end /\ (k + 1) * P <= next.end
  BY <1>2, <1>13, <1>17, AllocationAtAddress
<1>19. next.start <= b /\ b < next.end
  <2>1. next.start \in Nat /\ next.end \in Nat
    BY <1>18 DEF Allocations
  <2> HIDE DEF D, P
  <2> QED
    BY <1>9, <1>10, <1>12, <1>15, <1>16, <1>18, <2>1
<1> QED
  BY <1>19

-----------------------------------------------------------------------------
(* What is found out about the heap block.                                 *)

\* What was cached is what is found.
LEMMA HeapDataIsCurrent ==
  ASSUME CacheInv
  PROVE  HeapData = fo0GetPageHeapManagerData(Address)
<1> DEFINE data == fo0GetPageHeapManagerData(Address)
<1>1. \A entry \in cache : entry.address = Address => entry.data = data
  BY DEF CacheInv
<1>2. \A d \in CachedHeapData : d = data
  BY <1>1 DEF CachedHeapData
<1>3. CASE CachedHeapData = {}
  BY <1>3 DEF HeapData
<1>4. CASE CachedHeapData # {}
  <2>1. (CHOOSE d \in CachedHeapData : TRUE) \in CachedHeapData
    BY <1>4
  <2> QED
    BY <1>2, <1>4, <2>1 DEF HeapData
<1> QED
  BY <1>3, <1>4

\* A block is found by its allocation header.
LEMMA FoundData ==
  ASSUME NEW a, fo0GetPageHeapManagerData(a) # NULL
  PROVE  fo0GetPageHeapManagerData(a) = HeapManagerData /\ block.header \notin modified
<1>1. /\ fo0GetPageHeapManagerData(a) = HeapManagerData
      /\ FindsAllocationHeader(BlockAllocationNear(a))
  BY DEF fo0GetPageHeapManagerData, cPageHeapManagerData
<1>2. block.header \notin modified
  BY <1>1 DEF FindsAllocationHeader, HasAllocationHeader
<1> QED
  BY <1>1, <1>2

\* What is known about a block.
LEMMA HeapManagerDataIsTyped ==
  ASSUME MemoryInv
  PROVE  /\ HeapManagerData \in HeapManagerDatas
         /\ HeapManagerData.virtual.start <= block.virtual
<1> DEFINE va == VirtualAllocation(block.virtual)
<1>1. /\ memory \in [Pages -> States] /\ block \in Blocks /\ freed \in BOOLEAN
      /\ modified \subseteq Addresses
  BY DEF MemoryInv
<1>2. block.start \in Addresses /\ block.virtual \in Addresses /\ block.size \in 1 .. Space
  BY <1>1 DEF Blocks
<1>3. va \in Allocations /\ va.start <= block.virtual
  BY <1>1, <1>2, AllocationAtAddress
<1>4. BlockEnd \in Nat
  BY <1>2, PagesOfSpace DEF BlockEnd, Addresses
<1>5. StampsSayFreed \in BOOLEAN
  BY <1>1 DEF StampsSayFreed
<1>6. CorruptedBytes \subseteq Addresses
  BY <1>1 DEF CorruptedBytes
<1> HIDE DEF va
<1>7. HeapManagerData = [ start |-> block.start, end |-> BlockEnd, virtual |-> va,
                          freed |-> StampsSayFreed, corrupted |-> CorruptedBytes ]
  BY DEF HeapManagerData, va
<1> QED
  BY <1>2, <1>3, <1>4, <1>5, <1>6, <1>7 DEF HeapManagerDatas

\* When the allocation header is intact, the corruption that is found is all that was overwritten
\* outside of the block, except for the heap field, the value of which is not known.
LEMMA CorruptionIsFound ==
  ASSUME MemoryInv, block.header \notin modified
  PROVE  /\ CorruptedBytes = modified \ ({HeapField} \cup BlockBytes)
         /\ CorruptedBytes = Visible
<1> DEFINE va == VirtualAllocation(block.virtual)
<1>1. \A a \in modified : a \in BlockBytes \/ a \in va.start .. va.end - 1
  BY DEF MemoryInv, Surroundings
<1>2. \A a \in modified \ BlockBytes : va.start <= a
  <2> HIDE DEF va
  <2>1. va.start \in Int
    <3>1. va \in Allocations
      BY AllocationAtAddress DEF MemoryInv, Blocks, va
    <3> QED
      BY <3>1 DEF Allocations
  <2>2. va.end \in Int
    <3>1. va \in Allocations
      BY AllocationAtAddress DEF MemoryInv, Blocks, va
    <3> QED
      BY <3>1 DEF Allocations
  <2> QED
    BY <1>1, <2>1, <2>2
<1>3. CorruptedBytes = modified \ ({HeapField} \cup BlockBytes)
  BY <1>2 DEF CorruptedBytes
<1> QED
  BY <1>3 DEF Visible

\* The first and the last byte that were corrupted are among them.
LEMMA CorruptedRange ==
  ASSUME MemoryInv, NEW C, C \subseteq modified, C # {}
  PROVE  /\ Min(C) \in C /\ Max(C) \in C
         /\ \A a \in C : a \in Nat /\ Min(C) <= a /\ a <= Max(C)
<1>1. C \subseteq 0 .. Space - 1
  BY DEF MemoryInv, Addresses
<1>2. C \subseteq Nat
  BY <1>1
<1>3. Space - 1 \in Nat
  BY PagesOfSpace
<1>4. Min(C) \in C /\ \A a \in C : Min(C) <= a
  BY <1>2, MinOfNaturals
<1>5. Max(C) \in C /\ \A a \in C : a <= Max(C)
  BY <1>1, <1>3, MaxOfNaturals
<1> QED
  BY <1>2, <1>4, <1>5

\* What is said about a block is true.
LEMMA HeapClaimsAreTrue ==
  ASSUME MemoryInv, block.header \notin modified, Address \in Addresses,
         NEW data, data = HeapManagerData, NEW claims, claims = HeapClaims(data)
  PROVE  /\ "AF" \in claims <=> freed /\ ~({StartStamp, EndStamp} \subseteq modified)
         /\ "BOF" \in claims => /\ {BlockEnd, Address - 1} \subseteq modified
                                /\ \A a \in modified \ {HeapField} : a >= block.start
         /\ "OOB" \in claims => Address \notin BlockBytes
         /\ "AF" \notin claims =>
              (IF data.freed THEN {} ELSE data.corrupted) = modified \ ({HeapField} \cup BlockBytes)
<1>1. /\ data.freed = StampsSayFreed /\ data.corrupted = CorruptedBytes
      /\ data.start = block.start /\ data.end = BlockEnd
  BY DEF HeapManagerData
<1>2. data.freed \in BOOLEAN
  BY HeapManagerDataIsTyped DEF HeapManagerDatas
<1>3. "AF" \in claims <=> data.freed
  BY <1>2 DEF HeapClaims
<1>4. "AF" \in claims <=> freed /\ ~({StartStamp, EndStamp} \subseteq modified)
  BY <1>1, <1>3 DEF StampsSayFreed
<1>5. CorruptedBytes = modified \ ({HeapField} \cup BlockBytes)
  BY CorruptionIsFound
<1>6. ASSUME "BOF" \in claims
      PROVE  /\ {BlockEnd, Address - 1} \subseteq modified
             /\ \A a \in modified \ {HeapField} : a >= block.start
  <2>1. IsOverrun(data)
    BY <1>6 DEF HeapClaims
  <2>2. /\ CorruptedBytes # {} /\ Min(CorruptedBytes) = BlockEnd
        /\ Max(CorruptedBytes) + 1 = Address
    BY <1>1, <2>1 DEF IsOverrun
  <2>3. CorruptedBytes \subseteq modified
    BY DEF CorruptedBytes
  <2>4. /\ Min(CorruptedBytes) \in CorruptedBytes /\ Max(CorruptedBytes) \in CorruptedBytes
        /\ \A a \in CorruptedBytes : a \in Nat /\ Min(CorruptedBytes) <= a
    BY <2>2, <2>3, CorruptedRange
  <2>5. BlockEnd \in modified
    BY <2>2, <2>3, <2>4
  <2>6. Address - 1 \in modified
    <3>1. Max(CorruptedBytes) \in Nat
      BY <2>4
    <3>2. Address - 1 = Max(CorruptedBytes)
      BY <2>2, <3>1
    <3> QED
      BY <2>3, <2>4, <3>2
  <2>7. ASSUME NEW a \in modified \ {HeapField} PROVE a >= block.start
    <3>1. block.start \in Nat /\ block.size \in Nat
      BY DEF MemoryInv, Blocks, Addresses
    <3>2. CASE a \in BlockBytes
      BY <3>1, <3>2 DEF BlockBytes, BlockEnd
    <3>3. CASE a \notin BlockBytes
      <4>1. a \in Nat /\ BlockEnd <= a
        BY <1>5, <2>2, <2>4, <3>3
      <4> QED
        BY <3>1, <4>1 DEF BlockEnd
    <3> QED
      BY <3>2, <3>3
  <2> QED
    BY <2>5, <2>6, <2>7
<1>7. ASSUME "OOB" \in claims PROVE Address \notin BlockBytes
  <2>1. OutOfBounds(data)
    BY <1>7 DEF HeapClaims
  <2>2. block.start \in Nat /\ block.size \in Nat /\ Address \in Nat
    BY DEF MemoryInv, Blocks, Addresses
  <2> QED
    BY <1>1, <2>1, <2>2 DEF OutOfBounds, BlockBytes, BlockEnd
<1>8. ASSUME "AF" \notin claims
      PROVE  (IF data.freed THEN {} ELSE data.corrupted) = modified \ ({HeapField} \cup BlockBytes)
  BY <1>1, <1>3, <1>5, <1>8
<1> QED
  BY <1>4, <1>6, <1>7, <1>8

\* The value that the application gets instead is in the allocation.
LEMMA OriginalValueIsAddress ==
  ASSUME MemoryInv, Address \in Addresses, NEW data, data = HeapManagerData
  PROVE  OriginalValue(data) \in Addresses \cup {NULL}
<1>1. /\ data.start = block.start /\ data.virtual.start <= block.virtual
      /\ data.virtual.start \in Nat
  BY HeapManagerDataIsTyped DEF HeapManagerData, HeapManagerDatas, Allocations
<1>2. block.virtual <= block.start /\ block.start \in Nat /\ block.virtual \in Nat
  BY DEF MemoryInv, Blocks, Addresses
<1>3. Address \in 0 .. Space - 1 /\ Space \in Nat
  BY PagesOfSpace DEF Addresses
<1>4. CASE Address >= data.start
  <2>1. data.virtual.start + (Address - data.start) \in 0 .. Space - 1
    BY <1>1, <1>2, <1>3, <1>4
  <2> QED
    BY <2>1 DEF OriginalValue, Addresses
<1>5. CASE ~(Address >= data.start)
  BY <1>5 DEF OriginalValue
<1> QED
  BY <1>4, <1>5

\* The handler for heap blocks.
LEMMA HeapHandlerKeepsInv ==
  ASSUME Handling(3), fbUpdateReportForHeapManagerPointer
  PROVE  HInv'
<1> DEFINE data == HeapData
<1>1. /\ HInv /\ pc = "handling" /\ handler' = 4
      /\ UNCHANGED heapVars /\ block' = block /\ freed' = freed /\ modified' = modified
      /\ memory' = memory /\ access' = access /\ Address' = Address
  BY DEF Handling, heapVars, Address
<1>2. Address \in Addresses
  BY <1>1 DEF HInv, AnalysisInv, Analyzed
<1>3. data = fo0GetPageHeapManagerData(Address)
  BY <1>1, HeapDataIsCurrent DEF HInv
<1>4. CacheInv'
  <2>1. cache' = cache \cup {[address |-> Address, data |-> data]}
    BY DEF fbUpdateReportForHeapManagerPointer
  <2>2. cache' \subseteq {[address |-> a, data |-> fo0GetPageHeapManagerData(a)] : a \in Addresses}
    BY <1>1, <1>2, <1>3, <2>1 DEF HInv, CacheInv
  <2>3. pc' # "running"
    BY DEF Handling
  <2> QED
    BY <1>1, <2>2, <2>3, HeapDataIsKept DEF CacheInv
<1>5. CASE data = NULL
  <2>1. Passes
    BY <1>5 DEF fbUpdateReportForHeapManagerPointer
  <2> QED
    BY <1>4, <2>1, PassesKeepsInv
<1>6. CASE pc' = "failed" /\ UNCHANGED <<report, fIgnoreException>>
  <2>1. MemoryInv' /\ AccessInv' /\ StopInv' /\ VerdictInv' /\ AnalysisInv'
    BY HandlerKeeps
  <2>2. StartIsAllowed'
    BY <1>6 DEF StartIsAllowed
  <2>3. ReportInv'
    BY <1>1, <1>6 DEF HInv, ReportInv, BlamedAllocationDeniesAccess, HeapVerdictIsTrue
  <2> QED
    BY <1>4, <2>1, <2>2, <2>3 DEF HInv
<1>7. CASE /\ data # NULL /\ pc' = "reported"
           /\ report' = [ kind |-> "Heap", allocation |-> NULL, claims |-> HeapClaims(data),
                          corrupted |-> IF data.freed THEN {} ELSE data.corrupted ]
           /\ fIgnoreException' = [original |-> OriginalValue(data)]
  <2>1. MemoryInv' /\ AccessInv' /\ StopInv' /\ VerdictInv' /\ AnalysisInv'
    BY HandlerKeeps
  <2>2. StartIsAllowed'
    BY <1>7 DEF StartIsAllowed
  <2>3. data = HeapManagerData /\ block.header \notin modified
    BY <1>3, <1>7, FoundData
  <2>4. /\ report'.kind = "Heap" /\ report'.claims = HeapClaims(data)
        /\ report'.corrupted = IF data.freed THEN {} ELSE data.corrupted
        /\ report' # Nothing
    BY <1>7 DEF Nothing
  <2>5. HeapVerdictIsTrue'
    <3>1. MemoryInv
      BY <1>1 DEF HInv
    <3> DEFINE claims == HeapClaims(data)
    <3>2. /\ "AF" \in claims <=> freed /\ ~({StartStamp, EndStamp} \subseteq modified)
          /\ "BOF" \in claims => /\ {BlockEnd, Address - 1} \subseteq modified
                                 /\ \A a \in modified \ {HeapField} : a >= block.start
          /\ "OOB" \in claims => Address \notin BlockBytes
          /\ "AF" \notin claims =>
               (IF data.freed THEN {} ELSE data.corrupted) = modified \ ({HeapField} \cup BlockBytes)
      BY <1>2, <2>3, <3>1, HeapClaimsAreTrue
    <3>3. /\ BlockEnd' = BlockEnd /\ BlockBytes' = BlockBytes /\ HeapField' = HeapField
          /\ StartStamp' = StartStamp /\ EndStamp' = EndStamp
      BY <1>1, BlockIsKept
    <3> HIDE DEF data, claims
    <3>4. report'.claims = claims
      BY <2>4 DEF claims
    <3> QED
      BY <1>1, <2>4, <3>2, <3>3, <3>4 DEF HeapVerdictIsTrue
  <2>6. BlamedAllocationDeniesAccess'
    BY <2>4 DEF BlamedAllocationDeniesAccess, States, Protections
  <2>7. fIgnoreException' \in {NULL} \cup [original : Addresses \cup {NULL}]
    <3>1. OriginalValue(data) \in Addresses \cup {NULL}
      BY <1>1, <1>2, <2>3, OriginalValueIsAddress DEF HInv
    <3> QED
      BY <1>7, <3>1
  <2>8. ReportInv'
    BY <1>1, <1>7, <2>4, <2>5, <2>6, <2>7 DEF ReportInv
  <2> QED
    BY <1>4, <2>1, <2>2, <2>8 DEF HInv
<1> QED
  BY <1>5, <1>6, <1>7 DEF fbUpdateReportForHeapManagerPointer

\* An allocation is blamed only if the access is denied there.
LEMMA AllocationKeepsInv ==
  ASSUME NEW n \in {6, 7}, NEW va, Handling(n), UpdateReportForAllocation(va), cache' = cache,
         (va.state \notin Protections \/ Prevents(va.state)) /\ IsClear =>
           \E a \in DeniedAddresses(access.type, access.address, access.size) :
             va.start <= a /\ a < va.end,
         n = 6 => va.state = StateAt(Address)
  PROVE  HInv'
<1>1. n \in 1 .. 8 /\ n \in 1 .. 7
  OBVIOUS
<1>2. CASE va.state = "Free" /\ Reports("Unallocated", va, TRUE)
  <2>1. va.state \notin Protections
    BY <1>2 DEF Protections
  <2> QED
    BY <1>1, <1>2, <2>1, ReportsKeepsInv
<1>3. CASE va.state = "Reserved" /\ Reports("Reserved", va, TRUE)
  <2>1. va.state \notin Protections
    BY <1>3 DEF Protections
  <2> QED
    BY <1>1, <1>3, <2>1, ReportsKeepsInv
<1>4. CASE va.state = "Guard" /\ Reports("Guard", va, FALSE)
  <2>1. va.state \notin Protections
    BY <1>4 DEF Protections
  <2> QED
    BY <1>1, <1>4, <2>1, ReportsKeepsInv
<1>5. CASE va.state = "Invalid" /\ Reports("Invalid", va, TRUE)
  <2>1. va.state \notin Protections
    BY <1>5 DEF Protections
  <2> QED
    BY <1>1, <1>5, <2>1, ReportsKeepsInv
<1>6. CASE Prevents(va.state) /\ Reports("Allocated", va, FALSE)
  BY <1>1, <1>6, ReportsKeepsInv
<1>7. CASE va.state \in Protections /\ ~Prevents(va.state) /\ Passes
  BY <1>1, <1>7, PassesKeepsInv
<1> QED
  BY <1>2, <1>3, <1>4, <1>5, <1>6, <1>7
  DEF UpdateReportForAllocation, fbUpdateReportForUnallocatedPointer,
      fbUpdateReportForReservedPointer, fbUpdateReportForGuardPagePointer,
      fbUpdateReportForInvalidPointer, fbUpdateReportForAllocatedPointer

\* Handlers pass, report or fail.
LEMMA AllocationOutcome ==
  ASSUME NEW va, UpdateReportForAllocation(va), pc = "handling"
  PROVE  pc' \in {"handling", "reported"}
BY DEF UpdateReportForAllocation, fbUpdateReportForUnallocatedPointer,
   fbUpdateReportForReservedPointer, fbUpdateReportForGuardPagePointer,
   fbUpdateReportForInvalidPointer, fbUpdateReportForAllocatedPointer, Reports, Passes

\* A handler.
LEMMA UpdateReportKeepsInv ==
  ASSUME HInv, stop = NULL, fUpdateReport, UNCHANGED verifierVars
  PROVE  HInv'
<1>1. CASE Handle(1, fbUpdateReportForNULLPointer)
  <2>1. Handling(1)
    BY <1>1 DEF Handling, Handle, fbUpdateReportForNULLPointer, Reports, Passes
  <2>2. (Reports("NULL", NULL, FALSE) \/ Passes) /\ cache' = cache
    BY <1>1 DEF Handle, fbUpdateReportForNULLPointer
  <2>3. 1 \in 1 .. 8 /\ 1 \in 1 .. 7 /\ 1 # 6
    OBVIOUS
  <2>4. CASE Reports("NULL", NULL, FALSE)
    BY <2>1, <2>2, <2>3, <2>4, ReportsAloneKeepsInv
  <2>5. CASE Passes
    BY <2>1, <2>2, <2>3, <2>5, PassesKeepsInv
  <2> QED
    BY <2>2, <2>4, <2>5
<1>2. CASE Handle(2, fbUpdateReportForCollateralPoisonPointer)
  <2>1. Handling(2)
    BY <1>2 DEF Handling, Handle, fbUpdateReportForCollateralPoisonPointer, Reports, Passes
  <2>2. (Reports("Poison", NULL, TRUE) \/ Passes) /\ cache' = cache
    BY <1>2 DEF Handle, fbUpdateReportForCollateralPoisonPointer
  <2>3. 2 \in 1 .. 8 /\ 2 \in 1 .. 7 /\ 2 # 6
    OBVIOUS
  <2>4. CASE Reports("Poison", NULL, TRUE)
    BY <2>1, <2>2, <2>3, <2>4, ReportsAloneKeepsInv
  <2>5. CASE Passes
    BY <2>1, <2>2, <2>3, <2>5, PassesKeepsInv
  <2> QED
    BY <2>2, <2>4, <2>5
<1>3. CASE Handle(3, fbUpdateReportForHeapManagerPointer)
  <2>1. Handling(3)
    BY <1>3 DEF Handling, Handle, fbUpdateReportForHeapManagerPointer, Passes
  <2> QED
    BY <1>3, <2>1, HeapHandlerKeepsInv DEF Handle
<1>4. CASE Handle(4, fbUpdateReportForSpecialPointer)
  <2>1. Handling(4)
    BY <1>4 DEF Handling, Handle, fbUpdateReportForSpecialPointer, Reports, Passes
  <2>2. (Reports("Special", NULL, TRUE) \/ Passes) /\ cache' = cache
    BY <1>4 DEF Handle, fbUpdateReportForSpecialPointer
  <2>3. 4 \in 1 .. 8 /\ 4 \in 1 .. 7 /\ 4 # 6
    OBVIOUS
  <2>4. CASE Reports("Special", NULL, TRUE)
    BY <2>1, <2>2, <2>3, <2>4, ReportsAloneKeepsInv
  <2>5. CASE Passes
    BY <2>1, <2>2, <2>3, <2>5, PassesKeepsInv
  <2> QED
    BY <2>2, <2>4, <2>5
<1>5. CASE Handle(5, fbUpdateReportForStackPointer)
  <2> DEFINE va == VirtualAllocation(StackTop - 1)
  <2>1. Handling(5)
    BY <1>5 DEF Handling, Handle, fbUpdateReportForStackPointer, Reports, Passes
  <2>2. /\ Reports("Stack+", va, FALSE) \/ Reports("Stack-", va, FALSE) \/ Passes
        /\ cache' = cache
    BY <1>5 DEF Handle, fbUpdateReportForStackPointer
  <2> HIDE DEF va
  <2>3. 5 \in 1 .. 8 /\ 5 \in 1 .. 7 /\ 5 # 6
    OBVIOUS
  <2>4. CASE Reports("Stack+", va, FALSE)
    BY <2>1, <2>2, <2>3, <2>4, ReportsAloneKeepsInv
  <2>5. CASE Reports("Stack-", va, FALSE)
    BY <2>1, <2>2, <2>3, <2>5, ReportsAloneKeepsInv
  <2>6. CASE Passes
    BY <2>1, <2>2, <2>3, <2>6, PassesKeepsInv
  <2> QED
    BY <2>2, <2>4, <2>5, <2>6
<1>6. CASE Handle(6, StartAllocation)
  <2> DEFINE va == VirtualAllocation(Address)
  <2>1. UpdateReportForAllocation(va) /\ cache' = cache /\ pc = "handling"
    BY <1>6 DEF Handle, StartAllocation
  <2>2. Handling(6)
    BY <1>6, <2>1, AllocationOutcome DEF Handling, Handle
  <2>3. va.state = StateAt(Address)
    BY DEF VirtualAllocation
  <2>4. (va.state \notin Protections \/ Prevents(va.state)) /\ IsClear =>
           \E a \in DeniedAddresses(access.type, access.address, access.size) :
             va.start <= a /\ a < va.end
    BY <2>1, StartIsDenied
  <2> HIDE DEF va
  <2> QED
    BY <2>1, <2>2, <2>3, <2>4, AllocationKeepsInv
<1>7. CASE Handle(7, EndAllocation)
  <2> DEFINE va == VirtualAllocation(Address)
             next == VirtualAllocation(va.end)
  <2>1. /\ UpdateReportForAllocation(next) \/ Passes
        /\ cache' = cache /\ pc = "handling" /\ handler = 7
    BY <1>7 DEF Handle, EndAllocation
  <2>2. Handling(7)
    <3>1. pc' \in {"handling", "reported"}
      BY <2>1, AllocationOutcome DEF Passes
    <3> QED
      BY <1>7, <3>1 DEF Handling, Handle
  <2>3. IsClear => \E a \in DeniedAddresses(access.type, access.address, access.size) :
                     next.start <= a /\ a < next.end
    BY <2>1, RestIsDenied
  <2> HIDE DEF va, next
  <2>4. CASE Passes
    BY <2>1, <2>2, <2>4, PassesKeepsInv
  <2>5. CASE UpdateReportForAllocation(next)
    BY <2>1, <2>2, <2>3, <2>5, AllocationKeepsInv
  <2> QED
    BY <2>1, <2>4, <2>5
<1>8. CASE Handle(8, NotImplemented)
  <2>1. Handling(8)
    BY <1>8 DEF Handling, Handle, NotImplemented
  <2>2. MemoryInv' /\ AccessInv' /\ StopInv' /\ VerdictInv' /\ AnalysisInv' /\ CacheInv'
    BY <1>8, <2>1, HandlerKeeps DEF Handle, NotImplemented
  <2>3. pc' = "failed" /\ pc = "handling" /\ report' = report
        /\ fIgnoreException' = fIgnoreException /\ handler' = 9
    BY <1>8 DEF Handle, NotImplemented
  <2>4. StartIsAllowed' /\ ReportInv'
    BY <2>3 DEF HInv, ReportInv, StartIsAllowed, BlamedAllocationDeniesAccess, HeapVerdictIsTrue
  <2> QED
    BY <2>2, <2>4 DEF HInv
<1> QED
  BY <1>1, <1>2, <1>3, <1>4, <1>5, <1>6, <1>7, <1>8 DEF fUpdateReport

-----------------------------------------------------------------------------
(* Verifier stops.                                                         *)

\* A block that is not freed is found by its own address, unless its allocation header was
\* overwritten.
LEMMA BlockIsFound ==
  ASSUME MemoryInv, ~freed, block.header \notin modified
  PROVE  fo0GetPageHeapManagerData(block.start) = HeapManagerData /\ HeapManagerData # NULL
<1> DEFINE s == block.start
           v == block.virtual
           h == block.header
           P == uPageSize
           va == VirtualAllocation(v)
           header == VirtualAllocation(h)
<1>1. /\ memory \in [Pages -> States] /\ s \in Addresses /\ v \in Addresses /\ h \in Addresses
      /\ block.size \in Nat /\ v <= s
  BY DEF MemoryInv, Blocks
<1>2. IsPageHeapBlock
  BY DEF MemoryInv
<1>3. /\ bAllocated(va) /\ va.start = v /\ VirtualAllocation(s) = va /\ uMaxAddressOffset < h
      /\ \/ h = v
         \/ bAllocated(header) /\ header.start = h /\ header.end = v /\ v - h = P
  BY <1>2 DEF IsPageHeapBlock
<1>4. s \in Nat /\ v \in Nat /\ h \in Nat /\ P \in Nat \ {0} /\ uMaxAddressOffset \in Nat
  BY <1>1, PagesOfSpace, PageHeapAssumption DEF Addresses
<1>5. va \in Allocations /\ header \in Allocations /\ StateAt(s) = va.state
  BY <1>1, <1>3, AllocationAtAddress
<1>6. va # NULL /\ header # NULL
  BY <1>5, PageHeapAssumption
<1>7. h <= v
  <2> HIDE DEF header, va, P
  <2> QED
    BY <1>3, <1>4
<1>8. uMaxAddressOffset < s
  <2> HIDE DEF header, va, P
  <2> QED
    BY <1>1, <1>3, <1>4, <1>7
<1>9. va.state \notin {"Invalid", "Free", "Reserved"}
  BY <1>3 DEF bAllocated, Protections
<1>10. fo0GetVirtualAllocation(s) = va
  <2>1. ~(s < uMaxAddressOffset)
    BY <1>4, <1>8
  <2> HIDE DEF header, va, P
  <2> QED
    BY <1>3, <1>9, <2>1 DEF fo0GetVirtualAllocation, bReserved
<1>11. BlockAllocationNear(s) = va
  <2> HIDE DEF header, va, P
  <2> QED
    BY <1>9, <1>10 DEF BlockAllocationNear, bReserved
<1>12. FindsAllocationHeader(va)
  <2>1. CASE h = v
    BY <1>3, <2>1 DEF FindsAllocationHeader, HasAllocationHeader
  <2>2. CASE bAllocated(header) /\ header.start = h /\ header.end = v /\ v - h = P
    <3>1. PICK k \in Nat : header.end = k * P
      BY <1>1, AllocationAtAddress
    <3>2. v = k * P /\ h = v - P
      <4> HIDE DEF va, header, P
      <4> QED
        BY <1>4, <2>2, <3>1
    <3>3. k - 1 \in Nat
      <4>1. k # 0
        <5> SUFFICES ASSUME k = 0 PROVE FALSE
          OBVIOUS
        <5>1. v = 0
          BY <1>4, <3>2
        <5> QED
          BY <1>4, <3>2, <5>1
      <4> QED
        BY <4>1
    <3>4. (k - 1) * P = h /\ ((k - 1) + 1) * P = v
      <4>1. (k - 1) * P = k * P - P
        BY <1>4, <3>3
      <4>2. (k - 1) + 1 = k
        BY <3>3
      <4> QED
        BY <3>2, <4>1, <4>2
    <3>5. PageOf(h) = k - 1
      <4>1. (k - 1) * P <= h /\ h < ((k - 1) + 1) * P
        <5> HIDE DEF va, header, P
        <5> QED
          BY <1>4, <3>2, <3>4
      <4> HIDE DEF va, header
      <4> QED
        BY <1>4, <3>3, <4>1, PageIsUnique DEF PageOf
    <3>6. PageOf(v - 1) = k - 1
      <4>1. v - 1 \in Nat /\ (k - 1) * P <= v - 1 /\ v - 1 < ((k - 1) + 1) * P
        <5> HIDE DEF va, header, P
        <5> QED
          BY <1>4, <3>2, <3>4
      <4> HIDE DEF va, header
      <4> QED
        BY <1>4, <3>3, <4>1, PageIsUnique DEF PageOf
    <3>7. VirtualAllocation(v - 1) = header
      BY <3>5, <3>6 DEF VirtualAllocation, StateAt
    <3>8. ~(v - 1 < uMaxAddressOffset)
      <4> HIDE DEF va, header, P
      <4> QED
        BY <1>3, <1>4, <3>2
    <3>9. header.state \notin {"Invalid", "Free", "Reserved"}
      BY <2>2 DEF bAllocated, Protections
    <3> HIDE DEF va, header
    <3>10. fo0GetVirtualAllocation(v - 1) = header
      BY <3>7, <3>8, <3>9 DEF fo0GetVirtualAllocation, bReserved
    <3>11. header.end - header.start = uPageSize
      BY <2>2
    <3>12. HasAllocationHeader(header) /\ ~bReserved(header)
      BY <2>2, <3>9 DEF HasAllocationHeader, bReserved
    <3> QED
      BY <1>3, <1>6, <3>10, <3>11, <3>12 DEF FindsAllocationHeader
  <2> QED
    BY <1>3, <2>1, <2>2
<1>13. IsNearBlock(s)
  <2>1. s - s <= P /\ s - (s + block.size) <= P
    BY <1>1, <1>4
  <2> QED
    BY <2>1 DEF IsNearBlock, BlockEnd
<1>14. StateAt(s) # "Invalid" /\ ~(s <= uMaxAddressOffset)
  BY <1>4, <1>5, <1>8, <1>9
<1>15. HeapManagerData # NULL
  BY HeapManagerDataIsTyped, PageHeapAssumption
<1> HIDE DEF va, header
<1> QED
  BY <1>6, <1>11, <1>12, <1>13, <1>14, <1>15 DEF fo0GetPageHeapManagerData, cPageHeapManagerData

\* What the message says is corrupted.
LEMMA AccessTypeOfMessage ==
  ASSUME NEW data, stop.message \in StampMessages \cup CorruptionMessages \cup {"corrupted infix pattern"}
  PROVE  /\ AccessType(data) \in {"UnknownVerifierError", "OOBW", "WAF"}
         /\ AccessType(data) = "OOBW" /\ data = NULL => stop.message \in CorruptionMessages
         /\ AccessType(data) = "WAF" => stop.message = "corrupted infix pattern"
<1>1. CASE stop.message \in StampMessages
  <2>1. AccessType(data) = IF data = NULL THEN "UnknownVerifierError" ELSE "OOBW"
    BY <1>1 DEF AccessType, IsStamp, StampMessages
  <2> QED
    BY <2>1
<1>2. CASE stop.message \in CorruptionMessages
  <2>1. AccessType(data) = "OOBW"
    BY <1>2 DEF AccessType, IsStamp, CorruptionMessages
  <2> QED
    BY <1>2, <2>1
<1>3. CASE stop.message = "corrupted infix pattern"
  <2>1. AccessType(data) = "WAF"
    BY <1>3 DEF AccessType, IsStamp
  <2> QED
    BY <1>3, <2>1
<1> QED
  BY <1>1, <1>2, <1>3

\* What is reported for a verifier stop is true.
VerdictIsTrue(v) ==
  /\ v.kind = "failed" => freed \/ GapIsEmpty
  /\ v.kind \in {"OOBW", "BOF"} /\ v.corruption = NULL => Visible = {} \/ block.header \in modified
  /\ v.corruption # NULL =>
       /\ {v.corruption.first, v.corruption.last} \subseteq Visible
       /\ Visible \subseteq v.corruption.first .. v.corruption.last
  /\ v.kind = "BOF" => \A a \in Visible : a >= BlockEnd
  /\ v.kind \in {"DoubleFree", "WAF"} => freed

\* The fields of what is reported.
LEMMA VerdictFields ==
  ASSUME NEW kind, NEW range, NEW v, v = Verdict(kind, range)
  PROVE  v.kind = kind /\ v.corruption = range
BY DEF Verdict

LEMMA RangeFields ==
  ASSUME NEW first \in Addresses, NEW last \in Addresses, NEW range,
         range = [first |-> first, last |-> last]
  PROVE  range # NULL /\ range.first = first /\ range.last = last
<1>1. range \in [first : Addresses, last : Addresses]
  OBVIOUS
<1> QED
  BY <1>1, VerifierStopAssumption

LEMMA IsInRange ==
  ASSUME NEW S, NEW first \in Nat, NEW last \in Nat,
         \A a \in S : a \in Nat /\ first <= a /\ a <= last
  PROVE  S \subseteq first .. last
OBVIOUS

\* What is found in the block is what was overwritten, and a message about a block that was not
\* freed is not about nothing.
LEMMA CorruptionVerdictIsTrue ==
  ASSUME MemoryInv, StopInv, stop # NULL, NEW data, data = fo0GetPageHeapManagerData(stop.address),
         stop.message \in StampMessages \cup CorruptionMessages \cup {"corrupted infix pattern"},
         NEW v, v = CorruptionVerdict(data)
  PROVE  v.kind \in Kinds /\ VerdictIsTrue(v)
<1>1. /\ AccessType(data) \in {"UnknownVerifierError", "OOBW", "WAF"}
      /\ AccessType(data) = "OOBW" /\ data = NULL => stop.message \in CorruptionMessages
      /\ AccessType(data) = "WAF" => stop.message = "corrupted infix pattern"
  BY AccessTypeOfMessage
<1>2. AccessType(data) = "WAF" => freed
  BY <1>1 DEF StopInv
<1>3. data # NULL => data = HeapManagerData /\ block.header \notin modified
  BY FoundData
<1>4. data # NULL => data.corrupted = Visible /\ data.end = BlockEnd
  <2>1. HeapManagerData.corrupted = CorruptedBytes /\ HeapManagerData.end = BlockEnd
    BY DEF HeapManagerData
  <2> QED
    BY <1>3, <2>1, CorruptionIsFound
<1>5. CASE data = NULL \/ data.corrupted = {}
  <2>1. PICK kind : kind = AccessType(data)
    OBVIOUS
  <2>2. v = Verdict(kind, NULL)
    BY <1>5, <2>1 DEF CorruptionVerdict
  <2>3. v.kind = kind /\ v.corruption = NULL
    BY <2>2, VerdictFields
  <2>4. ASSUME AccessType(data) = "OOBW", block.header \notin modified PROVE Visible = {}
    <3>1. CASE data = NULL
      <4>1. ~freed /\ stop.address = block.start
        BY <1>1, <2>4, <3>1 DEF StopInv
      <4> QED
        BY <2>4, <3>1, <4>1, BlockIsFound
    <3>2. CASE data # NULL
      BY <1>4, <1>5, <3>2
    <3> QED
      BY <3>1, <3>2
  <2> QED
    BY <1>1, <1>2, <2>1, <2>3, <2>4 DEF VerdictIsTrue, Kinds
<1>6. CASE data # NULL /\ data.corrupted # {}
  <2>1. Visible # {} /\ Visible \subseteq modified
    BY <1>4, <1>6 DEF Visible
  <2>2. PICK first, last : first = Min(Visible) /\ last = Max(Visible)
    OBVIOUS
  <2>3. first \in Visible /\ last \in Visible /\ \A a \in Visible : a \in Nat /\ first <= a /\ a <= last
    BY <2>1, <2>2, CorruptedRange
  <2>4. first \in Addresses /\ last \in Addresses /\ first \in Nat /\ last \in Nat
    BY <2>1, <2>3 DEF MemoryInv
  <2>5. PICK range : range = [first |-> first, last |-> last]
    OBVIOUS
  <2>6. range # NULL /\ range.first = first /\ range.last = last
    BY <2>4, <2>5, RangeFields
  <2>7. PICK kind : kind = IF first = BlockEnd THEN "BOF" ELSE AccessType(data)
    OBVIOUS
  <2>8. v = Verdict(kind, range)
    BY <1>4, <1>6, <2>2, <2>5, <2>7 DEF CorruptionVerdict
  <2>9. v.kind = kind /\ v.corruption = range
    BY <2>8, VerdictFields
  <2>10. /\ kind \in {"UnknownVerifierError", "OOBW", "WAF", "BOF"}
         /\ kind = "BOF" => first = BlockEnd
         /\ kind = "WAF" => freed
    BY <1>1, <1>2, <2>7
  <2>11. {first, last} \subseteq Visible /\ Visible \subseteq first .. last
    <3>1. Visible \subseteq first .. last
      BY <2>3, <2>4, IsInRange
    <3> QED
      BY <2>3, <3>1
  <2>12. first = BlockEnd => \A a \in Visible : a >= BlockEnd
    <3>1. \A a \in Visible : a >= first
      BY <2>3, <2>4
    <3> QED
      BY <3>1
  <2>13. v.kind \in Kinds
    BY <2>9, <2>10 DEF Kinds
  <2>14. VerdictIsTrue(v)
    <3>1. v.kind # "failed" /\ v.kind # "DoubleFree"
      BY <2>9, <2>10
    <3> QED
      BY <2>6, <2>9, <2>10, <2>11, <2>12, <3>1 DEF VerdictIsTrue
  <2> QED
    BY <2>13, <2>14
<1> QED
  BY <1>5, <1>6

\* An analysis of the block that fails is one of a freed block, or of one with nothing between its
\* headers.
LEMMA FailureIsKnown ==
  ASSUME MemoryInv, NEW a, FailsToRead(a)
  PROVE  freed \/ GapIsEmpty
<1>1. ~bAllocated(VirtualAllocation(block.virtual)) \/ GapIsEmpty
  BY DEF FailsToRead
<1>2. ~freed => bAllocated(VirtualAllocation(block.virtual))
  BY DEF MemoryInv, IsPageHeapBlock
<1> QED
  BY <1>1, <1>2

\* Nothing is said about a range of corrupted bytes.
LEMMA VerdictWithoutRange ==
  ASSUME NEW kind \in Kinds \ {"OOBW", "BOF"}, NEW v, v = Verdict(kind, NULL),
         kind = "failed" => freed \/ GapIsEmpty, kind \in {"DoubleFree", "WAF"} => freed
  PROVE  v.kind \in Kinds /\ VerdictIsTrue(v)
<1>1. v.kind = kind /\ v.corruption = NULL
  BY DEF Verdict
<1> QED
  BY <1>1 DEF VerdictIsTrue

\* What is reported for any message but the one that is ignored is true.
LEMMA VerdictForIsTrue ==
  ASSUME MemoryInv, StopInv, stop # NULL, stop.message # "NULL handle",
         NEW data, data = fo0GetPageHeapManagerData(stop.address), NEW v, v = VerdictFor(data)
  PROVE  v.kind \in Kinds /\ VerdictIsTrue(v)
<1>1. CASE FailsToRead(stop.address) \/ ReadsMissingAttribute(data)
  <2>1. v = Verdict("failed", NULL)
    BY <1>1 DEF VerdictFor
  <2>2. freed \/ GapIsEmpty
    BY <1>1, FailureIsKnown DEF ReadsMissingAttribute, StopInv
  <2>3. "failed" \in Kinds \ {"OOBW", "BOF"} /\ "failed" \notin {"DoubleFree", "WAF"}
    BY DEF Kinds
  <2> QED
    BY <2>1, <2>2, <2>3, VerdictWithoutRange
<1>2. CASE \E kind \in {"MisalignedFree", "WrongHeap"} : v = Verdict(kind, NULL)
  <2>1. \A kind \in {"MisalignedFree", "WrongHeap"} :
          kind \in Kinds \ {"OOBW", "BOF"} /\ kind \notin {"failed", "DoubleFree", "WAF"}
    BY DEF Kinds
  <2> QED
    BY <1>2, <2>1, VerdictWithoutRange
<1>3. CASE stop.message = "block already freed" /\ v = Verdict("DoubleFree", NULL)
  <2>1. freed
    BY <1>3 DEF StopInv
  <2>2. "DoubleFree" \in Kinds \ {"OOBW", "BOF"} /\ "DoubleFree" # "failed"
    BY DEF Kinds
  <2> QED
    BY <1>3, <2>1, <2>2, VerdictWithoutRange
<1>4. CASE /\ stop.message # "block already freed"
           /\ stop.message # "corrupted heap pointer or using wrong heap"
           /\ v = CorruptionVerdict(data)
  <2>1. stop.message \in StampMessages \cup CorruptionMessages \cup {"corrupted infix pattern"}
    BY <1>4 DEF StopInv, Messages
  <2> QED
    BY <1>4, <2>1, CorruptionVerdictIsTrue
<1> QED
  BY <1>1, <1>2, <1>3, <1>4 DEF VerdictFor

\* The messages of the verifier.
LEMMA FreeByMistakeKeepsStop ==
  ASSUME MemoryInv, pc = "running", pc' = pc, FreeByMistake
  PROVE  StopInv'
<1>1. freed' = freed /\ block' = block /\ modified' = modified
  BY DEF FreeByMistake, heapVars
<1>2. PICK p \in Pointers \cup {block.start}, isOwner \in BOOLEAN :
        stop' \in IF p # block.start THEN WrongPointer(p)
                  ELSE IF freed THEN FreedBlock ELSE WrongBlock(isOwner)
  BY DEF FreeByMistake
<1>3. block.start \in Addresses /\ p \in Addresses /\ uPageHeapBlockAddress \in Addresses
  BY VerifierStopAssumption DEF MemoryInv, Blocks
<1>4. ASSUME NEW a \in Addresses, stop' \in CorruptedStamps(a)
      PROVE  StopInv'
  <2>1. PICK text \in {"corrupted start stamp", "corrupted end stamp"} :
          stop' = [message |-> text, address |-> a, stamp |-> "unexpected", corruption |-> NULL]
    BY <1>4 DEF CorruptedStamps, Message
  <2>2. stop'.message = text /\ stop'.address = a /\ stop'.stamp = "unexpected"
    BY <2>1
  <2> QED
    BY <1>1, <2>2 DEF StopInv, Messages, StampMessages, CorruptionMessages
<1>5. ASSUME freed, stop' \in FreedBlock
      PROVE  StopInv'
  <2>1. /\ stop'.message \in {"block already freed", "corrupted start stamp"}
        /\ stop'.address \in Addresses
    <3>1. CASE \E a \in {block.start, uPageHeapBlockAddress} : stop' = Message("block already freed", a)
      <4>1. PICK a \in {block.start, uPageHeapBlockAddress} : stop' = Message("block already freed", a)
        BY <3>1
      <4>2. stop'.message = "block already freed" /\ stop'.address = a
        BY <4>1 DEF Message
      <4> QED
        BY <1>3, <4>1, <4>2
    <3>2. CASE stop' = [Message("corrupted start stamp", block.start) EXCEPT !.stamp = "freed"]
      BY <1>3, <3>2 DEF Message
    <3> QED
      BY <1>5, <3>1, <3>2 DEF FreedBlock
  <2> QED
    BY <1>1, <1>5, <2>1 DEF StopInv, Messages, StampMessages, CorruptionMessages
<1>6. ASSUME ~freed, NEW text \in CorruptionMessages, NEW corrupted,
             stop' \in CorruptedAt(text, corrupted)
      PROVE  StopInv'
  <2>1. stop'.message = text /\ stop'.address = block.start
    BY <1>6 DEF CorruptedAt, Message
  <2>2. text \notin {"block already freed", "corrupted infix pattern", "corrupted start stamp"}
    BY DEF CorruptionMessages
  <2> QED
    BY <1>1, <1>3, <1>6, <2>1, <2>2 DEF StopInv, Messages
<1>7. ASSUME stop' = Message("corrupted heap pointer or using wrong heap", block.start)
      PROVE  StopInv'
  <2>1. /\ stop'.message = "corrupted heap pointer or using wrong heap"
        /\ stop'.address = block.start
    BY <1>7 DEF Message
  <2> QED
    BY <1>1, <1>3, <2>1 DEF StopInv, Messages, StampMessages, CorruptionMessages
<1>8. ASSUME ~freed, stop' \in WrongBlock(isOwner)
      PROVE  StopInv'
  <2>1. \/ stop' = Message("corrupted heap pointer or using wrong heap", block.start)
        \/ stop' \in CorruptedStamps(block.start)
        \/ \E text \in CorruptionMessages, corrupted \in {{a \in modified : a >= BlockEnd},
             {a \in modified \ {StartStamp, EndStamp} : a < block.start}} :
             stop' \in CorruptedAt(text, corrupted)
    BY <1>8 DEF WrongBlock, CorruptionMessages
  <2> QED
    BY <1>3, <1>4, <1>6, <1>7, <1>8, <2>1
<1> QED
  BY <1>2, <1>3, <1>4, <1>5, <1>8 DEF WrongPointer

LEMMA StopForOtherReasonsKeepsStop ==
  ASSUME MemoryInv, pc = "running", pc' = pc, StopForOtherReasons
  PROVE  StopInv'
<1>1. freed' = freed /\ block' = block /\ block.start \in Addresses
  BY DEF StopForOtherReasons, heapVars, MemoryInv, Blocks
<1>2. \/ freed /\ stop' \in CorruptedAt("corrupted infix pattern", modified \cap BlockBytes)
      \/ stop' = Message("NULL handle", NULL)
  BY DEF StopForOtherReasons, CorruptedAt
<1>3. CASE freed /\ stop' \in CorruptedAt("corrupted infix pattern", modified \cap BlockBytes)
  <2>1. stop'.message = "corrupted infix pattern" /\ stop'.address = block.start
    BY <1>3 DEF CorruptedAt, Message
  <2> QED
    BY <1>1, <1>3, <2>1 DEF StopInv, Messages, StampMessages, CorruptionMessages
<1>4. CASE stop' = Message("NULL handle", NULL)
  <2>1. stop'.message = "NULL handle" /\ stop'.address = NULL
    BY <1>4 DEF Message
  <2> QED
    BY <2>1 DEF StopInv, Messages, StampMessages, CorruptionMessages
<1> QED
  BY <1>2, <1>3, <1>4

\* A step of the verifier or the detector.
LEMMA VerifierKeepsInv ==
  ASSUME HInv, VerifierStep
  PROVE  HInv'
<1>1. pc = "running" /\ UNCHANGED <<pc, access, avVars, cache>> /\ UNCHANGED heapVars
  BY DEF VerifierStep, VerifierNext, FreeByMistake, StopForOtherReasons,
     fCheckDebugOutputForVerifierStopMessage
<1>2. AccessInv' /\ AnalysisInv' /\ StartIsAllowed' /\ CacheInv' /\ ReportInv'
  BY <1>1, RunningKeepsInv
<1>3. /\ block' = block /\ freed' = freed /\ modified' = modified /\ memory' = memory /\ pc' = pc
  BY <1>1 DEF heapVars
<1>4. MemoryInv'
  <2>1. Surroundings' = Surroundings /\ BlockBytes' = BlockBytes /\ IsPageHeapBlock' = IsPageHeapBlock
    BY <1>3, LayoutIsKept
  <2> QED
    BY <1>3, <2>1 DEF HInv, MemoryInv
<1>5. MemoryInv
  BY DEF HInv
<1>6. CASE FreeByMistake \/ StopForOtherReasons
  <2>1. stop = NULL /\ verdict' = verdict
    BY <1>6 DEF FreeByMistake, StopForOtherReasons
  <2>2. VerdictInv'
    BY <2>1 DEF HInv, VerdictInv
  <2>3. StopInv'
    BY <1>1, <1>3, <1>5, <1>6, FreeByMistakeKeepsStop, StopForOtherReasonsKeepsStop
  <2> QED
    BY <1>2, <1>4, <2>2, <2>3 DEF HInv
<1>7. CASE fCheckDebugOutputForVerifierStopMessage
  <2>1. stop # NULL /\ verdict = NULL
    BY <1>7 DEF fCheckDebugOutputForVerifierStopMessage
  <2>2. CASE stop.message = "NULL handle"
    <3>1. stop' = NULL /\ verdict' = verdict
      BY <1>7, <2>2 DEF fCheckDebugOutputForVerifierStopMessage
    <3> QED
      BY <1>2, <1>4, <2>1, <3>1 DEF HInv, StopInv, VerdictInv
  <2>3. CASE stop.message # "NULL handle"
    <3>1. stop' = stop /\ verdict' = VerdictFor(fo0GetPageHeapManagerData(stop.address))
      BY <1>7, <2>3 DEF fCheckDebugOutputForVerifierStopMessage
    <3>2. PICK data : data = fo0GetPageHeapManagerData(stop.address)
      OBVIOUS
    <3>3. PICK v : v = verdict'
      OBVIOUS
    <3>4. v = VerdictFor(data)
      BY <3>1, <3>2, <3>3
    <3>5. v.kind \in Kinds /\ VerdictIsTrue(v)
      BY <1>5, <2>1, <2>3, <3>2, <3>4, VerdictForIsTrue DEF HInv
    <3>6. StopInv'
      BY <1>3, <3>1 DEF HInv, StopInv
    <3>7. /\ GapIsEmpty' = GapIsEmpty /\ BlockEnd' = BlockEnd /\ Visible' = Visible
      BY <1>1, <1>3, BlockIsKept DEF Visible
    <3>8. VerifierVerdictIsTrue'
      BY <1>3, <3>3, <3>5, <3>7 DEF VerifierVerdictIsTrue, VerdictIsTrue
    <3>9. VerdictInv'
      BY <2>1, <3>1, <3>3, <3>5, <3>8 DEF VerdictInv
    <3> QED
      BY <1>2, <1>4, <3>6, <3>9 DEF HInv
  <2> QED
    BY <2>2, <2>3
<1> QED
  BY <1>6, <1>7 DEF VerifierStep, VerifierNext

-----------------------------------------------------------------------------
(* The specification.                                                      *)

\* Every step keeps the invariant.
LEMMA HInvStep == HInv /\ [HeapNext]_allVars => HInv'
<1> SUFFICES ASSUME HInv, [HeapNext]_allVars PROVE HInv'
  OBVIOUS
<1>1. CASE AccessStep
  <2>1. stop = NULL /\ Next /\ UNCHANGED verifierVars
    BY <1>1 DEF AccessStep
  <2> QED
    BY <2>1, AccessKeepsInv, WriteKeepsInv, FreeKeepsInv, AnalysisKeepsInv, UpdateReportKeepsInv,
       ResumeKeepsInv DEF Next
<1>2. CASE VerifierStep
  BY <1>2, VerifierKeepsInv
<1>3. CASE UNCHANGED allVars
  <2>1. /\ UNCHANGED heapVars /\ block' = block /\ freed' = freed /\ modified' = modified
        /\ memory' = memory /\ pc' = pc /\ access' = access
        /\ sViolationTypeId' = sViolationTypeId
        /\ uAccessViolationAddress' = uAccessViolationAddress
        /\ handler' = handler /\ report' = report /\ fIgnoreException' = fIgnoreException
        /\ cache' = cache /\ stop' = stop /\ verdict' = verdict
    BY <1>3 DEF allVars, vars, heapVars, avVars, verifierVars
  <2>2. MemoryInv'
    <3>1. Surroundings' = Surroundings /\ BlockBytes' = BlockBytes /\ IsPageHeapBlock' = IsPageHeapBlock
      BY <2>1, LayoutIsKept
    <3> QED
      BY <2>1, <3>1 DEF HInv, MemoryInv
  <2>3. AccessInv'
    BY <2>1 DEF HInv, AccessInv, DeniedAddresses, Denies, StateAt, Records
  <2>4. AnalysisInv'
    <3>1. AnalysisFails' = AnalysisFails /\ Result' = Result
      BY <2>1 DEF AnalysisFails, Result, TypeAndAddress, ShownAddress, StackWriteAddress,
         StackReadAddress
    <3> QED
      BY <2>1, <3>1 DEF HInv, AnalysisInv, Analyzed, Address
  <2>5. StartIsAllowed'
    BY <2>1 DEF HInv, StartIsAllowed, StateAt, Prevents, Address
  <2>6. CacheInv'
    BY <2>1, HeapDataIsKept DEF HInv, CacheInv
  <2>7. ReportInv'
    <3>1. BlamedAllocationDeniesAccess'
      BY <2>1 DEF HInv, ReportInv, BlamedAllocationDeniesAccess, IsClear, DeniedAddresses, StateAt
    <3>2. /\ BlockEnd' = BlockEnd /\ BlockBytes' = BlockBytes /\ HeapField' = HeapField
          /\ StartStamp' = StartStamp /\ EndStamp' = EndStamp /\ Address' = Address
      BY <2>1, BlockIsKept DEF Address
    <3>3. HeapVerdictIsTrue'
      BY <2>1, <3>2 DEF HInv, ReportInv, HeapVerdictIsTrue
    <3> QED
      BY <2>1, <3>1, <3>3 DEF HInv, ReportInv
  <2>8. StopInv'
    BY <2>1 DEF HInv, StopInv
  <2>9. VerdictInv'
    <3>1. /\ GapIsEmpty' = GapIsEmpty /\ BlockEnd' = BlockEnd /\ Visible' = Visible
      BY <2>1, BlockIsKept DEF Visible
    <3> QED
      BY <2>1, <3>1 DEF HInv, VerdictInv, VerifierVerdictIsTrue
  <2> QED
    BY <2>2, <2>3, <2>4, <2>5, <2>6, <2>7, <2>8, <2>9 DEF HInv
<1> QED
  BY <1>1, <1>2, <1>3 DEF HeapNext

\* The invariant holds in every reachable state.
LEMMA SpecHInv == HeapSpec => []HInv
<1>1. HeapInit => HInv
  BY HInvInit
<1>2. HInv /\ [HeapNext]_allVars => HInv'
  BY HInvStep
<1> QED
  BY <1>1, <1>2, PTL DEF HeapSpec

\* The variables have their types: the stack pointer wraps around at the end of the address space,
\* the value that is read instead of what was freed is in the allocation, and only what is known
\* about the block now is cached.
THEOREM SpecHeapTypeOK == HeapSpec => []HeapTypeOK
<1>1. HInv => HeapTypeOK
  <2> SUFFICES ASSUME HInv PROVE HeapTypeOK
    OBVIOUS
  <2>1. /\ \E layout \in Layouts : block = layout.block
        /\ memory \in [Pages -> States] /\ freed \in BOOLEAN
        /\ modified \subseteq Surroundings \cup BlockBytes
    BY DEF HInv, MemoryInv
  <2>2. /\ pc \in {"running", "analyzing", "handling", "reported", "failed"}
        /\ IF pc = "running" THEN access = NULL ELSE access \in Accesses
        /\ sViolationTypeId \in Types \cup {NULL}
        /\ uAccessViolationAddress \in Addresses \cup {NULL}
    BY DEF HInv, AnalysisInv, AccessInv, Address
  <2>3. /\ handler \in 0 .. 9
        /\ (report = Nothing) <=> (pc # "reported")
        /\ fIgnoreException \in {NULL} \cup [original : Addresses \cup {NULL}]
    BY DEF HInv, ReportInv
  <2>4. cache \subseteq [address : Addresses, data : {NULL, HeapManagerData}]
    <3>1. \A a : fo0GetPageHeapManagerData(a) \in {NULL, HeapManagerData}
      BY FoundData
    <3>2. ASSUME NEW a \in Addresses
          PROVE  [address |-> a, data |-> fo0GetPageHeapManagerData(a)] \in
                   [address : Addresses, data : {NULL, HeapManagerData}]
      BY <3>1
    <3> QED
      BY <3>2 DEF HInv, CacheInv
  <2>5. TypeOK
    BY <2>1, <2>2, <2>3, <2>4 DEF TypeOK
  <2>6. /\ stop = NULL \/ stop.address \in Addresses \cup {NULL}
        /\ (verdict = NULL) \/ verdict.kind \in Kinds
        /\ (stop # NULL) => pc = "running"
    BY DEF HInv, StopInv, VerdictInv
  <2> QED
    BY <2>5, <2>6 DEF HeapTypeOK
<1> QED
  BY <1>1, SpecHInv, PTL

\* However wrong the exception record is, the type and address that are found are those of the
\* access that failed.
THEOREM SpecAccessIsNotMisread == HeapSpec => []AccessIsNotMisread
<1>1. HInv => AccessIsNotMisread
  BY ResultIsRight DEF HInv, AccessIsNotMisread, Address
<1> QED
  BY <1>1, SpecHInv, PTL

\* An allocation is blamed only if it denies the access.
THEOREM SpecBlamedAllocationDeniesAccess == HeapSpec => []BlamedAllocationDeniesAccess
<1>1. HInv => BlamedAllocationDeniesAccess
  BY DEF HInv, ReportInv
<1> QED
  BY <1>1, SpecHInv, PTL

\* What is said about a heap block for an access violation is true when it is said.
THEOREM SpecHeapVerdictIsTrue == HeapSpec => []HeapVerdictIsTrue
<1>1. HInv => HeapVerdictIsTrue
  BY DEF HInv, ReportInv
<1> QED
  BY <1>1, SpecHInv, PTL

\* What is said about a heap block for a verifier stop is true, whatever the message blames.
THEOREM SpecVerifierVerdictIsTrue == HeapSpec => []VerifierVerdictIsTrue
<1>1. HInv => VerifierVerdictIsTrue
  BY DEF HInv, VerdictInv, VerifierVerdictIsTrue
<1> QED
  BY <1>1, SpecHInv, PTL
=============================================================================
