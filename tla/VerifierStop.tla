------------------------------ MODULE VerifierStop ------------------------------
(***************************************************************************)
(* cVerifierStopDetector: Application Verifier stops an application that   *)
(* frees a heap block it may not free, or one it has corrupted, and prints *)
(* a message.  The detector reads the message, looks at the heap block     *)
(* itself (PageHeap), and reports what is wrong, as "we cannot trust the   *)
(* information in the VERIFIER STOP message".                              *)
(*                                                                         *)
(* What the messages say of a mistake is not in the code: it is taken from *)
(* the comments in the detector and from the tests.                        *)
(*                                                                         *)
(* Left out: the format of the message, the memory dump and remarks,       *)
(* descriptions, security impacts, and sizes and offsets in the id.        *)
(***************************************************************************)
EXTENDS PageHeap

CONSTANTS
  Pointers,              \* bound: what the application frees by mistake
  uPageHeapBlockAddress  \* where the heap has the description of the block

ASSUME VerifierStopAssumption ==
  /\ Pointers \cup {uPageHeapBlockAddress} \subseteq Addresses
  /\ NULL \notin [first : Addresses, last : Addresses]

VARIABLES
  stop,      \* the message of the verifier, NULL if there is none
  verdict    \* what is reported, NULL if nothing is

verifierVars == <<stop, verdict>>

-----------------------------------------------------------------------------
(* The application and its verifier.                                       *)

Message(text, address) ==
  [message |-> text, address |-> address, stamp |-> NULL, corruption |-> NULL]
CorruptedAt(text, corrupted) ==
  {[Message(text, block.start) EXCEPT !.corruption = a] : a \in corrupted}
CorruptedStamps(address) ==
  {[Message(text, address) EXCEPT !.stamp = "unexpected"] :
     text \in {"corrupted start stamp", "corrupted end stamp"}}

\* That a pointer is wrong is not detected: the stamps are looked for next to it.
WrongPointer(p) == CorruptedStamps(p)

\* A freed block may be described by the address of its description, and the verifier may complain
\* about the stamp of a freed block.
FreedBlock ==
  {Message("block already freed", a) : a \in {block.start, uPageHeapBlockAddress}} \cup
  {[Message("corrupted start stamp", block.start) EXCEPT !.stamp = "freed"]}

\* Any of the mistakes may be the one that is found.  The wrong stamp may be blamed.
WrongBlock(isOwner) ==
  LET stamps == {StartStamp, EndStamp}
  IN UNION
       { IF isOwner /\ HeapField \notin modified THEN {}
           ELSE {Message("corrupted heap pointer or using wrong heap", block.start)},
         IF modified \cap stamps = {} THEN {} ELSE CorruptedStamps(block.start),
         CorruptedAt("corrupted suffix pattern", {a \in modified : a >= BlockEnd}),
         CorruptedAt("corrupted header", {a \in modified \ stamps : a < block.start}) }

\* The application frees a block: a pointer near it, twice, to another heap than its own, or after
\* it corrupted it.
FreeByMistake ==
  /\ stop = NULL
  /\ \E p \in Pointers \cup {block.start}, isOwner \in BOOLEAN :
       stop' \in IF p # block.start THEN WrongPointer(p)
                 ELSE IF freed THEN FreedBlock ELSE WrongBlock(isOwner)
  /\ UNCHANGED <<heapVars, verdict>>

\* A block that was kept is released, or a NULL handle is used, which is not a bug of the heap.
StopForOtherReasons ==
  /\ stop = NULL
  /\ stop' \in CorruptedAt("corrupted infix pattern", IF freed THEN modified \cap BlockBytes ELSE {})
               \cup {Message("NULL handle", NULL)}
  /\ UNCHANGED <<heapVars, verdict>>

-----------------------------------------------------------------------------
(* The detector.                                                           *)

Verdict(kind, range) == [kind |-> kind, corruption |-> range]

IsStamp == stop.message \in {"corrupted start stamp", "corrupted end stamp"}

\* What is corrupted according to the message.
AccessType(data) ==
  CASE IsStamp -> IF data = NULL THEN "UnknownVerifierError" ELSE "OOBW"
    [] stop.message \in {"corrupted suffix pattern", "corrupted header"} -> "OOBW"
    [] stop.message = "corrupted infix pattern" -> "WAF"

\* Mutant: the range is that of the message.
CorruptionVerdictOfMessage(data) ==
  IF data = NULL \/ data.corrupted = {} \/ stop.corruption = NULL
  THEN Verdict(AccessType(data), NULL)
  ELSE Verdict(IF stop.corruption = data.end THEN "BOF" ELSE AccessType(data),
               [first |-> stop.corruption, last |-> Max(data.corrupted)])

\* What is found in the block goes before what the message says.
CorruptionVerdict(data) ==
  IF data = NULL \/ data.corrupted = {} THEN Verdict(AccessType(data), NULL)
  ELSE Verdict(IF Min(data.corrupted) = data.end THEN "BOF" ELSE AccessType(data),
               [first |-> Min(data.corrupted), last |-> Max(data.corrupted)])

\* An attribute that page heap data does not have is used for the stamp of a freed block.
ReadsMissingAttribute(data) ==
  data # NULL /\ stop.message = "corrupted start stamp" /\ stop.stamp = "freed"

VerdictFor(data) ==
  IF FailsToRead(stop.address) \/ ReadsMissingAttribute(data) THEN Verdict("failed", NULL)
  ELSE IF IsStamp /\ data # NULL /\ data.start # stop.address THEN Verdict("MisalignedFree", NULL)
  ELSE IF stop.message = "block already freed" THEN Verdict("DoubleFree", NULL)
  ELSE IF stop.message = "corrupted heap pointer or using wrong heap"
  THEN Verdict("WrongHeap", NULL)
  ELSE CorruptionVerdict(data)

\* One message is ignored and the application goes on.  All others are reported, and the session
\* is stopped.
fCheckDebugOutputForVerifierStopMessage ==
  /\ stop # NULL /\ verdict = NULL
  /\ IF stop.message = "NULL handle"
     THEN stop' = NULL /\ UNCHANGED verdict
     ELSE verdict' = VerdictFor(fo0GetPageHeapManagerData(stop.address)) /\ UNCHANGED stop
  /\ UNCHANGED heapVars

-----------------------------------------------------------------------------
VerifierInit == stop = NULL /\ verdict = NULL

VerifierNext ==
  \/ FreeByMistake
  \/ StopForOtherReasons
  \/ fCheckDebugOutputForVerifierStopMessage

=============================================================================
