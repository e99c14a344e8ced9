-------------------------------- MODULE HeapBugs --------------------------------
(***************************************************************************)
(* An application with a bug in its use of a heap block, and the two ways  *)
(* in which the bug is found: an access violation (AccessViolation), which *)
(* may be ignored so that the application goes on, and a verifier stop     *)
(* when the block is freed (VerifierStop), after which the session ends.   *)
(* Both look at the memory that the earlier mistakes have left.            *)
(***************************************************************************)
EXTENDS AccessViolation, VerifierStop

allVars == <<vars, verifierVars>>

AccessStep == stop = NULL /\ Next /\ UNCHANGED verifierVars

VerifierStep ==
  /\ pc = "running"
  /\ VerifierNext
  /\ UNCHANGED <<pc, access, avVars, cache>>

HeapInit == Init /\ VerifierInit
HeapNext == AccessStep \/ VerifierStep
HeapSpec == HeapInit /\ [][HeapNext]_allVars

-----------------------------------------------------------------------------
(* Properties.                                                             *)

Kinds == {"MisalignedFree", "DoubleFree", "WrongHeap", "UnknownVerifierError", "OOBW", "WAF",
          "BOF", "failed"}

HeapTypeOK ==
  /\ TypeOK
  /\ stop = NULL \/ stop.address \in Addresses \cup {NULL}
  /\ (verdict = NULL) \/ verdict.kind \in Kinds
  /\ (stop # NULL) => pc = "running"

\* What was overwritten where it can be seen.
Visible == modified \ ({HeapField} \cup BlockBytes)

\* A mistake with a block that was not freed before is reported, unless nothing is between its
\* headers: "report them before stopping cdb" (cVerifierStopDetector.py:27).  What is said of the
\* corruption is what the application did to the memory, whatever the message blames: the range
\* starts and ends with a byte that was overwritten and has all of them, or none can be seen, as
\* when the header that leads to the block is overwritten.  A buffer overrun starts at the end of
\* the block.  That a block was freed is true (cVerifierStopDetector.py:312-340).
VerifierVerdictIsTrue ==
  verdict # NULL =>
    /\ verdict.kind = "failed" => freed \/ GapIsEmpty
    /\ verdict.kind \in {"OOBW", "BOF"} /\ verdict.corruption = NULL =>
         Visible = {} \/ block.header \in modified
    /\ verdict.corruption # NULL =>
         /\ {verdict.corruption.first, verdict.corruption.last} \subseteq Visible
         /\ Visible \subseteq verdict.corruption.first .. verdict.corruption.last
    /\ verdict.kind = "BOF" => \A a \in Visible : a >= BlockEnd
    /\ verdict.kind \in {"DoubleFree", "WAF"} => freed

=============================================================================
