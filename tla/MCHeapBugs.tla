------------------------------ MODULE MCHeapBugs ------------------------------
EXTENDS HeapBugs, TLC

\* Ten pages: the first is never allocated, the last one is invalid.  The block and what follows
\* it are in pages 2 and 3, the stack is in page 4, and data and other memory after it.
Memory(code, after, above, data, other) ==
  (0 :> "Free" @@ 1 :> code @@ 2 :> "ReadWrite" @@ 3 :> after @@ 4 :> "ReadWrite" @@ 5 :> above
   @@ 6 :> data @@ 7 :> other @@ 8 :> "Free" @@ 9 :> "Invalid")

Block(start, size, header) == [start |-> start, size |-> size, virtual |-> 16, header |-> header]

\* A block with and without padding after it, a block with the allocation header in the page
\* before it, and a block that is followed by memory that is not reserved.
MCLayouts ==
  { [memory |-> Memory("ExecRead", "Reserved", "Guard", "ReadWrite", "ReadOnly"),
     block |-> Block(21, 2, 16)],
    [memory |-> Memory("Exec", "Reserved", "Invalid", "Full", "NoAccess"),
     block |-> Block(21, 3, 16)],
    [memory |-> Memory("ReadOnly", "Reserved", "Reserved", "Full", "Reserved"),
     block |-> Block(20, 3, 8)],
    [memory |-> Memory("Full", "NoAccess", "Free", "ExecRead", "Free"),
     block |-> Block(21, 1, 16)],
    [memory |-> Memory("ReadOnly", "Reserved", "ReadWrite", "ReadWrite", "Exec"),
     block |-> Block(19, 4, 8)] }
=============================================================================
