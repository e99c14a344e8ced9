--------------------------- MODULE MCCollateralBugs ---------------------------
EXTENDS CollateralBugs

\* -1 is an answer for any size, 21840 is near the poisoned address of an x64 process and only
\* allowed for 8 bytes.
MCAnswers == {-1, 21840}

\* The first value is not the poison of any process.
MCPoisonValues == <<9>>

\* On the poisoned address, at both ends of the page on either side, and beyond.
MCOffsets == {-4, -3, 0, 3, 4}
===============================================================================
