--------------------------- MODULE MCCdbInterrupt ---------------------------
EXTENDS CdbInterrupt, TLC
=============================================================================
