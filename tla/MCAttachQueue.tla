--------------------------- MODULE MCAttachQueue ---------------------------
EXTENDS AttachQueue, TLC
=============================================================================
