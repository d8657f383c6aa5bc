--------------------------- MODULE MCSlsForwarder ---------------------------
EXTENDS SlsForwarder
=============================================================================
