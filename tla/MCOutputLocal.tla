--------------------------- MODULE MCOutputLocal ---------------------------
EXTENDS OutputLocal
=============================================================================
