----------------------------- MODULE MCRecvData -----------------------------
EXTENDS RecvData
=============================================================================
