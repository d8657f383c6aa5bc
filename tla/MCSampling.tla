----------------------------- MODULE MCSampling -----------------------------
EXTENDS Sampling
=============================================================================
