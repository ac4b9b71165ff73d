----------------------------- MODULE MCSIDKernel -----------------------------
EXTENDS SIDKernel
=============================================================================
