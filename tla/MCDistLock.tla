----------------------------- MODULE MCDistLock -----------------------------
EXTENDS DistLock

CONSTANTS a, b, c
=============================================================================
