---------------------------- MODULE MCSemaphore ----------------------------
EXTENDS Semaphore, TLC

Requests  == Permutations(Request)
Providers == Permutations(Provider)
Symmetry  == Requests \cup Providers
=============================================================================
