----------------------------- MODULE MCSndScheduler -----------------------------
EXTENDS SndScheduler, TLC

\* The sockets are interchangeable in what is not a liveness property.
Interchangeable == Permutations(Sock)
=============================================================================
