------------------------------ MODULE MCMemory ------------------------------
(* Model values for the memory: three threads give epochs of one and of    *)
(* two transactions (the first epoch always has one; the two threads it    *)
(* kept waiting form the next).                                            *)
EXTENDS DualVersionedMemory, TLC
CONSTANTS t1, t2, t3
MCThreads == {t1, t2, t3}
MCValues == {0, 1}
ThreadSymmetry == Permutations(MCThreads)
=============================================================================
