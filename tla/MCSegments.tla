----------------------------- MODULE MCSegments -----------------------------
(* Model values for the segment table.                                     *)
EXTENDS SegmentTable, TLC
CONSTANTS t1, t2, t3
MCThreads == {t1, t2, t3}
ThreadSymmetry == Permutations(MCThreads)
=============================================================================
