----------------------------- MODULE MCHistory -----------------------------
(* Model values for the history: four threads give epochs of up to three   *)
(* transactions, and two running ones while two others wait.  One word is  *)
(* enough for them to meet at, and one value: nothing that is observed     *)
(* here depends on what a word holds.  Epochs are numbered modulo two, so  *)
(* that a step which ends one is seen.                                     *)
EXTENDS EpochHistory, TLC
CONSTANTS t1, t2, t3, t4
MCThreads == {t1, t2, t3, t4}
MCValues == {0}
ThreadSymmetry == Permutations(MCThreads)
=============================================================================
