----------------------------- MODULE MCBatcher -----------------------------
(* Model values for the batcher: four threads, so that an epoch can have   *)
(* two running transactions while two others wait for the next one.        *)
EXTENDS Batcher
CONSTANTS t1, t2, t3, t4
MCThreads == {t1, t2, t3, t4}
=============================================================================
