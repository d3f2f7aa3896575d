----------------------------- MODULE MCGrading -----------------------------
(* Model values for the grader: three workers, so that one can be ahead of *)
(* the slowest and another behind the fastest; two timed runs, so that     *)
(* there are phases of each kind and two alike, one after another.         *)
EXTENDS Grader
CONSTANTS w1, w2, w3
MCWorkers == {w1, w2, w3}
MCThrowIn == {"init", "run"}
MCThrowInCheck == {"check"}
=============================================================================
