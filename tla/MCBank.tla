------------------------------- MODULE MCBank -------------------------------
(* Settings of the bank workload for TLC: see the README.                  *)
EXTENDS Bank, TLC

CONSTANTS w1, w2, w3

MCWorkers == {w1, w2, w3}
AnyWorkers == Permutations(MCWorkers)    \* where First plays no part

On(library, phase, workers, txs, accounts, balance, kinds, triggers) ==
    [library |-> library, phase |-> phase, workers |-> workers, nbtxperwrk |-> txs,
     nbaccounts |-> accounts, init_balance |-> balance, kinds |-> kinds,
     triggers |-> triggers]

MCSettings ==
    { On("reference", "run", {w1, w2}, 2, 1, 1, {"long", "alloc", "short"}, {0, 9}),
      On("reference", "run", {w1, w2}, 2, 3, 1, {"alloc", "short"}, {2}),
      On("reference", "run", MCWorkers, 1, 2, 1, {"long", "short"}, {}),
      On("reference", "init", MCWorkers, 1, 3, 1, {"long"}, {}),
      On("reference", "check", MCWorkers, 2, 3, 1, {"long"}, {}),
      On("dual-versioned", "run", MCWorkers, 1, 2, 1, {"short"}, {}),
      On("dual-versioned", "init", MCWorkers, 1, 2, 1, {"long"}, {}),
      On("dual-versioned", "check", MCWorkers, 1, 2, 1, {"long"}, {}) }

MCSkewSettings ==
    { On("dual-versioned", "run", MCWorkers, 1, 3, 1, {"alloc", "short"}, {2}) }
=============================================================================
