--------------------------- MODULE ExampleThreads ---------------------------
(***************************************************************************)
(* What the programs of sync-examples share: the lock of lock.c, and the   *)
(* threads that main creates and joins, each repeating a body for RUNS     *)
(* rounds.  A behaviour is a run of one program, the value of `program'.   *)
(*                                                                         *)
(* The Makefile sets no optimisation, so a plain int is read and written   *)
(* by one instruction each time the source says so: a data race of the     *)
(* "incorrect" programs is an interleaving of those.                       *)
(***************************************************************************)
EXTENDS Integers, FiniteSets

CONSTANTS
    THREADS,          \* as the programs define it
    RUNS              \* rounds of each thread (bound: 2^20 or 4096 in the code)

ASSUME THREADSAssumption == THREADS \in Nat \ {0, 1}
ASSUME RUNSAssumption == RUNS \in Nat \ {0, 1}

VARIABLES
    program,          \* the executable that runs
    pc,               \* the next step of each thread, "end" when it returned
    round,            \* its variable r
    mutex,            \* the thread that holds lock.mutex, or Free
    cv                \* the threads asleep on lock.cv

threadVars == <<program, pc, round, mutex, cv>>

Threads == 1 .. THREADS
Free == 0             \* nobody holds the mutex

GoTo(t, step) == pc' = [pc EXCEPT ![t] = step]
----------------------------------------------------------------------------
(* lock.c                                                                  *)

lock_init == mutex = Free /\ cv = {}

lock_acquire(t) ==
    /\ mutex = Free
    /\ mutex' = t
    /\ UNCHANGED cv

lock_release(t) == mutex' = Free /\ UNCHANGED cv

\* mutant: the sleeper keeps the mutex
lock_waitHolding(t) == cv' = cv \cup {t} /\ UNCHANGED mutex

lock_wait(t) == mutex' = Free /\ cv' = cv \cup {t}

lock_wake_up == cv' = {} /\ UNCHANGED mutex
----------------------------------------------------------------------------
(* main starts the threads at the first step of their function ...         *)
Launch(name, threads, first) ==
    /\ program = name
    /\ lock_init
    /\ pc = [t \in Threads |-> IF t \in threads THEN first ELSE "end"]
    /\ round = [t \in Threads |-> 0]

(* ... and joins them all before it looks at what they did                 *)
Joined == \A t \in Threads : pc[t] = "end"

(* the end of a round: the for loop goes to its first step, or returns     *)
NextRound(t, first) ==
    /\ round' = [round EXCEPT ![t] = @ + 1]
    /\ GoTo(t, IF round[t] + 1 = RUNS THEN "end" ELSE first)
=============================================================================
