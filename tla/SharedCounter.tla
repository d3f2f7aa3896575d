---------------------------- MODULE SharedCounter ----------------------------
(***************************************************************************)
(* counter1.c to counter4.c: THREADS threads increment one counter RUNS    *)
(* times each, without synchronisation (1), under a lock (2), with atomic  *)
(* loads and stores (3), with an atomic fetch-and-add (4).                 *)
(***************************************************************************)
EXTENDS ExampleThreads

VARIABLES
    counter,
    copy              \* each thread's register between its read and its write

counterVars == <<counter, copy>>

CounterStart == counter = 0 /\ copy = [t \in Threads |-> 0]

counter1_main == Launch("counter1", Threads, "read")
counter2_main == Launch("counter2", Threads, "acquire")
counter3_main == Launch("counter3", Threads, "read")
counter4_main == Launch("counter4", Threads, "add")

CounterLaunch == counter1_main \/ counter2_main \/ counter3_main \/ counter4_main
----------------------------------------------------------------------------
(* an increment that is not atomic: a read, then a write of the sum        *)
ReadCounter(t) ==
    /\ pc[t] = "read"
    /\ copy' = [copy EXCEPT ![t] = counter]
    /\ GoTo(t, "write")
    /\ UNCHANGED <<counter, round, mutex, cv>>

WriteCounter(t) == pc[t] = "write" /\ counter' = copy[t] + 1 /\ UNCHANGED copy

counter1_count(t) ==
    /\ program = "counter1"
    /\ \/ ReadCounter(t)
       \/ WriteCounter(t) /\ NextRound(t, "read") /\ UNCHANGED <<mutex, cv>>

\* mutant: the lock is not taken around the increment
counter2_countUnlocked(t) ==
    /\ program = "counter2"
    /\ \/ pc[t] = "acquire" /\ GoTo(t, "read") /\ UNCHANGED <<round, counterVars, mutex, cv>>
       \/ ReadCounter(t)
       \/ WriteCounter(t) /\ NextRound(t, "acquire") /\ UNCHANGED <<mutex, cv>>

counter2_count(t) ==
    /\ program = "counter2"
    /\ \/ /\ pc[t] = "acquire"
          /\ lock_acquire(t)
          /\ GoTo(t, "read")
          /\ UNCHANGED <<round, counterVars>>
       \/ ReadCounter(t)
       \/ WriteCounter(t) /\ GoTo(t, "release") /\ UNCHANGED <<round, mutex, cv>>
       \/ /\ pc[t] = "release"
          /\ lock_release(t)
          /\ NextRound(t, "acquire")
          /\ UNCHANGED counterVars

\* mutant: the write forgets to add one
counter3_countStale(t) ==
    /\ program = "counter3"
    /\ \/ ReadCounter(t)
       \/ /\ pc[t] = "write"
          /\ counter' = copy[t]
          /\ NextRound(t, "read")
          /\ UNCHANGED <<copy, mutex, cv>>

counter3_count(t) ==
    /\ program = "counter3"
    /\ \/ ReadCounter(t)
       \/ WriteCounter(t) /\ NextRound(t, "read") /\ UNCHANGED <<mutex, cv>>

counter4_count(t) ==
    /\ program = "counter4"
    /\ pc[t] = "add"
    /\ counter' = counter + 1
    /\ NextRound(t, "add")
    /\ UNCHANGED <<copy, mutex, cv>>

CounterStep(t) ==
    counter1_count(t) \/ counter2_count(t) \/ counter3_count(t) \/ counter4_count(t)
----------------------------------------------------------------------------
(* "Correct": what main checks once it has joined the threads of counter2  *)
(* and counter4; no increment is lost.                                     *)
ExactCount ==
    Joined /\ program \in {"counter2", "counter4"} => counter = RUNS * THREADS

(* "Incorrect": how wrong counter1 and counter3 can be.  Increments are    *)
(* lost, down to two of them all (a thread writes back the copy it took    *)
(* before everything else happened, and another adds one to that), and     *)
(* none is invented.                                                       *)
LostIncrements ==
    Joined /\ program \in {"counter1", "counter3"} => counter \in 2 .. RUNS * THREADS
=============================================================================
