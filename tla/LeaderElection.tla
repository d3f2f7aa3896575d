--------------------------- MODULE LeaderElection ---------------------------
(***************************************************************************)
(* election1.c to election4.c: in each round every thread tries to become  *)
(* the leader, without synchronisation (1), under a lock (2), with atomic  *)
(* loads and stores (3), with an atomic compare-and-swap (4).              *)
(***************************************************************************)
EXTENDS ExampleThreads

VARIABLES leader, nb_leaders       \* by round

electionVars == <<leader, nb_leaders>>

Rounds == 0 .. RUNS - 1
NoLeader == 0

ElectionStart ==
    /\ leader = [r \in Rounds |-> NoLeader]
    /\ nb_leaders = [r \in Rounds |-> 0]

election1_main == Launch("election1", Threads, "test")
election2_main == Launch("election2", Threads, "acquire")
election3_main == Launch("election3", Threads, "test")
election4_main == Launch("election4", Threads, "swap")

ElectionLaunch == election1_main \/ election2_main \/ election3_main \/ election4_main
----------------------------------------------------------------------------
(* the test of the round's leader, when it finds none ...                  *)
FindsNone(t) ==
    /\ pc[t] = "test"
    /\ leader[round[t]] = NoLeader
    /\ GoTo(t, "claim")
    /\ UNCHANGED <<round, electionVars, mutex, cv>>

(* ... and when it finds one                                               *)
FindsLeader(t) ==
    /\ pc[t] = "test"
    /\ leader[round[t]] # NoLeader
    /\ UNCHANGED <<electionVars, mutex, cv>>

\* mutant: threads are numbered from 0, which is also "no leader"
ClaimZeroBased(t) ==
    /\ pc[t] = "claim"
    /\ leader' = [leader EXCEPT ![round[t]] = t - 1]
    /\ GoTo(t, "count")
    /\ UNCHANGED <<round, nb_leaders, mutex, cv>>

Claim(t) ==
    /\ pc[t] = "claim"
    /\ leader' = [leader EXCEPT ![round[t]] = t]
    /\ GoTo(t, "count")
    /\ UNCHANGED <<round, nb_leaders, mutex, cv>>

CountLeader(t) ==
    /\ pc[t] = "count"
    /\ nb_leaders' = [nb_leaders EXCEPT ![round[t]] = @ + 1]
    /\ UNCHANGED <<leader, mutex, cv>>

election1_elect(t) ==
    /\ program = "election1"
    /\ \/ FindsNone(t)
       \/ FindsLeader(t) /\ NextRound(t, "test")
       \/ Claim(t)
       \/ CountLeader(t) /\ NextRound(t, "test")

election2_elect(t) ==
    /\ program = "election2"
    /\ \/ /\ pc[t] = "acquire"
          /\ lock_acquire(t)
          /\ GoTo(t, "test")
          /\ UNCHANGED <<round, electionVars>>
       \/ FindsNone(t)
       \/ FindsLeader(t) /\ GoTo(t, "release") /\ UNCHANGED round
       \/ Claim(t)
       \/ CountLeader(t) /\ GoTo(t, "release") /\ UNCHANGED round
       \/ /\ pc[t] = "release"
          /\ lock_release(t)
          /\ NextRound(t, "acquire")
          /\ UNCHANGED electionVars

election3_elect(t) ==
    /\ program = "election3"
    /\ \/ FindsNone(t)
       \/ FindsLeader(t) /\ NextRound(t, "test")
       \/ Claim(t)
       \/ CountLeader(t) /\ NextRound(t, "test")

\* mutant: the swap is a store that expects nothing
CompareAndSwapBlindly(t) ==
    /\ pc[t] = "swap"
    /\ leader' = [leader EXCEPT ![round[t]] = t]
    /\ GoTo(t, "count")
    /\ UNCHANGED <<round, nb_leaders, mutex, cv>>

CompareAndSwap(t) ==
    /\ pc[t] = "swap"
    /\ leader[round[t]] = NoLeader
    /\ leader' = [leader EXCEPT ![round[t]] = t]
    /\ GoTo(t, "count")
    /\ UNCHANGED <<round, nb_leaders, mutex, cv>>

election4_elect(t) ==
    /\ program = "election4"
    /\ \/ CompareAndSwap(t)
       \/ /\ pc[t] = "swap"
          /\ leader[round[t]] # NoLeader
          /\ NextRound(t, "swap")
          /\ UNCHANGED <<electionVars, mutex, cv>>
       \/ CountLeader(t) /\ NextRound(t, "swap")

ElectionStep(t) ==
    election1_elect(t) \/ election2_elect(t) \/ election3_elect(t) \/ election4_elect(t)
----------------------------------------------------------------------------
(* "Correct": in a round of election2 and election4 that has a leader      *)
(* exactly one thread has been counted as such, or is about to be, and a   *)
(* round that some thread has passed has one: main finds one in each.      *)
OneLeader ==
    program \in {"election2", "election4"} =>
        \A r \in Rounds :
            LET counting == {t \in Threads : pc[t] = "count" /\ round[t] = r}
            IN  /\ leader[r] # NoLeader <=> nb_leaders[r] + Cardinality(counting) = 1
                /\ (\E t \in Threads : round[t] > r) => leader[r] # NoLeader

(* "Incorrect": election1 and election3 may have several threads believe   *)
(* they lead a round, but every round ends with one.                       *)
SomeoneLeads ==
    Joined /\ program \in {"election1", "election3"} =>
        \A r \in Rounds : nb_leaders[r] \in Threads /\ leader[r] \in Threads
=============================================================================
