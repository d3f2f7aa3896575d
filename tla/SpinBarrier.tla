---------------------------- MODULE SpinBarrier ----------------------------
(***************************************************************************)
(* The spinning barrier of the grader (grading/common.hpp, Barrier): one   *)
(* counter and one mode synchronise a fixed set of threads, again and      *)
(* again.  The last to arrive opens the barrier, the last to depart closes *)
(* it.  An action is one atomic access; a loop that spins on the mode is a *)
(* step enabled when the loop would end.                                   *)
(***************************************************************************)
EXTENDS Integers, FiniteSets

CONSTANT Workers
ASSUME WorkersAssumption == IsFiniteSet(Workers) /\ Workers # {}

cardinal == Cardinality(Workers)

VARIABLES
    step, mode,
    spot,             \* where each thread is in sync()
    passed            \* how many calls of sync() each thread has completed

barrierVars == <<step, mode, spot, passed>>

Spots == {"out", "open", "await leave", "depart", "close", "await enter"}

BarrierTypeOK ==
    /\ step \in 0 .. cardinal
    /\ mode \in {"enter", "leave"}
    /\ spot \in [Workers -> Spots]
    /\ passed \in [Workers -> Nat]

BarrierInit ==
    /\ step = 0
    /\ mode = "enter"
    /\ spot = [w \in Workers |-> "out"]
    /\ passed = [w \in Workers |-> 0]

GoToSpot(w, s) == spot' = [spot EXCEPT ![w] = s]

\* step.fetch_add: the last to arrive is to set leave mode
Arrive(w) ==
    /\ spot[w] = "out"
    /\ step' = step + 1
    /\ GoToSpot(w, IF step' = cardinal THEN "open" ELSE "await leave")
    /\ UNCHANGED <<mode, passed>>

Open(w) ==
    /\ spot[w] = "open"
    /\ mode' = "leave"
    /\ GoToSpot(w, "depart")
    /\ UNCHANGED <<step, passed>>

SeeLeave(w) ==
    /\ spot[w] = "await leave"
    /\ mode = "leave"
    /\ GoToSpot(w, "depart")
    /\ UNCHANGED <<step, mode, passed>>

\* mutant: a departing thread does not wait for the others to depart
DepartAtOnce(w) ==
    /\ spot[w] = "depart"
    /\ step' = step - 1
    /\ GoToSpot(w, IF step' = 0 THEN "close" ELSE "out")
    /\ passed' = [passed EXCEPT ![w] = IF step' = 0 THEN @ ELSE @ + 1]
    /\ UNCHANGED mode

\* step.fetch_sub: the last to depart is to set enter mode
Depart(w) ==
    /\ spot[w] = "depart"
    /\ step' = step - 1
    /\ GoToSpot(w, IF step' = 0 THEN "close" ELSE "await enter")
    /\ UNCHANGED <<mode, passed>>

Return(w) ==
    /\ GoToSpot(w, "out")
    /\ passed' = [passed EXCEPT ![w] = @ + 1]
    /\ UNCHANGED step

Close(w) ==
    /\ spot[w] = "close"
    /\ mode' = "enter"
    /\ Return(w)

SeeEnter(w) ==
    /\ spot[w] = "await enter"
    /\ mode = "enter"
    /\ UNCHANGED mode
    /\ Return(w)

\* the steps of sync() after the arrival
SyncStep(w) == Open(w) \/ SeeLeave(w) \/ Depart(w) \/ Close(w) \/ SeeEnter(w)
----------------------------------------------------------------------------
(* "Synchronize all the threads": no thread completes its n-th call before *)
(* every thread has made its own n-th, however fast it comes back for the  *)
(* next, although arrivals and departures share one counter.               *)
RoundsInLockstep ==
    \A w, u \in Workers : passed[w] <= passed[u] + (IF spot[u] = "out" THEN 0 ELSE 1)
=============================================================================
