--------------------------- MODULE BatcherProofs ---------------------------
(***************************************************************************)
(* Proofs about the batcher, for any finite set of threads.                *)
(*                                                                         *)
(* Two inductive invariants.  CountInv holds whatever wakes the waiters    *)
(* and gives the facts that keep the batcher from getting stuck.  EpochInv *)
(* needs a condition variable without spurious wake-ups and gives the      *)
(* facts that keep epochs apart.                                           *)
(***************************************************************************)
EXTENDS Batcher, FiniteSetTheorems, TLAPS

(* Conservation is not inductive alone: when n_remaining is 0 no thread    *)
(* may be left in n_blocked, or the next to enter would start an epoch     *)
(* beside sleeping threads; and n_blocked, which a spurious wake-up does   *)
(* not lower, bounds the threads asleep.                                   *)
CountInv ==
    /\ TypeOK
    /\ Conservation
    /\ Cardinality(At("blocked")) <= n_blocked
    /\ n_remaining = 0 => n_blocked = 0

(* UniqueIds is not inductive alone: the first transaction of an epoch     *)
(* must find the generator reset.                                          *)
EpochInv ==
    /\ TypeOK
    /\ Accounting
    /\ UniqueIds
    /\ n_remaining = 0 => tx_id_generator = 0 /\ n_blocked = 0
----------------------------------------------------------------------------
(* The sets of threads At(state) are finite.                               *)
LEMMA AtFinite ==
    /\ \A s : IsFiniteSet(At(s)) /\ Cardinality(At(s)) \in Nat
                                 /\ Cardinality(At(s)) <= Cardinality(Threads)
    /\ IsFiniteSet(Active) /\ Cardinality(Active) \in Nat
    /\ IsFiniteSet(At("blocked") \cup Active)
    /\ Cardinality(At("blocked") \cup Active) \in Nat
    /\ Cardinality(Threads) \in Nat
  <1>1. \A S \in SUBSET Threads : /\ IsFiniteSet(S)
                                  /\ Cardinality(S) \in Nat
                                  /\ Cardinality(S) <= Cardinality(Threads)
    BY FS_Subset, FS_CardinalityType, ThreadsAssumption
  <1>2. \A s : At(s) \in SUBSET Threads
    BY DEF At
  <1>3. Active \in SUBSET Threads /\ At("blocked") \cup Active \in SUBSET Threads
    BY <1>2 DEF Active
  <1> QED
    BY <1>1, <1>2, <1>3, FS_CardinalityType, ThreadsAssumption

(* Moving one thread changes only the sets of the states it leaves and     *)
(* reaches.                                                                *)
LEMMA MoveOne ==
    ASSUME TypeOK, NEW t \in Threads, NEW to, pc' = [pc EXCEPT ![t] = to]
    PROVE  /\ At("blocked")' = IF to = "blocked" THEN At("blocked") \cup {t}
                               ELSE At("blocked") \ {t}
           /\ At("woken")' = IF to = "woken" THEN At("woken") \cup {t}
                             ELSE At("woken") \ {t}
           /\ At("inside")' = IF to = "inside" THEN At("inside") \cup {t}
                              ELSE At("inside") \ {t}
           /\ Active' = IF to = "woken" \/ to = "inside" THEN Active \cup {t}
                        ELSE Active \ {t}
  BY DEF TypeOK, At, Active

(* The broadcast of the last transaction empties the wait set into the     *)
(* next epoch.                                                             *)
LEMMA MoveLast ==
    ASSUME TypeOK, NEW t \in Threads, LeaveLast(t)
    PROVE  /\ At("blocked")' = {}
           /\ At("woken")' = At("woken") \cup At("blocked")
           /\ At("inside")' = At("inside") \ {t}
           /\ Active' = (Active \ {t}) \cup At("blocked")
  BY DEF TypeOK, At, Active, LeaveLast

(* The initial state has every thread outside.                             *)
LEMMA InitSets == BatcherInit => \A s : s # "outside" => At(s) = {}
  BY DEF BatcherInit, At

(* The initial values have their types.                                    *)
LEMMA InitTypeOK == BatcherInit => TypeOK
  BY EpochModAssumption DEF BatcherInit, TypeOK, NoTx
----------------------------------------------------------------------------
(* The type of every variable but n_remaining is kept by every step; that  *)
(* one needs the count of threads.                                         *)
LEMMA StepTypes ==
    ASSUME TypeOK, NEW t \in Threads, BatcherStep(t), n_remaining' \in Nat
    PROVE  TypeOK'
  <1>1. CASE EnterFirst(t)
    BY <1>1 DEF TypeOK, EnterFirst, TakeId
  <1>2. CASE EnterBlock(t)
    BY <1>2 DEF TypeOK, EnterBlock
  <1>3. CASE SpuriousWakeup(t)
    BY <1>3 DEF TypeOK, SpuriousWakeup
  <1>4. CASE Resume(t)
    BY <1>4 DEF TypeOK, Resume, TakeId
  <1>5. CASE LeaveLast(t)
    <2>1. cur_epoch' \in 0 .. EpochMod - 1
      BY <1>5, EpochModAssumption DEF TypeOK, LeaveLast, PrepareNextEpoch
    <2> QED
      BY <1>5, <2>1 DEF TypeOK, LeaveLast, PrepareNextEpoch
  <1>6. CASE LeaveEarly(t)
    BY <1>6 DEF TypeOK, LeaveEarly
  <1> QED
    BY <1>1, <1>2, <1>3, <1>4, <1>5, <1>6 DEF BatcherStep
----------------------------------------------------------------------------
(* Nobody is in the batcher at the start.                                  *)
LEMMA InitCount == BatcherInit => CountInv
  <1> SUFFICES ASSUME BatcherInit PROVE CountInv
    OBVIOUS
  <1>1. At("blocked") = {} /\ Active = {}
    BY InitSets DEF Active
  <1>2. Cardinality({}) = 0
    BY FS_EmptySet
  <1>3. At("blocked") \cup Active = {}
    BY <1>1
  <1> QED
    BY <1>1, <1>2, <1>3, InitTypeOK DEF BatcherInit, CountInv, Conservation

(* Every step keeps the two counters in agreement with the threads, with   *)
(* or without spurious wake-ups.                                           *)
LEMMA StepCount ==
    ASSUME CountInv, NEW t \in Threads, BatcherStep(t)
    PROVE  CountInv'
  <1> DEFINE B == At("blocked")
             E == B \cup Active
  <1>0. /\ IsFiniteSet(B) /\ Cardinality(B) \in Nat
        /\ IsFiniteSet(E) /\ Cardinality(E) \in Nat
    BY AtFinite
  <1>a. /\ TypeOK /\ n_remaining \in Nat /\ n_blocked \in Nat
        /\ n_remaining + n_blocked = Cardinality(E)
        /\ Cardinality(B) <= n_blocked
        /\ n_remaining = 0 => n_blocked = 0
    BY DEF CountInv, TypeOK, Conservation
  <1>b. /\ Cardinality(E \cup {t}) = IF t \in E THEN Cardinality(E) ELSE Cardinality(E) + 1
        /\ Cardinality(E \ {t}) = IF t \in E THEN Cardinality(E) - 1 ELSE Cardinality(E)
        /\ Cardinality(B \cup {t}) = IF t \in B THEN Cardinality(B) ELSE Cardinality(B) + 1
        /\ Cardinality(B \ {t}) = IF t \in B THEN Cardinality(B) - 1 ELSE Cardinality(B)
    BY <1>0, FS_AddElement, FS_RemoveElement
  <1>c. /\ pc[t] = "outside" => t \notin E /\ t \notin B
        /\ pc[t] = "blocked" => t \in E /\ t \in B
        /\ pc[t] = "woken" => t \in E /\ t \notin B
        /\ pc[t] = "inside" => t \in E /\ t \notin B
    BY DEF At, Active
  <1> HIDE DEF B, E
  <1>d. SUFFICES /\ n_remaining' \in Nat
                 /\ n_remaining' + n_blocked' = Cardinality(E')
                 /\ Cardinality(B') <= n_blocked'
                 /\ n_remaining' = 0 => n_blocked' = 0
    BY <1>a, StepTypes DEF CountInv, Conservation, B, E
  <1>1. CASE EnterFirst(t)
    <2>1. E' = E \cup {t} /\ B' = B \ {t}
      BY <1>1, <1>a, MoveOne DEF EnterFirst, TakeId, B, E
    <2>2. Cardinality(E') = Cardinality(E) + 1 /\ Cardinality(B') = Cardinality(B)
      BY <1>1, <2>1, <1>b, <1>c DEF EnterFirst
    <2> QED
      BY <1>1, <2>2, <1>a, <1>0 DEF EnterFirst
  <1>2. CASE EnterBlock(t)
    <2>1. E' = E \cup {t} /\ B' = B \cup {t}
      BY <1>2, <1>a, <1>c, MoveOne DEF EnterBlock, B, E
    <2>2. Cardinality(E') = Cardinality(E) + 1 /\ Cardinality(B') = Cardinality(B) + 1
      BY <1>2, <2>1, <1>b, <1>c DEF EnterBlock
    <2> QED
      BY <1>2, <2>2, <1>a, <1>0 DEF EnterBlock
  <1>3. CASE SpuriousWakeup(t)
    <2>1. E' = E \cup {t} /\ B' = B \ {t}
      BY <1>3, <1>a, MoveOne DEF SpuriousWakeup, B, E
    <2>2. Cardinality(E') = Cardinality(E) /\ Cardinality(B') = Cardinality(B) - 1
      BY <1>3, <2>1, <1>b, <1>c DEF SpuriousWakeup
    <2> QED
      BY <1>3, <2>2, <1>a, <1>0 DEF SpuriousWakeup
  <1>4. CASE Resume(t)
    <2>1. E' = E \cup {t} /\ B' = B \ {t}
      BY <1>4, <1>a, MoveOne DEF Resume, TakeId, B, E
    <2>2. Cardinality(E') = Cardinality(E) /\ Cardinality(B') = Cardinality(B)
      BY <1>4, <2>1, <1>b, <1>c DEF Resume
    <2> QED
      BY <1>4, <2>2, <1>a, <1>0 DEF Resume
  <1>5. CASE LeaveLast(t)
    <2>1. E' = E \ {t} /\ B' = {}
      BY <1>5, <1>a, <1>c, MoveLast DEF B, E, At, Active, LeaveLast
    <2>2. Cardinality(E') = Cardinality(E) - 1 /\ Cardinality(B') = 0
      BY <1>5, <2>1, <1>b, <1>c, FS_EmptySet DEF LeaveLast
    <2> QED
      BY <1>5, <2>2, <1>a, <1>0 DEF LeaveLast, PrepareNextEpoch
  <1>6. CASE LeaveEarly(t)
    <2>0. /\ At("blocked")' = At("blocked") \ {t}
          /\ Active' = Active \ {t}
      BY <1>6, <1>a DEF LeaveEarly, TypeOK, At, Active
    <2>1. E' = E \ {t} /\ B' = B \ {t}
      BY <2>0 DEF B, E
    <2>2. Cardinality(E') = Cardinality(E) - 1 /\ Cardinality(B') = Cardinality(B)
      BY <1>6, <2>1, <1>b, <1>c DEF LeaveEarly
    \* an empty count would mean that nobody is in the batcher
    <2>3. E # {} /\ Cardinality(E) # 0
      BY <1>6, <1>0, <1>c, FS_EmptySet DEF LeaveEarly
    <2> QED
      BY <1>6, <2>2, <2>3, <1>a, <1>0 DEF LeaveEarly
  <1> QED
    BY <1>1, <1>2, <1>3, <1>4, <1>5, <1>6 DEF BatcherStep
----------------------------------------------------------------------------
(* The initial state satisfies the epoch invariant.                        *)
LEMMA InitEpoch == BatcherInit => EpochInv
  <1> SUFFICES ASSUME BatcherInit PROVE EpochInv
    OBVIOUS
  <1>1. At("blocked") = {} /\ At("woken") = {} /\ At("inside") = {} /\ Active = {}
    BY InitSets DEF Active
  <1>2. Cardinality({}) = 0
    BY FS_EmptySet
  <1>3. Accounting
    BY <1>1, <1>2 DEF BatcherInit, Accounting
  <1>4. UniqueIds
    BY <1>1, <1>2, AtFinite DEF BatcherInit, UniqueIds
  <1> QED
    BY <1>3, <1>4, InitTypeOK DEF BatcherInit, EpochInv

(* What the epoch invariant says of a thread that is about to leave.       *)
LEMMA LastIsAlone ==
    ASSUME EpochInv, NEW t \in Threads, pc[t] = "inside"
    PROVE  /\ n_remaining > 0
           /\ n_remaining = 1 => Active = {t} /\ At("inside") = {t} /\ At("woken") = {}
  <1>1. t \in At("inside") /\ t \in Active
    BY DEF At, Active
  <1>2. n_remaining = Cardinality(Active) /\ n_remaining \in Nat
    BY DEF EpochInv, Accounting, TypeOK
  <1>3. n_remaining > 0
    BY <1>1, <1>2, AtFinite, FS_EmptySet
  <1>4. ASSUME n_remaining = 1 PROVE Active = {t}
    <2>1. \E x : Active = {x}
      BY <1>2, <1>4, AtFinite, FS_Singleton
    <2> QED
      BY <1>1, <2>1
  <1>5. ASSUME n_remaining = 1 PROVE At("inside") = {t} /\ At("woken") = {}
    <2>1. At("inside") \cap At("woken") = {}
      BY DEF At
    <2> QED
      BY <1>1, <1>4, <1>5, <2>1 DEF Active
  <1> QED
    BY <1>3, <1>4, <1>5

(* Without spurious wake-ups, every step keeps the counters equal to the   *)
(* threads they count, and the ids of an epoch distinct.                   *)
LEMMA StepEpoch ==
    ASSUME EpochInv, ~SpuriousWakeups, NEW t \in Threads, BatcherStep(t)
    PROVE  EpochInv'
  <1> DEFINE B == At("blocked")
             W == At("woken")
             I == At("inside")
             A == Active
             K == Cardinality(Threads)
  <1>0. /\ IsFiniteSet(B) /\ Cardinality(B) \in Nat /\ Cardinality(B) <= K
        /\ IsFiniteSet(W) /\ Cardinality(W) \in Nat
        /\ IsFiniteSet(A) /\ Cardinality(A) \in Nat /\ K \in Nat
    BY AtFinite
  <1>a. /\ TypeOK /\ n_remaining \in Nat /\ n_blocked \in Nat
        /\ n_in_epoch \in Nat /\ tx_id_generator \in Nat
        /\ pc \in [Threads -> {"outside", "blocked", "woken", "inside"}]
        /\ tx \in [Threads -> Nat \cup {NoTx}]
        /\ n_remaining = Cardinality(A) /\ n_blocked = Cardinality(B)
        /\ \A u, v \in I : tx[u] = tx[v] => u = v
        /\ \A u \in I : tx[u] \in 0 .. tx_id_generator - 1
        /\ tx_id_generator + Cardinality(W) = n_in_epoch
        /\ n_in_epoch <= K
        /\ n_remaining = 0 => tx_id_generator = 0 /\ n_blocked = 0
    BY DEF EpochInv, TypeOK, Accounting, UniqueIds
  <1>b. /\ Cardinality(A \cup {t}) = IF t \in A THEN Cardinality(A) ELSE Cardinality(A) + 1
        /\ Cardinality(A \ {t}) = IF t \in A THEN Cardinality(A) - 1 ELSE Cardinality(A)
        /\ Cardinality(B \cup {t}) = IF t \in B THEN Cardinality(B) ELSE Cardinality(B) + 1
        /\ Cardinality(W \ {t}) = IF t \in W THEN Cardinality(W) - 1 ELSE Cardinality(W)
    BY <1>0, FS_AddElement, FS_RemoveElement
  <1>c. /\ pc[t] = "outside" => t \notin A /\ t \notin B /\ t \notin W /\ t \notin I
        /\ pc[t] = "woken" => t \in A /\ t \notin B /\ t \in W /\ t \notin I
        /\ pc[t] = "inside" => t \in A /\ t \notin B /\ t \notin W /\ t \in I
        /\ A = W \cup I /\ I \subseteq Threads
    BY DEF At, Active
  <1>e. Cardinality({}) = 0 /\ (Cardinality(A) = 0 => A = {}) /\ (Cardinality(W) = 0 => W = {})
    BY <1>0, FS_EmptySet
  <1>k. K >= 1
    BY <1>0, FS_EmptySet, ThreadsAssumption
  <1> HIDE DEF B, W, I, A, K
  <1>d. SUFFICES /\ n_remaining' \in Nat
                 /\ n_remaining' = Cardinality(A') /\ n_blocked' = Cardinality(B')
                 /\ \A u, v \in I' : tx'[u] = tx'[v] => u = v
                 /\ \A u \in I' : tx'[u] \in 0 .. tx_id_generator' - 1
                 /\ tx_id_generator' + Cardinality(W') = n_in_epoch'
                 /\ n_in_epoch' <= K
                 /\ n_remaining' = 0 => tx_id_generator' = 0 /\ n_blocked' = 0
    BY <1>a, StepTypes DEF EpochInv, Accounting, UniqueIds, B, W, I, A, K
  <1>1. CASE EnterFirst(t)
    <2>1. A' = A \cup {t} /\ B' = B /\ W' = W /\ I' = I \cup {t}
      BY <1>1, <1>a DEF EnterFirst, TakeId, TypeOK, At, Active, A, B, W, I
    <2>2. A = {} /\ W = {} /\ I = {} /\ Cardinality(A') = 1
      BY <1>1, <1>a, <1>b, <1>c, <1>e, <2>1 DEF EnterFirst
    <2>3. tx'[t] = 0 /\ tx_id_generator' = 1
      BY <1>1, <1>a DEF EnterFirst, TakeId
    <2> QED
      BY <1>1, <2>1, <2>2, <2>3, <1>a, <1>e, <1>k DEF EnterFirst
  <1>2. CASE EnterBlock(t)
    <2>1. A' = A /\ B' = B \cup {t} /\ W' = W /\ I' = I
      BY <1>2, <1>a DEF EnterBlock, TypeOK, At, Active, A, B, W, I
    <2>2. Cardinality(B') = Cardinality(B) + 1
      BY <1>2, <2>1, <1>b, <1>c DEF EnterBlock
    <2> QED
      BY <1>2, <2>1, <2>2, <1>a, <1>0 DEF EnterBlock
  <1>3. CASE Resume(t)
    <2>1. A' = A /\ B' = B /\ W' = W \ {t} /\ I' = I \cup {t}
      BY <1>3, <1>a DEF Resume, TakeId, TypeOK, At, Active, A, B, W, I
    <2>2. Cardinality(W') = Cardinality(W) - 1
      BY <1>3, <2>1, <1>b, <1>c DEF Resume
    <2>3. /\ tx'[t] = tx_id_generator /\ tx_id_generator' = tx_id_generator + 1
          /\ \A u \in I : tx'[u] = tx[u] /\ tx'[u] # tx_id_generator
      BY <1>3, <1>a, <1>c DEF Resume, TakeId
    <2>4. \A u, v \in I' : tx'[u] = tx'[v] => u = v
      BY <2>1, <2>3, <1>a
    <2>5. \A u \in I' : tx'[u] \in 0 .. tx_id_generator' - 1
      BY <2>1, <2>3, <1>a
    <2>6. n_remaining # 0
      BY <1>3, <1>a, <1>c, <1>e DEF Resume
    <2> QED
      BY <1>3, <2>1, <2>2, <2>3, <2>4, <2>5, <2>6, <1>a, <1>0 DEF Resume
  <1>4. CASE LeaveLast(t)
    <2>1. W = {} /\ I = {t} /\ A = {t}
      BY <1>4, LastIsAlone DEF LeaveLast, W, I, A
    <2>2. A' = B /\ B' = {} /\ W' = B /\ I' = {}
      <3>1. /\ B' = {} /\ W' = W \cup B
            /\ I' = I \ {t} /\ A' = (A \ {t}) \cup B
        BY <1>4, <1>a, MoveLast DEF A, B, W, I
      <3> QED
        BY <2>1, <3>1
    <2> QED
      BY <1>4, <2>2, <1>a, <1>0, <1>e DEF LeaveLast, PrepareNextEpoch
  <1>5. CASE LeaveEarly(t)
    <2>1. A' = A \ {t} /\ B' = B /\ W' = W /\ I' = I \ {t}
      BY <1>5, <1>a DEF LeaveEarly, TypeOK, At, Active, A, B, W, I
    <2>2. Cardinality(A') = Cardinality(A) - 1
      BY <1>5, <2>1, <1>b, <1>c DEF LeaveEarly
    <2>3. n_remaining > 1
      BY <1>5, <1>a, LastIsAlone DEF LeaveEarly
    <2>4. \A u \in I' : u \in I /\ tx'[u] = tx[u]
      BY <1>5, <2>1, <1>a, <1>c DEF LeaveEarly
    <2> QED
      BY <1>5, <2>1, <2>2, <2>3, <2>4, <1>a, <1>0 DEF LeaveEarly
  <1> QED
    BY <1>1, <1>2, <1>3, <1>4, <1>5 DEF BatcherStep, SpuriousWakeup
----------------------------------------------------------------------------
(* A step that changes nothing keeps both invariants.                      *)
LEMMA Stutter ==
    ASSUME UNCHANGED batcherVars
    PROVE  (CountInv => CountInv') /\ (EpochInv => EpochInv')
  BY DEF batcherVars, CountInv, EpochInv, TypeOK, Conservation, Accounting,
         UniqueIds, At, Active

(* The counting invariant holds with and without spurious wake-ups.        *)
THEOREM CountInvariance == BatcherSpec => []CountInv
  <1>1. BatcherInit => CountInv
    BY InitCount
  <1>2. CountInv /\ [BatcherNext]_batcherVars => CountInv'
    BY StepCount, Stutter DEF BatcherNext
  <1> QED
    BY <1>1, <1>2, PTL DEF BatcherSpec

(* Every variable of the batcher keeps its type; in particular             *)
(* n_remaining, an int that leave_batcher decrements, never goes below 0.  *)
THEOREM TypeCorrect == BatcherSpec => []TypeOK
  <1>1. CountInv => TypeOK
    BY DEF CountInv
  <1> QED
    BY <1>1, CountInvariance, PTL

(* Every thread in the batcher is counted once, whatever wakes the waiters.*)
THEOREM CountersConserveThreads == BatcherSpec => []Conservation
  <1>1. CountInv => Conservation
    BY DEF CountInv
  <1> QED
    BY <1>1, CountInvariance, PTL

(* Threads asleep in tm_begin always have a transaction to wait for.       *)
THEOREM NeverAsleepAlone == BatcherSpec => []NoLostWakeup
  <1>1. ASSUME CountInv, At("blocked") # {}, Active = {} PROVE FALSE
    <2>1. /\ n_remaining \in Nat /\ n_blocked \in Nat
          /\ n_remaining + n_blocked = Cardinality(At("blocked"))
          /\ Cardinality(At("blocked")) <= n_blocked
          /\ n_remaining = 0 => n_blocked = 0
      <3>1. At("blocked") \cup Active = At("blocked")
        BY <1>1
      <3> QED
        BY <1>1, <3>1 DEF CountInv, TypeOK, Conservation
    <2>2. Cardinality(At("blocked")) # 0
      BY <1>1, AtFinite, FS_EmptySet
    <2> QED
      BY <2>1, <2>2, AtFinite
  <1>2. CountInv => NoLostWakeup
    BY <1>1 DEF NoLostWakeup
  <1> QED
    BY <1>2, CountInvariance, PTL

(* The epoch invariant holds when waits end by the broadcast only.         *)
THEOREM EpochInvariance == ~SpuriousWakeups => (BatcherSpec => []EpochInv)
  <1> SUFFICES ASSUME ~SpuriousWakeups PROVE BatcherSpec => []EpochInv
    OBVIOUS
  <1>1. BatcherInit => EpochInv
    BY InitEpoch
  <1>2. EpochInv /\ [BatcherNext]_batcherVars => EpochInv'
    BY StepEpoch, Stutter DEF BatcherNext
  <1> QED
    BY <1>1, <1>2, PTL DEF BatcherSpec

(* n_remaining and n_blocked count the threads they stand for.             *)
THEOREM CountersAreExact == ~SpuriousWakeups => (BatcherSpec => []Accounting)
  <1> SUFFICES ASSUME ~SpuriousWakeups PROVE BatcherSpec => []Accounting
    OBVIOUS
  <1>1. EpochInv => Accounting
    BY DEF EpochInv
  <1> QED
    BY <1>1, EpochInvariance, PTL

(* A transaction id stands for one transaction of an epoch.                *)
THEOREM IdsAreUnique == ~SpuriousWakeups => (BatcherSpec => []UniqueIds)
  <1> SUFFICES ASSUME ~SpuriousWakeups PROVE BatcherSpec => []UniqueIds
    OBVIOUS
  <1>1. EpochInv => UniqueIds
    BY DEF EpochInv
  <1> QED
    BY <1>1, EpochInvariance, PTL

(* Only the last transaction of an epoch ends (and so commits) it.         *)
THEOREM CommitRunsAlone == ~SpuriousWakeups => (BatcherSpec => EpochEndsAlone)
  <1> SUFFICES ASSUME ~SpuriousWakeups PROVE BatcherSpec => EpochEndsAlone
    OBVIOUS
  <1>1. ASSUME EpochInv, BatcherNext, cur_epoch' # cur_epoch
        PROVE  \E t \in Threads : Active = {t} /\ pc'[t] = "outside"
    <2>1. PICK t \in Threads : LeaveLast(t)
      BY <1>1 DEF BatcherNext, BatcherStep, EnterFirst, EnterBlock,
                  SpuriousWakeup, Resume, LeaveEarly
    <2>2. Active = {t}
      BY <1>1, <2>1, LastIsAlone DEF LeaveLast
    <2> QED
      BY <2>1, <2>2 DEF LeaveLast
  <1>2. EpochInv /\ [BatcherNext]_batcherVars
          => [cur_epoch' # cur_epoch =>
                 \E t \in Threads : Active = {t} /\ pc'[t] = "outside"]_batcherVars
    BY <1>1
  <1> QED
    BY <1>2, EpochInvariance, PTL DEF BatcherSpec, EpochEndsAlone

(* What every step does to the running epoch and to the next one.          *)
LEMMA EpochMoves ==
    ASSUME EpochInv, NEW t \in Threads
    PROVE  /\ EnterFirst(t) => /\ Active = {} /\ Active' = {t}
                               /\ At("blocked")' = At("blocked")
           /\ EnterBlock(t) => /\ Active # {} /\ Active' = Active
                               /\ t \notin Active \cup At("blocked")
                               /\ At("blocked")' = At("blocked") \cup {t}
           /\ Resume(t) => Active' = Active /\ At("blocked")' = At("blocked")
           /\ LeaveLast(t) => /\ Active = {t} /\ Active' = At("blocked")
                              /\ At("blocked")' = {}
           /\ LeaveEarly(t) => /\ t \in Active /\ Active # {t} /\ Active' = Active \ {t}
                               /\ At("blocked")' = At("blocked")
  <1> DEFINE B == At("blocked")
             A == Active
  <1>0. TypeOK /\ n_remaining = Cardinality(A)
    BY DEF EpochInv, Accounting
  <1>1. ASSUME EnterFirst(t) PROVE A = {} /\ A' = {t} /\ B' = B
    <2>1. A = {}
      BY <1>0, <1>1, AtFinite, FS_EmptySet DEF EnterFirst
    <2>2. A' = A \cup {t} /\ B' = B
      BY <1>0, <1>1 DEF EnterFirst, TakeId, TypeOK, At, Active
    <2> QED
      BY <2>1, <2>2
  <1>2. ASSUME EnterBlock(t)
        PROVE  A # {} /\ A' = A /\ t \notin A \cup B /\ B' = B \cup {t}
    <2>1. A' = A /\ B' = B \cup {t} /\ t \notin A \cup B
      BY <1>0, <1>2 DEF EnterBlock, TypeOK, At, Active
    <2>2. A # {}
      BY <1>0, <1>2, FS_EmptySet DEF EnterBlock
    <2> QED
      BY <2>1, <2>2
  <1>3. ASSUME Resume(t) PROVE A' = A /\ B' = B
    BY <1>0, <1>3 DEF Resume, TakeId, TypeOK, At, Active
  <1>4. ASSUME LeaveLast(t) PROVE A = {t} /\ A' = B /\ B' = {}
    <2>1. A = {t}
      BY <1>4, LastIsAlone DEF LeaveLast
    <2>2. A' = (A \ {t}) \cup B /\ B' = {}
      BY <1>0, <1>4, MoveLast
    <2> QED
      BY <2>1, <2>2
  <1>5. ASSUME LeaveEarly(t) PROVE t \in A /\ A # {t} /\ A' = A \ {t} /\ B' = B
    <2>1. A' = A \ {t} /\ B' = B /\ t \in A
      BY <1>0, <1>5 DEF LeaveEarly, TypeOK, At, Active
    <2>2. A # {t}
      BY <1>0, <1>5, FS_Singleton DEF LeaveEarly
    <2> QED
      BY <2>1, <2>2
  <1> QED
    BY <1>1, <1>2, <1>3, <1>4, <1>5

(* A step of the batcher is a step of the abstract gate, or none.          *)
LEMMA StepGate ==
    ASSUME EpochInv, ~SpuriousWakeups, NEW t \in Threads, BatcherStep(t)
    PROVE  Gate!GateNext \/ UNCHANGED Gate!gateVars
  <1>1. \/ Gate!Start(t) \/ Gate!Queue(t) \/ Gate!Finish(t) \/ Gate!EndEpoch(t)
        \/ UNCHANGED Gate!gateVars
    BY EpochMoves DEF BatcherStep, SpuriousWakeup, Gate!Start, Gate!Queue, Gate!Finish,
                      Gate!EndEpoch, Gate!gateVars
  <1> QED
    BY <1>1 DEF Gate!GateNext

(* The batcher implements the abstract gate.                               *)
THEOREM BatcherRefinesGate == ~SpuriousWakeups => (BatcherSpec => ImplementsGate)
  <1> SUFFICES ASSUME ~SpuriousWakeups PROVE BatcherSpec => ImplementsGate
    OBVIOUS
  <1>1. BatcherInit => Gate!GateInit
    BY InitSets DEF Gate!GateInit, Active
  <1>2. EpochInv /\ [BatcherNext]_batcherVars => [Gate!GateNext]_(Gate!gateVars)
    <2>1. CASE UNCHANGED batcherVars
      BY <2>1 DEF batcherVars, Gate!gateVars, Active, At
    <2>2. ASSUME EpochInv, BatcherNext PROVE [Gate!GateNext]_(Gate!gateVars)
      BY <2>2, StepGate DEF BatcherNext
    <2> QED
      BY <2>1, <2>2
  <1> QED
    BY <1>1, <1>2, EpochInvariance, PTL DEF BatcherSpec, ImplementsGate, Gate!GateSpec
=============================================================================
