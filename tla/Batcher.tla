------------------------------ MODULE Batcher ------------------------------
(***************************************************************************)
(* The batcher of the dual-versioned memory (275085/batcher.c): it admits  *)
(* client threads into epochs.  A thread that finds an epoch under way is  *)
(* blocked on a condition variable until the last transaction of the epoch *)
(* leaves; the threads blocked until then form the next epoch.             *)
(*                                                                         *)
(* Every field of batcher_t is accessed under batcher->lock only, so an    *)
(* action is one critical section; pthread_cond_wait ends one (EnterBlock) *)
(* and its return begins another (Resume).  What happens to the memory     *)
(* when the last transaction leaves is the business of the modules that    *)
(* extend this one.                                                        *)
(***************************************************************************)
EXTENDS Integers, FiniteSets

CONSTANTS
    Threads,          \* client threads calling tm_begin / tm_end
    EpochMod,         \* bound: cur_epoch, which no code reads, is kept modulo it
    SpuriousWakeups   \* may pthread_cond_wait return without a broadcast?

ASSUME ThreadsAssumption == IsFiniteSet(Threads)
ASSUME EpochModAssumption == EpochMod \in Nat \ {0}
ASSUME SpuriousWakeupsAssumption == SpuriousWakeups \in BOOLEAN

VARIABLES
    pc,               \* where each thread is: see TypeOK
    tx,               \* the transaction id each thread was given
    n_remaining, n_blocked, n_in_epoch, tx_id_generator, cur_epoch

batcherVars == <<pc, tx, n_remaining, n_blocked, n_in_epoch, tx_id_generator,
                 cur_epoch>>

NoTx == -1            \* the thread holds no transaction id

At(state) == {t \in Threads : pc[t] = state}

(* The transactions of the current epoch that have not left: the threads   *)
(* that hold an id and those the broadcast released but that have yet to   *)
(* reacquire the lock and take one.                                        *)
Active == At("woken") \cup At("inside")

TypeOK ==
    /\ pc \in [Threads -> {"outside", "blocked", "woken", "inside"}]
    /\ tx \in [Threads -> Nat \cup {NoTx}]
    /\ n_remaining \in Nat
    /\ n_blocked \in Nat
    /\ n_in_epoch \in Nat
    /\ tx_id_generator \in Nat
    /\ cur_epoch \in 0 .. EpochMod - 1
----------------------------------------------------------------------------
BatcherInit ==
    /\ pc = [t \in Threads |-> "outside"]
    /\ tx = [t \in Threads |-> NoTx]
    /\ n_remaining = 0
    /\ n_blocked = 0
    /\ n_in_epoch = 0
    /\ tx_id_generator = 0
    /\ cur_epoch = 0

\* mutant: the id is handed out and not advanced
TakeIdNoIncrement(t) ==
    /\ pc' = [pc EXCEPT ![t] = "inside"]
    /\ tx' = [tx EXCEPT ![t] = tx_id_generator]
    /\ UNCHANGED tx_id_generator

\* the tail of enter_batcher: tx_id_generator++ and out with the old value
TakeId(t) ==
    /\ pc' = [pc EXCEPT ![t] = "inside"]
    /\ tx' = [tx EXCEPT ![t] = tx_id_generator]
    /\ tx_id_generator' = tx_id_generator + 1

\* enter_batcher on an empty batcher
EnterFirst(t) ==
    /\ pc[t] = "outside"
    /\ n_remaining = 0
    /\ n_in_epoch' = 1
    /\ n_remaining' = 1
    /\ TakeId(t)
    /\ UNCHANGED <<n_blocked, cur_epoch>>

\* mutant: the thread blocks without being counted
EnterBlockUncounted(t) ==
    /\ pc[t] = "outside"
    /\ n_remaining # 0
    /\ pc' = [pc EXCEPT ![t] = "blocked"]
    /\ UNCHANGED <<tx, n_remaining, n_blocked, n_in_epoch, tx_id_generator, cur_epoch>>

\* enter_batcher during an epoch, up to pthread_cond_wait
EnterBlock(t) ==
    /\ pc[t] = "outside"
    /\ n_remaining # 0
    /\ n_blocked' = n_blocked + 1
    /\ pc' = [pc EXCEPT ![t] = "blocked"]
    /\ UNCHANGED <<tx, n_remaining, n_in_epoch, tx_id_generator, cur_epoch>>

\* pthread_cond_wait returns for no reason: nothing re-tests a condition
SpuriousWakeup(t) ==
    /\ SpuriousWakeups
    /\ pc[t] = "blocked"
    /\ pc' = [pc EXCEPT ![t] = "woken"]
    /\ UNCHANGED <<tx, n_remaining, n_blocked, n_in_epoch, tx_id_generator, cur_epoch>>

\* pthread_cond_wait has reacquired the lock: take an id and go
Resume(t) ==
    /\ pc[t] = "woken"
    /\ TakeId(t)
    /\ UNCHANGED <<n_remaining, n_blocked, n_in_epoch, cur_epoch>>

\* mutant: the blocked threads are forgotten instead of handed over
PrepareDropsBlocked ==
    /\ n_remaining' = 0
    /\ n_in_epoch' = n_blocked
    /\ tx_id_generator' = 0
    /\ cur_epoch' = (cur_epoch + 1) % EpochMod
    /\ n_blocked' = 0

\* mutant: the ids of the next epoch go on from those of this one
PrepareKeepsIds ==
    /\ n_remaining' = n_blocked
    /\ n_in_epoch' = n_blocked
    /\ cur_epoch' = (cur_epoch + 1) % EpochMod
    /\ n_blocked' = 0
    /\ UNCHANGED tx_id_generator

\* mutant: n_blocked is not reset
PrepareKeepsBlocked ==
    /\ n_remaining' = n_blocked
    /\ n_in_epoch' = n_blocked
    /\ tx_id_generator' = 0
    /\ cur_epoch' = (cur_epoch + 1) % EpochMod
    /\ UNCHANGED n_blocked

\* prepare_batcher_for_next_epoch
PrepareNextEpoch ==
    /\ n_remaining' = n_blocked
    /\ n_in_epoch' = n_blocked
    /\ tx_id_generator' = 0
    /\ cur_epoch' = (cur_epoch + 1) % EpochMod
    /\ n_blocked' = 0

\* mutant: pthread_cond_signal for pthread_cond_broadcast
LeaveLastSignal(t) ==
    /\ pc[t] = "inside"
    /\ n_remaining = 1
    /\ PrepareNextEpoch
    /\ LET left == [pc EXCEPT ![t] = "outside"] IN
       IF At("blocked") = {} THEN pc' = left
       ELSE \E u \in At("blocked") : pc' = [left EXCEPT ![u] = "woken"]
    /\ tx' = [tx EXCEPT ![t] = NoTx]

\* mutant: no broadcast
LeaveLastSilent(t) ==
    /\ pc[t] = "inside"
    /\ n_remaining = 1
    /\ PrepareNextEpoch
    /\ pc' = [pc EXCEPT ![t] = "outside"]
    /\ tx' = [tx EXCEPT ![t] = NoTx]

\* mutant: off by one, the last but one ends the epoch
LeaveLastButOne(t) ==
    /\ pc[t] = "inside"
    /\ n_remaining \in {1, 2}
    /\ PrepareNextEpoch
    /\ pc' = [u \in Threads |-> IF u = t THEN "outside"
                                ELSE IF pc[u] = "blocked" THEN "woken" ELSE pc[u]]
    /\ tx' = [tx EXCEPT ![t] = NoTx]

\* leave_batcher by the last transaction: next epoch, broadcast
LeaveLast(t) ==
    /\ pc[t] = "inside"
    /\ n_remaining = 1
    /\ PrepareNextEpoch
    /\ pc' = [u \in Threads |-> IF u = t THEN "outside"
                                ELSE IF pc[u] = "blocked" THEN "woken" ELSE pc[u]]
    /\ tx' = [tx EXCEPT ![t] = NoTx]

\* leave_batcher by any other transaction
LeaveEarly(t) ==
    /\ pc[t] = "inside"
    /\ n_remaining # 1
    /\ n_remaining' = n_remaining - 1
    /\ pc' = [pc EXCEPT ![t] = "outside"]
    /\ tx' = [tx EXCEPT ![t] = NoTx]
    /\ UNCHANGED <<n_blocked, n_in_epoch, tx_id_generator, cur_epoch>>

BatcherStep(t) ==
    \/ EnterFirst(t) \/ EnterBlock(t) \/ SpuriousWakeup(t) \/ Resume(t)
    \/ LeaveLast(t) \/ LeaveEarly(t)

BatcherNext == \E t \in Threads : BatcherStep(t)

BatcherSpec == BatcherInit /\ [][BatcherNext]_batcherVars

(* A woken thread gets the lock (while it waits, every other thread can    *)
(* take the lock only a bounded number of times before it blocks, so the   *)
(* mutex need not be fair), and every transaction ends or aborts.  Nobody  *)
(* is obliged to begin a transaction.                                      *)
BatcherFairness ==
    \A t \in Threads : /\ WF_batcherVars(Resume(t))
                       /\ WF_batcherVars(LeaveLast(t) \/ LeaveEarly(t))

BatcherFairSpec == BatcherSpec /\ BatcherFairness
----------------------------------------------------------------------------
(* Properties                                                              *)

(* Whatever wakes the waiters, every thread that entered and did not leave *)
(* is counted exactly once, by n_remaining or by n_blocked: the two        *)
(* counters hand threads over (batcher.c:53) without losing any.           *)
Conservation ==
    n_remaining + n_blocked = Cardinality(At("blocked") \cup Active)

(* Nobody waits for an epoch to end when no transaction is left to end it: *)
(* the broadcast of leave_batcher is never missed, even though             *)
(* enter_batcher waits without re-testing a condition.                     *)
NoLostWakeup == At("blocked") # {} => Active # {}

(* n_remaining counts the transactions of the epoch that have not left and *)
(* n_blocked the threads asleep; n_remaining = 1 in leave_batcher is then  *)
(* the same as "I am the last".                                            *)
Accounting ==
    /\ n_remaining = Cardinality(Active)
    /\ n_blocked = Cardinality(At("blocked"))

(* A transaction id names one transaction of the epoch (it stamps          *)
(* access_set and deregistered and indexes is_ro_flags): running           *)
(* transactions differ in it, ids still to be handed out are fresh, also   *)
(* with respect to transactions of the epoch that left, and no id reaches  *)
(* the number of client threads.                                           *)
UniqueIds ==
    /\ \A t, u \in At("inside") : tx[t] = tx[u] => t = u
    /\ \A t \in At("inside") : tx[t] \in 0 .. tx_id_generator - 1
    /\ tx_id_generator + Cardinality(At("woken")) = n_in_epoch
    /\ n_in_epoch <= Cardinality(Threads)

(* "Commit is only called once last transacation of epoch leaves the       *)
(* batcher" (batcher.c:60): when an epoch ends, the thread that ends it is *)
(* the only one with a transaction in it.                                  *)
EpochEndsAlone ==
    [][cur_epoch' # cur_epoch =>
           \E t \in Threads : Active = {t} /\ pc'[t] = "outside"]_batcherVars

(* The same of the transactions that hold an id, whatever wakes the        *)
(* waiters: none of them is running when the epoch is committed around it, *)
(* flipping the copies it reads and writes (batcher.c:25, 60).             *)
CommitIsLast ==
    [][cur_epoch' # cur_epoch => \E t \in Threads : At("inside") = {t}]_batcherVars

(* The batcher implements the abstract gate: counters, ids and wake-ups    *)
(* add nothing to what a client can observe.                               *)
Gate == INSTANCE EpochGate WITH active <- Active, queued <- At("blocked")
ImplementsGate == Gate!GateSpec

(* A thread blocked in tm_begin gets its transaction, as long as           *)
(* transactions end: it cannot be overtaken for ever.                      *)
BlockedEnters ==
    \A t \in Threads : pc[t] = "blocked" ~> pc[t] = "inside"
=============================================================================
