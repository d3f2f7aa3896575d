-------------------------- MODULE ProducerConsumer --------------------------
(***************************************************************************)
(* procon1.c to procon4.c: one thread fills a circular buffer that another *)
(* empties, without synchronisation (1), polling under a lock (2), polling *)
(* atomic counters (3), asleep on a condition variable (4).                *)
(*                                                                         *)
(* An item is DATA_TEXT_SIZE random bytes, copied by an assignment that is *)
(* not atomic: here two halves, copied one after the other.  The halves of *)
(* the item of round r are r + 1; the buffer is zero at first.             *)
(*                                                                         *)
(* procon3 loads consumed_until relaxed.  The load, the test that depends  *)
(* on it and the writes to the buffer that depend on the test keep their   *)
(* order in the machine, and the consumer's increment is a release.        *)
(***************************************************************************)
EXTENDS ExampleThreads

CONSTANT BUFFER_SIZE
ASSUME BufferSizeAssumption == BUFFER_SIZE \in Nat \ {0}

VARIABLES
    buffer,
    produced_until, consumed_until,
    produced, consumed                \* by round, what was put and what was got

bufferVars == <<buffer, produced_until, consumed_until, produced, consumed>>

Producer == 1
Consumer == 2
Halves == 1 .. 2
Nothing == [h \in Halves |-> 0]
Items == 0 .. RUNS - 1

BufferStart ==
    /\ buffer = [s \in 0 .. BUFFER_SIZE - 1 |-> Nothing]
    /\ produced_until = 0
    /\ consumed_until = 0
    /\ produced = [r \in Items |-> Nothing]
    /\ consumed = [r \in Items |-> Nothing]

procon1_main == Launch("procon1", {Producer, Consumer}, "copy1")
procon2_main == Launch("procon2", {Producer, Consumer}, "acquire")
procon3_main == Launch("procon3", {Producer, Consumer}, "poll")
procon4_main == Launch("procon4", {Producer, Consumer}, "acquire")

BufferLaunch == procon1_main \/ procon2_main \/ procon3_main \/ procon4_main
----------------------------------------------------------------------------
\* mutant: the producer may go one slot too far
MayProceedOff(t) ==
    IF t = Producer THEN consumed_until + BUFFER_SIZE >= round[t] ELSE produced_until > round[t]

(* the condition each thread waits for                                     *)
MayProceed(t) ==
    IF t = Producer THEN consumed_until + BUFFER_SIZE > round[t] ELSE produced_until > round[t]

Slot(r) == r % BUFFER_SIZE

(* the data of the round is generated, and half of it is in the buffer     *)
Produce(h) ==
    LET r == round[Producer] IN
    /\ produced' = [produced EXCEPT ![r] = [k \in Halves |-> r + 1]]
    /\ buffer' = [buffer EXCEPT ![Slot(r)][h] = r + 1]
    /\ UNCHANGED <<consumed, produced_until, consumed_until>>

Consume(h) ==
    LET r == round[Consumer] IN
    /\ consumed' = [consumed EXCEPT ![r][h] = buffer[Slot(r)][h]]
    /\ UNCHANGED <<buffer, produced, produced_until, consumed_until>>

CopyHalf(t, h) == IF t = Producer THEN Produce(h) ELSE Consume(h)

CopyFirst(t) ==
    /\ pc[t] = "copy1"
    /\ CopyHalf(t, 1)
    /\ GoTo(t, "copy2")
    /\ UNCHANGED <<round, mutex, cv>>

CopySecond(t) ==
    /\ pc[t] = "copy2"
    /\ CopyHalf(t, 2)
    /\ UNCHANGED <<mutex, cv>>

(* produced_until++ or consumed_until++                                    *)
Publish(t) ==
    /\ pc[t] = "publish"
    /\ produced_until' = produced_until + (IF t = Producer THEN 1 ELSE 0)
    /\ consumed_until' = consumed_until + (IF t = Consumer THEN 1 ELSE 0)
    /\ UNCHANGED <<buffer, produced, consumed>>

procon1_thread(t) ==
    /\ program = "procon1"
    /\ \/ CopyFirst(t)
       \/ CopySecond(t) /\ NextRound(t, "copy1")

(* what procon2 and procon4 do with the lock                               *)
Acquire(t) ==
    /\ pc[t] = "acquire"
    /\ t \notin cv
    /\ lock_acquire(t)
    /\ GoTo(t, "test")
    /\ UNCHANGED <<round, bufferVars>>

TestPasses(t) ==
    /\ pc[t] = "test"
    /\ MayProceed(t)
    /\ GoTo(t, "copy1")
    /\ UNCHANGED <<round, bufferVars, mutex, cv>>

CopyAndPublishLocked(t) ==
    \/ CopyFirst(t)
    \/ CopySecond(t) /\ GoTo(t, "publish") /\ UNCHANGED round
    \/ Publish(t) /\ GoTo(t, "release") /\ UNCHANGED <<round, mutex, cv>>

procon2_thread(t) ==
    /\ program = "procon2"
    /\ \/ Acquire(t)
       \/ TestPasses(t)
       \/ /\ pc[t] = "test"
          /\ ~MayProceed(t)
          /\ lock_release(t)
          /\ GoTo(t, "acquire")
          /\ UNCHANGED <<round, bufferVars>>
       \/ CopyAndPublishLocked(t)
       \/ /\ pc[t] = "release"
          /\ lock_release(t)
          /\ NextRound(t, "acquire")
          /\ UNCHANGED bufferVars

\* mutant: the consumer tells it has consumed before it has
procon3_threadEarly(t) ==
    /\ program = "procon3"
    /\ \/ /\ pc[t] = "poll"
          /\ MayProceed(t)
          /\ GoTo(t, "publish")
          /\ UNCHANGED <<round, bufferVars, mutex, cv>>
       \/ Publish(t) /\ GoTo(t, "copy1") /\ UNCHANGED <<round, mutex, cv>>
       \/ CopyFirst(t)
       \/ CopySecond(t) /\ NextRound(t, "poll")

(* a poll that fails is a stutter                                          *)
procon3_thread(t) ==
    /\ program = "procon3"
    /\ \/ /\ pc[t] = "poll"
          /\ MayProceed(t)
          /\ GoTo(t, "copy1")
          /\ UNCHANGED <<round, bufferVars, mutex, cv>>
       \/ CopyFirst(t)
       \/ CopySecond(t) /\ GoTo(t, "publish") /\ UNCHANGED round
       \/ Publish(t) /\ NextRound(t, "poll") /\ UNCHANGED <<mutex, cv>>

\* mutant: the lock is released and nobody is woken
procon4_threadSilent(t) ==
    /\ program = "procon4"
    /\ \/ Acquire(t)
       \/ TestPasses(t)
       \/ /\ pc[t] = "test"
          /\ ~MayProceed(t)
          /\ lock_wait(t)
          /\ GoTo(t, "acquire")
          /\ UNCHANGED <<round, bufferVars>>
       \/ CopyAndPublishLocked(t)
       \/ /\ pc[t] = "release"
          /\ lock_release(t)
          /\ NextRound(t, "acquire")
          /\ UNCHANGED bufferVars

(* lock_wait returns, by a wake-up, once it has acquired the mutex again   *)
procon4_thread(t) ==
    /\ program = "procon4"
    /\ \/ Acquire(t)
       \/ TestPasses(t)
       \/ /\ pc[t] = "test"
          /\ ~MayProceed(t)
          /\ lock_wait(t)
          /\ GoTo(t, "acquire")
          /\ UNCHANGED <<round, bufferVars>>
       \/ CopyAndPublishLocked(t)
       \/ /\ pc[t] = "release"
          /\ lock_release(t)
          /\ GoTo(t, "wake")
          /\ UNCHANGED <<round, bufferVars>>
       \/ /\ pc[t] = "wake"
          /\ lock_wake_up
          /\ NextRound(t, "acquire")
          /\ UNCHANGED bufferVars

(* pthread_cond_wait may return by itself                                  *)
WakeSpuriously(t) ==
    /\ t \in cv
    /\ cv' = cv \ {t}
    /\ UNCHANGED <<pc, round, mutex, bufferVars>>

BufferStep(t) ==
    procon1_thread(t) \/ procon2_thread(t) \/ procon3_thread(t) \/ procon4_thread(t)

TakesTheLock(t) == program \in {"procon2", "procon4"} /\ Acquire(t)
----------------------------------------------------------------------------
(* "Correct": what the consumer of procon2, procon3 and procon4 has got of *)
(* an item is what the producer put there for it, even half way through a  *)
(* copy; nothing is torn, read before it is there or overwritten unread.   *)
ConsumesProduced ==
    program \in {"procon2", "procon3", "procon4"} =>
        \A r \in Items, h \in Halves :
            \/ consumed[r][h] = produced[r][h] /\ produced[r][h] # 0
            \/ consumed[r][h] = 0 /\ round[Consumer] <= r

(* "Overwritting data being read": in those programs the two threads are   *)
(* never in the middle of a copy on one slot.                              *)
SlotsNotShared ==
    /\ program \in {"procon2", "procon3", "procon4"}
    /\ \A t \in {Producer, Consumer} : pc[t] \in {"copy1", "copy2"}
    => Slot(round[Producer]) # Slot(round[Consumer])
=============================================================================
