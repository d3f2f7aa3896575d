--------------------------- MODULE SnapshotMemory ---------------------------
(***************************************************************************)
(* What the transactional memory promises to the transactions of an epoch  *)
(* (project description, section 1.2: snapshot isolation and atomicity).   *)
(* All transactions of an epoch read the memory as it was when the epoch   *)
(* began, except for their own writes; a word is written by at most one    *)
(* surviving transaction of the epoch; the writes of the transactions that *)
(* end without aborting become the memory at one point, the end of the     *)
(* epoch; those of aborted transactions are never seen.                    *)
(***************************************************************************)
EXTENDS EpochGate

CONSTANTS Words, Values,
          Unwritten,   \* not one of Values: the word was not written
          Zero         \* what a fresh word holds

VARIABLES
    mem,         \* the memory every transaction of the epoch started from
    committed,   \* the writes of the epoch's transactions that have ended
    buf,         \* buf[t]: the writes of t's running transaction
    doomed,      \* threads whose transaction has been aborted
    seen         \* seen[t]: what t's transaction has just read

snapshotVars == <<active, queued, mem, committed, buf, doomed, seen>>

NoWrites == [w \in Words |-> Unwritten]
NoRead == <<>>

\* the writes of `above`, and where it has none, those of `below`
Overlay(above, below) ==
    [w \in Words |-> IF above[w] = Unwritten THEN below[w] ELSE above[w]]

SnapshotInit ==
    /\ GateInit
    /\ mem = [w \in Words |-> Zero]
    /\ committed = NoWrites
    /\ buf = [t \in Threads |-> NoWrites]
    /\ doomed = {}
    /\ seen = [t \in Threads |-> NoRead]

Arrive(t) ==
    /\ Start(t) \/ Queue(t)
    /\ UNCHANGED <<mem, committed, buf, doomed, seen>>

Read(t, w) ==
    /\ t \in active \ doomed
    /\ seen' = [seen EXCEPT ![t] = <<w, Overlay(buf[t], mem)[w]>>]
    /\ UNCHANGED <<active, queued, mem, committed, buf, doomed>>

\* the client has used what it read
Consume(t) ==
    /\ seen' = [seen EXCEPT ![t] = NoRead]
    /\ UNCHANGED <<active, queued, mem, committed, buf, doomed>>

\* first updater wins: nobody else's write of the epoch to w has survived
Write(t, w, v) ==
    /\ t \in active \ doomed
    /\ committed[w] = Unwritten
    /\ \A u \in Threads \ {t} : buf[u][w] = Unwritten
    /\ buf' = [buf EXCEPT ![t][w] = v]
    /\ UNCHANGED <<active, queued, mem, committed, doomed, seen>>

Abort(t) ==
    /\ t \in active \ doomed
    /\ doomed' = doomed \cup {t}
    /\ buf' = [buf EXCEPT ![t] = NoWrites]
    /\ seen' = [seen EXCEPT ![t] = NoRead]
    /\ UNCHANGED <<active, queued, mem, committed>>

\* t's transaction is over; the last one publishes the epoch
Over(t) ==
    /\ buf' = [buf EXCEPT ![t] = NoWrites]
    /\ doomed' = doomed \ {t}
    /\ seen' = [seen EXCEPT ![t] = NoRead]
    /\ \/ /\ Finish(t)
          /\ committed' = Overlay(buf[t], committed)
          /\ UNCHANGED mem
       \/ /\ EndEpoch(t)
          /\ mem' = Overlay(Overlay(buf[t], committed), mem)
          /\ committed' = NoWrites

SnapshotNext ==
    \E t \in Threads :
        \/ Arrive(t) \/ Consume(t) \/ Abort(t) \/ Over(t)
        \/ \E w \in Words : Read(t, w) \/ \E v \in Values : Write(t, w, v)

SnapshotSpec == SnapshotInit /\ [][SnapshotNext]_snapshotVars
=============================================================================
