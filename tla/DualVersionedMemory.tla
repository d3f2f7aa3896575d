------------------------ MODULE DualVersionedMemory ------------------------
(***************************************************************************)
(* The words of one segment of the dual-versioned transactional memory     *)
(* (275085/tm.c) under transactions admitted by the batcher.  Every word   *)
(* has two copies and a control structure that says which copy is the      *)
(* read-only one, which transaction owns the word in this epoch, and       *)
(* whether it wrote it.  tm_read and tm_write call read_word and           *)
(* write_word once per word, so a transaction is modelled as a sequence of *)
(* word operations.                                                        *)
(*                                                                         *)
(* Grain: what runs under one lock is one step; what read_word, write_word *)
(* and tm_begin do before taking or after releasing it are steps of their  *)
(* own, as other threads run in between.                                   *)
(***************************************************************************)
EXTENDS Batcher

CONSTANTS
    NWords,           \* words of the segment
    Values            \* what a word can hold

ASSUME NWordsAssumption == NWords \in Nat \ {0}
ASSUME ValuesAssumption == 0 \in Values /\ Values \subseteq Nat

MaxTransactions == 65536    \* MAX_NUM_SEGMENTS, the length of is_ro_flags
ASSUME FewThreadsAssumption == Cardinality(Threads) <= MaxTransactions

Words == 0 .. NWords - 1
NONE == 1048575       \* 0xFFFFF: no transaction (segment.h)
TxIds == 0 .. Cardinality(Threads) - 1

VARIABLES
    control,          \* per word: word_is_ro, access_set, word_has_been_written
    words_array_A, words_array_B,
    is_ro_flags,      \* indexed by transaction id, set by tm_begin
    op,               \* the word operation each thread is in
    target            \* the word and value a transaction has just read; the
                      \* client uses them up before its next operation

memoryVars == <<control, words_array_A, words_array_B, is_ro_flags, op, target>>
vars == <<batcherVars, memoryVars>>

\* between two word operations; inside tm_begin; outside any transaction
Idle == [at |-> "idle"]
Begun == [at |-> "begun"]
NotRunning == [at |-> "not running"]
NoRead == <<>>

Ops ==
    {Idle, Begun, NotRunning}
        \cup [at : {"read_ro_copy", "read_writable_copy"}, word : Words]
        \cup [at : {"write_lock", "first_copy", "write_copy"}, word : Words, val : Values]
        \cup [at : {"abort"}, word : 0 .. NWords]

MemoryTypeOK ==
    /\ control \in [Words -> [word_is_ro : BOOLEAN, access_set : TxIds \cup {NONE},
                              word_has_been_written : BOOLEAN]]
    /\ words_array_A \in [Words -> Values]
    /\ words_array_B \in [Words -> Values]
    /\ is_ro_flags \in [TxIds -> BOOLEAN]
    /\ \A t \in At("inside") : tx[t] \in TxIds
    /\ op \in [Threads -> Ops]
    /\ target \in [Threads -> {NoRead} \cup (Words \X Values)]

RoCopy(w) == IF control[w].word_is_ro THEN words_array_B[w] ELSE words_array_A[w]
WritableCopy(w) == IF control[w].word_is_ro THEN words_array_A[w] ELSE words_array_B[w]

\* t's transaction wrote w in this epoch
OwnsWritten(t, w) ==
    control[w].word_has_been_written /\ control[w].access_set = tx[t]
----------------------------------------------------------------------------
MemoryInit ==
    /\ BatcherInit
    /\ control = [w \in Words |-> [word_is_ro |-> FALSE, access_set |-> NONE,
                                   word_has_been_written |-> FALSE]]
    /\ words_array_A = [w \in Words |-> 0]
    /\ words_array_B = [w \in Words |-> 0]
    /\ is_ro_flags = [i \in TxIds |-> FALSE]    \* written before it is read
    /\ op = [t \in Threads |-> NotRunning]
    /\ target = [t \in Threads |-> NoRead]

GoTo(t, next) == op' = [op EXCEPT ![t] = next]
ToAbort(t) == GoTo(t, [at |-> "abort", word |-> 0])
Consume(t) == target' = [target EXCEPT ![t] = NoRead]

\* tm_begin up to the return of enter_batcher
TmBegin(t) ==
    /\ EnterFirst(t) \/ Resume(t)
    /\ GoTo(t, Begun)
    /\ UNCHANGED <<control, words_array_A, words_array_B, is_ro_flags, target>>

TmBeginBlocks(t) ==
    /\ EnterBlock(t) \/ SpuriousWakeup(t)
    /\ UNCHANGED memoryVars

\* the rest of tm_begin, with the batcher's lock released
TmBeginFlag(t) ==
    /\ op[t] = Begun
    /\ \E is_ro \in BOOLEAN : is_ro_flags' = [is_ro_flags EXCEPT ![tx[t]] = is_ro]
    /\ GoTo(t, Idle)
    /\ UNCHANGED <<batcherVars, control, words_array_A, words_array_B, target>>

\* read_word up to the choice of the copy
ReadWord(t, w) ==
    /\ op[t] = Idle
    /\ \/ /\ is_ro_flags[tx[t]]
          /\ GoTo(t, [at |-> "read_ro_copy", word |-> w])
          /\ UNCHANGED control
       \/ /\ ~is_ro_flags[tx[t]]
          /\ ~control[w].word_has_been_written
          /\ control' = IF control[w].access_set = NONE
                        THEN [control EXCEPT ![w].access_set = tx[t]]
                        ELSE control
          /\ GoTo(t, [at |-> "read_ro_copy", word |-> w])
       \/ /\ ~is_ro_flags[tx[t]]
          /\ OwnsWritten(t, w)
          /\ GoTo(t, [at |-> "read_writable_copy", word |-> w])
          /\ UNCHANGED control
       \/ /\ ~is_ro_flags[tx[t]]
          /\ control[w].word_has_been_written /\ control[w].access_set # tx[t]
          /\ ToAbort(t)
          /\ UNCHANGED control
    /\ Consume(t)
    /\ UNCHANGED <<batcherVars, words_array_A, words_array_B, is_ro_flags>>

\* the memcpy of read_read_only_copy or read_writable_copy
ReadCopy(t) ==
    /\ op[t].at \in {"read_ro_copy", "read_writable_copy"}
    /\ LET w == op[t].word
           v == IF op[t].at = "read_ro_copy" THEN RoCopy(w) ELSE WritableCopy(w)
       IN  target' = [target EXCEPT ![t] = <<w, v>>]
    /\ GoTo(t, Idle)
    /\ UNCHANGED <<batcherVars, control, words_array_A, words_array_B, is_ro_flags>>

\* write_word looks at word_has_been_written without the word's lock
WriteWord(t, w, v) ==
    /\ op[t] = Idle
    /\ ~is_ro_flags[tx[t]]
    /\ IF control[w].word_has_been_written
       THEN IF control[w].access_set = tx[t]
            THEN GoTo(t, [at |-> "write_copy", word |-> w, val |-> v])
            ELSE ToAbort(t)
       ELSE GoTo(t, [at |-> "write_lock", word |-> w, val |-> v])
    /\ Consume(t)
    /\ UNCHANGED <<batcherVars, control, words_array_A, words_array_B, is_ro_flags>>

\* mutant: the lock is taken but the access set is not looked at again
WriteLockedUnchecked(t) ==
    /\ op[t].at = "write_lock"
    /\ control' = [control EXCEPT ![op[t].word].access_set = tx[t],
                                  ![op[t].word].word_has_been_written = TRUE]
    /\ GoTo(t, [op[t] EXCEPT !.at = "first_copy"])
    /\ UNCHANGED <<batcherVars, words_array_A, words_array_B, is_ro_flags, target>>

\* write_word with the word's lock held
WriteLocked(t) ==
    /\ op[t].at = "write_lock"
    /\ LET w == op[t].word IN
       IF control[w].access_set \notin {NONE, tx[t]}
       THEN /\ ToAbort(t)
            /\ UNCHANGED control
       ELSE /\ control' = [control EXCEPT ![w].access_set = tx[t],
                                          ![w].word_has_been_written = TRUE]
            /\ GoTo(t, [op[t] EXCEPT !.at = "first_copy"])
    /\ UNCHANGED <<batcherVars, words_array_A, words_array_B, is_ro_flags, target>>

\* the memcpy of write_to_correct_copy
WriteCopy(t) ==
    /\ op[t].at \in {"first_copy", "write_copy"}
    /\ LET w == op[t].word
           v == op[t].val
       IN IF control[w].word_is_ro
          THEN /\ words_array_A' = [words_array_A EXCEPT ![w] = v]
               /\ UNCHANGED words_array_B
          ELSE /\ words_array_B' = [words_array_B EXCEPT ![w] = v]
               /\ UNCHANGED words_array_A
    /\ GoTo(t, Idle)
    /\ UNCHANGED <<batcherVars, control, is_ro_flags, target>>

\* mutant: an aborted transaction gives the word up but leaves it marked written
AbortWordKeepsWritten(t) ==
    /\ op[t].at = "abort"
    /\ op[t].word < NWords
    /\ LET w == op[t].word IN
       /\ control' = IF OwnsWritten(t, w)
                     THEN [control EXCEPT ![w].access_set = NONE]
                     ELSE control
       /\ GoTo(t, [at |-> "abort", word |-> w + 1])
    /\ UNCHANGED <<batcherVars, words_array_A, words_array_B, is_ro_flags, target>>

(* One iteration of the loop of abort_transaction_tx.  The test of the     *)
(* control structure is outside the lock, but only t makes an entry its    *)
(* own or gives it up, so test and reset are one step.                     *)
AbortWord(t) ==
    /\ op[t].at = "abort"
    /\ op[t].word < NWords
    /\ LET w == op[t].word IN
       /\ control' = IF OwnsWritten(t, w)
                     THEN [control EXCEPT ![w].access_set = NONE,
                                          ![w].word_has_been_written = FALSE]
                     ELSE control
       /\ GoTo(t, [at |-> "abort", word |-> w + 1])
    /\ UNCHANGED <<batcherVars, words_array_A, words_array_B, is_ro_flags, target>>

\* mutant: only the words that were written are reset for the next epoch
CommitWordsKeepsMarks ==
    control' = [w \in Words |->
                  IF control[w].word_has_been_written
                  THEN [word_is_ro |-> ~control[w].word_is_ro, access_set |-> NONE,
                        word_has_been_written |-> FALSE]
                  ELSE control[w]]

\* commit_transcations_in_epoch on the words of a live segment
CommitWords ==
    control' = [w \in Words |->
                  [word_is_ro |-> control[w].word_is_ro # control[w].word_has_been_written,
                   access_set |-> NONE,
                   word_has_been_written |-> FALSE]]

\* mutant: an aborted transaction does not leave the batcher
TmLeaveUnlessAborted(t) ==
    /\ op[t] = Idle
    /\ \/ LeaveLast(t) /\ CommitWords
       \/ LeaveEarly(t) /\ UNCHANGED control
    /\ GoTo(t, NotRunning)
    /\ Consume(t)
    /\ UNCHANGED <<words_array_A, words_array_B, is_ro_flags>>

\* tm_end, or the end of abort_transaction_tx: leave_batcher
TmLeave(t) ==
    /\ op[t] \in {Idle, [at |-> "abort", word |-> NWords]}
    /\ \/ LeaveLast(t) /\ CommitWords
       \/ LeaveEarly(t) /\ UNCHANGED control
    /\ GoTo(t, NotRunning)
    /\ Consume(t)
    /\ UNCHANGED <<words_array_A, words_array_B, is_ro_flags>>

MemoryStep(t) ==
    \/ TmBegin(t) \/ TmBeginBlocks(t) \/ TmBeginFlag(t)
    \/ \E w \in Words : ReadWord(t, w) \/ \E v \in Values : WriteWord(t, w, v)
    \/ ReadCopy(t) \/ WriteLocked(t) \/ WriteCopy(t) \/ AbortWord(t) \/ TmLeave(t)

MemoryNext == \E t \in Threads : MemoryStep(t)
MemorySpec == MemoryInit /\ [][MemoryNext]_vars
----------------------------------------------------------------------------
(* Properties                                                              *)

(* The control structures speak of the running epoch only: whoever is      *)
(* registered for a word was given its id in this epoch, and a written     *)
(* word has an owner.  A mark left over from an earlier epoch would make a *)
(* later transaction with the recycled id read the wrong copy.             *)
WordsBelongToEpoch ==
    \A w \in Words :
        /\ control[w].access_set # NONE => control[w].access_set < tx_id_generator
        /\ control[w].word_has_been_written => control[w].access_set # NONE

Writing == {t \in Threads : op[t].at \in {"first_copy", "write_copy"}}
Copying == Writing \cup {t \in Threads : op[t].at \in {"read_ro_copy", "read_writable_copy"}}

\* does the pending memcpy of t touch words_array_B, or words_array_A?
TouchesB(t) == control[op[t].word].word_is_ro <=> op[t].at = "read_ro_copy"

(* The memcpy calls run with no lock held; still no thread writes a copy   *)
(* of a word while another reads or writes that copy.                      *)
CopiesRaceFree ==
    \A t \in Writing : \A u \in Copying \ {t} :
        op[t].word = op[u].word => TouchesB(t) # TouchesB(u)

(* The memory implements snapshot isolation with atomic epochs.            *)
(*   mem        the read-only copies;                                      *)
(*   buf        the writable copies of the words a running, not aborting   *)
(*              transaction owns, once its first value is copied there;    *)
(*   committed  the writable copies owned by no running transaction.       *)
Unwritten == -1

Buffer(t) ==
    [w \in Words |->
        IF /\ OwnsWritten(t, w)
           /\ op[t].at # "abort"
           /\ ~(op[t].at = "first_copy" /\ op[t].word = w)
        THEN WritableCopy(w) ELSE Unwritten]

Committed ==
    [w \in Words |->
        IF /\ control[w].word_has_been_written
           /\ \A t \in At("inside") : ~OwnsWritten(t, w)
        THEN WritableCopy(w) ELSE Unwritten]

Snapshot == INSTANCE SnapshotMemory WITH
    active <- Active, queued <- At("blocked"),
    mem <- [w \in Words |-> RoCopy(w)],
    committed <- Committed,
    buf <- [t \in Threads |-> Buffer(t)],
    doomed <- {t \in Threads : op[t].at = "abort"},
    seen <- target,
    Zero <- 0

ImplementsSnapshot == Snapshot!SnapshotSpec
=============================================================================
