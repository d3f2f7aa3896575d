--------------------------- MODULE SnapshotProofs ---------------------------
(***************************************************************************)
(* The words of the dual-versioned memory implement snapshot isolation     *)
(* with atomic epochs (SnapshotMemory), for any finite set of threads, any *)
(* number of words and any values, over a condition variable without       *)
(* spurious wake-ups.                                                      *)
(***************************************************************************)
EXTENDS MemoryProofs

\* an id is held from enter_batcher to leave_batcher only
IdsInsideOnly == \A t \in Threads : pc[t] # "inside" => tx[t] = NoTx

(* What t's transaction has written, as far as where it is tells: nothing  *)
(* at its start or if it is read-only (and then it does not abort either); *)
(* not the word it is about to read from the read-only copy or to lock; no *)
(* more the words its abort has gone through.                              *)
OwnsOnlyWhatItWrote(t) ==
    /\ op[t] = Begun => \A w \in Words : ~OwnsWritten(t, w)
    /\ op[t] \notin {NotRunning, Begun} /\ is_ro_flags[tx[t]] =>
          /\ op[t].at \in {"idle", "read_ro_copy"}
          /\ \A w \in Words : ~OwnsWritten(t, w)
    /\ op[t].at \in {"read_ro_copy", "write_lock"} => ~OwnsWritten(t, op[t].word)
    /\ op[t].at = "abort" => \A w \in Words : w < op[t].word => ~OwnsWritten(t, w)

\* what a client has read is used up when its write asks for a word's lock
ReadsAreUsedUp == \A t \in Threads : op[t].at = "write_lock" => target[t] = NoRead

(* The mapping to SnapshotMemory reads a transaction's writes off the      *)
(* words it owns; MemoryInv says whose they are, this says when.           *)
SnapshotInv ==
    /\ MemoryInv
    /\ IdsInsideOnly
    /\ \A t \in Threads : OwnsOnlyWhatItWrote(t)
    /\ ReadsAreUsedUp
----------------------------------------------------------------------------
\* a written word has one owner, and the owner is running
OneRunningOwner ==
    \A u \in Threads, w \in Words :
        OwnsWritten(u, w) =>
            /\ pc[u] = "inside"
            /\ \A v \in Threads : OwnsWritten(v, w) => v = u

(* Who owns a word is told by an id; the invariant makes it one thread.    *)
LEMMA Owners == SnapshotInv => OneRunningOwner
  <1> SUFFICES ASSUME SnapshotInv, NEW u \in Threads, NEW w \in Words, OwnsWritten(u, w)
               PROVE  /\ pc[u] = "inside"
                      /\ \A v \in Threads : OwnsWritten(v, w) => v = u
    BY DEF OneRunningOwner
  <1>1. ASSUME NEW v \in Threads, OwnsWritten(v, w) PROVE pc[v] = "inside"
    <2>1. control[w].access_set \in TxIds
      BY <1>1 DEF SnapshotInv, MemoryInv, MemoryTypeOK, WordsBelongToEpoch, OwnsWritten
    <2>2. tx[v] # NoTx
      BY <1>1, <2>1, Ids DEF SnapshotInv, MemoryInv, OwnsWritten, NoTx
    <2> QED
      BY <1>1, <2>2 DEF SnapshotInv, IdsInsideOnly
  <1>2. ASSUME NEW v \in Threads, OwnsWritten(v, w) PROVE v = u
    <2>1. tx[v] = tx[u]
      BY <1>2 DEF OwnsWritten
    <2> QED
      BY <1>1, <1>2, <2>1, Ids DEF SnapshotInv, MemoryInv
  <1> QED
    BY <1>1, <1>2

(* Ids are given back by leave_batcher.                                    *)
LEMMA StepIdsInside ==
    ASSUME TypeOK, IdsInsideOnly, NEW t \in Threads, BatcherStep(t)
    PROVE  IdsInsideOnly'
  BY DEF TypeOK, IdsInsideOnly, BatcherStep, EnterFirst, EnterBlock, SpuriousWakeup, Resume,
         LeaveLast, LeaveEarly, TakeId

(* What a step of t leaves to another thread u: its operation, its id, its *)
(* flag, and the words it owns.                                            *)
LEMMA OthersKeepTheirs ==
    ASSUME SnapshotInv, ~SpuriousWakeups, NEW t \in Threads, MemoryStep(t),
           NEW u \in Threads \ {t}
    PROVE  /\ op'[u] = op[u] /\ tx'[u] = tx[u] /\ target'[u] = target[u]
           /\ pc[u] = "inside" => is_ro_flags'[tx[u]] = is_ro_flags[tx[u]]
           /\ \A w \in Words :
                 /\ OwnsWritten(u, w)' => OwnsWritten(u, w)
                 /\ OwnsWritten(u, w) /\ ~LeaveLast(t) => OwnsWritten(u, w)'
  <1>a. /\ control \in [Words -> [word_is_ro : BOOLEAN, access_set : TxIds \cup {NONE},
                                  word_has_been_written : BOOLEAN]]
        /\ is_ro_flags \in [TxIds -> BOOLEAN]
        /\ op \in [Threads -> Ops]
        /\ target \in [Threads -> {NoRead} \cup (Words \X Values)]
    BY DEF SnapshotInv, MemoryInv, MemoryTypeOK
  <1>b. tx \in [Threads -> Nat \cup {NoTx}]
    BY DEF SnapshotInv, MemoryInv, EpochInv, TypeOK
  <1>c. \A v \in Threads : op[v] # NotRunning => pc[v] = "inside" /\ tx[v] \in TxIds
    BY Ids DEF SnapshotInv, MemoryInv, OperationsMatch
  <1>d. op[t].at \in {"write_lock", "abort"} => op[t] # NotRunning
    BY <1>a, OpFields
  <1>1. tx'[u] = tx[u]
    BY <1>b DEF MemoryStep, TmBegin, TmBeginBlocks, TmBeginFlag, ReadWord, ReadCopy, WriteWord,
                WriteLocked, WriteCopy, AbortWord, TmLeave, EnterFirst, EnterBlock,
                SpuriousWakeup, Resume, LeaveLast, LeaveEarly, TakeId, batcherVars
  <1>2. op'[u] = op[u] /\ target'[u] = target[u]
    BY <1>a DEF MemoryStep, TmBegin, TmBeginBlocks, TmBeginFlag, ReadWord, ReadCopy, WriteWord,
                WriteLocked, WriteCopy, AbortWord, TmLeave, GoTo, ToAbort, Consume, memoryVars
  <1>3. ASSUME pc[u] = "inside" PROVE is_ro_flags'[tx[u]] = is_ro_flags[tx[u]]
    <2>1. CASE TmBeginFlag(t)
      <3>1. tx[t] # tx[u]
        <4>1. op[t] # NotRunning
          BY <2>1, OpFields, OpsEntered DEF TmBeginFlag, Begun, NotRunning
        <4> QED
          BY <1>3, <1>c, <4>1, Ids DEF SnapshotInv, MemoryInv
      <3> QED
        BY <2>1, <3>1, <1>a DEF TmBeginFlag
    <2>2. CASE ~TmBeginFlag(t)
      BY <2>2 DEF MemoryStep, TmBegin, TmBeginBlocks, ReadWord, ReadCopy, WriteWord,
                  WriteLocked, WriteCopy, AbortWord, TmLeave, memoryVars
    <2> QED
      BY <2>1, <2>2
  <1>4. ASSUME NEW w \in Words
        PROVE  /\ OwnsWritten(u, w)' => OwnsWritten(u, w)
               /\ OwnsWritten(u, w) /\ ~LeaveLast(t) => OwnsWritten(u, w)'
    <2>1. CASE UNCHANGED control
      BY <1>1, <2>1 DEF OwnsWritten
    <2>2. ASSUME NEW x \in Words, ReadWord(t, x), control' # control
          PROVE  OwnsWritten(u, w)' <=> OwnsWritten(u, w)
      <3>1. /\ ~control[x].word_has_been_written
            /\ control' = [control EXCEPT ![x].access_set = tx[t]]
        BY <2>2 DEF ReadWord
      <3> QED
        BY <1>1, <1>a, <3>1 DEF OwnsWritten
    <2>3. CASE WriteLocked(t) /\ control' # control
      <3> DEFINE x == op[t].word
      <3>1. /\ control[x].access_set \in {NONE, tx[t]}
            /\ control' = [control EXCEPT ![x].access_set = tx[t],
                                          ![x].word_has_been_written = TRUE]
        BY <2>3 DEF WriteLocked
      <3>2. op[t] # NotRunning /\ x \in Words
        BY <2>3, <1>a, <1>d, OpFields DEF WriteLocked
      <3>3. tx[u] # tx[t] /\ tx[u] # NONE
        <4>1. CASE pc[u] = "inside"
          BY <4>1, <3>2, <1>c, Ids DEF SnapshotInv, MemoryInv
        <4>2. CASE pc[u] # "inside"
          BY <4>2, <3>2, <1>c, Ids DEF SnapshotInv, MemoryInv, IdsInsideOnly, NoTx, NONE
        <4> QED
          BY <4>1, <4>2
      <3> HIDE DEF x
      <3>4. CASE w = x
        BY <1>1, <1>a, <3>1, <3>2, <3>3, <3>4 DEF OwnsWritten
      <3>5. CASE w # x
        BY <1>1, <1>a, <3>1, <3>2, <3>5 DEF OwnsWritten
      <3> QED
        BY <3>4, <3>5
    <2>4. CASE AbortWord(t) /\ control' # control
      <3> DEFINE x == op[t].word
      <3>1. /\ OwnsWritten(t, x) /\ x < NWords
            /\ control' = [control EXCEPT ![x].access_set = NONE,
                                          ![x].word_has_been_written = FALSE]
        BY <2>4 DEF AbortWord
      <3>2. x \in Words
        <4>1. x \in 0 .. NWords
          BY <2>4, <1>a, OpFields DEF AbortWord
        <4> QED
          BY <3>1, <4>1, NWordsAssumption DEF Words
      <3>3. ~OwnsWritten(u, x)
        BY <3>1, <3>2, Owners DEF OneRunningOwner
      <3> HIDE DEF x
      <3>4. CASE w = x
        BY <1>1, <1>a, <3>1, <3>2, <3>3, <3>4 DEF OwnsWritten
      <3>5. CASE w # x
        BY <1>1, <1>a, <3>1, <3>2, <3>5 DEF OwnsWritten
      <3> QED
        BY <3>4, <3>5
    <2>5. CASE LeaveLast(t) /\ CommitWords
      BY <2>5 DEF CommitWords, OwnsWritten
    <2> QED
      BY <2>1, <2>2, <2>3, <2>4, <2>5 DEF MemoryStep, TmBegin, TmBeginBlocks, TmBeginFlag,
         ReadCopy, WriteWord, WriteCopy, TmLeave, memoryVars
  <1> QED
    BY <1>1, <1>2, <1>3, <1>4
----------------------------------------------------------------------------
(* The initial state: no ids, no operations.                               *)
LEMMA InitSnapshotInv == MemoryInit => SnapshotInv
  <1> SUFFICES ASSUME MemoryInit PROVE SnapshotInv
    OBVIOUS
  <1>1. MemoryInv
    BY InitMemory
  <1>2. IdsInsideOnly
    BY DEF MemoryInit, BatcherInit, IdsInsideOnly
  <1>3. \A t \in Threads : op[t] = NotRunning /\ op[t].at = "not running" /\ op[t] # Begun
    <2>1. NotRunning.at = "not running" /\ Begun.at = "begun"
      BY DEF NotRunning, Begun
    <2> QED
      BY <2>1 DEF MemoryInit
  <1>4. \A t \in Threads : OwnsOnlyWhatItWrote(t)
    BY <1>3 DEF OwnsOnlyWhatItWrote
  <1>5. ReadsAreUsedUp
    BY <1>3 DEF ReadsAreUsedUp
  <1> QED
    BY <1>1, <1>2, <1>4, <1>5 DEF SnapshotInv

(* The thread that makes the step owns what it should.                     *)
LEMMA StepOwnsItself ==
    ASSUME SnapshotInv, ~SpuriousWakeups, NEW t \in Threads, MemoryStep(t)
    PROVE  OwnsOnlyWhatItWrote(t)'
  <1>a. /\ control \in [Words -> [word_is_ro : BOOLEAN, access_set : TxIds \cup {NONE},
                                  word_has_been_written : BOOLEAN]]
        /\ is_ro_flags \in [TxIds -> BOOLEAN]
        /\ op \in [Threads -> Ops]
    BY DEF SnapshotInv, MemoryInv, MemoryTypeOK
  <1>b. /\ pc \in [Threads -> {"outside", "blocked", "woken", "inside"}]
        /\ tx \in [Threads -> Nat \cup {NoTx}]
        /\ tx_id_generator \in Nat
    BY DEF SnapshotInv, MemoryInv, EpochInv, TypeOK
  <1>c. op[t] # NotRunning => pc[t] = "inside" /\ tx[t] \in TxIds
    BY Ids DEF SnapshotInv, MemoryInv, OperationsMatch
  <1>d. /\ op[t] = Begun => \A w \in Words : ~OwnsWritten(t, w)
        /\ op[t] \notin {NotRunning, Begun} /\ is_ro_flags[tx[t]] =>
              /\ op[t].at \in {"idle", "read_ro_copy"}
              /\ \A w \in Words : ~OwnsWritten(t, w)
        /\ op[t].at \in {"read_ro_copy", "write_lock"} => ~OwnsWritten(t, op[t].word)
        /\ op[t].at = "abort" => \A w \in Words : w < op[t].word => ~OwnsWritten(t, w)
    BY DEF SnapshotInv, OwnsOnlyWhatItWrote
  <1>e. /\ NotRunning.at = "not running" /\ Idle.at = "idle" /\ Begun.at = "begun"
        /\ Idle # NotRunning /\ Idle # Begun
    <2>1. NotRunning.at = "not running" /\ Idle.at = "idle" /\ Begun.at = "begun"
      BY DEF NotRunning, Idle, Begun
    <2> QED
      BY <2>1
  <1>f. \A x \in Words : ~(x < 0)
    BY DEF Words
  \* what has to be shown, when t goes to an operation o
  <1>q. ASSUME NEW o, op'[t] = o,
               o = Begun => \A w \in Words : ~OwnsWritten(t, w)',
               o \notin {NotRunning, Begun} /\ is_ro_flags'[tx'[t]] =>
                   /\ o.at \in {"idle", "read_ro_copy"}
                   /\ \A w \in Words : ~OwnsWritten(t, w)',
               o.at \in {"read_ro_copy", "write_lock"} => ~OwnsWritten(t, o.word)',
               o.at = "abort" => \A w \in Words : w < o.word => ~OwnsWritten(t, w)'
        PROVE  OwnsOnlyWhatItWrote(t)'
    BY <1>q DEF OwnsOnlyWhatItWrote, OwnsWritten
  <1>1. CASE TmBegin(t)
    <2>1. /\ tx'[t] = tx_id_generator /\ op'[t] = Begun /\ UNCHANGED control
      BY <1>1, <1>a, <1>b DEF TmBegin, EnterFirst, Resume, TakeId, GoTo
    <2>2. ASSUME NEW w \in Words PROVE ~OwnsWritten(t, w)'
      <3>1. /\ control[w].access_set # NONE => control[w].access_set < tx_id_generator
            /\ control[w].word_has_been_written => control[w].access_set # NONE
        BY DEF SnapshotInv, MemoryInv, WordsBelongToEpoch
      <3> QED
        BY <2>1, <3>1, <1>b DEF OwnsWritten
    <2> QED
      BY <2>1, <2>2, <1>e, <1>q
  <1>2. CASE TmBeginBlocks(t)
    BY <1>2, <1>d DEF TmBeginBlocks, EnterBlock, SpuriousWakeup, memoryVars,
                      OwnsOnlyWhatItWrote, OwnsWritten
  <1>3. CASE TmBeginFlag(t)
    <2>1. op[t] = Begun /\ op'[t] = Idle /\ UNCHANGED control /\ tx'[t] = tx[t]
      BY <1>3, <1>a DEF TmBeginFlag, GoTo, batcherVars
    <2>2. \A w \in Words : ~OwnsWritten(t, w)'
      BY <2>1, <1>d DEF OwnsWritten
    <2> QED
      BY <2>1, <2>2, <1>e, <1>q
  <1>4. ASSUME NEW w \in Words, ReadWord(t, w) PROVE OwnsOnlyWhatItWrote(t)'
    <2>1. op[t] = Idle /\ tx'[t] = tx[t] /\ UNCHANGED is_ro_flags
      BY <1>4 DEF ReadWord, batcherVars
    <2>2. \A x \in Words : OwnsWritten(t, x)' <=> OwnsWritten(t, x)
      <3>1. \/ UNCHANGED control
            \/ /\ ~control[w].word_has_been_written
               /\ control' = [control EXCEPT ![w].access_set = tx[t]]
        BY <1>4 DEF ReadWord
      <3> QED
        BY <2>1, <3>1, <1>a DEF OwnsWritten
    <2>3. CASE is_ro_flags[tx[t]]
      <3> DEFINE o == [at |-> "read_ro_copy", word |-> w]
      <3>1. op'[t] = o /\ ~OwnsWritten(t, w)
        BY <1>4, <2>1, <2>3, <1>a, <1>d, <1>e DEF ReadWord, GoTo
      <3>2. o.at = "read_ro_copy" /\ o.word = w /\ o \notin {Begun, NotRunning}
        <4>1. o.at = "read_ro_copy" /\ o.word = w
          OBVIOUS
        <4> QED
          BY <4>1, <1>e
      <3> HIDE DEF o
      <3> QED
        BY <2>1, <2>2, <2>3, <3>1, <3>2, <1>d, <1>e, <1>q
    <2>4. CASE ~is_ro_flags[tx[t]]
      <3>1. PICK o :
               /\ op'[t] = o
               /\ \/ o.at = "read_ro_copy" /\ o.word = w /\ ~OwnsWritten(t, w)
                  \/ o.at = "read_writable_copy"
                  \/ o.at = "abort" /\ o.word = 0
        <4>1. \/ op'[t] = [at |-> "read_ro_copy", word |-> w] /\ ~OwnsWritten(t, w)
              \/ op'[t] = [at |-> "read_writable_copy", word |-> w]
              \/ op'[t] = [at |-> "abort", word |-> 0]
          BY <1>4, <2>4, <1>a DEF ReadWord, GoTo, ToAbort, OwnsWritten
        <4> QED
          BY <4>1
      <3>2. o # Begun
        BY <3>1, <1>e
      <3> QED
        BY <2>1, <2>2, <2>4, <3>1, <3>2, <1>f, <1>q
    <2> QED
      BY <2>3, <2>4
  <1>5. CASE ReadCopy(t)
    <2>1. /\ op[t].at \in {"read_ro_copy", "read_writable_copy"}
          /\ op'[t] = Idle /\ tx'[t] = tx[t] /\ UNCHANGED <<control, is_ro_flags>>
      BY <1>5, <1>a DEF ReadCopy, GoTo, batcherVars
    <2>2. \A w \in Words : OwnsWritten(t, w)' <=> OwnsWritten(t, w)
      BY <2>1 DEF OwnsWritten
    <2> QED
      BY <2>1, <2>2, <1>d, <1>e, <1>q
  <1>6. ASSUME NEW w \in Words, NEW v \in Values, WriteWord(t, w, v)
        PROVE  OwnsOnlyWhatItWrote(t)'
    <2>1. /\ op[t] = Idle /\ ~is_ro_flags[tx[t]] /\ tx'[t] = tx[t]
          /\ UNCHANGED <<control, is_ro_flags>>
      BY <1>6 DEF WriteWord, batcherVars
    <2>2. \A x \in Words : OwnsWritten(t, x)' <=> OwnsWritten(t, x)
      BY <2>1 DEF OwnsWritten
    <2>3. PICK o :
             /\ op'[t] = o
             /\ \/ o.at = "write_lock" /\ o.word = w /\ ~OwnsWritten(t, w)
                \/ o.at = "write_copy"
                \/ o.at = "abort" /\ o.word = 0
      <3>1. \/ /\ op'[t] = [at |-> "write_lock", word |-> w, val |-> v]
               /\ ~OwnsWritten(t, w)
            \/ op'[t] = [at |-> "write_copy", word |-> w, val |-> v]
            \/ op'[t] = [at |-> "abort", word |-> 0]
        BY <1>6, <1>a DEF WriteWord, GoTo, ToAbort, OwnsWritten
      <3> QED
        BY <3>1
    <2>4. o # Begun
      BY <2>3, <1>e
    <2> QED
      BY <2>1, <2>2, <2>3, <2>4, <1>f, <1>q
  <1>7. CASE WriteLocked(t)
    <2>1. /\ op[t].at = "write_lock" /\ tx'[t] = tx[t] /\ UNCHANGED is_ro_flags
      BY <1>7 DEF WriteLocked, batcherVars
    <2>2. op[t] \notin {NotRunning, Begun} /\ ~is_ro_flags[tx[t]]
      BY <2>1, <1>d, <1>e
    <2>3. op'[t].at = "first_copy" \/ (op'[t].at = "abort" /\ op'[t].word = 0)
      <3> DEFINE first == [op[t] EXCEPT !.at = "first_copy"]
                 given == [at |-> "abort", word |-> 0]
      <3>1. op'[t] = first \/ op'[t] = given
        BY <1>7, <1>a DEF WriteLocked, GoTo, ToAbort
      <3>2. first.at = "first_copy"
        <4>1. first = [at |-> "first_copy", word |-> op[t].word, val |-> op[t].val]
          BY <2>1, <1>a, OpFields
        <4>2. [at |-> "first_copy", word |-> op[t].word, val |-> op[t].val].at = "first_copy"
          OBVIOUS
        <4> HIDE DEF first
        <4> QED
          BY <4>1, <4>2
      <3>3. given.at = "abort" /\ given.word = 0
        OBVIOUS
      <3> HIDE DEF first, given
      <3> QED
        BY <3>1, <3>2, <3>3
    <2>4. op'[t] # Begun
      BY <2>3, <1>e
    <2> QED
      BY <2>1, <2>2, <2>3, <2>4, <1>f, <1>q
  <1>8. CASE WriteCopy(t)
    <2>1. /\ op[t].at \in {"first_copy", "write_copy"}
          /\ op'[t] = Idle /\ tx'[t] = tx[t] /\ UNCHANGED <<control, is_ro_flags>>
      BY <1>8, <1>a DEF WriteCopy, GoTo, batcherVars
    <2>2. \A w \in Words : OwnsWritten(t, w)' <=> OwnsWritten(t, w)
      BY <2>1 DEF OwnsWritten
    <2> QED
      BY <2>1, <2>2, <1>d, <1>e, <1>q
  <1>9. CASE AbortWord(t)
    <2>1. /\ op[t].at = "abort" /\ op[t].word < NWords
          /\ tx'[t] = tx[t] /\ UNCHANGED is_ro_flags
      BY <1>9 DEF AbortWord, batcherVars
    <2>2. op[t] \notin {NotRunning, Begun} /\ ~is_ro_flags[tx[t]]
      BY <2>1, <1>d, <1>e
    <2>3. PICK x \in Words : x = op[t].word
      <3>1. op[t].word \in 0 .. NWords
        BY <2>1, <1>a, OpFields
      <3> QED
        BY <2>1, <3>1, NWordsAssumption DEF Words
    <2>4. PICK o : op'[t] = o /\ o.at = "abort" /\ o.word = x + 1
      BY <1>9, <2>3, <1>a DEF AbortWord, GoTo
    <2>5. \A w \in Words : OwnsWritten(t, w)' => OwnsWritten(t, w) /\ w # x
      <3>1. control' = IF OwnsWritten(t, x)
                       THEN [control EXCEPT ![x].access_set = NONE,
                                            ![x].word_has_been_written = FALSE]
                       ELSE control
        BY <1>9, <2>3 DEF AbortWord
      <3> QED
        BY <2>1, <2>3, <3>1, <1>a DEF OwnsWritten
    <2>6. \A w \in Words : w < x + 1 => w < x \/ w = x
      BY <2>3 DEF Words
    <2>7. \A w \in Words : w < x => ~OwnsWritten(t, w)
      BY <2>1, <2>3, <1>d
    <2> QED
      BY <2>1, <2>2, <2>4, <2>5, <2>6, <2>7, <1>e, <1>q
  <1>10. CASE TmLeave(t)
    <2>1. op'[t] = NotRunning
      BY <1>10, <1>a DEF TmLeave, GoTo
    <2> QED
      BY <2>1, <1>e, <1>q
  <1> QED
    BY <1>1, <1>2, <1>3, <1>4, <1>5, <1>6, <1>7, <1>8, <1>9, <1>10 DEF MemoryStep

(* A write asks for the lock in the step that uses up what was read.       *)
LEMMA StepReadsUsedUp ==
    ASSUME SnapshotInv, ~SpuriousWakeups, NEW t \in Threads, MemoryStep(t)
    PROVE  ReadsAreUsedUp'
  <1> SUFFICES ASSUME NEW u \in Threads, op'[u].at = "write_lock" PROVE target'[u] = NoRead
    BY DEF ReadsAreUsedUp
  <1>a. /\ op \in [Threads -> Ops]
        /\ target \in [Threads -> {NoRead} \cup (Words \X Values)]
        /\ op[u].at = "write_lock" => target[u] = NoRead
    BY DEF SnapshotInv, MemoryInv, MemoryTypeOK, ReadsAreUsedUp
  <1>1. CASE u # t
    BY <1>1, <1>a, OthersKeepTheirs
  <1>2. CASE u = t
    <2>1. \/ op' = op /\ target' = target
          \/ target' = [target EXCEPT ![t] = NoRead]
          \/ /\ op[t].at = "write_lock"
             /\ op'[t] = [op[t] EXCEPT !.at = "first_copy"]
          \/ op'[t].at \in {"idle", "begun", "abort"}
      <3>1. Idle.at = "idle" /\ Begun.at = "begun"
        BY DEF Idle, Begun
      <3>2. CASE TmBegin(t) \/ TmBeginBlocks(t) \/ TmBeginFlag(t)
        BY <3>1, <3>2, <1>a DEF TmBegin, TmBeginBlocks, TmBeginFlag, GoTo, memoryVars
      <3>3. CASE \E w \in Words : ReadWord(t, w) \/ \E v \in Values : WriteWord(t, w, v)
        BY <3>1, <3>3, <1>a DEF ReadWord, WriteWord, GoTo, ToAbort, Consume
      <3>4. CASE ReadCopy(t) \/ WriteCopy(t)
        BY <3>1, <3>4, <1>a DEF ReadCopy, WriteCopy, GoTo
      <3>5. CASE WriteLocked(t)
        BY <3>1, <3>5, <1>a DEF WriteLocked, GoTo, ToAbort, Consume
      <3>6. CASE AbortWord(t)
        <4>1. op'[t] = [at |-> "abort", word |-> op[t].word + 1]
          BY <3>6, <1>a DEF AbortWord, GoTo
        <4> QED
          BY <4>1
      <3>7. CASE TmLeave(t)
        BY <3>7 DEF TmLeave, Consume
      <3> QED
        BY <3>2, <3>3, <3>4, <3>5, <3>6, <3>7 DEF MemoryStep
    <2>2. op[t].at = "write_lock" => [op[t] EXCEPT !.at = "first_copy"].at = "first_copy"
      <3>1. op[t] \in Ops
        BY <1>a
      <3>2. op[t].at = "write_lock" => [op[t] EXCEPT !.at = "first_copy"]
               = [at |-> "first_copy", word |-> op[t].word, val |-> op[t].val]
        BY <3>1, OpFields
      <3>3. [at |-> "first_copy", word |-> op[t].word, val |-> op[t].val].at = "first_copy"
        OBVIOUS
      <3> QED
        BY <3>2, <3>3
    <2> QED
      BY <1>2, <1>a, <2>1, <2>2
  <1> QED
    BY <1>1, <1>2

(* Every step keeps the invariant of the mapping.                          *)
LEMMA StepSnapshotInv ==
    ASSUME SnapshotInv, ~SpuriousWakeups, NEW t \in Threads, MemoryStep(t)
    PROVE  SnapshotInv'
  <1>1. MemoryInv'
    BY StepMemory DEF SnapshotInv
  <1>2. IdsInsideOnly'
    <2>1. CASE BatcherStep(t)
      BY <2>1, StepIdsInside DEF SnapshotInv, MemoryInv, EpochInv
    <2>2. CASE UNCHANGED batcherVars
      BY <2>2 DEF SnapshotInv, IdsInsideOnly, batcherVars
    <2> QED
      BY <2>1, <2>2, BatcherPart
  <1>3. ASSUME NEW u \in Threads \ {t} PROVE OwnsOnlyWhatItWrote(u)'
    <2>1. OwnsOnlyWhatItWrote(u)
      BY DEF SnapshotInv
    <2>2. /\ op'[u] = op[u] /\ tx'[u] = tx[u]
          /\ pc[u] = "inside" => is_ro_flags'[tx[u]] = is_ro_flags[tx[u]]
          /\ \A w \in Words : OwnsWritten(u, w)' => OwnsWritten(u, w)
      BY OthersKeepTheirs
    <2>3. op[u] # NotRunning => pc[u] = "inside"
      BY DEF SnapshotInv, MemoryInv, OperationsMatch
    <2>4. op[u].at \in {"read_ro_copy", "write_lock"} => op[u].word \in Words
      BY OpFields DEF SnapshotInv, MemoryInv, MemoryTypeOK
    <2> QED
      BY <2>1, <2>2, <2>3, <2>4 DEF OwnsOnlyWhatItWrote, OwnsWritten
  <1>4. OwnsOnlyWhatItWrote(t)'
    BY StepOwnsItself
  <1> QED
    BY <1>1, <1>2, <1>3, <1>4, StepReadsUsedUp DEF SnapshotInv

(* A step that changes nothing keeps it.                                   *)
LEMMA SnapshotInvStutter == SnapshotInv /\ UNCHANGED vars => SnapshotInv'
  <1> SUFFICES ASSUME SnapshotInv, UNCHANGED vars PROVE SnapshotInv'
    OBVIOUS
  <1>1. MemoryInv'
    BY MemoryStutter DEF SnapshotInv
  <1>2. IdsInsideOnly'
    BY DEF SnapshotInv, IdsInsideOnly, vars, batcherVars
  <1>3. \A t \in Threads : OwnsOnlyWhatItWrote(t)'
    BY DEF SnapshotInv, OwnsOnlyWhatItWrote, OwnsWritten, vars, batcherVars, memoryVars
  <1>4. ReadsAreUsedUp'
    BY DEF SnapshotInv, ReadsAreUsedUp, vars, memoryVars
  <1> QED
    BY <1>1, <1>2, <1>3, <1>4 DEF SnapshotInv

(* The memory always satisfies the invariant of the mapping.               *)
THEOREM SnapshotInvariance == ~SpuriousWakeups => (MemorySpec => []SnapshotInv)
  <1> SUFFICES ASSUME ~SpuriousWakeups PROVE MemorySpec => []SnapshotInv
    OBVIOUS
  <1>1. MemoryInit => SnapshotInv
    BY InitSnapshotInv
  <1>2. SnapshotInv /\ [MemoryNext]_vars => SnapshotInv'
    BY StepSnapshotInv, SnapshotInvStutter DEF MemoryNext
  <1> QED
    BY <1>1, <1>2, PTL DEF MemorySpec
----------------------------------------------------------------------------
(* The mapping.                                                            *)

\* written in this epoch by a transaction that has ended
Orphan(w) == control[w].word_has_been_written /\ \A u \in Threads : ~OwnsWritten(u, w)

CommittedAreOrphans ==
    Committed = [w \in Words |-> IF Orphan(w) THEN WritableCopy(w) ELSE Unwritten]

Aborting == {u \in Threads : op[u].at = "abort"}

(* The writes that wait for the end of the epoch are those without owner.  *)
LEMMA CommittedOrphans == SnapshotInv => CommittedAreOrphans
  <1> SUFFICES ASSUME SnapshotInv, NEW w \in Words
               PROVE  (\A u \in At("inside") : ~OwnsWritten(u, w))
                        <=> (\A u \in Threads : ~OwnsWritten(u, w))
    BY DEF CommittedAreOrphans, Committed, Orphan
  <1> QED
    BY Owners DEF OneRunningOwner, At

(* The same after a step.                                                  *)
LEMMA AfterStep == SnapshotInv' => OneRunningOwner' /\ CommittedAreOrphans'
  BY Owners, CommittedOrphans, PTL

(* What words hold is not what marks an unwritten one.                     *)
LEMMA CopiesAreValues ==
    ASSUME SnapshotInv, NEW w \in Words
    PROVE  /\ RoCopy(w) \in Values /\ WritableCopy(w) \in Values
           /\ \A v \in Values : v # Unwritten
  <1>1. RoCopy(w) \in Values /\ WritableCopy(w) \in Values
    BY DEF SnapshotInv, MemoryInv, MemoryTypeOK, RoCopy, WritableCopy
  <1>2. \A v \in Values : v # Unwritten
    BY ValuesAssumption DEF Unwritten
  <1> QED
    BY <1>1, <1>2

(* Until the epoch ends the read-only copies stay as they are, and of the  *)
(* writable ones the one that is being written changes.                    *)
LEMMA CopiesKept ==
    ASSUME SnapshotInv, NEW t \in Threads, MemoryStep(t), ~LeaveLast(t), NEW w \in Words
    PROVE  /\ RoCopy(w)' = RoCopy(w)
           /\ \/ WritableCopy(w)' = WritableCopy(w)
              \/ /\ WriteCopy(t) /\ w = op[t].word /\ OwnsWritten(t, w)
                 /\ WritableCopy(w)' = op[t].val
  <1>a. /\ control \in [Words -> [word_is_ro : BOOLEAN, access_set : TxIds \cup {NONE},
                                  word_has_been_written : BOOLEAN]]
        /\ words_array_A \in [Words -> Values]
        /\ words_array_B \in [Words -> Values]
    BY DEF SnapshotInv, MemoryInv, MemoryTypeOK
  <1>1. control'[w].word_is_ro = control[w].word_is_ro
    <2>1. ASSUME NEW x \in Words, ReadWord(t, x)
          PROVE  control'[w].word_is_ro = control[w].word_is_ro
      BY <2>1, <1>a DEF ReadWord
    <2>2. CASE WriteLocked(t)
      BY <2>2, <1>a DEF WriteLocked
    <2>3. CASE AbortWord(t)
      BY <2>3, <1>a DEF AbortWord
    <2> QED
      BY <2>1, <2>2, <2>3 DEF MemoryStep, TmBegin, TmBeginBlocks, TmBeginFlag, ReadCopy,
         WriteWord, WriteCopy, TmLeave, memoryVars
  <1>2. CASE WriteCopy(t)
    <2>1. op[t].at \in {"first_copy", "write_copy"} /\ UNCHANGED control
      BY <1>2 DEF WriteCopy
    <2>2. op[t].word \in Words /\ op[t].val \in Values /\ OwnsWritten(t, op[t].word)
      BY <2>1, OpFields DEF SnapshotInv, MemoryInv, MemoryTypeOK, CopiersOwn
    <2> QED
      BY <1>2, <1>a, <2>1, <2>2 DEF WriteCopy, RoCopy, WritableCopy
  <1>3. CASE ~WriteCopy(t)
    <2>1. UNCHANGED <<words_array_A, words_array_B>>
      BY <1>3 DEF MemoryStep, TmBegin, TmBeginBlocks, TmBeginFlag, ReadWord, ReadCopy,
                  WriteWord, WriteLocked, AbortWord, TmLeave, memoryVars
    <2> QED
      BY <1>1, <2>1 DEF RoCopy, WritableCopy
  <1> QED
    BY <1>2, <1>3

(* A step of t leaves the buffers of the other transactions alone.         *)
LEMMA OthersBuffers ==
    ASSUME SnapshotInv, ~SpuriousWakeups, NEW t \in Threads, MemoryStep(t),
           NEW u \in Threads \ {t}
    PROVE  Buffer(u)' = Buffer(u)
  <1>1. /\ op'[u] = op[u]
        /\ \A w \in Words : /\ OwnsWritten(u, w)' => OwnsWritten(u, w)
                            /\ OwnsWritten(u, w) /\ ~LeaveLast(t) => OwnsWritten(u, w)'
    BY OthersKeepTheirs
  <1>2. CASE LeaveLast(t)
    <2>1. pc[u] # "inside"
      BY <1>2, LastIsAlone DEF SnapshotInv, MemoryInv, LeaveLast, At
    <2>2. \A w \in Words : ~OwnsWritten(u, w) /\ ~OwnsWritten(u, w)'
      BY <1>1, <2>1, Owners DEF OneRunningOwner
    <2> QED
      BY <2>2 DEF Buffer
  <1>3. CASE ~LeaveLast(t)
    <2>1. ASSUME NEW w \in Words, OwnsWritten(u, w)
          PROVE  WritableCopy(w)' = WritableCopy(w)
      BY <1>3, <2>1, Owners, CopiesKept DEF OneRunningOwner
    <2>2. \A w \in Words : OwnsWritten(u, w)' <=> OwnsWritten(u, w)
      BY <1>1, <1>3
    <2> QED
      BY <1>1, <2>1, <2>2 DEF Buffer
  <1> QED
    BY <1>2, <1>3

(* Until a transaction leaves, no write is published or withdrawn.         *)
LEMMA CommittedKept ==
    ASSUME SnapshotInv, SnapshotInv', ~SpuriousWakeups, NEW t \in Threads, MemoryStep(t),
           ~TmLeave(t)
    PROVE  Committed' = Committed
  <1>a. control \in [Words -> [word_is_ro : BOOLEAN, access_set : TxIds \cup {NONE},
                               word_has_been_written : BOOLEAN]]
    BY DEF SnapshotInv, MemoryInv, MemoryTypeOK
  <1>b. ~LeaveLast(t)
    BY DEF MemoryStep, TmBegin, TmBeginBlocks, TmBeginFlag, ReadWord, ReadCopy, WriteWord,
           WriteLocked, WriteCopy, AbortWord, EnterFirst, Resume, EnterBlock, SpuriousWakeup,
           LeaveLast, batcherVars
  <1>c. \A u \in Threads \ {t}, w \in Words : OwnsWritten(u, w)' <=> OwnsWritten(u, w)
    BY <1>b, OthersKeepTheirs
  <1>1. ASSUME NEW w \in Words PROVE Orphan(w)' <=> Orphan(w)
    <2>1. CASE TmBegin(t)
      <3>1. UNCHANGED control /\ pc[t] # "inside" /\ op'[t] = Begun
        BY <2>1 DEF TmBegin, EnterFirst, Resume, GoTo, SnapshotInv, MemoryInv, MemoryTypeOK
      <3>2. ~OwnsWritten(t, w) /\ ~OwnsWritten(t, w)'
        BY <3>1, Owners DEF OneRunningOwner, SnapshotInv, OwnsOnlyWhatItWrote
      <3> QED
        BY <1>c, <3>1, <3>2 DEF Orphan
    <2>2. CASE UNCHANGED control /\ ~TmBegin(t)
      <3>1. UNCHANGED tx
        BY <2>2 DEF MemoryStep, TmBeginBlocks, TmBeginFlag, ReadWord, ReadCopy, WriteWord,
                    WriteLocked, WriteCopy, AbortWord, EnterBlock, SpuriousWakeup, batcherVars
      <3> QED
        BY <2>2, <3>1 DEF Orphan, OwnsWritten
    <2>3. ASSUME NEW x \in Words, ReadWord(t, x), control' # control
          PROVE  Orphan(w)' <=> Orphan(w)
      <3>1. /\ ~control[x].word_has_been_written /\ UNCHANGED tx
            /\ control' = [control EXCEPT ![x].access_set = tx[t]]
        BY <2>3 DEF ReadWord, batcherVars
      <3> QED
        BY <3>1, <1>a DEF Orphan, OwnsWritten
    <2>4. CASE WriteLocked(t) /\ control' # control
      <3>1. PICK x \in Words : x = op[t].word
        BY <2>4, OpFields DEF WriteLocked, SnapshotInv, MemoryInv, MemoryTypeOK
      <3>2. /\ control[x].access_set \in {NONE, tx[t]} /\ UNCHANGED tx
            /\ control' = [control EXCEPT ![x].access_set = tx[t],
                                          ![x].word_has_been_written = TRUE]
            /\ ~OwnsWritten(t, x)
        BY <2>4, <3>1 DEF WriteLocked, batcherVars, SnapshotInv, OwnsOnlyWhatItWrote
      <3>3. ~control[x].word_has_been_written
        BY <3>2 DEF OwnsWritten, SnapshotInv, MemoryInv, WordsBelongToEpoch
      <3>4. OwnsWritten(t, x)'
        BY <3>2, <1>a DEF OwnsWritten
      <3> QED
        BY <3>2, <3>3, <3>4, <1>a DEF Orphan, OwnsWritten
    <2>5. CASE AbortWord(t) /\ control' # control
      <3> DEFINE x == op[t].word
      <3>1. /\ OwnsWritten(t, x) /\ x < NWords /\ UNCHANGED tx
            /\ control' = [control EXCEPT ![x].access_set = NONE,
                                          ![x].word_has_been_written = FALSE]
        BY <2>5 DEF AbortWord, batcherVars
      <3>2. x \in 0 .. NWords
        BY <2>5, OpFields DEF AbortWord, SnapshotInv, MemoryInv, MemoryTypeOK
      <3>3. x \in Words
        BY <3>1, <3>2, NWordsAssumption DEF Words
      <3> HIDE DEF x
      <3> QED
        BY <3>1, <3>3, <1>a DEF Orphan, OwnsWritten
    <2> QED
      BY <2>1, <2>2, <2>3, <2>4, <2>5 DEF MemoryStep, TmBeginBlocks, TmBeginFlag, ReadCopy,
         WriteWord, WriteCopy, memoryVars
  <1>2. ASSUME NEW w \in Words, Orphan(w) PROVE WritableCopy(w)' = WritableCopy(w)
    BY <1>b, <1>2, CopiesKept DEF Orphan
  <1>3. Committed = [w \in Words |-> IF Orphan(w) THEN WritableCopy(w) ELSE Unwritten]
    BY CommittedOrphans DEF CommittedAreOrphans
  <1>4. Committed' = [w \in Words |-> IF Orphan(w)' THEN WritableCopy(w)' ELSE Unwritten]
    BY AfterStep DEF CommittedAreOrphans
  <1> QED
    BY <1>1, <1>2, <1>3, <1>4

(* What a step does to the mapped variables, apart from t's own buffer and *)
(* what it has read.                                                       *)
LEMMA MappedMoves ==
    ASSUME SnapshotInv, SnapshotInv', ~SpuriousWakeups, NEW t \in Threads, MemoryStep(t)
    PROVE  /\ [u \in Threads |-> Buffer(u)]'
                 = [[u \in Threads |-> Buffer(u)] EXCEPT ![t] = Buffer(t)']
           /\ Aborting' = IF op'[t].at = "abort" THEN Aborting \cup {t} ELSE Aborting \ {t}
           /\ ~LeaveLast(t) => [w \in Words |-> RoCopy(w)]' = [w \in Words |-> RoCopy(w)]
           /\ ~TmLeave(t) => Committed' = Committed /\ ~LeaveLast(t)
           /\ UNCHANGED batcherVars => Active' = Active /\ At("blocked")' = At("blocked")
  <1>1. [u \in Threads |-> Buffer(u)]'
           = [[u \in Threads |-> Buffer(u)] EXCEPT ![t] = Buffer(t)']
    BY OthersBuffers
  <1>2. \A u \in Threads \ {t} : op'[u] = op[u]
    BY OthersKeepTheirs
  <1>3. ~LeaveLast(t) => [w \in Words |-> RoCopy(w)]' = [w \in Words |-> RoCopy(w)]
    BY CopiesKept
  <1>4. ~TmLeave(t) => Committed' = Committed
    BY CommittedKept
  <1>5. ~TmLeave(t) => ~LeaveLast(t)
    BY DEF MemoryStep, TmBegin, TmBeginBlocks, TmBeginFlag, ReadWord, ReadCopy, WriteWord,
           WriteLocked, WriteCopy, AbortWord, EnterFirst, Resume, EnterBlock, SpuriousWakeup,
           LeaveLast, batcherVars
  <1>6. UNCHANGED batcherVars => Active' = Active /\ At("blocked")' = At("blocked")
    BY DEF batcherVars, Active, At
  <1> QED
    BY <1>1, <1>2, <1>3, <1>4, <1>5, <1>6 DEF Aborting

(* A step that does not bring t to its abort leaves the aborting alone.    *)
LEMMA AbortingKept ==
    ASSUME SnapshotInv, SnapshotInv', ~SpuriousWakeups, NEW t \in Threads, MemoryStep(t),
           op'[t].at # "abort", t \notin Aborting
    PROVE  Aborting' = Aborting
  <1>1. Aborting' = IF op'[t].at = "abort" THEN Aborting \cup {t} ELSE Aborting \ {t}
    BY MappedMoves
  <1>2. Aborting' = Aborting \ {t}
    BY ONLY <1>1, op'[t].at # "abort"
  <1> QED
    BY ONLY <1>2, t \notin Aborting

(* A step that leaves t's own writes alone leaves everybody's alone.       *)
LEMMA BuffersKept ==
    ASSUME SnapshotInv, SnapshotInv', ~SpuriousWakeups, NEW t \in Threads, MemoryStep(t),
           Buffer(t)' = Buffer(t)
    PROVE  [u \in Threads |-> Buffer(u)]' = [u \in Threads |-> Buffer(u)]
  <1>1. \A u \in Threads \ {t} : Buffer(u)' = Buffer(u)
    BY OthersBuffers
  <1>2. \A u \in Threads : Buffer(u)' = Buffer(u)
    BY <1>1
  <1> QED
    BY <1>2

(* A step that opens or joins an epoch is an arrival, or goes unnoticed.   *)
LEMMA StepBegin ==
    ASSUME SnapshotInv, SnapshotInv', ~SpuriousWakeups, NEW t \in Threads, MemoryStep(t),
           TmBegin(t) \/ TmBeginBlocks(t) \/ TmBeginFlag(t)
    PROVE  Snapshot!Arrive(t) \/ UNCHANGED Snapshot!snapshotVars
  <1>a. op \in [Threads -> Ops] /\ target' = target
    BY DEF SnapshotInv, MemoryInv, MemoryTypeOK, TmBegin, TmBeginBlocks, TmBeginFlag, memoryVars
  <1>b. Idle.at # "abort" /\ Begun.at # "abort" /\ NotRunning.at # "abort"
        /\ Idle.at # "first_copy" /\ Begun.at # "first_copy"
    BY DEF Idle, Begun, NotRunning
  <1>c. ~TmLeave(t) /\ op[t].at # "abort" /\ op'[t].at # "abort"
    <2>1. CASE TmBegin(t)
      <3>1. pc[t] # "inside" /\ op'[t] = Begun
        BY <2>1, <1>a DEF TmBegin, EnterFirst, Resume, GoTo
      <3>2. op[t] = NotRunning
        BY <3>1 DEF SnapshotInv, MemoryInv, OperationsMatch
      <3> QED
        BY <3>1, <3>2, <1>b DEF TmLeave, LeaveLast, LeaveEarly
    <2>2. CASE TmBeginBlocks(t)
      <3>1. pc[t] # "inside" /\ op'[t] = op[t]
        BY <2>2, <1>a DEF TmBeginBlocks, EnterBlock, SpuriousWakeup, memoryVars
      <3>2. op[t] = NotRunning
        BY <3>1 DEF SnapshotInv, MemoryInv, OperationsMatch
      <3> QED
        BY <3>1, <3>2, <1>b DEF TmLeave, LeaveLast, LeaveEarly
    <2>3. CASE TmBeginFlag(t)
      <3>1. op[t] = Begun /\ op'[t] = Idle
        BY <2>3, <1>a DEF TmBeginFlag, GoTo
      <3>2. Begun # Idle /\ Begun # [at |-> "abort", word |-> NWords]
        BY <1>b DEF Idle, Begun
      <3> QED
        BY <3>1, <3>2, <1>b DEF TmLeave
    <2> QED
      BY <2>1, <2>2, <2>3
  <1>1. Buffer(t)' = Buffer(t)
    <2>1. CASE TmBegin(t)
      <3>1. pc[t] # "inside" /\ op'[t] = Begun
        BY <2>1, <1>a DEF TmBegin, EnterFirst, Resume, GoTo
      <3>2. \A w \in Words : ~OwnsWritten(t, w) /\ ~OwnsWritten(t, w)'
        BY <3>1, Owners DEF OneRunningOwner, SnapshotInv, OwnsOnlyWhatItWrote
      <3> QED
        BY <3>2 DEF Buffer
    <2>2. CASE TmBeginBlocks(t)
      BY <2>2 DEF TmBeginBlocks, EnterBlock, SpuriousWakeup, memoryVars, Buffer, OwnsWritten,
                  WritableCopy
    <2>3. CASE TmBeginFlag(t)
      <3>1. op[t] = Begun /\ op'[t] = Idle
        BY <2>3, <1>a DEF TmBeginFlag, GoTo
      <3> QED
        <4>1. UNCHANGED <<tx, control, words_array_A, words_array_B>>
          BY <2>3 DEF TmBeginFlag, batcherVars
        <4>2. \A w \in Words : /\ OwnsWritten(t, w)' <=> OwnsWritten(t, w)
                             /\ WritableCopy(w)' = WritableCopy(w)
          BY <4>1 DEF OwnsWritten, WritableCopy
        <4>3. /\ op[t].at \notin {"abort", "first_copy"}
              /\ op'[t].at \notin {"abort", "first_copy"}
          BY <3>1, <1>b DEF Idle, Begun
        <4> QED
          BY <4>2, <4>3 DEF Buffer
    <2> QED
      BY <2>1, <2>2, <2>3
  <1>2. /\ [u \in Threads |-> Buffer(u)]' = [u \in Threads |-> Buffer(u)]
        /\ Aborting' = Aborting
        /\ [w \in Words |-> RoCopy(w)]' = [w \in Words |-> RoCopy(w)]
        /\ Committed' = Committed
    <2>1. t \notin Aborting
      BY <1>c DEF Aborting
    <2>2. Aborting' = Aborting
      BY <1>c, <2>1, AbortingKept
    <2>3. [u \in Threads |-> Buffer(u)]' = [u \in Threads |-> Buffer(u)]
      BY <1>1, BuffersKept
    <2>4. ~LeaveLast(t) /\ Committed' = Committed
      BY <1>c, MappedMoves
    <2>5. [w \in Words |-> RoCopy(w)]' = [w \in Words |-> RoCopy(w)]
      BY <2>4, MappedMoves
    <2> QED
      BY <2>2, <2>3, <2>4, <2>5
  <1>3. \/ /\ Active = {} /\ Active' = {t} /\ At("blocked")' = At("blocked")
        \/ /\ Active # {} /\ Active' = Active /\ t \notin Active \cup At("blocked")
           /\ At("blocked")' = At("blocked") \cup {t}
        \/ Active' = Active /\ At("blocked")' = At("blocked")
    <2>1. EnterFirst(t) \/ EnterBlock(t) \/ Resume(t) \/ UNCHANGED batcherVars
      BY DEF TmBegin, TmBeginBlocks, TmBeginFlag, SpuriousWakeup
    <2>2. CASE UNCHANGED batcherVars
      BY <2>2, MappedMoves
    <2>3. CASE EnterFirst(t) \/ EnterBlock(t) \/ Resume(t)
      BY <2>3, EpochMoves DEF SnapshotInv, MemoryInv
    <2> QED
      BY <2>1, <2>2, <2>3
  <1> QED
    BY <1>a, <1>2, <1>3 DEF Snapshot!Arrive, Snapshot!Start, Snapshot!Queue,
       Snapshot!snapshotVars, Aborting

(* A refused operation aborts the transaction: the writes it made are      *)
(* withdrawn at once, although its words are given up one by one.          *)
LEMMA StepRefused ==
    ASSUME SnapshotInv, SnapshotInv', ~SpuriousWakeups, NEW t \in Threads, MemoryStep(t),
           UNCHANGED batcherVars, ~TmLeave(t), op[t] # NotRunning, op[t].at # "abort",
           op'[t].at = "abort", target' = [target EXCEPT ![t] = NoRead]
    PROVE  Snapshot!Abort(t)
  <1>1. t \in Active
    BY DEF SnapshotInv, MemoryInv, OperationsMatch, Active, At
  <1>2. t \notin Aborting
    BY DEF Aborting
  <1>3. Buffer(t)' = Snapshot!NoWrites
    BY DEF Buffer, Snapshot!NoWrites
  <1>4. Aborting' = Aborting \cup {t}
    BY MappedMoves
  <1> QED
    BY <1>1, <1>2, <1>3, <1>4, MappedMoves DEF Snapshot!Abort, Snapshot!NoRead, NoRead, Aborting

(* The first half of read_word and write_word consumes what the client has *)
(* read, or aborts.                                                        *)
LEMMA StepChoose ==
    ASSUME SnapshotInv, SnapshotInv', ~SpuriousWakeups, NEW t \in Threads, MemoryStep(t),
           NEW w \in Words, ReadWord(t, w) \/ \E v \in Values : WriteWord(t, w, v)
    PROVE  Snapshot!Abort(t) \/ Snapshot!Consume(t)
  <1>a. /\ control \in [Words -> [word_is_ro : BOOLEAN, access_set : TxIds \cup {NONE},
                                  word_has_been_written : BOOLEAN]]
        /\ op \in [Threads -> Ops]
    BY DEF SnapshotInv, MemoryInv, MemoryTypeOK
  <1>1. /\ op[t] = Idle /\ UNCHANGED batcherVars
        /\ target' = [target EXCEPT ![t] = NoRead]
    BY DEF ReadWord, WriteWord, Consume
  <1>2. op[t].at = "idle" /\ op[t] # NotRunning
    <2>1. Idle.at = "idle" /\ NotRunning.at = "not running"
      BY DEF Idle, NotRunning
    <2> QED
      BY <1>1, <2>1
  <1>3. op'[t].at \in {"abort", "read_ro_copy", "read_writable_copy", "write_copy", "write_lock"}
    <2>1. CASE ReadWord(t, w)
      <3>1. \/ op'[t] = [at |-> "abort", word |-> 0]
            \/ op'[t] = [at |-> "read_ro_copy", word |-> w]
            \/ op'[t] = [at |-> "read_writable_copy", word |-> w]
        BY <2>1, <1>a DEF ReadWord, GoTo, ToAbort
      <3> QED
        BY <3>1
    <2>2. ASSUME NEW v \in Values, WriteWord(t, w, v)
          PROVE  op'[t].at \in {"abort", "write_copy", "write_lock"}
      <3>1. \/ op'[t] = [at |-> "abort", word |-> 0]
            \/ op'[t] = [at |-> "write_copy", word |-> w, val |-> v]
            \/ op'[t] = [at |-> "write_lock", word |-> w, val |-> v]
        BY <2>2, <1>a DEF WriteWord, GoTo, ToAbort
      <3> QED
        BY <3>1
    <2> QED
      BY <2>1, <2>2
  <1>4. ~TmLeave(t)
    <2>1. pc[t] = "inside" /\ UNCHANGED pc
      BY <1>1, <1>2 DEF SnapshotInv, MemoryInv, OperationsMatch, batcherVars
    <2> QED
      BY <2>1 DEF TmLeave, LeaveLast, LeaveEarly, SnapshotInv, MemoryInv, EpochInv, TypeOK
  <1>5. CASE op'[t].at = "abort"
    BY <1>1, <1>2, <1>4, <1>5, StepRefused
  <1>6. CASE op'[t].at # "abort"
    <2>1. \A x \in Words : OwnsWritten(t, x)' <=> OwnsWritten(t, x)
      <3>1. /\ UNCHANGED tx
            /\ \/ UNCHANGED control
               \/ /\ ~control[w].word_has_been_written
                  /\ control' = [control EXCEPT ![w].access_set = tx[t]]
        BY <1>1 DEF ReadWord, WriteWord, batcherVars
      <3> QED
        BY <3>1, <1>a DEF OwnsWritten
    <2>2. \A x \in Words : WritableCopy(x)' = WritableCopy(x)
      <3>1. ~WriteCopy(t)
        BY <1>2 DEF WriteCopy
      <3> QED
        BY <1>4, <3>1, CopiesKept, MappedMoves
    <2>3. Buffer(t)' = Buffer(t)
      BY <1>2, <1>3, <1>6, <2>1, <2>2 DEF Buffer
    <2>4. Aborting' = Aborting
      BY <1>2, <1>6, MappedMoves DEF Aborting
    <2>5. [u \in Threads |-> Buffer(u)]' = [u \in Threads |-> Buffer(u)]
      BY <2>3, MappedMoves
    <2> QED
      BY <1>1, <1>4, <2>4, <2>5, MappedMoves DEF Snapshot!Consume, Snapshot!NoRead, NoRead, Aborting
  <1> QED
    BY <1>5, <1>6

(* The memcpy of a read returns the transaction's own write, or the        *)
(* snapshot.                                                               *)
LEMMA StepReadCopy ==
    ASSUME SnapshotInv, SnapshotInv', ~SpuriousWakeups, NEW t \in Threads, MemoryStep(t),
           ReadCopy(t)
    PROVE  \E w \in Words : Snapshot!Read(t, w)
  <1>a. op \in [Threads -> Ops]
    BY DEF SnapshotInv, MemoryInv, MemoryTypeOK
  <1>1. /\ op[t].at \in {"read_ro_copy", "read_writable_copy"} /\ op'[t] = Idle
        /\ UNCHANGED batcherVars /\ UNCHANGED control
    BY <1>a DEF ReadCopy, GoTo
  <1>2. PICK w \in Words : w = op[t].word
    BY <1>1, <1>a, OpFields
  <1>3. t \in Active /\ t \notin Aborting
    <2>1. op[t] # NotRunning
      BY <1>1, <1>a, OpFields
    <2> QED
      BY <1>1, <2>1 DEF SnapshotInv, MemoryInv, OperationsMatch, Active, At, Aborting
  <1>4. Idle.at = "idle"
    BY DEF Idle
  <1>5. ~TmLeave(t) /\ ~WriteCopy(t)
    <2>1. op[t] # Idle /\ op[t] # [at |-> "abort", word |-> NWords]
      BY <1>1, <1>4
    <2> QED
      BY <1>1, <2>1 DEF TmLeave, WriteCopy
  <1>6. target' = [target EXCEPT ![t] = <<w, Snapshot!Overlay(Buffer(t), [x \in Words |-> RoCopy(x)])[w]>>]
    <2>1. CASE op[t].at = "read_ro_copy"
      <3>1. ~OwnsWritten(t, w)
        BY <1>2, <2>1 DEF SnapshotInv, OwnsOnlyWhatItWrote
      <3>2. Buffer(t)[w] = Unwritten
        BY <3>1 DEF Buffer
      <3> QED
        BY <1>2, <2>1, <3>2 DEF ReadCopy, Snapshot!Overlay
    <2>2. CASE op[t].at = "read_writable_copy"
      <3>1. OwnsWritten(t, w)
        BY <1>2, <2>2 DEF SnapshotInv, MemoryInv, CopiersOwn
      <3>2. Buffer(t)[w] = WritableCopy(w) /\ WritableCopy(w) # Unwritten
        BY <2>2, <3>1, CopiesAreValues DEF Buffer
      <3> QED
        BY <1>2, <2>2, <3>2 DEF ReadCopy, Snapshot!Overlay
    <2> QED
      BY <1>1, <2>1, <2>2
  <1>7. Buffer(t)' = Buffer(t)
    <2>1. \A x \in Words : WritableCopy(x)' = WritableCopy(x)
      BY <1>5, CopiesKept, MappedMoves
    <2>2. \A x \in Words : OwnsWritten(t, x)' <=> OwnsWritten(t, x)
      BY <1>1 DEF OwnsWritten, batcherVars
    <2>3. op[t].at \notin {"abort", "first_copy"} /\ op'[t].at \notin {"abort", "first_copy"}
      BY <1>1, <1>4
    <2> QED
      BY <2>1, <2>2, <2>3 DEF Buffer
  <1>8. /\ Aborting' = Aborting
        /\ [u \in Threads |-> Buffer(u)]' = [u \in Threads |-> Buffer(u)]
    <2>1. Aborting' = Aborting
      BY <1>1, <1>3, <1>4, AbortingKept
    <2> QED
      BY <1>7, <2>1, BuffersKept
  <1>9. Snapshot!Read(t, w)
    BY <1>1, <1>3, <1>5, <1>6, <1>8, MappedMoves DEF Snapshot!Read, Aborting
  <1> QED
    BY <1>9

(* Taking a word's lock to write it makes the word the transaction's, or   *)
(* aborts it; the write itself is the memcpy.                              *)
LEMMA StepWriteLocked ==
    ASSUME SnapshotInv, SnapshotInv', ~SpuriousWakeups, NEW t \in Threads, MemoryStep(t),
           WriteLocked(t)
    PROVE  Snapshot!Abort(t) \/ UNCHANGED Snapshot!snapshotVars
  <1>a. /\ control \in [Words -> [word_is_ro : BOOLEAN, access_set : TxIds \cup {NONE},
                                  word_has_been_written : BOOLEAN]]
        /\ op \in [Threads -> Ops]
    BY DEF SnapshotInv, MemoryInv, MemoryTypeOK
  <1>1. op[t].at = "write_lock" /\ UNCHANGED batcherVars /\ target' = target
    BY DEF WriteLocked
  <1>2. PICK w \in Words : w = op[t].word
    BY <1>1, <1>a, OpFields
  <1>3. op[t] # NotRunning
    BY <1>1, <1>a, OpFields
  <1>4. ~TmLeave(t) /\ ~WriteCopy(t) /\ t \notin Aborting
    <2>1. op[t] # Idle /\ op[t] # [at |-> "abort", word |-> NWords]
      BY <1>1 DEF Idle
    <2> QED
      BY <1>1, <2>1 DEF TmLeave, WriteCopy, Aborting
  <1>5. CASE op'[t].at = "abort"
    <2>1. target' = [target EXCEPT ![t] = NoRead]
      <3>1. target \in [Threads -> {NoRead} \cup (Words \X Values)] /\ target[t] = NoRead
        BY <1>1 DEF SnapshotInv, MemoryInv, MemoryTypeOK, ReadsAreUsedUp
      <3> QED
        BY <1>1, <3>1
    <2> QED
      BY <1>1, <1>3, <1>4, <1>5, <2>1, StepRefused
  <1>6. CASE op'[t].at # "abort"
    <2>1. control[w].access_set \in {NONE, tx[t]}
      <3>1. [at |-> "abort", word |-> 0].at = "abort"
        OBVIOUS
      <3> QED
        BY <1>2, <1>6, <1>a, <3>1 DEF WriteLocked, ToAbort, GoTo
    <2>2. /\ op'[t] = [op[t] EXCEPT !.at = "first_copy"]
          /\ control' = [control EXCEPT ![w].access_set = tx[t],
                                        ![w].word_has_been_written = TRUE]
      BY <1>2, <1>a, <2>1 DEF WriteLocked, GoTo
    <2>3. op'[t].at = "first_copy" /\ op'[t].word = w
      <3>1. [op[t] EXCEPT !.at = "first_copy"]
               = [at |-> "first_copy", word |-> op[t].word, val |-> op[t].val]
        BY <1>1, <1>a, OpFields
      <3> QED
        BY <1>2, <2>2, <3>1
    <2>4. ~OwnsWritten(t, w)
      BY <1>1, <1>2 DEF SnapshotInv, OwnsOnlyWhatItWrote
    <2>5. \A x \in Words \ {w} : OwnsWritten(t, x)' <=> OwnsWritten(t, x)
      BY <1>1, <1>a, <2>2 DEF OwnsWritten, batcherVars
    <2>6. \A x \in Words : WritableCopy(x)' = WritableCopy(x)
      BY <1>4, CopiesKept, MappedMoves
    <2>7. Buffer(t)' = Buffer(t)
      <3>1. ~(op[t].at = "first_copy" /\ op[t].word = w)
        BY <1>1
      <3>2. \A x \in Words : Buffer(t)'[x] = Buffer(t)[x]
        <4>1. \A x \in Words \ {w} : Buffer(t)'[x] = Buffer(t)[x]
          BY <1>1, <2>3, <2>5, <2>6 DEF Buffer
        <4>2. Buffer(t)'[w] = Unwritten /\ Buffer(t)[w] = Unwritten
          BY <1>1, <2>3, <2>4 DEF Buffer
        <4> QED
          BY <4>1, <4>2
      <3> QED
        BY <3>2 DEF Buffer
    <2>8. /\ [u \in Threads |-> Buffer(u)]' = [u \in Threads |-> Buffer(u)]
          /\ Aborting' = Aborting
      <3>1. [u \in Threads |-> Buffer(u)]' = [u \in Threads |-> Buffer(u)]
        BY <2>7, BuffersKept
      <3>2. op'[t].at # "abort" /\ t \notin Aborting
        BY <1>4, <1>6
      <3>3. Aborting' = Aborting
        BY <3>2, AbortingKept
      <3> QED
        BY <3>1, <3>3
    <2> QED
      BY <1>1, <1>4, <2>8, MappedMoves DEF Snapshot!snapshotVars, Aborting
  <1> QED
    BY <1>5, <1>6

(* The memcpy of a write is the write: nobody else has written the word in *)
(* this epoch and survived.                                                *)
LEMMA StepWriteCopy ==
    ASSUME SnapshotInv, SnapshotInv', ~SpuriousWakeups, NEW t \in Threads, MemoryStep(t),
           WriteCopy(t)
    PROVE  \E w \in Words, v \in Values : Snapshot!Write(t, w, v)
  <1>a. op \in [Threads -> Ops]
    BY DEF SnapshotInv, MemoryInv, MemoryTypeOK
  <1>1. /\ op[t].at \in {"first_copy", "write_copy"} /\ op'[t] = Idle
        /\ UNCHANGED batcherVars /\ UNCHANGED control /\ target' = target
    BY <1>a DEF WriteCopy, GoTo
  <1>2. PICK w \in Words, v \in Values : w = op[t].word /\ v = op[t].val
    BY <1>1, <1>a, OpFields
  <1>3. t \in Active /\ t \notin Aborting
    <2>1. op[t] # NotRunning
      BY <1>1, <1>a, OpFields
    <2> QED
      BY <1>1, <2>1 DEF SnapshotInv, MemoryInv, OperationsMatch, Active, At, Aborting
  <1>4. Idle.at = "idle"
    BY DEF Idle
  <1>5. ~TmLeave(t) /\ ~LeaveLast(t)
    <2>1. op[t] # Idle /\ op[t] # [at |-> "abort", word |-> NWords]
      BY <1>1, <1>4
    <2> QED
      BY <1>1, <2>1, MappedMoves DEF TmLeave
  <1>6. OwnsWritten(t, w)
    BY <1>1, <1>2 DEF SnapshotInv, MemoryInv, CopiersOwn
  <1>7. Committed[w] = Unwritten /\ \A u \in Threads \ {t} : Buffer(u)[w] = Unwritten
    <2>1. ~Orphan(w) /\ \A u \in Threads \ {t} : ~OwnsWritten(u, w)
      BY <1>6, Owners DEF OneRunningOwner, Orphan
    <2> QED
      BY <2>1, CommittedOrphans DEF CommittedAreOrphans, Buffer
  <1>8. Buffer(t)' = [Buffer(t) EXCEPT ![w] = v]
    <2>1. WritableCopy(w)' = v
      <3>1. control \in [Words -> [word_is_ro : BOOLEAN, access_set : TxIds \cup {NONE},
                                   word_has_been_written : BOOLEAN]]
            /\ words_array_A \in [Words -> Values] /\ words_array_B \in [Words -> Values]
        BY DEF SnapshotInv, MemoryInv, MemoryTypeOK
      <3>2. IF control[w].word_is_ro THEN words_array_A' = [words_array_A EXCEPT ![w] = v]
                                     ELSE words_array_B' = [words_array_B EXCEPT ![w] = v]
        BY <1>2 DEF WriteCopy
      <3>3. control' = control
        BY <1>1
      <3> QED
        BY <3>1, <3>2, <3>3 DEF WritableCopy
    <2>2. \A x \in Words \ {w} : WritableCopy(x)' = WritableCopy(x)
      BY <1>2, <1>5, CopiesKept
    <2>3. \A x \in Words : OwnsWritten(t, x)' <=> OwnsWritten(t, x)
      BY <1>1 DEF OwnsWritten, batcherVars
    <2>4. Buffer(t)'[w] = v
      BY <1>1, <1>4, <1>6, <2>1, <2>3 DEF Buffer
    <2>5. \A x \in Words \ {w} : Buffer(t)'[x] = Buffer(t)[x]
      BY <1>1, <1>2, <1>4, <2>2, <2>3 DEF Buffer
    <2> QED
      BY <2>4, <2>5 DEF Buffer
  <1>9. [u \in Threads |-> Buffer(u)]' = [[u \in Threads |-> Buffer(u)] EXCEPT ![t][w] = v]
    BY <1>8, MappedMoves
  <1>10. Aborting' = Aborting
    <2>1. op'[t].at # "abort" /\ t \notin Aborting
      BY <1>1, <1>3, <1>4
    <2> QED
      BY <2>1, AbortingKept
  <1>11. Snapshot!Write(t, w, v)
    BY <1>1, <1>3, <1>5, <1>7, <1>9, <1>10, MappedMoves DEF Snapshot!Write, Aborting
  <1> QED
    BY <1>11

(* Giving up a word of an aborted transaction goes unnoticed.              *)
LEMMA StepAbortWord ==
    ASSUME SnapshotInv, SnapshotInv', ~SpuriousWakeups, NEW t \in Threads, MemoryStep(t),
           AbortWord(t)
    PROVE  UNCHANGED Snapshot!snapshotVars
  <1>1. /\ op[t].at = "abort" /\ UNCHANGED batcherVars /\ target' = target
        /\ op'[t].at = "abort"
    BY DEF AbortWord, GoTo, SnapshotInv, MemoryInv, MemoryTypeOK
  <1>2. ~TmLeave(t)
    <2>1. op[t] # [at |-> "abort", word |-> NWords]
      BY NWordsAssumption DEF AbortWord
    <2> QED
      BY <1>1, <2>1 DEF TmLeave, Idle
  <1>3. Buffer(t)' = Buffer(t)
    BY <1>1 DEF Buffer
  <1>4. /\ [u \in Threads |-> Buffer(u)]' = [u \in Threads |-> Buffer(u)]
        /\ Aborting' = Aborting
    BY <1>1, <1>3, MappedMoves DEF Aborting
  <1> QED
    BY <1>1, <1>2, <1>4, MappedMoves DEF Snapshot!snapshotVars, Aborting

(* Leaving publishes the transaction's writes, unless it has aborted; the  *)
(* last to leave turns the writes of the epoch into the memory.            *)
LEMMA StepLeave ==
    ASSUME SnapshotInv, SnapshotInv', ~SpuriousWakeups, NEW t \in Threads, MemoryStep(t),
           TmLeave(t)
    PROVE  Snapshot!Over(t)
  <1> DEFINE Mem == [w \in Words |-> RoCopy(w)]
  <1>a. /\ control \in [Words -> [word_is_ro : BOOLEAN, access_set : TxIds \cup {NONE},
                                  word_has_been_written : BOOLEAN]]
        /\ op \in [Threads -> Ops]
    BY DEF SnapshotInv, MemoryInv, MemoryTypeOK
  <1>1. /\ op'[t] = NotRunning /\ target' = [target EXCEPT ![t] = NoRead]
        /\ UNCHANGED <<words_array_A, words_array_B>>
    BY <1>a DEF TmLeave, GoTo, Consume
  <1>2. NotRunning.at = "not running" /\ Idle.at = "idle"
    BY DEF NotRunning, Idle
  <1>3. \A w \in Words : ~OwnsWritten(t, w)'
    <2>1. pc'[t] # "inside"
      BY DEF TmLeave, LeaveLast, LeaveEarly, SnapshotInv, MemoryInv, EpochInv, TypeOK
    <2> QED
      BY <2>1, AfterStep DEF OneRunningOwner
  <1>4. Buffer(t)' = Snapshot!NoWrites
    BY <1>3 DEF Buffer, Snapshot!NoWrites
  <1>5. Aborting' = Aborting \ {t}
    BY <1>1, <1>2, MappedMoves
  <1>6. \A w \in Words : Buffer(t)[w] = IF OwnsWritten(t, w) THEN WritableCopy(w)
                                        ELSE Unwritten
    <2>1. CASE op[t] = Idle
      BY <1>2, <2>1 DEF Buffer
    <2>2. CASE op[t] = [at |-> "abort", word |-> NWords]
      <3>1. \A w \in Words : w < op[t].word
        BY <2>2, NWordsAssumption DEF Words
      <3>2. \A w \in Words : ~OwnsWritten(t, w)
        BY <2>2, <3>1 DEF SnapshotInv, OwnsOnlyWhatItWrote
      <3> QED
        BY <3>2 DEF Buffer
    <2> QED
      BY <2>1, <2>2 DEF TmLeave
  <1>7. \A w \in Words : Committed[w] = IF Orphan(w) THEN WritableCopy(w) ELSE Unwritten
    BY CommittedOrphans DEF CommittedAreOrphans
  <1>8. CASE LeaveEarly(t) /\ UNCHANGED control
    <2>1. ~LeaveLast(t) /\ ~WriteCopy(t)
      <3>1. op[t].at \in {"idle", "abort"}
        <4>1. op[t] = Idle \/ op[t] = [at |-> "abort", word |-> NWords]
          BY DEF TmLeave
        <4>2. [at |-> "abort", word |-> NWords].at = "abort"
          OBVIOUS
        <4> QED
          BY <1>2, <4>1, <4>2
      <3> QED
        BY <1>8, <3>1 DEF LeaveLast, LeaveEarly, WriteCopy
    <2>2. \A w \in Words : Orphan(w)' <=> Orphan(w) \/ OwnsWritten(t, w)
      <3>1. \A u \in Threads \ {t}, w \in Words : OwnsWritten(u, w)' <=> OwnsWritten(u, w)
        BY <2>1, OthersKeepTheirs
      <3>2. \A u \in Threads \ {t}, w \in Words : OwnsWritten(t, w) => ~OwnsWritten(u, w)
        BY Owners DEF OneRunningOwner
      <3> QED
        BY <1>3, <1>8, <3>1, <3>2 DEF Orphan, OwnsWritten
    <2>3. \A w \in Words : WritableCopy(w)' = WritableCopy(w)
      BY <2>1, CopiesKept
    <2>4. Committed' = [w \in Words |-> IF Orphan(w)' THEN WritableCopy(w)' ELSE Unwritten]
      BY AfterStep DEF CommittedAreOrphans
    <2>5. Committed' = Snapshot!Overlay(Buffer(t), Committed)
      <3>1. \A w \in Words : WritableCopy(w) # Unwritten
        BY CopiesAreValues
      <3> QED
        BY <1>6, <1>7, <2>2, <2>3, <2>4, <3>1 DEF Snapshot!Overlay
    <2>6. Snapshot!Finish(t)
      BY <1>8, EpochMoves DEF Snapshot!Finish, SnapshotInv, MemoryInv
    <2> QED
      BY <1>1, <1>4, <1>5, <2>1, <2>5, <2>6, MappedMoves
         DEF Snapshot!Over, Snapshot!NoRead, NoRead, Aborting
  <1>9. CASE LeaveLast(t) /\ CommitWords
    <2>1. \A w \in Words : /\ ~control'[w].word_has_been_written
                           /\ control'[w].word_is_ro
                                 = (control[w].word_is_ro # control[w].word_has_been_written)
      BY <1>9 DEF CommitWords
    <2>2. Committed' = Snapshot!NoWrites
      BY <2>1 DEF Committed, Snapshot!NoWrites
    <2>3. \A w \in Words : control[w].word_has_been_written <=> Orphan(w) \/ OwnsWritten(t, w)
      <3>1. \A u \in Threads \ {t} : pc[u] # "inside"
        BY <1>9, LastIsAlone DEF LeaveLast, SnapshotInv, MemoryInv, At
      <3>2. \A u \in Threads \ {t}, w \in Words : ~OwnsWritten(u, w)
        BY <3>1, Owners DEF OneRunningOwner
      <3> QED
        BY <3>2 DEF Orphan, OwnsWritten
    <2>4. \A w \in Words : RoCopy(w)' = IF control[w].word_has_been_written
                                        THEN WritableCopy(w) ELSE RoCopy(w)
      BY <1>1, <1>a, <2>1 DEF RoCopy, WritableCopy
    <2>5. Mem' = Snapshot!Overlay(Snapshot!Overlay(Buffer(t), Committed), Mem)
      <3>1. \A w \in Words : WritableCopy(w) # Unwritten
        BY CopiesAreValues
      <3> QED
        BY <1>6, <1>7, <2>3, <2>4, <3>1 DEF Snapshot!Overlay
    <2>6. Snapshot!EndEpoch(t)
      BY <1>9, EpochMoves DEF Snapshot!EndEpoch, SnapshotInv, MemoryInv
    <2> QED
      BY <1>1, <1>4, <1>5, <2>2, <2>5, <2>6, MappedMoves
         DEF Snapshot!Over, Snapshot!NoRead, NoRead, Aborting
  <1> QED
    BY <1>8, <1>9 DEF TmLeave
----------------------------------------------------------------------------
(* Every step of the memory is a step of the snapshot, or goes unnoticed.  *)
LEMMA StepSnapshot ==
    ASSUME SnapshotInv, SnapshotInv', ~SpuriousWakeups, NEW t \in Threads, MemoryStep(t)
    PROVE  Snapshot!SnapshotNext \/ UNCHANGED Snapshot!snapshotVars
  <1>1. CASE TmBegin(t) \/ TmBeginBlocks(t) \/ TmBeginFlag(t)
    BY <1>1, StepBegin DEF Snapshot!SnapshotNext
  <1>2. ASSUME NEW w \in Words, ReadWord(t, w) \/ \E v \in Values : WriteWord(t, w, v)
        PROVE  Snapshot!SnapshotNext
    BY <1>2, StepChoose DEF Snapshot!SnapshotNext
  <1>3. CASE ReadCopy(t)
    BY <1>3, StepReadCopy DEF Snapshot!SnapshotNext
  <1>4. CASE WriteLocked(t)
    BY <1>4, StepWriteLocked DEF Snapshot!SnapshotNext
  <1>5. CASE WriteCopy(t)
    BY <1>5, StepWriteCopy DEF Snapshot!SnapshotNext
  <1>6. CASE AbortWord(t)
    BY <1>6, StepAbortWord
  <1>7. CASE TmLeave(t)
    BY <1>7, StepLeave DEF Snapshot!SnapshotNext
  <1> QED
    BY <1>1, <1>2, <1>3, <1>4, <1>5, <1>6, <1>7 DEF MemoryStep

(* The memory implements snapshot isolation with atomic epochs: what a     *)
(* transaction reads is the memory as its epoch found it, under its own    *)
(* writes; a word has one surviving writer in an epoch; the writes of an   *)
(* epoch appear together when it ends, those of aborted transactions never.*)
THEOREM MemoryRefinesSnapshot == ~SpuriousWakeups => (MemorySpec => ImplementsSnapshot)
  <1> SUFFICES ASSUME ~SpuriousWakeups PROVE MemorySpec => ImplementsSnapshot
    OBVIOUS
  <1>1. MemoryInit => Snapshot!SnapshotInit
    <2> SUFFICES ASSUME MemoryInit PROVE Snapshot!SnapshotInit
      OBVIOUS
    <2>1. Active = {} /\ At("blocked") = {}
      BY InitSets DEF MemoryInit, Active
    <2>2. \A w \in Words : RoCopy(w) = 0 /\ ~control[w].word_has_been_written
      BY DEF MemoryInit, RoCopy
    <2>3. Committed = Snapshot!NoWrites /\ \A u : Buffer(u) = Snapshot!NoWrites
      BY <2>2 DEF Committed, Buffer, OwnsWritten, Snapshot!NoWrites
    <2>4. Aborting = {}
      <3>1. NotRunning.at # "abort"
        BY DEF NotRunning
      <3> QED
        BY <3>1 DEF MemoryInit, Aborting
    <2> QED
      BY <2>1, <2>2, <2>3, <2>4 DEF MemoryInit, Snapshot!SnapshotInit, Snapshot!GateInit,
         Snapshot!NoRead, NoRead, Aborting
  <1>2. SnapshotInv /\ SnapshotInv' /\ [MemoryNext]_vars
          => [Snapshot!SnapshotNext]_(Snapshot!snapshotVars)
    <2>1. CASE UNCHANGED vars
      BY <2>1 DEF vars, batcherVars, memoryVars, Snapshot!snapshotVars, Active, At, RoCopy,
                  WritableCopy, OwnsWritten, Committed, Buffer
    <2>2. ASSUME SnapshotInv, SnapshotInv', MemoryNext
          PROVE  [Snapshot!SnapshotNext]_(Snapshot!snapshotVars)
      BY <2>2, StepSnapshot DEF MemoryNext
    <2> QED
      BY <2>1, <2>2
  <1> QED
    BY <1>1, <1>2, SnapshotInvariance, PTL DEF MemorySpec, ImplementsSnapshot,
       Snapshot!SnapshotSpec

(* A read-only transaction is never refused a read: it runs to its tm_end  *)
(* whatever the others of its epoch write (read_word asks for its flag     *)
(* before anything else).                                                  *)
THEOREM ReadOnlyNeverAborts ==
    ~SpuriousWakeups =>
        (MemorySpec => [](\A t \in Threads :
            op[t] \notin {NotRunning, Begun} /\ is_ro_flags[tx[t]] => op[t].at # "abort"))
  <1> SUFFICES ASSUME ~SpuriousWakeups
               PROVE  MemorySpec => [](\A t \in Threads :
                   op[t] \notin {NotRunning, Begun} /\ is_ro_flags[tx[t]] => op[t].at # "abort")
    OBVIOUS
  <1>1. SnapshotInv => \A t \in Threads :
            op[t] \notin {NotRunning, Begun} /\ is_ro_flags[tx[t]] => op[t].at # "abort"
    BY DEF SnapshotInv, OwnsOnlyWhatItWrote
  <1> QED
    BY <1>1, SnapshotInvariance, PTL
=============================================================================
