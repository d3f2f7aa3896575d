---------------------------- MODULE MemoryProofs ----------------------------
(***************************************************************************)
(* Proofs about the words of the dual-versioned memory, for any finite set *)
(* of threads, any number of words and any values, over a condition        *)
(* variable without spurious wake-ups.                                     *)
(***************************************************************************)
EXTENDS DualVersionedMemory, BatcherProofs

\* a thread has an operation exactly while it holds a transaction id
OperationsMatch ==
    \A t \in Threads : op[t] = NotRunning <=> pc[t] # "inside"

\* whoever is about to touch the writable copy of a word owns the word
CopiersOwn ==
    \A t \in Threads :
        op[t].at \in {"read_writable_copy", "first_copy", "write_copy"} =>
            OwnsWritten(t, op[t].word)

(* CopiesRaceFree is not inductive: it follows from who owns the word that *)
(* is copied, as ids are unique (EpochInv) and marks are those of this     *)
(* epoch (WordsBelongToEpoch).                                             *)
MemoryInv ==
    /\ EpochInv
    /\ MemoryTypeOK
    /\ WordsBelongToEpoch
    /\ OperationsMatch
    /\ CopiersOwn
----------------------------------------------------------------------------
(* What the shape of an operation says of its fields.                      *)
LEMMA OpFields ==
    ASSUME NEW o \in Ops
    PROVE  /\ o.at \in {"read_ro_copy", "read_writable_copy", "write_lock", "first_copy",
                        "write_copy"} => o.word \in Words
           /\ o.at \in {"write_lock", "first_copy", "write_copy"} =>
                 /\ o.val \in Values
                 /\ [o EXCEPT !.at = "first_copy"]
                       = [at |-> "first_copy", word |-> o.word, val |-> o.val]
           /\ o.at = "abort" => o.word \in 0 .. NWords
           /\ o = Idle => o.at = "idle"
           /\ o = Begun => o.at = "begun"
           /\ o = NotRunning <=> o.at = "not running"
  <1>0. Idle.at = "idle" /\ Begun.at = "begun" /\ NotRunning.at = "not running"
    BY DEF Idle, Begun, NotRunning
  <1>1. CASE o \in {Idle, Begun, NotRunning}
    <2>1. \/ o = Idle /\ o.at = "idle"
          \/ o = Begun /\ o.at = "begun"
          \/ o = NotRunning /\ o.at = "not running"
      BY <1>0, <1>1
    <2> QED
      BY <1>0, <2>1
  <1>2. CASE o \in [at : {"read_ro_copy", "read_writable_copy"}, word : Words]
    <2>1. o.at \in {"read_ro_copy", "read_writable_copy"} /\ o.word \in Words
      BY <1>2
    <2> QED
      BY <1>0, <2>1
  <1>3. CASE o \in [at : {"write_lock", "first_copy", "write_copy"}, word : Words,
                    val : Values]
    <2>1. o.at \in {"write_lock", "first_copy", "write_copy"} /\ o.word \in Words
          /\ o.val \in Values
      BY <1>3
    <2>2. [o EXCEPT !.at = "first_copy"]
             = [at |-> "first_copy", word |-> o.word, val |-> o.val]
      BY <1>3
    <2> QED
      BY <1>0, <2>1, <2>2
  <1>4. CASE o \in [at : {"abort"}, word : 0 .. NWords]
    <2>1. o.at = "abort" /\ o.word \in 0 .. NWords
      BY <1>4
    <2> QED
      BY <1>0, <2>1
  <1> QED
    BY <1>1, <1>2, <1>3, <1>4 DEF Ops

(* The operations a step may enter.                                        *)
LEMMA OpsEntered ==
    /\ Idle \in Ops /\ Begun \in Ops /\ NotRunning \in Ops
    /\ \A w \in Words : /\ [at |-> "read_ro_copy", word |-> w] \in Ops
                        /\ [at |-> "read_writable_copy", word |-> w] \in Ops
                        /\ [at |-> "abort", word |-> w + 1] \in Ops
    /\ [at |-> "abort", word |-> 0] \in Ops
    /\ \A w \in Words, v \in Values :
          /\ [at |-> "write_lock", word |-> w, val |-> v] \in Ops
          /\ [at |-> "first_copy", word |-> w, val |-> v] \in Ops
          /\ [at |-> "write_copy", word |-> w, val |-> v] \in Ops
  BY NWordsAssumption DEF Ops, Words

(* Ids of running transactions are in the tables' range, differ from NONE, *)
(* and from each other.                                                    *)
LEMMA Ids ==
    ASSUME EpochInv
    PROVE  /\ \A u \in Threads : pc[u] = "inside" =>
                 /\ tx[u] \in TxIds /\ tx[u] # NONE
                 /\ tx[u] \in Nat /\ tx[u] < tx_id_generator
           /\ \A u, v \in Threads :
                 pc[u] = "inside" /\ pc[v] = "inside" /\ tx[u] = tx[v] => u = v
           /\ tx_id_generator \in 0 .. Cardinality(Threads)
           /\ \A i \in TxIds : i \in Nat /\ i # NONE
  <1>1. /\ tx_id_generator \in Nat /\ n_in_epoch <= Cardinality(Threads)
        /\ n_in_epoch \in Nat
        /\ tx_id_generator + Cardinality(At("woken")) = n_in_epoch
        /\ \A u \in At("inside") : tx[u] \in 0 .. tx_id_generator - 1
        /\ \A u, v \in At("inside") : tx[u] = tx[v] => u = v
    BY DEF EpochInv, TypeOK, UniqueIds
  <1>2. Cardinality(Threads) \in Nat /\ Cardinality(At("woken")) \in Nat
    BY AtFinite
  <1>3. \A i \in TxIds : i \in Nat /\ i # NONE
    BY <1>2, FewThreadsAssumption DEF TxIds, NONE, MaxTransactions
  <1>4. tx_id_generator \in 0 .. Cardinality(Threads)
    BY <1>1, <1>2
  <1>5. \A u \in At("inside") : tx[u] \in TxIds /\ tx[u] \in Nat /\ tx[u] < tx_id_generator
    BY <1>1, <1>2, <1>4 DEF TxIds
  <1> QED
    BY <1>1, <1>3, <1>4, <1>5 DEF At

(* To the batcher a step of the memory is one of its own, or none.         *)
LEMMA BatcherPart ==
    ASSUME NEW t \in Threads, MemoryStep(t)
    PROVE  BatcherStep(t) \/ UNCHANGED batcherVars
  BY DEF MemoryStep, TmBegin, TmBeginBlocks, TmBeginFlag, ReadWord, ReadCopy, WriteWord,
         WriteLocked, WriteCopy, AbortWord, TmLeave, BatcherStep
----------------------------------------------------------------------------
(* The initial state satisfies the invariant.                              *)
LEMMA InitMemory == MemoryInit => MemoryInv
  <1> SUFFICES ASSUME MemoryInit PROVE MemoryInv
    OBVIOUS
  <1>1. EpochInv /\ At("inside") = {}
    BY InitEpoch, InitSets DEF MemoryInit
  <1>2. \A t \in Threads : op[t] = NotRunning /\ pc[t] = "outside"
    BY DEF MemoryInit, BatcherInit
  <1>3. MemoryTypeOK
    BY <1>1, ValuesAssumption, OpsEntered DEF MemoryInit, MemoryTypeOK
  <1>4. WordsBelongToEpoch /\ OperationsMatch
    BY <1>2 DEF MemoryInit, WordsBelongToEpoch, OperationsMatch
  <1>5. CopiersOwn
    <2>1. NotRunning.at = "not running"
      BY DEF NotRunning
    <2> QED
      BY <1>2, <2>1 DEF CopiersOwn
  <1> QED
    BY <1>1, <1>3, <1>4, <1>5 DEF MemoryInv

(* Running transactions keep ids within the range of the tables.           *)
LEMMA IdsStayInRange ==
    ASSUME EpochInv'
    PROVE  \A u \in At("inside")' : tx'[u] \in TxIds
  <1>1. /\ tx_id_generator' \in Nat /\ n_in_epoch' <= Cardinality(Threads)
        /\ n_in_epoch' \in Nat
        /\ tx_id_generator' + Cardinality(At("woken")') = n_in_epoch'
        /\ \A u \in At("inside")' : tx'[u] \in 0 .. tx_id_generator' - 1
    BY DEF EpochInv, TypeOK, UniqueIds
  <1>2. Cardinality(Threads) \in Nat /\ Cardinality(At("woken")') \in Nat
    <2>1. At("woken")' \subseteq Threads
      BY DEF At
    <2> QED
      BY <2>1, FS_Subset, FS_CardinalityType, ThreadsAssumption
  <1> QED
    BY <1>1, <1>2 DEF TxIds

(* When only t's operation changes, and t's marks are its own, the threads *)
(* about to touch a writable copy still own the word.                      *)
LEMMA CopiersKeepOwning ==
    ASSUME MemoryInv, NEW t \in Threads, NEW o, op' = [op EXCEPT ![t] = o],
           \A u \in Threads \ {t} : tx'[u] = tx[u],
           \A u \in Threads \ {t}, w \in Words :
               pc[u] = "inside" /\ OwnsWritten(u, w) => OwnsWritten(u, w)',
           o.at \in {"read_writable_copy", "first_copy", "write_copy"} =>
               OwnsWritten(t, o.word)'
    PROVE  CopiersOwn'
  <1> SUFFICES ASSUME NEW u \in Threads,
                      op'[u].at \in {"read_writable_copy", "first_copy", "write_copy"}
               PROVE  OwnsWritten(u, op[u].word)'
    BY DEF CopiersOwn
  <1>0. op \in [Threads -> Ops]
    BY DEF MemoryInv, MemoryTypeOK
  <1>1. CASE u = t
    <2>1. op'[u] = o
      BY <1>0, <1>1
    <2> QED
      BY <1>1, <2>1 DEF OwnsWritten
  <1>2. CASE u # t
    <2>1. op'[u] = op[u]
      BY <1>0, <1>2
    <2>2. op[u].word \in Words /\ op[u] # NotRunning
      BY <1>0, <2>1, OpFields
    <2>3. pc[u] = "inside"
      BY <2>2 DEF MemoryInv, OperationsMatch
    <2>4. OwnsWritten(u, op[u].word)
      BY <2>1 DEF MemoryInv, CopiersOwn
    <2>5. \A w \in Words : OwnsWritten(u, w) => OwnsWritten(u, w)'
      BY <1>2, <2>3
    <2> QED
      BY <2>1, <2>2, <2>4, <2>5 DEF OwnsWritten
  <1> QED
    BY <1>1, <1>2
----------------------------------------------------------------------------
(* Every step of the memory keeps the invariant: types, marks and owners.  *)
LEMMA StepMemory ==
    ASSUME MemoryInv, ~SpuriousWakeups, NEW t \in Threads, MemoryStep(t)
    PROVE  MemoryInv'
  <1> DEFINE C == [word_is_ro : BOOLEAN, access_set : TxIds \cup {NONE},
                   word_has_been_written : BOOLEAN]
  <1>a. EpochInv'
    BY BatcherPart, StepEpoch, Stutter DEF MemoryInv
  <1>b. /\ control \in [Words -> C]
        /\ words_array_A \in [Words -> Values]
        /\ words_array_B \in [Words -> Values]
        /\ is_ro_flags \in [TxIds -> BOOLEAN]
        /\ op \in [Threads -> Ops]
        /\ target \in [Threads -> {NoRead} \cup (Words \X Values)]
    BY DEF MemoryInv, MemoryTypeOK
  <1>c. /\ pc \in [Threads -> {"outside", "blocked", "woken", "inside"}]
        /\ tx \in [Threads -> Nat \cup {NoTx}]
        /\ tx_id_generator \in Nat
    BY DEF MemoryInv, EpochInv, TypeOK
  <1>d. \A u \in At("inside")' : tx'[u] \in TxIds
    BY <1>a, IdsStayInRange
  <1>e. /\ \A u \in Threads : pc[u] = "inside" =>
               tx[u] \in TxIds /\ tx[u] # NONE /\ tx[u] < tx_id_generator
        /\ \A u, v \in Threads :
               pc[u] = "inside" /\ pc[v] = "inside" /\ tx[u] = tx[v] => u = v
    BY Ids DEF MemoryInv
  <1>f. \A u \in Threads : op[u] = NotRunning <=> pc[u] # "inside"
    BY DEF MemoryInv, OperationsMatch
  <1>g. \A w \in Words :
           /\ control[w].access_set # NONE => control[w].access_set < tx_id_generator
           /\ control[w].word_has_been_written => control[w].access_set # NONE
    BY DEF MemoryInv, WordsBelongToEpoch
  <1>h. /\ NotRunning.at = "not running" /\ Idle.at = "idle" /\ Begun.at = "begun"
        /\ Idle # NotRunning /\ Begun # NotRunning
    <2>1. NotRunning.at = "not running" /\ Idle.at = "idle" /\ Begun.at = "begun"
      BY DEF NotRunning, Idle, Begun
    <2> QED
      BY <2>1
  \* the conjuncts of the invariant, to be shown for each kind of step
  <1>q. ASSUME MemoryTypeOK', WordsBelongToEpoch', OperationsMatch', CopiersOwn'
        PROVE  MemoryInv'
    BY <1>a, <1>q DEF MemoryInv
  <1>1. CASE TmBegin(t)
    <2>1. /\ pc' = [pc EXCEPT ![t] = "inside"]
          /\ tx' = [tx EXCEPT ![t] = tx_id_generator]
          /\ tx_id_generator' = tx_id_generator + 1
          /\ op' = [op EXCEPT ![t] = Begun]
          /\ UNCHANGED <<control, words_array_A, words_array_B, is_ro_flags, target>>
      BY <1>1 DEF TmBegin, EnterFirst, Resume, TakeId, GoTo
    <2>2. MemoryTypeOK'
      BY <2>1, <1>b, <1>d, OpsEntered DEF MemoryTypeOK
    <2>3. WordsBelongToEpoch'
      <3>1. \A w \in Words : control[w].access_set \in TxIds \cup {NONE}
        BY <1>b
      <3>2. \A i \in TxIds : i \in Nat
        BY Ids DEF MemoryInv
      <3> QED
        BY <2>1, <1>c, <1>g, <3>1, <3>2 DEF WordsBelongToEpoch
    <2>4. OperationsMatch'
      BY <2>1, <1>b, <1>c, <1>f, <1>h DEF OperationsMatch
    <2>5. CopiersOwn'
      BY <2>1, <1>c, <1>h, CopiersKeepOwning DEF OwnsWritten
    <2> QED
      BY <2>2, <2>3, <2>4, <2>5, <1>q
  <1>2. CASE TmBeginBlocks(t)
    <2>1. /\ pc' = [pc EXCEPT ![t] = "blocked"] /\ pc[t] = "outside"
          /\ UNCHANGED <<tx, tx_id_generator>>
          /\ UNCHANGED <<control, words_array_A, words_array_B, is_ro_flags, op, target>>
      BY <1>2 DEF TmBeginBlocks, EnterBlock, SpuriousWakeup, memoryVars
    <2>2. MemoryTypeOK'
      BY <2>1, <1>b, <1>d DEF MemoryTypeOK
    <2>3. WordsBelongToEpoch' /\ OperationsMatch'
      BY <2>1, <1>c, <1>f, <1>g DEF WordsBelongToEpoch, OperationsMatch
    <2>4. CopiersOwn'
      BY <2>1 DEF MemoryInv, CopiersOwn, OwnsWritten
    <2> QED
      BY <2>2, <2>3, <2>4, <1>q
  <1>3. CASE TmBeginFlag(t)
    <2>1. /\ op[t] = Begun
          /\ op' = [op EXCEPT ![t] = Idle]
          /\ UNCHANGED batcherVars
          /\ UNCHANGED <<control, words_array_A, words_array_B, target>>
          /\ \E b \in BOOLEAN : is_ro_flags' = [is_ro_flags EXCEPT ![tx[t]] = b]
      BY <1>3 DEF TmBeginFlag, GoTo
    <2>2. MemoryTypeOK'
      BY <2>1, <1>b, <1>d, OpsEntered DEF MemoryTypeOK
    <2>3. WordsBelongToEpoch' /\ OperationsMatch'
      BY <2>1, <1>b, <1>f, <1>g, <1>h DEF WordsBelongToEpoch, OperationsMatch, batcherVars
    <2>4. CopiersOwn'
      BY <2>1, <1>h, CopiersKeepOwning DEF OwnsWritten, batcherVars
    <2> QED
      BY <2>2, <2>3, <2>4, <1>q
  <1>4. ASSUME NEW w \in Words, ReadWord(t, w)
        PROVE  MemoryInv'
    <2>1. /\ op[t] = Idle
          /\ UNCHANGED batcherVars
          /\ UNCHANGED <<words_array_A, words_array_B, is_ro_flags>>
          /\ target' = [target EXCEPT ![t] = NoRead]
      BY <1>4 DEF ReadWord, Consume
    <2>2. pc[t] = "inside" /\ tx[t] \in TxIds /\ tx[t] # NONE /\ tx[t] < tx_id_generator
      BY <2>1, <1>e, <1>f, <1>h
    <2>3. \/ control' = control
          \/ /\ control[w].access_set = NONE
             /\ ~control[w].word_has_been_written
             /\ control' = [control EXCEPT ![w].access_set = tx[t]]
      BY <1>4 DEF ReadWord
    <2>4. PICK o \in Ops :
             /\ op' = [op EXCEPT ![t] = o] /\ o # NotRunning
             /\ o.at \in {"read_ro_copy", "read_writable_copy", "abort"}
             /\ o.at = "read_writable_copy" =>
                   o.word = w /\ OwnsWritten(t, w) /\ UNCHANGED control
      <3>1. \/ op' = [op EXCEPT ![t] = [at |-> "read_ro_copy", word |-> w]]
            \/ op' = [op EXCEPT ![t] = [at |-> "abort", word |-> 0]]
            \/ /\ op' = [op EXCEPT ![t] = [at |-> "read_writable_copy", word |-> w]]
               /\ OwnsWritten(t, w) /\ UNCHANGED control
        BY <1>4 DEF ReadWord, GoTo, ToAbort
      <3>2. /\ [at |-> "read_ro_copy", word |-> w].at = "read_ro_copy"
            /\ [at |-> "abort", word |-> 0].at = "abort"
            /\ [at |-> "read_writable_copy", word |-> w].at = "read_writable_copy"
            /\ [at |-> "read_writable_copy", word |-> w].word = w
        OBVIOUS
      <3> QED
        BY <3>1, <3>2, <1>h, OpsEntered
    <2>5. control' \in [Words -> C]
      BY <2>2, <2>3, <1>b
    <2>6. MemoryTypeOK'
      BY <2>1, <2>4, <2>5, <1>b, <1>d DEF MemoryTypeOK
    <2>7. WordsBelongToEpoch'
      BY <2>1, <2>2, <2>3, <1>b, <1>g DEF WordsBelongToEpoch, batcherVars
    <2>8. OperationsMatch'
      BY <2>1, <2>2, <2>4, <1>b, <1>f DEF OperationsMatch, batcherVars
    <2>9. CopiersOwn'
      <3>1. \A u \in Threads, x \in Words : OwnsWritten(u, x) => OwnsWritten(u, x)'
        BY <2>1, <2>3, <1>b DEF OwnsWritten, batcherVars
      <3> QED
        BY <2>1, <2>4, <3>1, CopiersKeepOwning DEF batcherVars, OwnsWritten
    <2> QED
      BY <2>6, <2>7, <2>8, <2>9, <1>q
  <1>5. CASE ReadCopy(t)
    <2>1. /\ op[t].at \in {"read_ro_copy", "read_writable_copy"}
          /\ op' = [op EXCEPT ![t] = Idle]
          /\ UNCHANGED batcherVars
          /\ UNCHANGED <<control, words_array_A, words_array_B, is_ro_flags>>
      BY <1>5 DEF ReadCopy, GoTo
    <2>2. op[t].word \in Words /\ op[t] # NotRunning
      BY <2>1, <1>b, <1>h, OpFields
    <2>3. RoCopy(op[t].word) \in Values /\ WritableCopy(op[t].word) \in Values
      BY <2>2, <1>b DEF RoCopy, WritableCopy
    <2>4. target' \in [Threads -> {NoRead} \cup (Words \X Values)]
      BY <1>5, <2>2, <2>3, <1>b DEF ReadCopy
    <2>5. MemoryTypeOK'
      BY <2>1, <2>4, <1>b, <1>d, OpsEntered DEF MemoryTypeOK
    <2>6. WordsBelongToEpoch' /\ OperationsMatch'
      BY <2>1, <2>2, <1>b, <1>f, <1>g, <1>h DEF WordsBelongToEpoch, OperationsMatch, batcherVars
    <2>7. CopiersOwn'
      BY <2>1, <1>h, CopiersKeepOwning DEF OwnsWritten, batcherVars
    <2> QED
      BY <2>5, <2>6, <2>7, <1>q
  <1>6. ASSUME NEW w \in Words, NEW v \in Values, WriteWord(t, w, v)
        PROVE  MemoryInv'
    <2>1. /\ op[t] = Idle
          /\ UNCHANGED batcherVars
          /\ UNCHANGED <<control, words_array_A, words_array_B, is_ro_flags>>
          /\ target' = [target EXCEPT ![t] = NoRead]
      BY <1>6 DEF WriteWord, Consume
    <2>2. PICK o \in Ops :
             /\ op' = [op EXCEPT ![t] = o] /\ o # NotRunning
             /\ o.at \in {"write_copy", "write_lock", "abort"}
             /\ o.at = "write_copy" => o.word = w /\ OwnsWritten(t, w)
      <3>1. \/ /\ op' = [op EXCEPT ![t] = [at |-> "write_copy", word |-> w, val |-> v]]
               /\ OwnsWritten(t, w)
            \/ op' = [op EXCEPT ![t] = [at |-> "write_lock", word |-> w, val |-> v]]
            \/ op' = [op EXCEPT ![t] = [at |-> "abort", word |-> 0]]
        BY <1>6 DEF WriteWord, GoTo, ToAbort, OwnsWritten
      <3>2. /\ [at |-> "write_copy", word |-> w, val |-> v].at = "write_copy"
            /\ [at |-> "write_copy", word |-> w, val |-> v].word = w
            /\ [at |-> "write_lock", word |-> w, val |-> v].at = "write_lock"
            /\ [at |-> "abort", word |-> 0].at = "abort"
        OBVIOUS
      <3> QED
        BY <3>1, <3>2, <1>h, OpsEntered
    <2>3. MemoryTypeOK'
      BY <2>1, <2>2, <1>b, <1>d DEF MemoryTypeOK
    <2>4. WordsBelongToEpoch' /\ OperationsMatch'
      BY <2>1, <2>2, <1>b, <1>f, <1>g, <1>h DEF WordsBelongToEpoch, OperationsMatch, batcherVars
    <2>5. CopiersOwn'
      BY <2>1, <2>2, CopiersKeepOwning DEF OwnsWritten, batcherVars
    <2> QED
      BY <2>3, <2>4, <2>5, <1>q
  <1>7. CASE WriteLocked(t)
    <2>1. /\ op[t].at = "write_lock"
          /\ UNCHANGED batcherVars
          /\ UNCHANGED <<words_array_A, words_array_B, is_ro_flags, target>>
      BY <1>7 DEF WriteLocked
    <2>0. PICK w \in Words, v \in Values : w = op[t].word /\ v = op[t].val
      BY <2>1, <1>b, OpFields
    <2> DEFINE first == [at |-> "first_copy", word |-> w, val |-> v]
    <2>2. op[t] # NotRunning /\ [op[t] EXCEPT !.at = "first_copy"] = first
      BY <2>0, <2>1, <1>b, <1>h, OpFields
    <2>3. pc[t] = "inside" /\ tx[t] \in TxIds /\ tx[t] # NONE /\ tx[t] < tx_id_generator
      BY <2>2, <1>e, <1>f
    <2>4. CASE control[w].access_set \notin {NONE, tx[t]}
      <3>1. op' = [op EXCEPT ![t] = [at |-> "abort", word |-> 0]] /\ control' = control
        BY <1>7, <2>0, <2>4 DEF WriteLocked, ToAbort, GoTo
      <3>2. [at |-> "abort", word |-> 0].at = "abort"
        OBVIOUS
      <3>3. MemoryTypeOK'
        BY <2>1, <3>1, <1>b, <1>d, OpsEntered DEF MemoryTypeOK
      <3>4. WordsBelongToEpoch' /\ OperationsMatch'
        BY <2>1, <2>2, <3>1, <3>2, <1>b, <1>f, <1>g, <1>h
           DEF WordsBelongToEpoch, OperationsMatch, batcherVars
      <3>5. CopiersOwn'
        BY <2>1, <3>1, <3>2, CopiersKeepOwning DEF OwnsWritten, batcherVars
      <3> QED
        BY <3>3, <3>4, <3>5, <1>q
    <2>5. CASE control[w].access_set \in {NONE, tx[t]}
      <3>1. /\ op' = [op EXCEPT ![t] = first]
            /\ control' = [control EXCEPT ![w].access_set = tx[t],
                                          ![w].word_has_been_written = TRUE]
        BY <1>7, <2>0, <2>2, <2>5 DEF WriteLocked, GoTo
      <3>2. first.at = "first_copy" /\ first.word = w /\ first \in Ops
        BY <2>2, OpsEntered
      <3>3. /\ control' \in [Words -> C]
            /\ control'[w].access_set = tx[t] /\ control'[w].word_has_been_written
            /\ \A x \in Words \ {w} : control'[x] = control[x]
        <4> DEFINE d == [control[w] EXCEPT !.access_set = tx[t], !.word_has_been_written = TRUE]
        <4>1. control' = [control EXCEPT ![w] = d]
          BY <3>1
        <4>2. d \in C /\ d.access_set = tx[t] /\ d.word_has_been_written
          <5>1. control[w] \in C
            BY <2>2, <1>b
          <5>2. \A c \in C, a \in TxIds :
                    /\ [c EXCEPT !.access_set = a, !.word_has_been_written = TRUE] \in C
                    /\ [c EXCEPT !.access_set = a, !.word_has_been_written = TRUE].access_set = a
                    /\ [c EXCEPT !.access_set = a,
                                 !.word_has_been_written = TRUE].word_has_been_written
            OBVIOUS
          <5> QED
            BY <5>1, <5>2, <2>3
        <4> QED
          BY <4>1, <4>2, <2>2, <1>b
      <3>4. MemoryTypeOK'
        BY <2>1, <3>1, <3>2, <3>3, <1>b, <1>d DEF MemoryTypeOK
      <3>5. WordsBelongToEpoch'
        BY <2>1, <2>3, <3>3, <1>g DEF WordsBelongToEpoch, batcherVars
      <3>6. OperationsMatch'
        BY <2>1, <2>3, <3>1, <3>2, <1>b, <1>f, <1>h DEF OperationsMatch, batcherVars
      <3>7. CopiersOwn'
        <4>1. ASSUME NEW u \in Threads \ {t}, NEW x \in Words, pc[u] = "inside",
                     OwnsWritten(u, x)
              PROVE  OwnsWritten(u, x)'
          <5>1. control[x].access_set \notin {NONE, tx[t]}
            BY <2>3, <4>1, <1>e DEF OwnsWritten
          <5>2. x # w
            BY <2>5, <5>1
          <5> QED
            BY <2>1, <3>3, <4>1, <5>2 DEF OwnsWritten, batcherVars
        <4>2. OwnsWritten(t, first.word)'
          BY <2>1, <3>2, <3>3 DEF OwnsWritten, batcherVars
        <4>3. \A u \in Threads \ {t} : tx'[u] = tx[u]
          BY <2>1 DEF batcherVars
        <4> HIDE DEF first
        <4> QED
          BY <3>1, <4>1, <4>2, <4>3, CopiersKeepOwning
      <3> QED
        BY <3>4, <3>5, <3>6, <3>7, <1>q
    <2> QED
      BY <2>4, <2>5
  <1>8. CASE WriteCopy(t)
    <2>1. /\ op[t].at \in {"first_copy", "write_copy"}
          /\ op' = [op EXCEPT ![t] = Idle]
          /\ UNCHANGED batcherVars
          /\ UNCHANGED <<control, is_ro_flags, target>>
      BY <1>8 DEF WriteCopy, GoTo
    <2>2. op[t].word \in Words /\ op[t].val \in Values /\ op[t] # NotRunning
      BY <2>1, <1>b, <1>h, OpFields
    <2>3. words_array_A' \in [Words -> Values] /\ words_array_B' \in [Words -> Values]
      BY <1>8, <2>2, <1>b DEF WriteCopy
    <2>4. MemoryTypeOK'
      BY <2>1, <2>3, <1>b, <1>d, OpsEntered DEF MemoryTypeOK
    <2>5. WordsBelongToEpoch' /\ OperationsMatch'
      BY <2>1, <2>2, <1>b, <1>f, <1>g, <1>h DEF WordsBelongToEpoch, OperationsMatch, batcherVars
    <2>6. CopiersOwn'
      BY <2>1, <1>h, CopiersKeepOwning DEF OwnsWritten, batcherVars
    <2> QED
      BY <2>4, <2>5, <2>6, <1>q
  <1>9. CASE AbortWord(t)
    <2>1. /\ op[t].at = "abort" /\ op[t].word < NWords
          /\ op' = [op EXCEPT ![t] = [at |-> "abort", word |-> op[t].word + 1]]
          /\ UNCHANGED batcherVars
          /\ UNCHANGED <<words_array_A, words_array_B, is_ro_flags, target>>
      BY <1>9 DEF AbortWord, GoTo
    <2>0. PICK w \in Words : w = op[t].word
      <3>1. op[t].word \in 0 .. NWords
        BY <2>1, <1>b, OpFields
      <3> QED
        BY <2>1, <3>1, NWordsAssumption DEF Words
    <2> DEFINE next == [at |-> "abort", word |-> w + 1]
    <2>2. op[t] # NotRunning /\ op' = [op EXCEPT ![t] = next]
      BY <2>0, <2>1, <1>h
    <2>3. next \in Ops /\ next.at = "abort"
      BY <2>2, OpsEntered
    <2>4. \/ control' = control
          \/ /\ OwnsWritten(t, w)
             /\ control' = [control EXCEPT ![w].access_set = NONE,
                                           ![w].word_has_been_written = FALSE]
      BY <1>9, <2>0 DEF AbortWord
    <2>5. /\ control' \in [Words -> C]
          /\ \A x \in Words : \/ control'[x] = control[x]
                              \/ /\ OwnsWritten(t, x)
                                 /\ control'[x].access_set = NONE
                                 /\ ~control'[x].word_has_been_written
      BY <2>2, <2>4, <1>b
    <2>6. MemoryTypeOK'
      BY <2>1, <2>2, <2>3, <2>5, <1>b, <1>d DEF MemoryTypeOK
    <2>7. WordsBelongToEpoch'
      BY <2>1, <2>5, <1>g DEF WordsBelongToEpoch, batcherVars
    <2>8. OperationsMatch'
      BY <2>1, <2>2, <2>3, <1>b, <1>f, <1>h DEF OperationsMatch, batcherVars
    <2>9. CopiersOwn'
      <3>1. ASSUME NEW u \in Threads \ {t}, NEW x \in Words, pc[u] = "inside",
                   OwnsWritten(u, x)
            PROVE  OwnsWritten(u, x)'
        <4>1. pc[t] = "inside"
          BY <2>2, <1>f
        <4>2. ~OwnsWritten(t, x)
          BY <3>1, <4>1, <1>e DEF OwnsWritten
        <4> QED
          BY <2>1, <2>5, <3>1, <4>2 DEF OwnsWritten, batcherVars
      <3>2. \A u \in Threads \ {t} : tx'[u] = tx[u]
        BY <2>1 DEF batcherVars
      <3> HIDE DEF next
      <3> QED
        BY <2>2, <2>3, <3>1, <3>2, CopiersKeepOwning
    <2> QED
      BY <2>6, <2>7, <2>8, <2>9, <1>q
  <1>10. CASE TmLeave(t)
    <2>1. /\ op' = [op EXCEPT ![t] = NotRunning]
          /\ target' = [target EXCEPT ![t] = NoRead]
          /\ UNCHANGED <<words_array_A, words_array_B, is_ro_flags>>
      BY <1>10 DEF TmLeave, GoTo, Consume
    <2>2. \A u \in Threads \ {t} : tx'[u] = tx[u]
      BY <1>10, <1>c DEF TmLeave, LeaveLast, LeaveEarly
    <2>3. CASE LeaveLast(t) /\ CommitWords
      <3>1. /\ control' \in [Words -> C]
            /\ \A w \in Words : /\ control'[w].access_set = NONE
                                /\ ~control'[w].word_has_been_written
        BY <2>3, <1>b DEF CommitWords
      <3>2. \A u \in Threads \ {t} : pc[u] # "inside"
        BY <2>3, LastIsAlone DEF LeaveLast, MemoryInv, At
      <3>3. \A u \in Threads : pc'[u] # "inside"
        BY <2>3, <3>2, <1>c DEF LeaveLast
      <3>4. MemoryTypeOK'
        BY <2>1, <3>1, <1>b, <1>d, OpsEntered DEF MemoryTypeOK
      <3>5. WordsBelongToEpoch'
        BY <3>1 DEF WordsBelongToEpoch
      <3>6. OperationsMatch'
        BY <2>1, <3>2, <3>3, <1>b, <1>f DEF OperationsMatch
      <3>7. CopiersOwn'
        BY <2>1, <2>2, <3>2, <1>h, CopiersKeepOwning
      <3> QED
        BY <3>4, <3>5, <3>6, <3>7, <1>q
    <2>4. CASE LeaveEarly(t) /\ UNCHANGED control
      <3>1. pc' = [pc EXCEPT ![t] = "outside"] /\ UNCHANGED tx_id_generator
        BY <2>4 DEF LeaveEarly
      <3>2. MemoryTypeOK'
        BY <2>1, <2>4, <1>b, <1>d, OpsEntered DEF MemoryTypeOK
      <3>3. WordsBelongToEpoch' /\ OperationsMatch'
        BY <2>1, <2>4, <3>1, <1>b, <1>c, <1>f, <1>g DEF WordsBelongToEpoch, OperationsMatch
      <3>4. CopiersOwn'
        BY <2>1, <2>2, <2>4, <1>h, CopiersKeepOwning DEF OwnsWritten
      <3> QED
        BY <3>2, <3>3, <3>4, <1>q
    <2> QED
      BY <1>10, <2>3, <2>4 DEF TmLeave
  <1> QED
    BY <1>1, <1>2, <1>3, <1>4, <1>5, <1>6, <1>7, <1>8, <1>9, <1>10 DEF MemoryStep

(* Steps of others than the threads change nothing.                        *)
LEMMA MemoryStutter == MemoryInv /\ UNCHANGED vars => MemoryInv'
  <1> SUFFICES ASSUME MemoryInv, UNCHANGED vars PROVE MemoryInv'
    OBVIOUS
  <1>1. EpochInv'
    BY Stutter DEF MemoryInv, vars
  <1>2. MemoryTypeOK'
    BY DEF MemoryInv, MemoryTypeOK, vars, batcherVars, memoryVars, At
  <1>3. WordsBelongToEpoch' /\ OperationsMatch'
    BY DEF MemoryInv, WordsBelongToEpoch, OperationsMatch, vars, batcherVars, memoryVars
  <1>4. CopiersOwn'
    BY DEF MemoryInv, CopiersOwn, OwnsWritten, vars, batcherVars, memoryVars
  <1> QED
    BY <1>1, <1>2, <1>3, <1>4 DEF MemoryInv
----------------------------------------------------------------------------
(* The memory always satisfies its inductive invariant.                    *)
THEOREM MemoryInvariance == ~SpuriousWakeups => (MemorySpec => []MemoryInv)
  <1> SUFFICES ASSUME ~SpuriousWakeups PROVE MemorySpec => []MemoryInv
    OBVIOUS
  <1>1. MemoryInit => MemoryInv
    BY InitMemory
  <1>2. MemoryInv /\ [MemoryNext]_vars => MemoryInv'
    BY StepMemory, MemoryStutter DEF MemoryNext
  <1> QED
    BY <1>1, <1>2, PTL DEF MemorySpec

(* Control structures, copies, flags and operations keep their types; in   *)
(* particular a running transaction's id indexes is_ro_flags.              *)
THEOREM MemoryTypesKept == ~SpuriousWakeups => (MemorySpec => []MemoryTypeOK)
  <1> SUFFICES ASSUME ~SpuriousWakeups PROVE MemorySpec => []MemoryTypeOK
    OBVIOUS
  <1>1. MemoryInv => MemoryTypeOK
    BY DEF MemoryInv
  <1> QED
    BY <1>1, MemoryInvariance, PTL

(* Whoever is registered for a word got its id in this epoch: no mark of a *)
(* word survives the end of the epoch it was made in.                      *)
THEOREM MarksBelongToEpoch == ~SpuriousWakeups => (MemorySpec => []WordsBelongToEpoch)
  <1> SUFFICES ASSUME ~SpuriousWakeups PROVE MemorySpec => []WordsBelongToEpoch
    OBVIOUS
  <1>1. MemoryInv => WordsBelongToEpoch
    BY DEF MemoryInv
  <1> QED
    BY <1>1, MemoryInvariance, PTL

(* The writer of a copy has the word to itself: another thread that copies *)
(* the same word reads its read-only copy.                                 *)
LEMMA WriterIsAlone ==
    ASSUME MemoryInv
    PROVE  CopiesRaceFree
  <1> SUFFICES ASSUME NEW t \in Writing, NEW u \in Copying \ {t},
                      op[t].word = op[u].word
               PROVE  TouchesB(t) # TouchesB(u)
    BY DEF CopiesRaceFree
  <1>1. op \in [Threads -> Ops]
    BY DEF MemoryInv, MemoryTypeOK
  <1>2. t \in Threads /\ op[t].at \in {"first_copy", "write_copy"}
    BY DEF Writing
  <1>3. /\ u \in Threads /\ u # t
        /\ op[u].at \in {"first_copy", "write_copy", "read_ro_copy", "read_writable_copy"}
    BY DEF Writing, Copying
  <1>4. PICK w \in Words : w = op[t].word /\ w = op[u].word
    BY <1>1, <1>2, OpFields
  <1>5. pc[t] = "inside" /\ pc[u] = "inside"
    <2>1. op[t] # NotRunning /\ op[u] # NotRunning
      BY <1>1, <1>2, <1>3, OpFields
    <2> QED
      BY <1>2, <1>3, <2>1 DEF MemoryInv, OperationsMatch
  <1>6. op[u].at = "read_ro_copy"
    <2>1. OwnsWritten(t, w)
      BY <1>2, <1>4 DEF MemoryInv, CopiersOwn
    <2>2. OwnsWritten(u, w) => tx[u] = tx[t]
      BY <2>1 DEF OwnsWritten
    <2>3. ~OwnsWritten(u, w)
      BY <1>2, <1>3, <1>5, <2>2, Ids DEF MemoryInv
    <2> QED
      BY <1>3, <1>4, <2>3 DEF MemoryInv, CopiersOwn
  <1>7. control[w].word_is_ro \in BOOLEAN
    BY DEF MemoryInv, MemoryTypeOK
  <1>8. TouchesB(t) <=> ~control[w].word_is_ro
    BY <1>2, <1>4, <1>7 DEF TouchesB
  <1>9. TouchesB(u) <=> control[w].word_is_ro
    BY <1>4, <1>6, <1>7 DEF TouchesB
  <1> QED
    BY <1>8, <1>9

(* The memcpy calls of read_word and write_word, which run with no lock    *)
(* held, never write a copy of a word that another one reads or writes.    *)
THEOREM CopiesNeverRace == ~SpuriousWakeups => (MemorySpec => []CopiesRaceFree)
  <1> SUFFICES ASSUME ~SpuriousWakeups PROVE MemorySpec => []CopiesRaceFree
    OBVIOUS
  <1>1. MemoryInv => CopiesRaceFree
    BY WriterIsAlone
  <1> QED
    BY <1>1, MemoryInvariance, PTL

(* The transactions of the memory use the batcher as it is meant to be     *)
(* used, so that what is proved of the batcher holds of the memory.        *)
THEOREM MemoryUsesBatcher == MemorySpec => BatcherSpec
  <1>1. MemoryInit => BatcherInit
    BY DEF MemoryInit
  <1>2. [MemoryNext]_vars => [BatcherNext]_batcherVars
    BY BatcherPart DEF MemoryNext, BatcherNext, vars
  <1> QED
    BY <1>1, <1>2, PTL DEF MemorySpec, BatcherSpec

(* An epoch of the memory is committed by its last transaction, alone.     *)
THEOREM MemoryCommitsAlone == ~SpuriousWakeups => (MemorySpec => EpochEndsAlone)
  BY MemoryUsesBatcher, CommitRunsAlone, PTL
=============================================================================
