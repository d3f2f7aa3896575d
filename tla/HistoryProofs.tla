--------------------------- MODULE HistoryProofs ---------------------------
(***************************************************************************)
(* Proofs about what the transactions of an epoch did: no update is lost   *)
(* and no transaction is refused without a cause.  For any finite set of   *)
(* threads, any number of words and any values, over a condition variable  *)
(* without spurious wake-ups.                                              *)
(***************************************************************************)
EXTENDS EpochHistory, MemoryProofs

HistoryTypeOK ==
    /\ reads \in [TxIds -> SUBSET Words]
    /\ writes \in [TxIds -> SUBSET Words]
    /\ ended \in SUBSET TxIds

\* the transaction with id i ended, or it is running and not aborting
Standing(i) ==
    \/ i \in ended
    \/ \E t \in Threads : pc[t] = "inside" /\ tx[t] = i /\ op[t].at # "abort"

\* ids yet to be handed out have no record, and no running one has ended
RecordOfIssued ==
    /\ \A i \in TxIds : i >= tx_id_generator =>
          reads[i] = {} /\ writes[i] = {} /\ i \notin ended
    /\ \A t \in Threads : pc[t] = "inside" => tx[t] \notin ended

\* what a transaction wrote is its own until it aborts, also when it has left
WritesAreOwned ==
    \A i \in TxIds : \A w \in writes[i] :
        Standing(i) => control[w].word_has_been_written /\ control[w].access_set = i

\* whoever is registered for a word accessed it
MarksAreRecorded ==
    \A i \in TxIds, w \in Words : control[w].access_set = i => w \in reads[i] \cup writes[i]

(* While an epoch runs, the record and the control structures agree; when  *)
(* it is over the control structures are reset and NoLostUpdate is what    *)
(* remains of that.                                                        *)
HistoryInv ==
    /\ MemoryInv
    /\ HistoryTypeOK
    /\ tx_id_generator # 0 => RecordOfIssued /\ WritesAreOwned /\ MarksAreRecorded
    /\ NoLostUpdate
----------------------------------------------------------------------------
(* The history is only observed.                                           *)
LEMMA HistoryPart ==
    ASSUME NEW t \in Threads,
           \/ BeginRecorded(t) \/ WriteRecorded(t) \/ LeaveRecorded(t) \/ Unrecorded(t)
           \/ \E w \in Words : ReadRecorded(t, w)
    PROVE  MemoryStep(t)
  BY DEF BeginRecorded, WriteRecorded, LeaveRecorded, Unrecorded, ReadRecorded, MemoryStep

(* What standing transactions wrote is disjoint, as a word has one owner.  *)
LEMMA OwnedMeansDisjoint == HistoryTypeOK /\ WritesAreOwned => NoLostUpdate
  BY DEF HistoryTypeOK, WritesAreOwned, Standing, NoLostUpdate

(* Nothing is recorded at first.                                           *)
LEMMA InitHistory == HistoryInit => HistoryInv
  <1> SUFFICES ASSUME HistoryInit PROVE HistoryInv
    OBVIOUS
  <1>1. MemoryInv /\ tx_id_generator = 0
    BY InitMemory DEF HistoryInit, MemoryInit, BatcherInit
  <1>2. HistoryTypeOK /\ NoLostUpdate
    BY DEF HistoryInit, HistoryTypeOK, NoLostUpdate
  <1> QED
    BY <1>1, <1>2 DEF HistoryInv
----------------------------------------------------------------------------
(* A thread in an operation has an id of this epoch, of its own, and the   *)
(* transaction of one that aborts is not standing.                         *)
LEMMA WhoIsRunning ==
    ASSUME HistoryInv, tx_id_generator # 0, NEW t \in Threads, op[t] # NotRunning
    PROVE  /\ pc[t] = "inside" /\ tx[t] \in TxIds /\ tx[t] # NONE
           /\ \A u \in Threads : pc[u] = "inside" /\ tx[u] = tx[t] => u = t
           /\ op[t].at = "abort" => ~Standing(tx[t])
           /\ op[t].at # "abort" => Standing(tx[t])
  <1>1. pc[t] = "inside"
    BY DEF HistoryInv, MemoryInv, OperationsMatch
  <1>2. /\ tx[t] \in TxIds /\ tx[t] # NONE
        /\ \A u \in Threads : pc[u] = "inside" /\ tx[u] = tx[t] => u = t
    BY <1>1, Ids DEF HistoryInv, MemoryInv
  <1>3. tx[t] \notin ended
    BY <1>1 DEF HistoryInv, RecordOfIssued
  <1> QED
    BY <1>1, <1>2, <1>3 DEF Standing

(* A written word stays with a standing owner until the epoch ends.        *)
LEMMA OwnersKeep ==
    ASSUME HistoryInv, tx_id_generator # 0,
           NEW t \in Threads, MemoryStep(t), ~LeaveLast(t),
           NEW i \in TxIds, Standing(i), NEW w \in Words,
           control[w].word_has_been_written, control[w].access_set = i
    PROVE  control'[w].word_has_been_written /\ control'[w].access_set = i
  <1>a. /\ control \in [Words -> [word_is_ro : BOOLEAN, access_set : TxIds \cup {NONE},
                                  word_has_been_written : BOOLEAN]]
        /\ op \in [Threads -> Ops]
    BY DEF HistoryInv, MemoryInv, MemoryTypeOK
  <1>b. i # NONE
    BY Ids DEF HistoryInv, MemoryInv
  <1>1. CASE UNCHANGED control
    BY <1>1
  <1>2. ASSUME NEW x \in Words, ReadWord(t, x)
        PROVE  control' = control \/ (x # w /\ control' = [control EXCEPT ![x].access_set = tx[t]])
    BY <1>2, <1>b DEF ReadWord
  <1>3. CASE WriteLocked(t)
    <2>1. op[t].word \in Words
      BY <1>3, <1>a, OpFields DEF WriteLocked
    <2>2. CASE control' = control
      BY <2>2
    <2>3. CASE control[op[t].word].access_set \in {NONE, tx[t]}
      <3>1. control' = [control EXCEPT ![op[t].word].access_set = tx[t],
                                       ![op[t].word].word_has_been_written = TRUE]
        BY <1>3, <2>3 DEF WriteLocked
      <3>2. CASE w = op[t].word
        BY <1>a, <1>b, <2>1, <2>3, <3>1, <3>2
      <3>3. CASE w # op[t].word
        BY <1>a, <2>1, <3>1, <3>3
      <3> QED
        BY <3>2, <3>3
    <2> QED
      BY <1>3, <2>2, <2>3 DEF WriteLocked
  <1>4. CASE AbortWord(t)
    <2>1. op[t].at = "abort" /\ op[t] # NotRunning
      BY <1>4, <1>a, OpFields DEF AbortWord
    <2>2. tx[t] # i
      BY <2>1, WhoIsRunning
    <2>3. CASE control' = control
      BY <2>3
    <2>4. CASE OwnsWritten(t, op[t].word)
      <3>1. w # op[t].word
        BY <2>2, <2>4 DEF OwnsWritten
      <3>2. control' = [control EXCEPT ![op[t].word].access_set = NONE,
                                       ![op[t].word].word_has_been_written = FALSE]
        BY <1>4, <2>4 DEF AbortWord
      <3> QED
        BY <3>1, <3>2, <1>a
    <2> QED
      BY <1>4, <2>3, <2>4 DEF AbortWord
  <1> QED
    BY <1>a, <1>1, <1>2, <1>3, <1>4 DEF MemoryStep, TmBegin, TmBeginBlocks, TmBeginFlag,
       ReadCopy, WriteWord, WriteCopy, TmLeave, memoryVars

(* A mark is made by a read or write that is not refused, for its maker.   *)
LEMMA MarksMade ==
    ASSUME HistoryInv, NEW t \in Threads, MemoryStep(t),
           NEW i \in TxIds, NEW w \in Words, control'[w].access_set = i
    PROVE  \/ control[w].access_set = i
           \/ tx[t] = i /\ op'[t].at # "abort" /\ ReadWord(t, w)
           \/ tx[t] = i /\ op'[t].at # "abort" /\ WriteLocked(t) /\ op[t].word = w
  <1>a. /\ control \in [Words -> [word_is_ro : BOOLEAN, access_set : TxIds \cup {NONE},
                                  word_has_been_written : BOOLEAN]]
        /\ op \in [Threads -> Ops]
    BY DEF HistoryInv, MemoryInv, MemoryTypeOK
  <1>b. i # NONE
    BY Ids DEF HistoryInv, MemoryInv
  <1>1. CASE UNCHANGED control
    BY <1>1
  <1>2. ASSUME NEW x \in Words, ReadWord(t, x), control' # control
        PROVE  control[w].access_set = i \/ (tx[t] = i /\ op'[t].at # "abort" /\ x = w)
    <2>1. control' = [control EXCEPT ![x].access_set = tx[t]]
      BY <1>2 DEF ReadWord
    <2>2. op'[t] = [at |-> "read_ro_copy", word |-> x]
      BY <1>2, <1>a DEF ReadWord, GoTo
    <2>3. [at |-> "read_ro_copy", word |-> x].at = "read_ro_copy"
      OBVIOUS
    <2>4. op'[t].at # "abort"
      BY <2>2, <2>3
    <2> QED
      BY <2>1, <2>4, <1>a
  <1>3. CASE WriteLocked(t) /\ control' # control
    <2> DEFINE x == op[t].word
               first == [op[t] EXCEPT !.at = "first_copy"]
    <2>1. /\ control' = [control EXCEPT ![x].access_set = tx[t],
                                        ![x].word_has_been_written = TRUE]
          /\ op'[t] = first /\ op[t].at = "write_lock"
      BY <1>3, <1>a DEF WriteLocked, GoTo
    <2>2. first.at = "first_copy"
      <3>1. first = [at |-> "first_copy", word |-> x, val |-> op[t].val]
        BY <2>1, <1>a, OpFields
      <3>2. [at |-> "first_copy", word |-> x, val |-> op[t].val].at = "first_copy"
        OBVIOUS
      <3> HIDE DEF first
      <3> QED
        BY <3>1, <3>2
    <2>3. x \in Words
      BY <2>1, <1>a, OpFields
    <2> HIDE DEF first
    <2>4. op'[t].at # "abort"
      BY <2>1, <2>2
    <2>5. control[w].access_set = i \/ (tx[t] = i /\ x = w)
      BY <2>1, <2>3, <1>a
    <2> QED
      BY <1>3, <2>4, <2>5
  <1>4. CASE AbortWord(t) /\ control' # control
    <2>1. control' = [control EXCEPT ![op[t].word].access_set = NONE,
                                     ![op[t].word].word_has_been_written = FALSE]
      BY <1>4 DEF AbortWord
    <2> QED
      BY <2>1, <1>a, <1>b
  <1>5. CASE CommitWords
    BY <1>5, <1>b DEF CommitWords
  <1> QED
    BY <1>1, <1>2, <1>3, <1>4, <1>5 DEF MemoryStep, TmBegin, TmBeginBlocks, TmBeginFlag,
       ReadCopy, WriteWord, WriteCopy, TmLeave, memoryVars
----------------------------------------------------------------------------
\* a step of one thread, observed
HistoryStep(t) ==
    \/ BeginRecorded(t) \/ WriteRecorded(t) \/ LeaveRecorded(t) \/ Unrecorded(t)
    \/ \E w \in Words : ReadRecorded(t, w)

(* The record keeps its type.                                              *)
LEMMA StepHistoryTypes ==
    ASSUME HistoryInv, NEW t \in Threads, HistoryStep(t)
    PROVE  HistoryTypeOK'
  <1>a. HistoryTypeOK /\ op \in [Threads -> Ops]
    BY DEF HistoryInv, MemoryInv, MemoryTypeOK
  <1>b. op[t] # NotRunning => tx[t] \in TxIds
    BY Ids DEF HistoryInv, MemoryInv, OperationsMatch
  <1>1. CASE BeginRecorded(t)
    BY <1>1, <1>a DEF BeginRecorded, Fresh, historyVars, HistoryTypeOK
  <1>2. ASSUME NEW w \in Words, ReadRecorded(t, w) PROVE HistoryTypeOK'
    BY <1>2, <1>a DEF ReadRecorded, HistoryTypeOK
  <1>3. CASE WriteRecorded(t)
    <2>1. op[t].word \in Words
      BY <1>3, <1>a, OpFields DEF WriteRecorded, WriteLocked
    <2> QED
      BY <1>3, <2>1, <1>a DEF WriteRecorded, HistoryTypeOK
  <1>4. CASE LeaveRecorded(t)
    <2>1. op[t] = Idle => op[t] # NotRunning
      BY <1>a, OpFields
    <2> QED
      BY <1>4, <2>1, <1>a, <1>b DEF LeaveRecorded, HistoryTypeOK
  <1>5. CASE Unrecorded(t)
    BY <1>5, <1>a DEF Unrecorded, historyVars, HistoryTypeOK
  <1> QED
    BY <1>1, <1>2, <1>3, <1>4, <1>5 DEF HistoryStep

(* Between two epochs: whoever begins starts a fresh record.               *)
LEMMA StepBetweenEpochs ==
    ASSUME HistoryInv, MemoryInv', tx_id_generator = 0, NEW t \in Threads, HistoryStep(t)
    PROVE  HistoryInv'
  <1>a. /\ HistoryTypeOK'
        /\ op \in [Threads -> Ops] /\ tx_id_generator \in Nat
    BY StepHistoryTypes DEF HistoryInv, MemoryInv, MemoryTypeOK, EpochInv, TypeOK
  <1>b. \A u \in Threads : pc[u] # "inside" /\ op[u] = NotRunning
    BY Ids DEF HistoryInv, MemoryInv, OperationsMatch
  <1>c. op[t].at = "not running" /\ op[t] # Idle /\ op[t] # Begun
    <2>1. NotRunning.at = "not running" /\ Idle.at = "idle" /\ Begun.at = "begun"
      BY DEF NotRunning, Idle, Begun
    <2> QED
      BY <1>b, <2>1
  <1>1. CASE BeginRecorded(t)
    <2>1. /\ \A i \in TxIds : reads'[i] = {} /\ writes'[i] = {}
          /\ ended' = {}
      BY <1>1 DEF BeginRecorded, Fresh
    <2>2. RecordOfIssued' /\ WritesAreOwned' /\ NoLostUpdate'
      BY <2>1 DEF RecordOfIssued, WritesAreOwned, NoLostUpdate
    <2>3. \A w \in Words : control'[w].access_set \notin TxIds
      <3>1. \A i \in TxIds : i \in Nat /\ i # NONE
        BY Ids DEF HistoryInv, MemoryInv
      <3>2. \A w \in Words : /\ control[w].access_set # NONE => control[w].access_set < 0
                             /\ control[w].access_set \in TxIds \cup {NONE}
        BY DEF HistoryInv, MemoryInv, MemoryTypeOK, WordsBelongToEpoch
      <3> QED
        BY <1>1, <3>1, <3>2 DEF BeginRecorded, TmBegin
    <2>4. MarksAreRecorded'
      BY <2>3 DEF MarksAreRecorded
    <2> QED
      BY <1>a, <2>2, <2>4 DEF HistoryInv
  <1>2. CASE TmBeginBlocks(t) /\ UNCHANGED historyVars
    <2>1. UNCHANGED <<historyVars, tx_id_generator>>
      BY <1>2 DEF TmBeginBlocks, EnterBlock, SpuriousWakeup
    <2>2. NoLostUpdate'
      BY <2>1 DEF HistoryInv, NoLostUpdate, historyVars
    <2> QED
      BY <1>a, <2>1, <2>2 DEF HistoryInv
  <1>3. ~LeaveRecorded(t)
    <2>1. op[t] # [at |-> "abort", word |-> NWords]
      <3>1. [at |-> "abort", word |-> NWords].at = "abort"
        OBVIOUS
      <3> QED
        BY <1>c, <3>1
    <2> QED
      BY <1>c, <2>1 DEF LeaveRecorded, TmLeave
  <1> QED
    BY <1>c, <1>1, <1>2, <1>3 DEF HistoryStep, WriteRecorded, Unrecorded, ReadRecorded,
       TmBeginFlag, ReadWord, ReadCopy, WriteWord, WriteLocked, WriteCopy, AbortWord

(* The last transaction leaves: those that ended wrote disjoint sets.      *)
LEMMA StepEpochOver ==
    ASSUME HistoryInv, MemoryInv', tx_id_generator # 0,
           NEW t \in Threads, HistoryStep(t), LeaveLast(t)
    PROVE  HistoryInv'
  <1>1. HistoryTypeOK' /\ tx_id_generator' = 0
    BY StepHistoryTypes DEF LeaveLast, PrepareNextEpoch
  <1>2. /\ ended' \subseteq ended \cup {tx[t]} /\ writes' = writes
        /\ tx[t] \in ended' => tx[t] \in ended \/ Standing(tx[t])
    <2>1. Unrecorded(t) => ended' = ended /\ writes' = writes
      BY DEF Unrecorded, historyVars
    <2>2. op \in [Threads -> Ops] /\ pc[t] = "inside"
      BY DEF HistoryInv, MemoryInv, MemoryTypeOK, LeaveLast
    <2>3. op[t] = Idle => Standing(tx[t])
      <3>1. op[t] = Idle => op[t] # NotRunning /\ op[t].at # "abort"
        BY <2>2, OpFields
      <3> QED
        BY <3>1, WhoIsRunning
    <2>4. LeaveRecorded(t) => ended' = IF op[t] = Idle THEN ended \cup {tx[t]} ELSE ended
      BY DEF LeaveRecorded
    <2>5. ~BeginRecorded(t) /\ ~WriteRecorded(t)
      <3>1. pc'[t] = "outside" /\ pc \in [Threads -> {"outside", "blocked", "woken", "inside"}]
        BY DEF LeaveLast, HistoryInv, MemoryInv, EpochInv, TypeOK
      <3> QED
        BY <2>2, <3>1 DEF BeginRecorded, WriteRecorded, TmBegin, EnterFirst, Resume, WriteLocked,
                          batcherVars, TakeId
    <2>6. \A w \in Words : ReadRecorded(t, w) => ended' = ended /\ writes' = writes
      BY DEF ReadRecorded
    <2> QED
      BY <2>1, <2>3, <2>4, <2>5, <2>6 DEF HistoryStep, LeaveRecorded
  <1>3. \A i \in ended' : i \in TxIds /\ Standing(i)
    BY <1>1, <1>2 DEF HistoryTypeOK, Standing
  <1>4. NoLostUpdate'
    BY <1>2, <1>3 DEF HistoryInv, HistoryTypeOK, WritesAreOwned, NoLostUpdate
  <1> QED
    BY <1>1, <1>4 DEF HistoryInv

(* In an epoch: what is recorded is what the control structures say.       *)
LEMMA StepInEpoch ==
    ASSUME HistoryInv, MemoryInv', ~SpuriousWakeups, tx_id_generator # 0,
           NEW t \in Threads, HistoryStep(t), ~LeaveLast(t)
    PROVE  HistoryInv'
  <1>a. /\ HistoryTypeOK' /\ HistoryTypeOK
        /\ MemoryStep(t)
        /\ RecordOfIssued /\ WritesAreOwned /\ MarksAreRecorded
    BY StepHistoryTypes, HistoryPart DEF HistoryInv, HistoryStep
  <1>b. /\ op \in [Threads -> Ops]
        /\ pc \in [Threads -> {"outside", "blocked", "woken", "inside"}]
        /\ tx \in [Threads -> Nat \cup {NoTx}]
        /\ tx_id_generator \in Nat
    BY DEF HistoryInv, MemoryInv, MemoryTypeOK, EpochInv, TypeOK
  <1>c. \A i \in TxIds : i \in Nat /\ i # NONE
    BY Ids DEF HistoryInv, MemoryInv
  <1>d. \A u \in Threads : pc[u] = "inside" => tx[u] \in TxIds /\ tx[u] < tx_id_generator
    BY Ids DEF HistoryInv, MemoryInv
  <1>e. /\ op[t] = Idle => op[t] # NotRunning /\ op[t].at # "abort"
        /\ op[t].at \in {"write_lock", "abort"} => op[t] # NotRunning
    BY <1>b, OpFields
  \* what is left to show
  <1>q. RecordOfIssued' /\ WritesAreOwned' /\ MarksAreRecorded' => HistoryInv'
    <2>1. HistoryTypeOK' /\ WritesAreOwned' => NoLostUpdate'
      BY OwnedMeansDisjoint, PTL
    <2> QED
      BY <1>a, <2>1 DEF HistoryInv
  \* words written before stay owned, while nobody new is standing
  <1>w. ASSUME NEW i \in TxIds, NEW w \in writes[i], Standing(i)
        PROVE  control'[w].word_has_been_written /\ control'[w].access_set = i
    <2>1. w \in Words
      BY <1>a DEF HistoryTypeOK
    <2>2. control[w].word_has_been_written /\ control[w].access_set = i
      BY <1>w, <1>a DEF WritesAreOwned
    <2> QED
      BY <1>w, <1>a, <2>1, <2>2, OwnersKeep
  <1>1. CASE BeginRecorded(t)
    <2>1. /\ tx' = [tx EXCEPT ![t] = tx_id_generator]
          /\ pc' = [pc EXCEPT ![t] = "inside"]
          /\ tx_id_generator' = tx_id_generator + 1
          /\ op' = [op EXCEPT ![t] = Begun]
          /\ UNCHANGED <<control, reads, writes, ended>>
      BY <1>1 DEF BeginRecorded, TmBegin, EnterFirst, Resume, TakeId, GoTo, historyVars
    <2>2. RecordOfIssued'
      <3>1. \A i \in TxIds : i >= tx_id_generator' => i >= tx_id_generator
        BY <1>b, <1>c, <2>1
      <3>2. tx_id_generator \notin ended
        BY <1>a, <1>b DEF RecordOfIssued, HistoryTypeOK
      <3> QED
        BY <1>a, <1>b, <2>1, <3>1, <3>2 DEF RecordOfIssued
    <2>3. \A i \in TxIds : Standing(i)' => Standing(i) \/ i = tx_id_generator
      BY <1>b, <2>1 DEF Standing
    <2>4. \A i \in TxIds : i = tx_id_generator => writes[i] = {}
      BY <1>a, <1>b DEF RecordOfIssued
    <2>5. WritesAreOwned'
      BY <1>w, <2>1, <2>3, <2>4 DEF WritesAreOwned
    <2>6. MarksAreRecorded'
      BY <1>a, <2>1 DEF MarksAreRecorded
    <2> QED
      BY <1>q, <2>2, <2>5, <2>6
  <1>2. ASSUME NEW w \in Words, ReadRecorded(t, w) PROVE HistoryInv'
    <2>1. /\ op[t] = Idle /\ op[t] # NotRunning
          /\ UNCHANGED <<pc, tx, tx_id_generator, writes, ended>>
          /\ \A u \in Threads \ {t} : op'[u] = op[u]
      BY <1>2, <1>b, <1>e DEF ReadRecorded, ReadWord, batcherVars, GoTo, ToAbort
    <2>2. /\ tx[t] \in TxIds /\ tx[t] < tx_id_generator /\ pc[t] = "inside"
          /\ op[t].at # "abort"
      BY <2>1, <1>d, <1>e, WhoIsRunning
    <2>3. reads' = IF op'[t].at = "abort" THEN reads ELSE [reads EXCEPT ![tx[t]] = @ \cup {w}]
      BY <1>2 DEF ReadRecorded
    <2>4. RecordOfIssued'
      BY <1>a, <1>b, <1>c, <2>1, <2>2, <2>3 DEF RecordOfIssued, HistoryTypeOK
    <2>5. WritesAreOwned'
      <3>1. \A i \in TxIds : Standing(i)' => Standing(i)
        BY <2>1, <2>2 DEF Standing
      <3> QED
        BY <1>w, <2>1, <3>1 DEF WritesAreOwned
    <2>6. MarksAreRecorded'
      <3> SUFFICES ASSUME NEW i \in TxIds, NEW x \in Words, control'[x].access_set = i
                   PROVE  x \in reads'[i] \cup writes'[i]
        BY DEF MarksAreRecorded
      <3>1. CASE control[x].access_set = i
        BY <1>a, <2>1, <2>3, <3>1 DEF MarksAreRecorded, HistoryTypeOK
      <3>2. CASE tx[t] = i /\ op'[t].at # "abort" /\ ReadWord(t, x)
        <4>1. x = w \/ control' = control
          <5>1. CASE control' # control
            <6>1. PICK y \in Words : control' = [control EXCEPT ![y].access_set = tx[t]] /\ y = w
              BY <1>2, <5>1 DEF ReadRecorded, ReadWord
            <6>2. control' = [control EXCEPT ![x].access_set = tx[t]]
                  /\ control[x].access_set = NONE
              BY <3>2, <5>1 DEF ReadWord
            <6>3. control \in [Words -> [word_is_ro : BOOLEAN, access_set : TxIds \cup {NONE},
                                         word_has_been_written : BOOLEAN]]
              BY DEF HistoryInv, MemoryInv, MemoryTypeOK
            <6> QED
              BY <6>1, <6>2, <6>3, <1>c, <2>2
          <5> QED
            BY <5>1
        <4> QED
          BY <3>1, <3>2, <4>1, <2>2, <2>3, <1>a DEF HistoryTypeOK
      <3>3. ~WriteLocked(t)
        <4>1. Idle.at = "idle"
          BY DEF Idle
        <4> QED
          BY <2>1, <4>1 DEF WriteLocked
      <3> QED
        BY <1>a, <3>1, <3>2, <3>3, MarksMade
    <2> QED
      BY <1>q, <2>4, <2>5, <2>6
  <1>3. CASE WriteRecorded(t)
    <2>1. /\ op[t].at = "write_lock" /\ op[t] # NotRunning
          /\ UNCHANGED <<pc, tx, tx_id_generator, reads, ended>>
          /\ \A u \in Threads \ {t} : op'[u] = op[u]
      BY <1>3, <1>b, <1>e DEF WriteRecorded, WriteLocked, batcherVars, GoTo, ToAbort
    <2>2. /\ tx[t] \in TxIds /\ tx[t] < tx_id_generator /\ pc[t] = "inside"
          /\ op[t].at # "abort" /\ op[t].word \in Words
      BY <2>1, <1>b, <1>d, WhoIsRunning, OpFields
    <2>3. writes' = IF op'[t].at = "abort" THEN writes
                    ELSE [writes EXCEPT ![tx[t]] = @ \cup {op[t].word}]
      BY <1>3 DEF WriteRecorded
    <2>4. RecordOfIssued'
      BY <1>a, <1>b, <1>c, <2>1, <2>2, <2>3 DEF RecordOfIssued, HistoryTypeOK
    <2>5. WritesAreOwned'
      <3> SUFFICES ASSUME NEW i \in TxIds, NEW w \in writes'[i], Standing(i)'
                   PROVE  control'[w].word_has_been_written /\ control'[w].access_set = i
        BY DEF WritesAreOwned
      <3>1. Standing(i)
        BY <2>1, <2>2 DEF Standing
      <3>2. CASE w \in writes[i]
        BY <1>w, <3>1, <3>2
      <3>3. CASE w \notin writes[i]
        <4>1. i = tx[t] /\ w = op[t].word /\ op'[t].at # "abort"
          BY <1>a, <2>2, <2>3, <3>3 DEF HistoryTypeOK
        <4>2. op'[t] # [at |-> "abort", word |-> 0]
          <5>1. [at |-> "abort", word |-> 0].at = "abort"
            OBVIOUS
          <5> QED
            BY <4>1, <5>1
        <4>3. control' = [control EXCEPT ![w].access_set = tx[t],
                                         ![w].word_has_been_written = TRUE]
          BY <1>3, <1>b, <4>1, <4>2 DEF WriteRecorded, WriteLocked, ToAbort, GoTo
        <4>4. control \in [Words -> [word_is_ro : BOOLEAN, access_set : TxIds \cup {NONE},
                                     word_has_been_written : BOOLEAN]]
          BY DEF HistoryInv, MemoryInv, MemoryTypeOK
        <4> QED
          BY <2>2, <4>1, <4>3, <4>4
      <3> QED
        BY <3>2, <3>3
    <2>6. MarksAreRecorded'
      <3> SUFFICES ASSUME NEW i \in TxIds, NEW x \in Words, control'[x].access_set = i
                   PROVE  x \in reads'[i] \cup writes'[i]
        BY DEF MarksAreRecorded
      <3>1. CASE control[x].access_set = i
        BY <1>a, <2>1, <2>3, <3>1 DEF MarksAreRecorded, HistoryTypeOK
      <3>2. CASE tx[t] = i /\ op'[t].at # "abort" /\ op[t].word = x
        BY <3>2, <2>2, <2>3, <1>a DEF HistoryTypeOK
      <3>3. ~ReadWord(t, x)
        <4>1. Idle.at = "idle"
          BY DEF Idle
        <4> QED
          BY <2>1, <4>1 DEF ReadWord
      <3> QED
        BY <1>a, <3>1, <3>2, <3>3, MarksMade
    <2> QED
      BY <1>q, <2>4, <2>5, <2>6
  <1>4. CASE LeaveRecorded(t)
    <2>1. /\ pc' = [pc EXCEPT ![t] = "outside"] /\ pc[t] = "inside"
          /\ tx' = [tx EXCEPT ![t] = NoTx]
          /\ op' = [op EXCEPT ![t] = NotRunning]
          /\ ended' = IF op[t] = Idle THEN ended \cup {tx[t]} ELSE ended
          /\ UNCHANGED <<control, tx_id_generator, reads, writes>>
      BY <1>4 DEF LeaveRecorded, TmLeave, LeaveEarly, GoTo
    <2>2. /\ tx[t] \in TxIds /\ tx[t] < tx_id_generator
          /\ \A u \in Threads : pc[u] = "inside" /\ tx[u] = tx[t] => u = t
      BY <2>1, <1>d, Ids DEF HistoryInv, MemoryInv
    <2>3. RecordOfIssued'
      BY <1>a, <1>b, <1>c, <2>1, <2>2 DEF RecordOfIssued
    <2>4. \A i \in TxIds : Standing(i)' => Standing(i)
      BY <1>b, <1>e, <2>1 DEF Standing
    <2>5. WritesAreOwned' /\ MarksAreRecorded'
      BY <1>a, <1>w, <2>1, <2>4 DEF WritesAreOwned, MarksAreRecorded
    <2> QED
      BY <1>q, <2>3, <2>5
  <1>5. CASE Unrecorded(t)
    <2>1. /\ UNCHANGED <<tx, tx_id_generator, reads, writes, ended>>
          /\ \A u \in Threads : pc'[u] = "inside" <=> pc[u] = "inside"
          /\ \A u \in Threads \ {t} : op'[u] = op[u]
      BY <1>5, <1>b DEF Unrecorded, TmBeginBlocks, EnterBlock, SpuriousWakeup, TmBeginFlag,
         ReadCopy, WriteCopy, AbortWord, WriteWord, batcherVars, memoryVars, historyVars,
         GoTo, ToAbort
    <2>2. op[t].at = "abort" /\ op[t] # NotRunning => op'[t].at = "abort"
      <3>1. Idle.at = "idle" /\ Begun.at = "begun"
        BY DEF Idle, Begun
      <3>2. [at |-> "abort", word |-> op[t].word + 1].at = "abort"
        OBVIOUS
      <3>3. op[t].at = "abort" => op'[t] = op[t] \/ op'[t] = [at |-> "abort", word |-> op[t].word + 1]
        BY <1>5, <1>b, <3>1 DEF Unrecorded, TmBeginBlocks, TmBeginFlag,
           ReadCopy, WriteCopy, AbortWord, WriteWord, memoryVars, GoTo
      <3> QED
        BY <3>2, <3>3
    <2>3. RecordOfIssued'
      BY <1>a, <2>1 DEF RecordOfIssued
    <2>4. \A i \in TxIds : Standing(i)' => Standing(i)
      BY <1>e, <2>1, <2>2 DEF Standing
    <2>5. WritesAreOwned'
      BY <1>w, <2>1, <2>4 DEF WritesAreOwned
    <2>6. MarksAreRecorded'
      <3>1. \A w \in Words, i \in TxIds : control'[w].access_set = i => control[w].access_set = i
        <4> SUFFICES ASSUME NEW w \in Words, NEW i \in TxIds, control'[w].access_set = i
                     PROVE  control[w].access_set = i
          OBVIOUS
        <4>1. CASE AbortWord(t)
          <5>1. \/ control' = control
                \/ control' = [control EXCEPT ![op[t].word].access_set = NONE,
                                              ![op[t].word].word_has_been_written = FALSE]
            BY <4>1 DEF AbortWord
          <5>2. control \in [Words -> [word_is_ro : BOOLEAN, access_set : TxIds \cup {NONE},
                                       word_has_been_written : BOOLEAN]]
            BY DEF HistoryInv, MemoryInv, MemoryTypeOK
          <5> QED
            BY <5>1, <5>2, <1>c
        <4>2. CASE ~AbortWord(t)
          BY <1>5, <4>2 DEF Unrecorded, TmBeginBlocks, TmBeginFlag, ReadCopy, WriteCopy,
             WriteWord, memoryVars
        <4> QED
          BY <4>1, <4>2
      <3> QED
        BY <1>a, <2>1, <3>1 DEF MarksAreRecorded
    <2> QED
      BY <1>q, <2>3, <2>5, <2>6
  <1> QED
    BY <1>1, <1>2, <1>3, <1>4, <1>5 DEF HistoryStep
----------------------------------------------------------------------------
(* Every observed step is a step of the memory and keeps the invariant.    *)
LEMMA StepHistory ==
    ASSUME HistoryInv, ~SpuriousWakeups, NEW t \in Threads, HistoryStep(t)
    PROVE  HistoryInv'
  <1>1. MemoryInv'
    BY HistoryPart, StepMemory DEF HistoryStep, HistoryInv
  <1> QED
    BY <1>1, StepBetweenEpochs, StepEpochOver, StepInEpoch

(* Steps of others than the threads change nothing.                        *)
LEMMA HistoryStutter == HistoryInv /\ UNCHANGED allVars => HistoryInv'
  <1> SUFFICES ASSUME HistoryInv, UNCHANGED allVars PROVE HistoryInv'
    OBVIOUS
  <1>1. MemoryInv'
    BY MemoryStutter DEF HistoryInv, allVars
  <1>2. HistoryTypeOK' /\ NoLostUpdate'
    BY DEF HistoryInv, HistoryTypeOK, NoLostUpdate, allVars, historyVars
  <1>3. tx_id_generator' # 0 => RecordOfIssued' /\ WritesAreOwned' /\ MarksAreRecorded'
    BY DEF HistoryInv, RecordOfIssued, WritesAreOwned, MarksAreRecorded, Standing,
           allVars, historyVars, vars, batcherVars, memoryVars
  <1> QED
    BY <1>1, <1>2, <1>3 DEF HistoryInv

(* The record of an epoch always agrees with the control structures.       *)
THEOREM HistoryInvariance == ~SpuriousWakeups => (HistorySpec => []HistoryInv)
  <1> SUFFICES ASSUME ~SpuriousWakeups PROVE HistorySpec => []HistoryInv
    OBVIOUS
  <1>1. HistoryInit => HistoryInv
    BY InitHistory
  <1>2. HistoryInv /\ [HistoryNext]_allVars => HistoryInv'
    BY StepHistory, HistoryStutter DEF HistoryNext, HistoryStep
  <1> QED
    BY <1>1, <1>2, PTL DEF HistorySpec

(* Of the transactions of an epoch that ended, no two wrote the same word: *)
(* what one read and changed is not overwritten by another that read the   *)
(* same old value.                                                         *)
THEOREM UpdatesAreNotLost == ~SpuriousWakeups => (HistorySpec => []NoLostUpdate)
  <1> SUFFICES ASSUME ~SpuriousWakeups PROVE HistorySpec => []NoLostUpdate
    OBVIOUS
  <1>1. HistoryInv => NoLostUpdate
    BY DEF HistoryInv
  <1> QED
    BY <1>1, HistoryInvariance, PTL

(* An operation is refused only on a word that another transaction of the  *)
(* same epoch read or wrote.                                               *)
THEOREM RefusalsHaveACause == ~SpuriousWakeups => (HistorySpec => AbortsHaveACause)
  <1> SUFFICES ASSUME ~SpuriousWakeups PROVE HistorySpec => AbortsHaveACause
    OBVIOUS
  <1> DEFINE Cause(t, w) == \E i \in TxIds \ {tx[t]} : w \in reads[i] \cup writes[i]
  <1>1. ASSUME HistoryInv, NEW t \in Threads, NEW w \in Words, Refused(t, w)
        PROVE  Cause(t, w)
    <2>0. /\ control \in [Words -> [word_is_ro : BOOLEAN, access_set : TxIds \cup {NONE},
                                    word_has_been_written : BOOLEAN]]
          /\ op \in [Threads -> Ops] /\ tx_id_generator \in Nat
      BY <1>1 DEF HistoryInv, MemoryInv, MemoryTypeOK, EpochInv, TypeOK
    <2>1. control[w].access_set \in TxIds \ {tx[t]}
      <3>1. control[w].word_has_been_written => control[w].access_set # NONE
        BY <1>1 DEF HistoryInv, MemoryInv, WordsBelongToEpoch
      <3>2. CASE ReadWord(t, w)
        <4>1. [at |-> "read_ro_copy", word |-> w].at # "abort"
          OBVIOUS
        <4>2. [at |-> "read_writable_copy", word |-> w].at # "abort"
          OBVIOUS
        <4> QED
          BY <1>1, <2>0, <3>1, <3>2, <4>1, <4>2 DEF Refused, ReadWord, GoTo
      <3>3. ASSUME NEW v \in Values, WriteWord(t, w, v)
            PROVE  control[w].access_set \in TxIds \ {tx[t]}
        <4>1. [at |-> "write_copy", word |-> w, val |-> v].at # "abort"
          OBVIOUS
        <4>2. [at |-> "write_lock", word |-> w, val |-> v].at # "abort"
          OBVIOUS
        <4> QED
          BY <1>1, <2>0, <3>1, <3>3, <4>1, <4>2 DEF Refused, WriteWord, GoTo
      <3>4. CASE WriteLocked(t) /\ op[t].word = w
        <4> DEFINE first == [op[t] EXCEPT !.at = "first_copy"]
        <4>1. first.at # "abort"
          <5>1. first = [at |-> "first_copy", word |-> op[t].word, val |-> op[t].val]
            BY <3>4, <2>0, OpFields DEF WriteLocked
          <5>2. [at |-> "first_copy", word |-> op[t].word, val |-> op[t].val].at # "abort"
            OBVIOUS
          <5> HIDE DEF first
          <5> QED
            BY <5>1, <5>2
        <4>2. op'[t].at = "abort"
          BY <1>1 DEF Refused
        <4>3. control[w].access_set \notin {NONE, tx[t]} \/ op'[t] = first
          BY <3>4, <2>0 DEF WriteLocked, GoTo
        <4> HIDE DEF first
        <4> QED
          BY <2>0, <4>1, <4>2, <4>3
      <3> QED
        BY <1>1, <3>2, <3>3, <3>4 DEF Refused
    <2>2. tx_id_generator # 0
      <3>1. \A i \in TxIds : i \in Nat /\ i # NONE
        BY <1>1, Ids DEF HistoryInv, MemoryInv
      <3> QED
        BY <1>1, <2>0, <2>1, <3>1 DEF HistoryInv, MemoryInv, WordsBelongToEpoch
    <2> QED
      BY <1>1, <2>1, <2>2 DEF HistoryInv, MarksAreRecorded
  <1>2. HistoryInv => \A t \in Threads, w \in Words : Refused(t, w) => Cause(t, w)
    BY <1>1
  <1>3. HistoryInv => [\A t \in Threads, w \in Words : Refused(t, w) => Cause(t, w)]_allVars
    BY <1>2
  <1> QED
    BY <1>3, HistoryInvariance, PTL DEF AbortsHaveACause

(* The history adds nothing to the memory it observes, so that what is     *)
(* proved of the memory holds of the transactions recorded here.           *)
THEOREM HistoryOnlyObserves == HistorySpec => MemorySpec
  <1>1. HistoryInit => MemoryInit
    BY DEF HistoryInit
  <1>2. [HistoryNext]_allVars => [MemoryNext]_vars
    BY HistoryPart DEF HistoryNext, MemoryNext, allVars
  <1> QED
    BY <1>1, <1>2, PTL DEF HistorySpec, MemorySpec
============================================================================
