--------------------------- MODULE SegmentProofs ---------------------------
(***************************************************************************)
(* Proofs about the segment table, for any finite set of threads, any      *)
(* number of segments and any bound on the stack of free indices, over a   *)
(* condition variable without spurious wake-ups.                           *)
(***************************************************************************)
EXTENDS SegmentTable, BatcherProofs

\* a thread is in a call, or between two, exactly while it holds an id
CallsMatch == \A t \in Threads : op[t] = NotRunning <=> pc[t] # "inside"

\* the holder of global_lock between two steps is inside tm_alloc
LockMatches == \A t \in Threads : op[t].at = "alloc" <=> global_lock = t

\* a client forgets what its transaction allocated and freed when it ends
NothingOutside == \A t \in Threads : pc[t] # "inside" => allocated[t] = {} /\ freed[t] = {}

\* every index anyone knows is below n_segments
KnownSegments ==
    /\ InUse \subseteq 0 .. n_segments - 1
    /\ free_seg_indices \in Seq(0 .. n_segments - 1)
    /\ \A t \in Threads : op[t].at = "alloc" => op[t].index < n_segments

\* what is freed was in use
FreedWasInUse ==
    /\ \A t \in Threads : freed[t] \subseteq live \cup allocated[t]
    /\ newFreed \subseteq live \cup newLive

\* the mark of a free stays as long as its transaction does not abort
FreedAreMarked ==
    /\ \A t \in Threads : ~Aborting(t) =>
          \A i \in freed[t] \ shared : segments[i].deregistered = tx[t]
    /\ \A i \in newFreed \ shared :
          /\ segments[i].deregistered < tx_id_generator
          /\ \A t \in Threads : pc[t] = "inside" => segments[i].deregistered # tx[t]

\* a mark on a segment in use is that of a free in this epoch
MarksAreFrees ==
    \A i \in InUse \ shared : segments[i].deregistered # NONE =>
        \/ i \in newFreed
        \/ \E t \in Threads : /\ pc[t] = "inside" /\ i \in freed[t]
                              /\ segments[i].deregistered = tx[t]

\* the abort loop leaves no mark of its transaction behind
ScannedAreUnmarked ==
    \A t \in Threads : Aborting(t) =>
        \A i \in Indices : i < op[t].index => segments[i].deregistered # tx[t]

(* NoDoubleFree and MarkedMeansFreed compare what clients freed; what      *)
(* keeps them is that a mark names its transaction until it is taken back, *)
(* and ids are unique in an epoch (EpochInv).                              *)
SegmentInv ==
    /\ EpochInv
    /\ SegmentTypeOK
    /\ CallsMatch
    /\ LockMatches
    /\ NothingOutside
    /\ KnownSegments
    /\ FreedWasInUse
    /\ FreedAreMarked
    /\ MarksAreFrees
    /\ ScannedAreUnmarked

Calls ==
    {Idle, NotRunning}
        \cup [at : {"alloc", "scan"}, index : Indices]
        \cup [at : {"abort"}, index : 0 .. MaxSegments]

Descriptors == [deregistered : Nat, ready : BOOLEAN]
----------------------------------------------------------------------------
(* What the shape of a call says of its fields.                            *)
LEMMA CallFields ==
    ASSUME NEW o \in Calls
    PROVE  /\ o.at \in {"alloc", "scan"} => o.index \in Indices
           /\ o.at = "abort" => o.index \in 0 .. MaxSegments
           /\ o = Idle <=> o.at = "idle"
           /\ o = NotRunning <=> o.at = "not running"
  <1>0. Idle.at = "idle" /\ NotRunning.at = "not running"
    BY DEF Idle, NotRunning
  <1>1. CASE o \in {Idle, NotRunning}
    <2>1. \/ o = Idle /\ o.at = "idle"
          \/ o = NotRunning /\ o.at = "not running"
      BY <1>0, <1>1
    <2> QED
      BY <1>0, <2>1
  <1>2. CASE o \in [at : {"alloc", "scan"}, index : Indices]
    <2>1. o.at \in {"alloc", "scan"} /\ o.index \in Indices
      BY <1>2
    <2> QED
      BY <1>0, <2>1
  <1>3. CASE o \in [at : {"abort"}, index : 0 .. MaxSegments]
    <2>1. o.at = "abort" /\ o.index \in 0 .. MaxSegments
      BY <1>3
    <2> QED
      BY <1>0, <2>1
  <1> QED
    BY <1>1, <1>2, <1>3 DEF Calls

(* The abort loop goes on to scan the segment it is at.                    *)
LEMMA ScanNext ==
    ASSUME NEW o \in Calls, o.at = "abort"
    PROVE  [o EXCEPT !.at = "scan"] = [at |-> "scan", index |-> o.index]
  <1>1. o \in [at : {"abort"}, index : 0 .. MaxSegments]
    <2>1. Idle.at = "idle" /\ NotRunning.at = "not running"
      BY DEF Idle, NotRunning
    <2> QED
      BY <2>1 DEF Calls
  <1> QED
    BY <1>1

(* The calls a step may enter.                                             *)
LEMMA NotRunningAt == NotRunning.at = "not running"
  BY DEF NotRunning

LEMMA CallsEntered ==
    /\ Idle \in Calls /\ Idle.at = "idle"
    /\ NotRunning \in Calls /\ NotRunning.at = "not running"
    /\ \A i \in Indices :
          /\ [at |-> "alloc", index |-> i] \in Calls
          /\ [at |-> "alloc", index |-> i].at = "alloc"
          /\ [at |-> "alloc", index |-> i].index = i
          /\ [at |-> "scan", index |-> i] \in Calls
          /\ [at |-> "scan", index |-> i].at = "scan"
          /\ [at |-> "scan", index |-> i].index = i
          /\ [at |-> "abort", index |-> i + 1] \in Calls
          /\ [at |-> "abort", index |-> i + 1].at = "abort"
          /\ [at |-> "abort", index |-> i + 1].index = i + 1
    /\ [at |-> "abort", index |-> 0] \in Calls
    /\ [at |-> "abort", index |-> 0].at = "abort"
    /\ [at |-> "abort", index |-> 0].index = 0
  <1>1. 0 \in 0 .. MaxSegments /\ \A i \in Indices : i + 1 \in 0 .. MaxSegments
    BY MaxSegmentsAssumption DEF Indices
  <1> QED
    BY <1>1 DEF Calls, Idle, NotRunning

(* The mark of no transaction is a number above every id.                  *)
LEMMA NoneIs == NONE \in Nat /\ MaxTransactions < NONE
  BY SMT DEF NONE, MaxTransactions

(* To the batcher a step of the table is one of its own, or none.          *)
LEMMA BatcherPart ==
    ASSUME NEW t \in Threads, SegmentStep(t)
    PROVE  BatcherStep(t) \/ UNCHANGED batcherVars
  BY DEF SegmentStep, TmBegin, TmBeginBlocks, AllocIndex, AllocInit, Conflict, AbortScan,
         AbortDeregister, TmLeave, TmFree, BatcherStep

(* A thread in a call has an id of this epoch, of its own.                 *)
LEMMA CallersHaveIds ==
    ASSUME EpochInv, CallsMatch
    PROVE  /\ \A u \in Threads : op[u] # NotRunning =>
                 /\ pc[u] = "inside" /\ tx[u] \in Nat /\ tx[u] # NONE
                 /\ tx[u] < tx_id_generator
           /\ \A u, v \in Threads :
                 pc[u] = "inside" /\ pc[v] = "inside" /\ tx[u] = tx[v] => u = v
           /\ tx_id_generator \in Nat /\ tx_id_generator < NONE
  <1>1. /\ tx_id_generator \in Nat /\ n_in_epoch <= Cardinality(Threads)
        /\ n_in_epoch \in Nat
        /\ tx_id_generator + Cardinality(At("woken")) = n_in_epoch
        /\ \A u \in At("inside") : tx[u] \in 0 .. tx_id_generator - 1
        /\ \A u, v \in At("inside") : tx[u] = tx[v] => u = v
    BY DEF EpochInv, TypeOK, UniqueIds
  <1>2. Cardinality(Threads) \in Nat /\ Cardinality(At("woken")) \in Nat
    BY AtFinite
  <1>3. tx_id_generator < NONE
    <2>1. MaxTransactions \in Nat
      BY SMT DEF MaxTransactions
    <2> QED
      BY <1>1, <1>2, <2>1, NoneIs, FewThreadsAssumption
  <1>4. \A u \in At("inside") : tx[u] \in Nat /\ tx[u] < tx_id_generator /\ tx[u] # NONE
    BY <1>1, <1>3, NoneIs
  <1>5. \A u \in Threads : op[u] # NotRunning => u \in At("inside")
    BY DEF CallsMatch, At
  <1> QED
    BY <1>1, <1>3, <1>4, <1>5 DEF At
----------------------------------------------------------------------------
(* The table starts with one segment, not yet known to any client.         *)
LEMMA InitSegments == SegmentInit => SegmentInv
  <1> SUFFICES ASSUME SegmentInit PROVE SegmentInv
    OBVIOUS
  <1>1. EpochInv
    BY InitEpoch DEF SegmentInit
  <1>2. \A t \in Threads : op[t] = NotRunning /\ op[t].at = "not running" /\ pc[t] = "outside"
    BY CallsEntered DEF SegmentInit, BatcherInit
  <1>3. SegmentTypeOK
    <2>1. n_segments \in 1 .. MaxSegments
      BY MaxSegmentsAssumption DEF SegmentInit
    <2>2. segments \in [Indices -> Descriptors]
      BY NoneIs DEF SegmentInit, Descriptors
    <2>3. free_seg_indices \in Seq(Indices) /\ global_lock \in Threads \cup {Nobody}
      BY DEF SegmentInit
    <2>4. op \in [Threads -> Calls]
      BY CallsEntered DEF SegmentInit
    <2>5. /\ live \in SUBSET Indices /\ newLive \in SUBSET Indices
          /\ newFreed \in SUBSET Indices /\ shared \in SUBSET Indices
          /\ allocated \in [Threads -> SUBSET Indices] /\ freed \in [Threads -> SUBSET Indices]
      BY DEF SegmentInit
    <2> QED
      BY <2>1, <2>2, <2>3, <2>4, <2>5 DEF SegmentTypeOK, Descriptors, Calls
  <1>4. CallsMatch /\ LockMatches /\ NothingOutside
    BY <1>2, NobodyAssumption DEF SegmentInit, CallsMatch, LockMatches, NothingOutside
  <1>5. KnownSegments /\ FreedWasInUse
    <2>1. InUse = {} /\ free_seg_indices = <<>>
      BY DEF SegmentInit, InUse
    <2>2. \A t \in Threads : op[t].at # "alloc"
      BY <1>2
    <2>3. KnownSegments
      BY <2>1, <2>2 DEF KnownSegments
    <2>4. FreedWasInUse
      BY DEF SegmentInit, FreedWasInUse
    <2> QED
      BY <2>3, <2>4
  <1>6. FreedAreMarked /\ MarksAreFrees /\ ScannedAreUnmarked
    BY <1>2 DEF SegmentInit, FreedAreMarked, MarksAreFrees, ScannedAreUnmarked, Aborting, InUse
  <1> QED
    BY <1>1, <1>3, <1>4, <1>5, <1>6 DEF SegmentInv
----------------------------------------------------------------------------
\* the types, by the names the proofs use
Typed ==
    /\ n_segments \in 1 .. MaxSegments
    /\ segments \in [Indices -> Descriptors]
    /\ free_seg_indices \in Seq(Indices)
    /\ global_lock \in Threads \cup {Nobody}
    /\ op \in [Threads -> Calls]
    /\ live \in SUBSET Indices /\ newLive \in SUBSET Indices
    /\ newFreed \in SUBSET Indices /\ shared \in SUBSET Indices
    /\ allocated \in [Threads -> SUBSET Indices] /\ freed \in [Threads -> SUBSET Indices]
    /\ pc \in [Threads -> {"outside", "blocked", "woken", "inside"}]
    /\ tx \in [Threads -> Nat \cup {NoTx}]

(* The named types are those of the two type invariants.                   *)
LEMMA TypedIs == EpochInv => (SegmentTypeOK <=> Typed)
  BY DEF EpochInv, TypeOK, SegmentTypeOK, Typed, Descriptors, Calls

(* The end of an epoch pushes known segments.                              *)
LEMMA PushedAreKnown ==
    ASSUME SegmentInv, CommitSegments
    PROVE  free_seg_indices' \in Seq(0 .. n_segments - 1)
  <1> DEFINE marked == {i \in 0 .. n_segments - 1 : segments[i].deregistered # NONE}
  <1>1. Cardinality(marked) \in Nat
    <2>1. n_segments \in Nat
      BY TypedIs DEF SegmentInv, Typed
    <2>2. IsFiniteSet(0 .. n_segments - 1)
      BY <2>1, FS_Interval
    <2> QED
      BY <2>2, FS_Subset, FS_CardinalityType
  <1>2. free_seg_indices \in Seq(0 .. n_segments - 1)
    BY DEF SegmentInv, KnownSegments
  <1>3. PICK pushed \in [1 .. Cardinality(marked) -> marked] :
           free_seg_indices' = free_seg_indices \o pushed
    BY DEF CommitSegments
  <1>4. marked \subseteq 0 .. n_segments - 1
    OBVIOUS
  <1> HIDE DEF marked
  <1>5. pushed \in Seq(0 .. n_segments - 1)
    <2> DEFINE len == Cardinality(marked)
               known == 0 .. n_segments - 1
    <2>1. len \in Nat /\ pushed \in [1 .. len -> known]
      BY <1>1, <1>3, <1>4
    <2> HIDE DEF len, known
    <2>2. pushed \in Seq(known)
      BY <2>1
    <2> QED
      BY <2>2 DEF known
  <1> QED
    BY <1>2, <1>3, <1>5

(* Sequences over the segments that exist are sequences of indices.        *)
LEMMA KnownAreIndices ==
    ASSUME NEW n \in 0 .. MaxSegments, NEW s \in Seq(0 .. n - 1)
    PROVE  s \in Seq(Indices)
  <1>1. 0 .. n - 1 \subseteq Indices
    BY MaxSegmentsAssumption DEF Indices
  <1> QED
    BY <1>1

(* A thread goes from one call to another, the others stay in theirs.      *)
LEMMA Going ==
    ASSUME op \in [Threads -> Calls], NEW t \in Threads, NEW c \in Calls, GoTo(t, c)
    PROVE  op' \in [Threads -> Calls] /\ op'[t] = c
  BY DEF GoTo

(* Every step keeps the types.                                             *)
LEMMA StepSegmentTypes ==
    ASSUME SegmentInv, EpochInv', NEW t \in Threads, SegmentStep(t)
    PROVE  SegmentTypeOK'
  <1>a. Typed
    BY TypedIs DEF SegmentInv
  <1>b. /\ pc' \in [Threads -> {"outside", "blocked", "woken", "inside"}]
        /\ tx' \in [Threads -> Nat \cup {NoTx}]
    BY DEF EpochInv, TypeOK
  <1>c. /\ free_seg_indices \in Seq(0 .. n_segments - 1)
        /\ n_segments \in Nat /\ n_segments <= MaxSegments /\ MaxSegments \in Nat
    BY <1>a, MaxSegmentsAssumption DEF SegmentInv, KnownSegments, Typed
  <1>q. Typed' => SegmentTypeOK'
    BY TypedIs, PTL
  <1>1. CASE TmBegin(t)
    BY <1>1, <1>a, <1>b, <1>q, CallsEntered DEF TmBegin, GoTo, clientVars, Typed
  <1>2. CASE TmBeginBlocks(t)
    BY <1>2, <1>a, <1>b, <1>q DEF TmBeginBlocks, tableVars, clientVars, Typed
  <1>3. CASE AllocIndex(t)
    <2>1. CASE free_seg_indices = <<>>
      <3>1. n_segments < MaxSegments
        BY <1>3, <2>1 DEF AllocIndex, AddSegment
      <3>2. n_segments + 1 \in 1 .. MaxSegments /\ n_segments \in Indices
        BY <3>1, <1>c DEF Indices
      <3>3. op' \in [Threads -> Calls]
        BY <1>3, <1>a, <2>1, <3>2, CallsEntered, Going DEF AllocIndex, AddSegment, Typed
      <3>4. /\ n_segments' = n_segments + 1 /\ global_lock' = t
            /\ UNCHANGED <<segments, free_seg_indices>>
            /\ UNCHANGED <<batcherVars, clientVars>>
        BY <1>3, <2>1 DEF AllocIndex, AddSegment
      <3> QED
        BY <3>2, <3>3, <3>4, <1>a, <1>b, <1>q DEF batcherVars, clientVars, Typed
    <2>2. CASE free_seg_indices # <<>>
      <3>1. Top(free_seg_indices) \in Indices /\ Pop(free_seg_indices) \in Seq(Indices)
        BY <2>2, <1>a DEF Top, Pop, Typed
      <3>2. op' \in [Threads -> Calls]
        BY <1>3, <1>a, <2>2, <3>1, CallsEntered, Going DEF AllocIndex, ReuseSegment, Typed
      <3>3. segments' \in [Indices -> Descriptors]
        <4>1. \E s : segments' = [segments EXCEPT ![Top(free_seg_indices)].ready = s] /\ s \in BOOLEAN
          BY <1>3, <2>2 DEF AllocIndex, ReuseSegment
        <4>2. \A d \in Descriptors, s \in BOOLEAN : [d EXCEPT !.ready = s] \in Descriptors
          BY DEF Descriptors
        <4> QED
          BY <4>1, <4>2, <3>1, <1>a DEF Typed
      <3> QED
        BY <1>3, <2>2, <3>1, <3>2, <3>3, <1>a, <1>b, <1>q
           DEF AllocIndex, ReuseSegment, batcherVars, clientVars, Typed
    <2> QED
      BY <2>1, <2>2
  <1>4. CASE AllocInit(t)
    <2>1. op[t].index \in Indices
      BY <1>4, <1>a, CallFields DEF AllocInit, Typed
    <2>2. segments' \in [Indices -> Descriptors]
      BY <1>4, <1>a, <2>1, NoneIs DEF AllocInit, InitSegment, Typed, Descriptors
    <2>3. op' \in [Threads -> Calls]
      BY <1>4, <1>a, CallsEntered, Going DEF AllocInit, Typed
    <2>4. allocated' \in [Threads -> SUBSET Indices] /\ shared' \in SUBSET Indices
      BY <1>4, <1>a, <2>1 DEF AllocInit, Typed
    <2> QED
      BY <1>4, <2>2, <2>3, <2>4, <1>a, <1>b, <1>q DEF AllocInit, batcherVars, Typed
  <1>5. CASE Conflict(t)
    BY <1>5, <1>a, <1>b, <1>q, CallsEntered DEF Conflict, GoTo, batcherVars, clientVars, Typed
  <1>6. CASE AbortScan(t)
    <2>1. /\ op[t].index \in Indices
          /\ [op[t] EXCEPT !.at = "scan"] = [at |-> "scan", index |-> op[t].index]
      <3>1. /\ op[t].index \in 0 .. MaxSegments
            /\ [op[t] EXCEPT !.at = "scan"] = [at |-> "scan", index |-> op[t].index]
        BY <1>6, <1>a, CallFields, ScanNext DEF AbortScan, Typed
      <3> QED
        BY <1>6, <1>c, <3>1 DEF AbortScan, Indices
    <2>2. op' \in [Threads -> Calls]
      <3> DEFINE scan == [op[t] EXCEPT !.at = "scan"]
      <3>1. GoTo(t, scan)
        BY <1>6 DEF AbortScan
      <3>2. scan = [at |-> "scan", index |-> op[t].index]
        BY <2>1
      <3> HIDE DEF scan
      <3>3. scan \in Calls
        BY <2>1, <3>2, CallsEntered
      <3> QED
        BY <3>1, <3>3, <1>a, Going DEF Typed
    <2> QED
      BY <1>6, <2>2, <1>a, <1>b, <1>q DEF AbortScan, batcherVars, clientVars, Typed
  <1>7. CASE AbortDeregister(t)
    <2>1. op[t].index \in Indices
      BY <1>7, <1>a, CallFields DEF AbortDeregister, Typed
    <2>2. op' \in [Threads -> Calls]
      <3> DEFINE next == [at |-> "abort", index |-> op[t].index + 1]
      <3>1. GoTo(t, next)
        BY <1>7 DEF AbortDeregister
      <3>2. next \in Calls
        BY <2>1, CallsEntered
      <3> HIDE DEF next
      <3> QED
        BY <3>1, <3>2, <1>a, Going DEF Typed
    <2>3. segments' \in [Indices -> Descriptors]
      BY <1>7, <1>a, <2>1, NoneIs DEF AbortDeregister, Typed, Descriptors
    <2> QED
      BY <1>7, <2>2, <2>3, <1>a, <1>b, <1>q DEF AbortDeregister, batcherVars, clientVars, Typed
  <1>8. ASSUME NEW i \in Indices, TmFree(t, i) PROVE SegmentTypeOK'
    <2>1. tx[t] \in Nat
      <3>1. op[t] # NotRunning
        BY <1>8, <1>a, CallFields DEF TmFree, Typed
      <3> QED
        BY <3>1, CallersHaveIds DEF SegmentInv
    <2>2. op' \in [Threads -> Calls]
      <3>1. UNCHANGED op \/ GoTo(t, [at |-> "abort", index |-> 0])
        BY <1>8 DEF TmFree
      <3>2. [at |-> "abort", index |-> 0] \in Calls
        BY CallsEntered
      <3> QED
        BY <3>1, <3>2, <1>a, Going DEF Typed
    <2>3. segments' \in [Indices -> Descriptors] /\ freed' \in [Threads -> SUBSET Indices]
      <3>1. \/ UNCHANGED <<segments, freed>>
            \/ /\ segments' = [segments EXCEPT ![i].deregistered = tx[t]]
               /\ freed' = [freed EXCEPT ![t] = @ \cup {i}]
        BY <1>8 DEF TmFree
      <3>2. \A d \in Descriptors : [d EXCEPT !.deregistered = tx[t]] \in Descriptors
        BY <2>1 DEF Descriptors
      <3>3. segments \in [Indices -> Descriptors] /\ freed \in [Threads -> SUBSET Indices]
        BY <1>a DEF Typed
      <3>4. segments' \in [Indices -> Descriptors]
        BY <3>1, <3>2, <3>3
      <3>5. freed' \in [Threads -> SUBSET Indices]
        BY <3>1, <3>3
      <3> QED
        BY <3>4, <3>5
    <2> QED
      BY <1>8, <2>2, <2>3, <1>a, <1>b, <1>q DEF TmFree, batcherVars, Typed
  <1>9. CASE TmLeave(t)
    <2>1. free_seg_indices' \in Seq(Indices)
      <3>1. CommitSegments => free_seg_indices' \in Seq(0 .. n_segments - 1)
        BY PushedAreKnown
      <3>2. CommitSegments => free_seg_indices' \in Seq(Indices)
        BY <3>1, <1>c, KnownAreIndices
      <3> QED
        BY <1>9, <3>2, <1>a DEF TmLeave, Typed
    <2>2. /\ live' \in SUBSET Indices /\ newLive' \in SUBSET Indices
          /\ newFreed' \in SUBSET Indices
      BY <1>9, <1>a DEF TmLeave, Typed
    <2>3. /\ op' \in [Threads -> Calls]
          /\ allocated' \in [Threads -> SUBSET Indices]
          /\ freed' \in [Threads -> SUBSET Indices]
          /\ UNCHANGED <<n_segments, segments, global_lock, shared>>
      BY <1>9, <1>a, CallsEntered DEF TmLeave, GoTo, Typed
    <2> QED
      BY <2>1, <2>2, <2>3, <1>a, <1>b, <1>q DEF Typed
  <1> QED
    BY <1>1, <1>2, <1>3, <1>4, <1>5, <1>6, <1>7, <1>8, <1>9 DEF SegmentStep
----------------------------------------------------------------------------
(* What a step of t leaves to another thread.                              *)
LEMMA OthersKeepTheirs ==
    ASSUME SegmentInv, NEW t \in Threads, SegmentStep(t), NEW u \in Threads \ {t}
    PROVE  /\ op'[u] = op[u] /\ tx'[u] = tx[u]
           /\ allocated'[u] = allocated[u] /\ freed'[u] = freed[u]
           /\ pc'[u] = "inside" <=> pc[u] = "inside"
  <1>a. Typed
    BY TypedIs DEF SegmentInv
  <1>1. op'[u] = op[u]
    BY <1>a DEF Typed, SegmentStep, TmBegin, TmBeginBlocks, AllocIndex, AddSegment, ReuseSegment,
       AllocInit, Conflict, AbortScan, AbortDeregister, TmLeave, TmFree, GoTo, tableVars
  <1>2. allocated'[u] = allocated[u] /\ freed'[u] = freed[u]
    BY <1>a DEF Typed, SegmentStep, TmBegin, TmBeginBlocks, AllocIndex, AllocInit, Conflict,
       AbortScan, AbortDeregister, TmLeave, TmFree, clientVars
  <1>3. tx'[u] = tx[u] /\ (pc'[u] = "inside" <=> pc[u] = "inside")
    <2>1. BatcherStep(t) \/ UNCHANGED batcherVars
      BY BatcherPart
    <2> QED
      BY <2>1, <1>a DEF Typed, BatcherStep, EnterFirst, EnterBlock, SpuriousWakeup, Resume,
         LeaveLast, LeaveEarly, TakeId, batcherVars
  <1> QED
    BY <1>1, <1>2, <1>3

\* what a step may do to the mark of a segment
MarkMoves(t, i) ==
    \/ segments'[i].deregistered = segments[i].deregistered
    \/ AllocInit(t) /\ op[t].index = i /\ segments'[i].deregistered = NONE
    \/ /\ TmFree(t, i)
       /\ segments[i].deregistered = NONE /\ segments'[i].deregistered = tx[t]
       /\ freed' = [freed EXCEPT ![t] = @ \cup {i}]
    \/ /\ AbortDeregister(t) /\ op[t].index = i
       /\ segments[i].deregistered = tx[t] /\ segments'[i].deregistered = NONE

(* Marks are made by tm_free and taken back by the abort loop, or by the   *)
(* next init_segment.                                                      *)
LEMMA StepMark ==
    ASSUME SegmentInv, NEW t \in Threads, SegmentStep(t), NEW i \in Indices
    PROVE  MarkMoves(t, i)
  <1>a. Typed
    BY TypedIs DEF SegmentInv
  <1>1. CASE UNCHANGED segments
    BY <1>1 DEF MarkMoves
  <1>2. CASE AllocIndex(t) /\ ReuseSegment(t)
    <2>1. segments' = [segments EXCEPT ![Top(free_seg_indices)].ready = FALSE]
      BY <1>2 DEF ReuseSegment
    <2> QED
      BY <2>1, <1>a DEF MarkMoves, Typed, Descriptors
  <1>3. CASE AllocInit(t)
    <2>1. segments' = [segments EXCEPT ![op[t].index] = [deregistered |-> NONE, ready |-> TRUE]]
      BY <1>3 DEF AllocInit, InitSegment
    <2>2. [deregistered |-> NONE, ready |-> TRUE].deregistered = NONE
      OBVIOUS
    <2>3. segments'[i] = IF i = op[t].index THEN [deregistered |-> NONE, ready |-> TRUE]
                         ELSE segments[i]
      BY <2>1, <1>a DEF Typed
    <2> QED
      BY <1>3, <2>2, <2>3 DEF MarkMoves
  <1>4. CASE AbortDeregister(t)
    <2>1. CASE segments[op[t].index].deregistered = tx[t]
      <3>1. segments' = [segments EXCEPT ![op[t].index].deregistered = NONE]
        BY <1>4, <2>1 DEF AbortDeregister
      <3> QED
        BY <1>4, <2>1, <3>1, <1>a DEF MarkMoves, Typed, Descriptors
    <2>2. CASE segments[op[t].index].deregistered # tx[t]
      BY <1>4, <2>2 DEF AbortDeregister, MarkMoves
    <2> QED
      BY <2>1, <2>2
  <1>5. ASSUME NEW j \in Indices, TmFree(t, j), segments' # segments PROVE MarkMoves(t, i)
    <2>1. /\ segments[j].deregistered = NONE
          /\ segments' = [segments EXCEPT ![j].deregistered = tx[t]]
          /\ freed' = [freed EXCEPT ![t] = @ \cup {j}]
      BY <1>5 DEF TmFree
    <2> QED
      BY <1>5, <2>1, <1>a DEF MarkMoves, Typed, Descriptors
  <1> QED
    BY <1>1, <1>2, <1>3, <1>4, <1>5 DEF SegmentStep, TmBegin, TmBeginBlocks, AllocIndex,
       AddSegment, Conflict, AbortScan, TmLeave, tableVars

(* Every step keeps threads, calls and the lock in agreement.              *)
LEMMA StepCalls ==
    ASSUME SegmentInv, NEW t \in Threads, SegmentStep(t)
    PROVE  CallsMatch' /\ LockMatches' /\ NothingOutside'
  <1>a. Typed
    BY TypedIs DEF SegmentInv
  <1>b. CallsMatch /\ LockMatches /\ NothingOutside
    BY DEF SegmentInv
  <1>c. \A u \in Threads \ {t} :
           /\ op'[u] = op[u] /\ allocated'[u] = allocated[u] /\ freed'[u] = freed[u]
           /\ pc'[u] = "inside" <=> pc[u] = "inside"
    BY OthersKeepTheirs
  <1>d. /\ op[t].at \in {"idle", "alloc", "scan", "abort"} => op[t] # NotRunning
        /\ op[t] = Idle <=> op[t].at = "idle"
        /\ Nobody \notin Threads
    <2>1. op[t] \in Calls
      BY <1>a DEF Typed
    <2>2. /\ op[t] = Idle <=> op[t].at = "idle"
          /\ op[t] = NotRunning <=> op[t].at = "not running"
      BY <2>1, CallFields
    <2> QED
      BY <2>2, NobodyAssumption
  \* what has to be shown of t and of the lock
  <1>q. ASSUME op'[t] = NotRunning <=> pc'[t] # "inside",
               op'[t].at = "alloc" <=> global_lock' = t,
               \/ global_lock' = global_lock
               \/ t \in {global_lock, global_lock'} /\ Nobody \in {global_lock, global_lock'},
               pc'[t] # "inside" => allocated'[t] = {} /\ freed'[t] = {}
        PROVE  CallsMatch' /\ LockMatches' /\ NothingOutside'
    <2>1. CallsMatch' /\ NothingOutside'
      BY <1>q, <1>b, <1>c DEF CallsMatch, NothingOutside
    <2>2. LockMatches'
      BY <1>q, <1>b, <1>c, <1>d DEF LockMatches
    <2> QED
      BY <2>1, <2>2
  <1>1. CASE TmBegin(t)
    <2>1. pc'[t] = "inside" /\ op'[t] = Idle /\ UNCHANGED global_lock /\ pc[t] # "inside"
      BY <1>1, <1>a DEF TmBegin, EnterFirst, Resume, TakeId, GoTo, Typed
    <2> QED
      BY <2>1, <1>a, <1>b, <1>q, CallsEntered, CallFields DEF Typed, CallsMatch, LockMatches
  <1>2. CASE TmBeginBlocks(t)
    BY <1>2, <1>a, <1>b, <1>q DEF TmBeginBlocks, EnterBlock, SpuriousWakeup, tableVars, clientVars,
       Typed, CallsMatch, LockMatches, NothingOutside
  <1>3. CASE AllocIndex(t)
    <2>1. PICK i \in Indices : op'[t] = [at |-> "alloc", index |-> i]
      <3>1. CASE free_seg_indices = <<>>
        <4>1. n_segments \in Indices
          BY <1>3, <3>1, <1>a, MaxSegmentsAssumption DEF AllocIndex, AddSegment, Typed, Indices
        <4> QED
          BY <1>3, <3>1, <4>1, <1>a DEF AllocIndex, AddSegment, GoTo, Typed
      <3>2. CASE free_seg_indices # <<>>
        <4>1. Top(free_seg_indices) \in Indices
          BY <3>2, <1>a DEF Top, Typed
        <4> QED
          BY <1>3, <3>2, <4>1, <1>a DEF AllocIndex, ReuseSegment, GoTo, Typed
      <3> QED
        BY <3>1, <3>2
    <2>2. op'[t].at = "alloc" /\ op'[t] # NotRunning
      <3>1. [at |-> "alloc", index |-> i].at = "alloc" /\ NotRunning.at # "alloc"
        BY NotRunningAt
      <3> QED
        BY <2>1, <3>1
    <2>3. /\ global_lock = Nobody /\ global_lock' = t
          /\ op[t] # NotRunning /\ UNCHANGED <<pc, allocated, freed>>
      BY <1>3, <1>d DEF AllocIndex, batcherVars, clientVars
    <2>4. pc'[t] = "inside"
      BY <2>3, <1>b DEF CallsMatch
    <2> QED
      BY <2>2, <2>3, <2>4, <1>q
  <1>4. CASE AllocInit(t)
    <2>1. op'[t] = Idle /\ global_lock' = Nobody /\ UNCHANGED batcherVars
      BY <1>4, <1>a DEF AllocInit, GoTo, Typed
    <2>2. op[t].at = "alloc" /\ op[t] # NotRunning
      BY <1>4, CallsEntered DEF AllocInit
    <2>3. pc'[t] = pc[t] /\ pc[t] = "inside" /\ global_lock = t
      BY <2>1, <2>2, <1>b DEF batcherVars, CallsMatch, LockMatches
    <2>4. op'[t] # NotRunning /\ op'[t].at # "alloc" /\ t # Nobody
      BY <2>1, <1>d, CallsEntered
    <2> QED
      BY <2>1, <2>3, <2>4, <1>q
  <1>5. CASE Conflict(t)
    <2>1. op'[t] = [at |-> "abort", index |-> 0] /\ UNCHANGED <<batcherVars, global_lock, clientVars>>
      BY <1>5, <1>a DEF Conflict, GoTo, Typed
    <2>2. op[t] # NotRunning /\ op[t].at # "alloc"
      <3>1. op[t].at = "idle"
        BY <1>5, <1>d DEF Conflict
      <3> QED
        BY <3>1, NotRunningAt
    <2>3. op'[t] # NotRunning /\ op'[t].at # "alloc"
      <3>1. [at |-> "abort", index |-> 0].at = "abort"
        OBVIOUS
      <3> QED
        BY <2>1, <3>1, NotRunningAt
    <2>4. pc'[t] = pc[t] /\ pc[t] = "inside"
      BY <2>1, <2>2, <1>b DEF batcherVars, CallsMatch
    <2>5. global_lock' = global_lock /\ global_lock # t
      BY <2>1, <2>2, <1>b DEF LockMatches
    <2> QED
      BY <2>3, <2>4, <2>5, <1>q
  <1>6. CASE AbortScan(t)
    <2>1. op'[t] = [op[t] EXCEPT !.at = "scan"] /\ UNCHANGED <<batcherVars, global_lock, clientVars>>
      BY <1>6, <1>a DEF AbortScan, GoTo, Typed
    <2>2. op[t].at = "abort"
      BY <1>6 DEF AbortScan
    <2>3. op'[t] = [at |-> "scan", index |-> op[t].index]
      BY <2>1, <2>2, <1>a, ScanNext DEF Typed
    <2>4. [at |-> "scan", index |-> op[t].index].at = "scan"
      OBVIOUS
    <2>5. op'[t].at = "scan" /\ op'[t] # NotRunning
      BY <2>3, <2>4, NotRunningAt
    <2> QED
      BY <2>1, <2>2, <2>5, <1>b, <1>d, <1>q DEF batcherVars, clientVars, CallsMatch, LockMatches
  <1>7. CASE AbortDeregister(t)
    <2>1. /\ op'[t] = [at |-> "abort", index |-> op[t].index + 1]
          /\ op[t].at = "scan" /\ UNCHANGED <<batcherVars, global_lock, clientVars>>
      BY <1>7, <1>a DEF AbortDeregister, GoTo, Typed
    <2>2. [at |-> "abort", index |-> op[t].index + 1].at = "abort"
      OBVIOUS
    <2>3. op'[t].at = "abort" /\ op'[t] # NotRunning
      BY <2>1, <2>2, NotRunningAt
    <2> QED
      BY <2>1, <2>3, <1>b, <1>d, <1>q DEF batcherVars, clientVars, CallsMatch, LockMatches
  <1>8. ASSUME NEW i \in Indices, TmFree(t, i)
        PROVE  CallsMatch' /\ LockMatches' /\ NothingOutside'
    <2>1. /\ op[t].at = "idle" /\ UNCHANGED <<batcherVars, global_lock>>
          /\ op'[t] = op[t] \/ op'[t] = [at |-> "abort", index |-> 0]
      BY <1>8, <1>a, <1>d DEF TmFree, GoTo, Typed
    <2>2. op'[t].at # "alloc" /\ op'[t] # NotRunning
      <3>1. [at |-> "abort", index |-> 0].at = "abort"
        OBVIOUS
      <3> QED
        BY <2>1, <3>1, NotRunningAt
    <2> QED
      BY <2>1, <2>2, <1>b, <1>d, <1>q DEF batcherVars, CallsMatch, LockMatches
  <1>9. CASE TmLeave(t)
    <2>1. /\ op'[t] = NotRunning /\ pc'[t] = "outside" /\ UNCHANGED global_lock
          /\ allocated'[t] = {} /\ freed'[t] = {}
      BY <1>9, <1>a DEF TmLeave, LeaveLast, LeaveEarly, GoTo, Typed
    <2>2. op[t].at # "alloc"
      BY <1>9, <1>d DEF TmLeave
    <2> QED
      BY <2>1, <2>2, <1>b, <1>q, CallsEntered DEF LockMatches
  <1> QED
    BY <1>1, <1>2, <1>3, <1>4, <1>5, <1>6, <1>7, <1>8, <1>9 DEF SegmentStep

(* Every step keeps the indices anyone knows below n_segments, and frees   *)
(* among what is in use.                                                   *)
LEMMA StepKnown ==
    ASSUME SegmentInv, NEW t \in Threads, SegmentStep(t)
    PROVE  KnownSegments' /\ FreedWasInUse'
  <1>a. Typed
    BY TypedIs DEF SegmentInv
  <1>b. KnownSegments /\ FreedWasInUse
    BY DEF SegmentInv
  <1>c. \A u \in Threads \ {t} :
           op'[u] = op[u] /\ allocated'[u] = allocated[u] /\ freed'[u] = freed[u]
    BY OthersKeepTheirs
  <1>d. n_segments \in Nat
    BY <1>a DEF Typed
  \* only tm_alloc adds to what is known
  <1>q. ASSUME n_segments' = n_segments,
               InUse' \subseteq InUse \/ (op[t].at = "alloc" /\ InUse' \subseteq InUse \cup {op[t].index}),
               free_seg_indices' = free_seg_indices, op'[t].at # "alloc"
        PROVE  KnownSegments'
    <2>1. InUse' \subseteq 0 .. n_segments - 1
      <3>1. op[t].at = "alloc" => op[t].index \in 0 .. n_segments - 1
        <4>1. op[t].at = "alloc" => op[t].index \in Indices /\ op[t].index < n_segments
          BY <1>a, <1>b, CallFields DEF Typed, KnownSegments
        <4> QED
          BY <4>1, <1>d, MaxSegmentsAssumption DEF Indices
      <3> QED
        BY <1>q, <1>b, <3>1 DEF KnownSegments
    <2> QED
      BY <1>q, <1>b, <1>c, <2>1 DEF KnownSegments
  <1>1. ASSUME UNCHANGED <<n_segments, free_seg_indices, clientVars>>, op'[t].at # "alloc"
        PROVE  KnownSegments' /\ FreedWasInUse'
    BY <1>1, <1>b, <1>q DEF FreedWasInUse, InUse, clientVars
  <1>2. CASE TmBegin(t)
    <2>1. op'[t].at = "idle"
      BY <1>2, <1>a, CallsEntered DEF TmBegin, GoTo, Typed
    <2> QED
      BY <1>2, <2>1, <1>1 DEF TmBegin
  <1>3. CASE TmBeginBlocks(t)
    BY <1>3, <1>b DEF TmBeginBlocks, tableVars, clientVars, KnownSegments, FreedWasInUse, InUse
  <1>4. CASE AllocIndex(t)
    <2>1. FreedWasInUse' /\ InUse' = InUse
      BY <1>4, <1>b DEF AllocIndex, clientVars, FreedWasInUse, InUse
    <2>2. CASE free_seg_indices = <<>>
      <3>1. /\ n_segments' = n_segments + 1 /\ free_seg_indices' = <<>>
            /\ op'[t] = [at |-> "alloc", index |-> n_segments]
        BY <1>4, <2>2, <1>a DEF AllocIndex, AddSegment, GoTo, Typed
      <3>2. op'[t].index = n_segments
        <4>1. [at |-> "alloc", index |-> n_segments].index = n_segments
          OBVIOUS
        <4> QED
          BY <3>1, <4>1
      <3>3. InUse' \subseteq 0 .. n_segments' - 1
        BY <2>1, <3>1, <1>b, <1>d DEF KnownSegments
      <3>4. \A u \in Threads : op'[u].at = "alloc" => op'[u].index < n_segments'
        <4>1. \A u \in Threads \ {t} : op[u].at = "alloc" => op[u].index \in Nat
          <5>1. \A i \in Indices : i \in Nat
            BY MaxSegmentsAssumption DEF Indices
          <5> QED
            BY <5>1, <1>a, CallFields DEF Typed
        <4> QED
          BY <3>1, <3>2, <4>1, <1>b, <1>c, <1>d DEF KnownSegments
      <3> QED
        BY <2>1, <3>1, <3>3, <3>4 DEF KnownSegments
    <2>3. CASE free_seg_indices # <<>>
      <3> DEFINE known == 0 .. n_segments - 1
                 i == Top(free_seg_indices)
      <3>1. free_seg_indices \in Seq(known)
        BY <1>b DEF KnownSegments
      <3>2. i \in known /\ Pop(free_seg_indices) \in Seq(known)
        <4> HIDE DEF known
        <4> QED
          BY <2>3, <3>1 DEF Top, Pop
      <3>3. /\ n_segments' = n_segments /\ free_seg_indices' = Pop(free_seg_indices)
            /\ op'[t] = [at |-> "alloc", index |-> i]
        BY <1>4, <2>3, <1>a DEF AllocIndex, ReuseSegment, GoTo, Typed
      <3>4. op'[t].index = i
        <4>1. [at |-> "alloc", index |-> i].index = i
          OBVIOUS
        <4> HIDE DEF i
        <4> QED
          BY <3>3, <4>1
      <3>5. i < n_segments
        BY <3>2, <1>d
      <3> HIDE DEF i
      <3> QED
        BY <2>1, <3>2, <3>3, <3>4, <3>5, <1>b, <1>c DEF KnownSegments
    <2> QED
      BY <2>2, <2>3
  <1>5. CASE AllocInit(t)
    <2>1. op'[t].at = "idle"
      BY <1>5, <1>a, CallsEntered DEF AllocInit, GoTo, Typed
    <2>2. allocated' = [allocated EXCEPT ![t] = allocated[t] \cup {op[t].index}]
      BY <1>5 DEF AllocInit
    <2>3. InUse' \subseteq InUse \cup {op[t].index}
      BY <1>5, <2>2, <1>a DEF AllocInit, InUse, Typed
    <2>4. FreedWasInUse'
      BY <1>5, <2>2, <1>a, <1>b DEF AllocInit, FreedWasInUse, Typed
    <2> QED
      BY <1>5, <2>1, <2>3, <2>4, <1>q DEF AllocInit
  <1>6. CASE Conflict(t)
    <2>1. op'[t].at = "abort"
      BY <1>6, <1>a, CallsEntered DEF Conflict, GoTo, Typed
    <2> QED
      BY <1>6, <2>1, <1>1 DEF Conflict
  <1>7. CASE AbortScan(t)
    <2>1. op'[t] = [at |-> "scan", index |-> op[t].index]
      BY <1>7, <1>a, ScanNext DEF AbortScan, GoTo, Typed
    <2>2. [at |-> "scan", index |-> op[t].index].at = "scan"
      OBVIOUS
    <2>3. op'[t].at # "alloc"
      BY <2>1, <2>2
    <2> QED
      BY <1>7, <2>3, <1>1 DEF AbortScan
  <1>8. CASE AbortDeregister(t)
    <2>1. op'[t] = [at |-> "abort", index |-> op[t].index + 1]
      BY <1>8, <1>a DEF AbortDeregister, GoTo, Typed
    <2>2. [at |-> "abort", index |-> op[t].index + 1].at = "abort"
      OBVIOUS
    <2>3. op'[t].at # "alloc"
      BY <2>1, <2>2
    <2> QED
      BY <1>8, <2>3, <1>1 DEF AbortDeregister
  <1>9. ASSUME NEW i \in Indices, TmFree(t, i) PROVE KnownSegments' /\ FreedWasInUse'
    <2>1. op[t].at = "idle" /\ i \in live \cup allocated[t]
      BY <1>9, CallsEntered DEF TmFree
    <2>2. op'[t].at # "alloc"
      BY <1>9, <2>1, <1>a, CallsEntered DEF TmFree, GoTo, Typed
    <2>3. KnownSegments'
      BY <1>9, <2>2, <1>q DEF TmFree, InUse
    <2>4. FreedWasInUse'
      BY <1>9, <2>1, <1>a, <1>b DEF TmFree, FreedWasInUse, Typed
    <2> QED
      BY <2>3, <2>4
  <1>10. CASE TmLeave(t)
    <2>1. op'[t].at # "alloc"
      BY <1>10, <1>a, CallsEntered DEF TmLeave, GoTo, Typed
    <2>2. /\ allocated' = [allocated EXCEPT ![t] = {}] /\ freed' = [freed EXCEPT ![t] = {}]
          /\ n_segments' = n_segments
          /\ live' \cup newLive' \subseteq live \cup newLive \cup allocated[t]
      BY <1>10 DEF TmLeave
    <2>3. InUse' \subseteq InUse
      BY <2>2, <1>a DEF InUse, Typed
    <2>4. FreedWasInUse'
      <3>1. CASE LeaveLast(t)
        <4>1. \A u \in Threads \ {t} : freed[u] = {}
          <5>1. \A u \in Threads \ {t} : pc[u] # "inside"
            BY <3>1, LastIsAlone DEF LeaveLast, At, SegmentInv
          <5> QED
            BY <5>1 DEF SegmentInv, NothingOutside
        <4>2. newFreed' = {}
          BY <1>10, <3>1 DEF TmLeave, LeaveLast, LeaveEarly
        <4> QED
          BY <2>2, <4>1, <4>2, <1>a, <1>c DEF FreedWasInUse, Typed
      <3>2. CASE LeaveEarly(t)
        <4>1. /\ live' = live
              /\ newLive' = newLive \cup (IF op[t] = Idle THEN allocated[t] ELSE {})
              /\ newFreed' = newFreed \cup (IF op[t] = Idle THEN freed[t] ELSE {})
          BY <1>10, <3>2 DEF TmLeave, LeaveLast, LeaveEarly
        <4> QED
          BY <2>2, <4>1, <1>a, <1>b DEF FreedWasInUse, Typed
      <3> QED
        BY <1>10, <3>1, <3>2 DEF TmLeave
    <2>5. free_seg_indices' \in Seq(0 .. n_segments - 1)
      BY <1>10, <1>b, PushedAreKnown DEF TmLeave, KnownSegments
    <2> QED
      BY <2>1, <2>2, <2>3, <2>4, <2>5, <1>b, <1>c DEF KnownSegments
  <1> QED
    BY <1>2, <1>3, <1>4, <1>5, <1>6, <1>7, <1>8, <1>9, <1>10 DEF SegmentStep

(* Every step keeps the marks of those that ended or still may.            *)
LEMMA StepFreed ==
    ASSUME SegmentInv, EpochInv', NEW t \in Threads, SegmentStep(t)
    PROVE  FreedAreMarked'
  <1>a. Typed /\ tx_id_generator \in Nat
    BY TypedIs DEF SegmentInv, EpochInv, TypeOK
  <1>b. FreedAreMarked /\ FreedWasInUse /\ CallsMatch /\ LockMatches /\ NothingOutside
    BY DEF SegmentInv
  <1>c. \A u \in Threads \ {t} :
           /\ op'[u] = op[u] /\ tx'[u] = tx[u] /\ freed'[u] = freed[u]
           /\ pc'[u] = "inside" <=> pc[u] = "inside"
    BY OthersKeepTheirs
  <1>d. /\ \A u \in Threads : op[u] # NotRunning =>
              /\ pc[u] = "inside" /\ tx[u] \in Nat /\ tx[u] # NONE
              /\ tx[u] < tx_id_generator
        /\ \A u, v \in Threads :
              pc[u] = "inside" /\ pc[v] = "inside" /\ tx[u] = tx[v] => u = v
        /\ tx_id_generator < NONE
    BY CallersHaveIds DEF SegmentInv
  <1>e. /\ \A u \in Threads : freed[u] \subseteq InUse /\ newFreed \subseteq InUse
        /\ \A u \in Threads : freed[u] # {} => pc[u] = "inside" /\ op[u] # NotRunning
    BY <1>b DEF FreedWasInUse, InUse, NothingOutside, CallsMatch
  <1>f. op[t].at \in {"idle", "alloc", "scan", "abort"} => op[t] # NotRunning
    BY CallsEntered
  \* the mark of a free of another, or of one that ended, stays
  <1>m. ASSUME NEW i \in Indices \ shared',
               \/ i \in newFreed
               \/ \E u \in Threads : ~Aborting(u) /\ i \in freed[u]
        PROVE  segments'[i].deregistered = segments[i].deregistered
    <2>1. i \in InUse /\ segments[i].deregistered \in Nat
      BY <1>a, <1>e, <1>m DEF Typed, Descriptors
    <2>2. i \notin shared
      <3>1. shared \subseteq shared'
        BY DEF SegmentStep, TmBegin, TmBeginBlocks, AllocIndex, AllocInit, Conflict, AbortScan,
               AbortDeregister, TmLeave, TmFree, clientVars
      <3> QED
        BY <1>m, <3>1
    <2>3. segments[i].deregistered # NONE
      <3>1. CASE i \in newFreed
        BY <1>a, <1>b, <1>d, <2>1, <2>2, <3>1, NoneIs DEF FreedAreMarked
      <3>2. CASE \E u \in Threads : ~Aborting(u) /\ i \in freed[u]
        BY <1>b, <1>d, <1>e, <2>2, <3>2 DEF FreedAreMarked
      <3> QED
        BY <1>m, <3>1, <3>2
    <2>4. AllocInit(t) => op[t].index # i
      BY <2>1, <1>m DEF AllocInit
    <2>5. AbortDeregister(t) => segments[i].deregistered # tx[t]
      <3>1. AbortDeregister(t) => Aborting(t) /\ op[t] # NotRunning
        BY <1>f DEF AbortDeregister, Aborting
      <3> QED
        BY <1>b, <1>d, <1>e, <1>m, <2>2, <3>1 DEF FreedAreMarked
    <2> QED
      BY <2>3, <2>4, <2>5, StepMark DEF MarkMoves
  <1>s. shared \subseteq shared'
    BY DEF SegmentStep, TmBegin, TmBeginBlocks, AllocIndex, AllocInit, Conflict, AbortScan,
           AbortDeregister, TmLeave, TmFree, clientVars
  \* the first part of FreedAreMarked
  <1>1. ASSUME NEW u \in Threads, ~Aborting(u)', NEW i \in freed'[u] \ shared'
        PROVE  segments'[i].deregistered = tx'[u]
    <2>1. CASE u # t
      <3>1. ~Aborting(u) /\ i \in freed[u] /\ i \in Indices /\ tx'[u] = tx[u]
        BY <1>1, <2>1, <1>a, <1>c DEF Aborting, Typed
      <3> QED
        BY <1>1, <1>b, <1>m, <1>s, <3>1 DEF FreedAreMarked
    <2>2. CASE u = t
      <3>1. CASE i \in freed[t]
        <4>1. ~TmLeave(t)
          BY <1>1, <2>2, <1>a DEF TmLeave, Typed
        <4>2. ~TmBegin(t)
          BY <3>1, <1>e DEF TmBegin, EnterFirst, Resume
        <4>3. tx'[t] = tx[t]
          BY <4>1, <4>2 DEF SegmentStep, TmBeginBlocks, EnterBlock, SpuriousWakeup, AllocIndex,
             AllocInit, Conflict, AbortScan, AbortDeregister, TmFree, batcherVars
        <4>4. ~Aborting(t)
          <5>1. ~AbortScan(t)
            <6>1. AbortScan(t) => op'[t] = [at |-> "scan", index |-> op[t].index]
              BY <1>a, ScanNext DEF AbortScan, GoTo, Typed
            <6>2. [at |-> "scan", index |-> op[t].index].at = "scan"
              OBVIOUS
            <6> QED
              BY <1>1, <2>2, <6>1, <6>2 DEF Aborting
          <5>2. ~AbortDeregister(t)
            <6>1. AbortDeregister(t) => op'[t] = [at |-> "abort", index |-> op[t].index + 1]
              BY <1>a DEF AbortDeregister, GoTo, Typed
            <6>2. [at |-> "abort", index |-> op[t].index + 1].at = "abort"
              OBVIOUS
            <6> QED
              BY <1>1, <2>2, <6>1, <6>2 DEF Aborting
          <5>3. Idle.at = "idle"
            BY CallsEntered
          <5> QED
            BY <1>1, <2>2, <4>1, <4>2, <5>1, <5>2, <5>3 DEF SegmentStep, TmBeginBlocks,
               AllocIndex, AllocInit, Conflict, TmFree, tableVars, Aborting
        <4> QED
          BY <1>1, <1>a, <1>b, <1>m, <1>s, <2>2, <3>1, <4>3, <4>4 DEF FreedAreMarked, Typed
      <3>2. CASE i \notin freed[t]
        <4>1. TmFree(t, i) /\ segments' = [segments EXCEPT ![i].deregistered = tx[t]] /\ i \in Indices
          <5>1. PICK j \in Indices : TmFree(t, j)
            BY <1>1, <2>2, <3>2, <1>a DEF SegmentStep, TmBegin, TmBeginBlocks, AllocIndex, AllocInit,
               Conflict, AbortScan, AbortDeregister, TmLeave, clientVars, Typed
          <5>2. /\ freed' = [freed EXCEPT ![t] = @ \cup {j}]
                /\ segments' = [segments EXCEPT ![j].deregistered = tx[t]]
            BY <1>1, <2>2, <3>2, <5>1 DEF TmFree
          <5> QED
            BY <1>1, <2>2, <3>2, <5>1, <5>2, <1>a DEF Typed
        <4> QED
          BY <2>2, <4>1, <1>a DEF TmFree, batcherVars, Typed, Descriptors
      <3> QED
        BY <3>1, <3>2
    <2> QED
      BY <2>1, <2>2
  \* the second
  <1>2. ASSUME NEW i \in newFreed' \ shared'
        PROVE  /\ segments'[i].deregistered < tx_id_generator'
               /\ \A u \in Threads : pc'[u] = "inside" => segments'[i].deregistered # tx'[u]
    <2>1. ~(TmLeave(t) /\ LeaveLast(t))
      BY <1>2 DEF SegmentStep, TmBegin, TmBeginBlocks, AllocIndex, AllocInit, Conflict, AbortScan,
         AbortDeregister, TmLeave, TmFree, LeaveEarly, EnterFirst, EnterBlock, Resume,
         SpuriousWakeup, TakeId, LeaveLast, batcherVars
    <2>2. CASE i \in newFreed
      <3>1. /\ segments'[i].deregistered = segments[i].deregistered
            /\ segments[i].deregistered < tx_id_generator
            /\ \A u \in Threads : pc[u] = "inside" => segments[i].deregistered # tx[u]
            /\ segments[i].deregistered \in Nat
        BY <1>2, <1>a, <1>b, <1>m, <1>s, <2>2 DEF FreedAreMarked, Typed, Descriptors
      <3>2. CASE TmBegin(t)
        <4>1. tx'[t] = tx_id_generator /\ tx_id_generator' = tx_id_generator + 1
          BY <3>2, <1>a DEF TmBegin, EnterFirst, Resume, TakeId, Typed
        <4> QED
          BY <3>1, <4>1, <1>a, <1>c
      <3>3. CASE ~TmBegin(t)
        <4>1. tx_id_generator' = tx_id_generator
          BY <2>1, <3>3 DEF SegmentStep, TmBeginBlocks, EnterBlock, SpuriousWakeup, AllocIndex,
             AllocInit, Conflict, AbortScan, AbortDeregister, TmFree, TmLeave, LeaveEarly,
             batcherVars
        <4>2. pc'[t] = "inside" => pc[t] = "inside" /\ tx'[t] = tx[t]
          BY <3>3, <1>a DEF SegmentStep, TmBeginBlocks, EnterBlock, SpuriousWakeup, AllocIndex,
             AllocInit, Conflict, AbortScan, AbortDeregister, TmFree, TmLeave, LeaveEarly,
             LeaveLast, batcherVars, Typed
        <4> QED
          BY <3>1, <4>1, <4>2, <1>c
      <3> QED
        BY <3>2, <3>3
    <2>3. CASE i \notin newFreed
      <3>1. /\ TmLeave(t) /\ LeaveEarly(t) /\ op[t] = Idle /\ i \in freed[t]
            /\ UNCHANGED <<segments, shared>>
        BY <1>2, <2>1, <2>3 DEF SegmentStep, TmBegin, TmBeginBlocks, AllocIndex, AllocInit,
           Conflict, AbortScan, AbortDeregister, TmLeave, TmFree, clientVars, LeaveLast,
           LeaveEarly, batcherVars
      <3>2. ~Aborting(t) /\ op[t] # NotRunning
        BY <3>1, <1>f, CallsEntered DEF Aborting
      <3>3. segments[i].deregistered = tx[t]
        BY <1>2, <1>b, <3>1, <3>2 DEF FreedAreMarked
      <3>4. /\ pc'[t] = "outside" /\ tx_id_generator' = tx_id_generator
        BY <3>1, <1>a DEF LeaveEarly, Typed
      <3> QED
        BY <3>1, <3>2, <3>3, <3>4, <1>c, <1>d
    <2> QED
      BY <2>2, <2>3
  <1> QED
    BY <1>1, <1>2 DEF FreedAreMarked

(* Every step keeps marks on segments in use those of frees.               *)
LEMMA StepMarks ==
    ASSUME SegmentInv, NEW t \in Threads, SegmentStep(t)
    PROVE  MarksAreFrees'
  <1>a. Typed
    BY TypedIs DEF SegmentInv
  <1>b. \A u \in Threads \ {t} :
           /\ tx'[u] = tx[u] /\ freed'[u] = freed[u]
           /\ pc'[u] = "inside" <=> pc[u] = "inside"
    BY OthersKeepTheirs
  <1>s. shared \subseteq shared'
    BY DEF SegmentStep, TmBegin, TmBeginBlocks, AllocIndex, AllocInit, Conflict, AbortScan,
           AbortDeregister, TmLeave, TmFree, clientVars
  <1> SUFFICES ASSUME NEW i \in InUse', i \notin shared', segments'[i].deregistered # NONE,
                      i \notin newFreed'
               PROVE  \E u \in Threads : /\ pc'[u] = "inside" /\ i \in freed'[u]
                                         /\ segments'[i].deregistered = tx'[u]
    BY DEF MarksAreFrees
  <1>c. i \in InUse
    <2>1. CASE AllocInit(t)
      <3>1. allocated' = [allocated EXCEPT ![t] = allocated[t] \cup {op[t].index}]
        BY <2>1 DEF AllocInit
      <3>2. InUse' \subseteq InUse \cup {op[t].index}
        BY <2>1, <3>1, <1>a DEF AllocInit, InUse, Typed
      <3>3. op[t].index \in Indices
        BY <2>1, <1>a, CallFields DEF AllocInit, Typed
      <3>4. segments'[op[t].index] = [deregistered |-> NONE, ready |-> TRUE]
        BY <2>1, <3>3, <1>a DEF AllocInit, InitSegment, Typed
      <3>5. [deregistered |-> NONE, ready |-> TRUE].deregistered = NONE
        OBVIOUS
      <3>6. i # op[t].index
        BY <3>4, <3>5
      <3> QED
        BY <3>2, <3>6
    <2>2. CASE TmLeave(t)
      <3>1. /\ allocated' = [allocated EXCEPT ![t] = {}]
            /\ live' \cup newLive' \subseteq live \cup newLive \cup allocated[t]
        BY <2>2 DEF TmLeave
      <3> QED
        BY <3>1, <1>a DEF InUse, Typed
    <2> QED
      BY <2>1, <2>2 DEF SegmentStep, TmBegin, TmBeginBlocks, AllocIndex, Conflict, AbortScan,
         AbortDeregister, TmFree, clientVars, InUse
  <1>d. i \in Indices
    BY <1>a, <1>c DEF InUse, Typed
  <1>1. CASE segments'[i].deregistered = segments[i].deregistered
    \* no free is forgotten before the epoch ends
    <2>1. i \notin newFreed
      <3>1. TmLeave(t) /\ i \in newFreed => i \in newFreed' \/ i \notin InUse'
        <4>1. TmLeave(t) /\ LeaveLast(t) => live' \cap newFreed = {} /\ newLive' = {}
          BY DEF TmLeave, LeaveLast, LeaveEarly
        <4>2. LeaveLast(t) => \A u \in Threads \ {t} : allocated'[u] = {}
          <5>1. LeaveLast(t) => \A u \in Threads \ {t} : pc[u] # "inside"
            BY LastIsAlone DEF LeaveLast, At, SegmentInv
          <5> QED
            BY <5>1, OthersKeepTheirs DEF SegmentInv, NothingOutside
        <4>3. TmLeave(t) => allocated'[t] = {}
          BY <1>a DEF TmLeave, Typed
        <4>4. TmLeave(t) /\ ~LeaveLast(t) => newFreed \subseteq newFreed'
          BY DEF TmLeave
        <4> QED
          BY <4>1, <4>2, <4>3, <4>4 DEF InUse
      <3> QED
        BY <3>1 DEF SegmentStep, TmBegin, TmBeginBlocks, AllocIndex, AllocInit, Conflict, AbortScan,
           AbortDeregister, TmFree, clientVars
    <2>2. PICK u \in Threads : /\ pc[u] = "inside" /\ i \in freed[u]
                               /\ segments[i].deregistered = tx[u]
      BY <1>1, <1>c, <1>s, <2>1 DEF SegmentInv, MarksAreFrees
    <2>3. CASE u # t
      BY <1>1, <1>b, <2>2, <2>3
    <2>4. CASE u = t /\ ~TmLeave(t)
      <3>1. ~TmBegin(t)
        BY <2>2, <2>4 DEF TmBegin, EnterFirst, Resume
      <3>2. pc'[t] = "inside" /\ tx'[t] = tx[t] /\ i \in freed'[t]
        BY <2>2, <2>4, <3>1, <1>a DEF SegmentStep, TmBeginBlocks, EnterBlock, SpuriousWakeup,
           AllocIndex, AllocInit, Conflict, AbortScan, AbortDeregister, TmFree, batcherVars,
           clientVars, Typed
      <3> QED
        BY <1>1, <2>2, <2>4, <3>2
    <2>5. CASE u = t /\ TmLeave(t) /\ op[t] = Idle
      <3>1. i \in newFreed' \/ i \notin live' \cup newLive'
        BY <2>2, <2>5 DEF TmLeave
      <3>2. LeaveEarly(t) => i \in newFreed'
        BY <2>2, <2>5 DEF TmLeave, LeaveLast, LeaveEarly
      <3>3. LeaveLast(t) => \A v \in Threads : allocated'[v] = {}
        <4>1. LeaveLast(t) => \A v \in Threads \ {t} : pc[v] # "inside"
          BY LastIsAlone DEF LeaveLast, At, SegmentInv
        <4>2. allocated'[t] = {}
          BY <2>5, <1>a DEF TmLeave, Typed
        <4> QED
          BY <4>1, <4>2, OthersKeepTheirs DEF SegmentInv, NothingOutside
      <3> QED
        BY <2>5, <3>1, <3>2, <3>3 DEF TmLeave, InUse
    <2>6. CASE u = t /\ TmLeave(t) /\ op[t] # Idle
      <3>1. op[t].at = "abort" /\ op[t].index >= n_segments
        BY <2>6 DEF TmLeave
      <3>2. op[t].index \in Nat /\ n_segments \in Nat
        <4>1. op[t].index \in 0 .. MaxSegments /\ n_segments \in 1 .. MaxSegments
          BY <3>1, <1>a, CallFields DEF Typed
        <4> QED
          BY <4>1, MaxSegmentsAssumption
      <3>3. i \in Nat /\ i < n_segments
        BY <3>2, <1>c DEF SegmentInv, KnownSegments
      <3>4. segments[i].deregistered # tx[t]
        BY <3>1, <3>2, <3>3, <1>d DEF SegmentInv, ScannedAreUnmarked, Aborting
      <3> QED
        BY <2>2, <2>6, <3>4
    <2> QED
      BY <2>3, <2>4, <2>5, <2>6
  <1>2. CASE /\ TmFree(t, i)
             /\ segments'[i].deregistered = tx[t]
             /\ freed' = [freed EXCEPT ![t] = @ \cup {i}]
    <2>1. op[t] # NotRunning
      BY <1>2, CallsEntered DEF TmFree
    <2>2. pc'[t] = "inside" /\ tx'[t] = tx[t] /\ i \in freed'[t]
      BY <1>2, <2>1, <1>a DEF TmFree, SegmentInv, CallsMatch, batcherVars, Typed
    <2> QED
      BY <1>2, <2>2
  <1> QED
    BY <1>1, <1>2, <1>d, StepMark DEF MarkMoves

(* Every step of the abort loop leaves the segments behind it unmarked.    *)
LEMMA StepScanned ==
    ASSUME SegmentInv, NEW t \in Threads, SegmentStep(t)
    PROVE  ScannedAreUnmarked'
  <1>a. Typed /\ ScannedAreUnmarked
    BY TypedIs DEF SegmentInv
  <1>b. \A u \in Threads \ {t} : op'[u] = op[u] /\ tx'[u] = tx[u]
    BY OthersKeepTheirs
  <1>c. /\ \A u \in Threads : op[u] # NotRunning =>
              pc[u] = "inside" /\ tx[u] \in Nat /\ tx[u] # NONE
        /\ \A u, v \in Threads :
              pc[u] = "inside" /\ pc[v] = "inside" /\ tx[u] = tx[v] => u = v
    BY CallersHaveIds DEF SegmentInv
  <1>d. /\ \A u \in Threads : Aborting(u) => op[u] # NotRunning
        /\ op[t] = Idle => op[t] # NotRunning
    BY CallsEntered DEF Aborting
  <1> SUFFICES ASSUME NEW u \in Threads, Aborting(u)', NEW i \in Indices, i < op'[u].index
               PROVE  segments'[i].deregistered # tx'[u]
    BY DEF ScannedAreUnmarked
  \* what was unmarked stays so, as long as u makes no mark
  <1>m. ASSUME tx'[u] = tx[u], op[u] # NotRunning, segments[i].deregistered # tx[u],
               u = t => ~TmFree(t, i) \/ UNCHANGED segments
        PROVE  segments'[i].deregistered # tx'[u]
    <2>1. CASE UNCHANGED segments
      BY <1>m, <2>1
    <2>2. CASE ~TmFree(t, i)
      BY <1>m, <1>c, <2>2, StepMark DEF MarkMoves
    <2>3. CASE TmFree(t, i) /\ u # t
      <3>1. tx[u] # tx[t]
        BY <1>m, <1>c, <1>d, <2>3 DEF TmFree
      <3> QED
        BY <1>m, <1>c, <2>3, <3>1, StepMark DEF MarkMoves
    <2> QED
      BY <1>m, <2>1, <2>2, <2>3
  <1>1. CASE u # t
    <2>1. Aborting(u) /\ i < op[u].index /\ tx'[u] = tx[u]
      BY <1>1, <1>b DEF Aborting
    <2> QED
      BY <1>1, <1>a, <1>d, <1>m, <2>1 DEF ScannedAreUnmarked
  <1>2. CASE u = t /\ AbortScan(t)
    <2>1. op'[t] = [at |-> "scan", index |-> op[t].index]
      BY <1>2, <1>a, ScanNext DEF AbortScan, GoTo, Typed
    <2>2. [at |-> "scan", index |-> op[t].index].index = op[t].index
      OBVIOUS
    <2>3. i < op[t].index /\ Aborting(t) /\ UNCHANGED <<segments, tx>>
      BY <1>2, <2>1, <2>2 DEF AbortScan, Aborting, batcherVars
    <2> QED
      BY <1>2, <1>a, <2>3 DEF ScannedAreUnmarked
  <1>3. CASE u = t /\ AbortDeregister(t)
    <2>1. op'[t] = [at |-> "abort", index |-> op[t].index + 1]
      BY <1>3, <1>a DEF AbortDeregister, GoTo, Typed
    <2>2. [at |-> "abort", index |-> op[t].index + 1].index = op[t].index + 1
      OBVIOUS
    <2>3. /\ i < op[t].index + 1 /\ Aborting(t) /\ tx' = tx
          /\ op[t].index \in Nat /\ op[t].index \in Indices
      <3>1. op[t].index \in Indices
        BY <1>3, <1>a, CallFields DEF AbortDeregister, Typed
      <3> QED
        BY <1>3, <2>1, <2>2, <3>1, MaxSegmentsAssumption
           DEF AbortDeregister, Aborting, batcherVars, Indices
    <2>4. CASE i = op[t].index
      <3>1. CASE segments[i].deregistered = tx[t]
        <4>1. segments' = [segments EXCEPT ![i].deregistered = NONE]
          BY <1>3, <2>4, <3>1 DEF AbortDeregister
        <4> QED
          BY <1>3, <1>a, <1>c, <1>d, <2>3, <4>1 DEF Typed, Descriptors
      <3>2. CASE segments[i].deregistered # tx[t]
        BY <1>3, <2>3, <2>4, <3>2 DEF AbortDeregister
      <3> QED
        BY <3>1, <3>2
    <2>5. CASE i < op[t].index
      <3>1. ~TmFree(t, i)
        BY <1>3, CallsEntered DEF AbortDeregister, TmFree
      <3> QED
        BY <1>3, <1>a, <1>d, <1>m, <2>3, <2>5, <3>1 DEF ScannedAreUnmarked
    <2> QED
      BY <2>3, <2>4, <2>5, MaxSegmentsAssumption DEF Indices
  <1>4. CASE u = t /\ op'[t] = [at |-> "abort", index |-> 0]
    <2>1. op'[t].index = 0
      BY <1>4, CallsEntered
    <2> QED
      BY <1>4, <2>1, MaxSegmentsAssumption DEF Indices
  <1>5. CASE u = t /\ ~AbortScan(t) /\ ~AbortDeregister(t)
             /\ op'[t] # [at |-> "abort", index |-> 0]
    <2>1. Aborting(t)'
      BY <1>5
    <2>2. op'[t] = op[t] /\ Aborting(t)
      <3>1. AllocIndex(t) => op'[t].at = "alloc"
        <4>1. AllocIndex(t) => \E j : op'[t] = [at |-> "alloc", index |-> j]
          <5>1. AllocIndex(t) => \E j : op' = [op EXCEPT ![t] = [at |-> "alloc", index |-> j]]
            BY DEF AllocIndex, AddSegment, ReuseSegment, GoTo
          <5> QED
            BY <5>1, <1>a DEF Typed
        <4>2. \A j : [at |-> "alloc", index |-> j].at = "alloc"
          OBVIOUS
        <4> QED
          BY <4>1, <4>2
      <3>2. TmBegin(t) \/ AllocInit(t) \/ TmLeave(t) => op'[t].at \in {"idle", "not running"}
        <4>1. TmBegin(t) \/ AllocInit(t) \/ TmLeave(t) => op'[t] \in {Idle, NotRunning}
          BY <1>a DEF TmBegin, AllocInit, TmLeave, GoTo, Typed
        <4> QED
          BY <4>1, CallsEntered
      <3>3. ~TmBegin(t) /\ ~AllocIndex(t) /\ ~AllocInit(t) /\ ~TmLeave(t)
        BY <2>1, <3>1, <3>2 DEF Aborting
      <3>4. ~Conflict(t)
        BY <1>5, <1>a DEF Conflict, GoTo, Typed
      <3>5. TmBeginBlocks(t) \/ \E j \in Indices : TmFree(t, j)
        BY <1>5, <3>3, <3>4 DEF SegmentStep
      <3>6. op'[t] = op[t]
        BY <1>5, <3>5, <1>a DEF TmBeginBlocks, TmFree, GoTo, Typed, tableVars
      <3> QED
        BY <2>1, <3>6 DEF Aborting
    <2>3. TmBeginBlocks(t) \/ \E j \in Indices : TmFree(t, j)
      BY <1>5, <2>1, <2>2, <1>a, CallsEntered DEF SegmentStep, TmBegin, AllocIndex,
         AllocInit, Conflict, TmLeave, GoTo, Aborting, Typed
    <2>4. FALSE
      BY <2>2, <2>3, <1>d, CallsEntered DEF SegmentInv, CallsMatch, TmBeginBlocks, EnterBlock,
         SpuriousWakeup, TmFree, Aborting
    <2> QED
      BY <2>4
  <1> QED
    BY <1>1, <1>2, <1>3, <1>4, <1>5
----------------------------------------------------------------------------
(* Every step of a thread keeps the invariant.                             *)
LEMMA StepSegments ==
    ASSUME SegmentInv, ~SpuriousWakeups, NEW t \in Threads, SegmentStep(t)
    PROVE  SegmentInv'
  <1>1. EpochInv'
    BY BatcherPart, StepEpoch, Stutter DEF SegmentInv
  <1> QED
    BY <1>1, StepSegmentTypes, StepCalls, StepKnown, StepFreed, StepMarks, StepScanned
       DEF SegmentInv

(* Steps of others than the threads change nothing.                        *)
LEMMA SegmentStutter == SegmentInv /\ UNCHANGED vars => SegmentInv'
  <1> SUFFICES ASSUME SegmentInv, UNCHANGED vars PROVE SegmentInv'
    OBVIOUS
  <1>1. EpochInv'
    BY Stutter DEF SegmentInv, vars
  <1>2. SegmentTypeOK' /\ CallsMatch' /\ LockMatches' /\ NothingOutside'
    BY DEF SegmentInv, SegmentTypeOK, CallsMatch, LockMatches, NothingOutside,
           vars, batcherVars, tableVars, clientVars
  <1>3. InUse' = InUse
    BY DEF InUse, vars, clientVars
  <1>4. KnownSegments' /\ FreedWasInUse'
    BY <1>3 DEF SegmentInv, KnownSegments, FreedWasInUse, vars, tableVars, clientVars
  <1>5. FreedAreMarked' /\ MarksAreFrees' /\ ScannedAreUnmarked'
    BY <1>3 DEF SegmentInv, FreedAreMarked, MarksAreFrees, ScannedAreUnmarked, Aborting,
                vars, batcherVars, tableVars, clientVars
  <1> QED
    BY <1>1, <1>2, <1>4, <1>5 DEF SegmentInv

(* The segment table always satisfies its inductive invariant.             *)
THEOREM SegmentInvariance == ~SpuriousWakeups => (SegmentSpec => []SegmentInv)
  <1> SUFFICES ASSUME ~SpuriousWakeups PROVE SegmentSpec => []SegmentInv
    OBVIOUS
  <1>1. SegmentInit => SegmentInv
    BY InitSegments
  <1>2. SegmentInv /\ [SegmentNext]_vars => SegmentInv'
    BY StepSegments, SegmentStutter DEF SegmentNext
  <1> QED
    BY <1>1, <1>2, PTL DEF SegmentSpec

(* The table, the stack and the calls keep their types: tm_alloc gets an   *)
(* index of the table, and the abort loop stays inside it.                 *)
THEOREM SegmentTypesKept == ~SpuriousWakeups => (SegmentSpec => []SegmentTypeOK)
  <1> SUFFICES ASSUME ~SpuriousWakeups PROVE SegmentSpec => []SegmentTypeOK
    OBVIOUS
  <1>1. SegmentInv => SegmentTypeOK
    BY DEF SegmentInv
  <1> QED
    BY <1>1, SegmentInvariance, PTL

(* Two transactions of an epoch that both end have not freed the same      *)
(* segment (a reused index apart): both would be named by its mark.        *)
THEOREM FreedOnce == ~SpuriousWakeups => (SegmentSpec => []NoDoubleFree)
  <1> SUFFICES ASSUME ~SpuriousWakeups PROVE SegmentSpec => []NoDoubleFree
    OBVIOUS
  <1>1. ASSUME SegmentInv PROVE NoDoubleFree
    <2>1. \A t \in Threads : freed[t] # {} => pc[t] = "inside"
      BY <1>1 DEF SegmentInv, NothingOutside
    <2>2. \A t, u \in Threads :
             pc[t] = "inside" /\ pc[u] = "inside" /\ tx[t] = tx[u] => t = u
      BY <1>1, CallersHaveIds DEF SegmentInv
    <2> QED
      BY <1>1, <2>1, <2>2 DEF SegmentInv, FreedAreMarked, NoDoubleFree
  <1>2. SegmentInv => NoDoubleFree
    BY <1>1
  <1> QED
    BY <1>2, SegmentInvariance, PTL

(* A segment clients can use (a reused index apart) carries a mark only if *)
(* a transaction of this epoch freed it.                                   *)
THEOREM MarksAreOfFrees == ~SpuriousWakeups => (SegmentSpec => []MarkedMeansFreed)
  <1> SUFFICES ASSUME ~SpuriousWakeups PROVE SegmentSpec => []MarkedMeansFreed
    OBVIOUS
  <1>1. SegmentInv => MarkedMeansFreed
    BY DEF SegmentInv, MarksAreFrees, MarkedMeansFreed, InUse
  <1> QED
    BY <1>1, SegmentInvariance, PTL

(* When the last transaction commits the segments under the batcher's      *)
(* lock, nobody holds global_lock and nobody else is in a call.            *)
THEOREM CommitMeetsNone == ~SpuriousWakeups => (SegmentSpec => CommitMeetsNobody)
  <1> SUFFICES ASSUME ~SpuriousWakeups PROVE SegmentSpec => CommitMeetsNobody
    OBVIOUS
  <1> DEFINE Alone(t) == /\ global_lock = Nobody
                         /\ \A u \in Threads \ {t} : op[u] = NotRunning
  <1>1. ASSUME SegmentInv, SegmentNext, NEW t \in Threads, LeaveLast(t)
        PROVE  Alone(t)
    <2>1. \A u \in Threads \ {t} : pc[u] # "inside" /\ op[u] = NotRunning
      BY <1>1, LastIsAlone DEF LeaveLast, At, SegmentInv, CallsMatch
    <2>2. PICK u \in Threads : SegmentStep(u)
      BY <1>1 DEF SegmentNext
    <2>3. Typed
      BY <1>1, TypedIs DEF SegmentInv
    <2>4. pc[t] = "inside" /\ pc'[t] = "outside" /\ \A v \in Threads : pc'[v] # "inside"
      BY <1>1, <2>1 DEF LeaveLast
    <2>5. TmLeave(u)
      <3>1. ~UNCHANGED batcherVars
        BY <2>4 DEF batcherVars
      <3>2. ~TmBegin(u)
        BY <2>3, <2>4 DEF TmBegin, EnterFirst, Resume, TakeId, Typed
      <3>3. ~TmBeginBlocks(u)
        <4>1. TmBeginBlocks(u) => pc[u] # "inside" /\ \A v \in Threads \ {u} : pc'[v] = pc[v]
          BY <2>3 DEF TmBeginBlocks, EnterBlock, SpuriousWakeup, Typed
        <4> QED
          BY <2>4, <4>1
      <3> QED
        BY <2>2, <3>1, <3>2, <3>3 DEF SegmentStep, AllocIndex, AllocInit, Conflict, AbortScan,
           AbortDeregister, TmFree
    <2>6. u = t
      BY <2>1, <2>5 DEF TmLeave, LeaveLast, LeaveEarly
    <2>7. op[t].at # "alloc"
      BY <2>5, <2>6, CallsEntered DEF TmLeave
    <2>8. \A v \in Threads : op[v].at # "alloc"
      BY <2>1, <2>7, CallsEntered
    <2> QED
      BY <1>1, <2>1, <2>3, <2>8 DEF SegmentInv, LockMatches, Typed
  <1>2. SegmentInv /\ [SegmentNext]_vars => [\A t \in Threads : LeaveLast(t) => Alone(t)]_vars
    BY <1>1
  <1> QED
    BY <1>2, SegmentInvariance, PTL DEF SegmentSpec, CommitMeetsNobody

(* The table's transactions use the batcher as it is meant to be used.     *)
THEOREM SegmentsUseBatcher == SegmentSpec => BatcherSpec
  <1>1. SegmentInit => BatcherInit
    BY DEF SegmentInit
  <1>2. [SegmentNext]_vars => [BatcherNext]_batcherVars
    BY BatcherPart DEF SegmentNext, BatcherNext, vars
  <1> QED
    BY <1>1, <1>2, PTL DEF SegmentSpec, BatcherSpec
=============================================================================
