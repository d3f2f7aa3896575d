---------------------------- MODULE SegmentTable ----------------------------
(***************************************************************************)
(* The segment table of a region (275085/tm.c, segment.c, stack.c).        *)
(* tm_alloc takes an index from the stack of free ones or extends the      *)
(* table, tm_free marks a segment as deregistered by its transaction, an   *)
(* aborting transaction takes its marks back, and the end of an epoch      *)
(* pushes the marked segments on the stack.                                *)
(*                                                                         *)
(* What the words of a segment hold is the business of                     *)
(* DualVersionedMemory; here a transaction may abort between any two       *)
(* calls, as its reads and writes can make it.                             *)
(*                                                                         *)
(* Grain: global_lock is held in tm_alloc, tm_free and in part of the      *)
(* abort loop.  tm_alloc is two steps, as the abort loop reads n_segments  *)
(* and the segments without the lock; the end of an epoch takes the        *)
(* batcher's lock only.                                                    *)
(***************************************************************************)
EXTENDS Batcher, Sequences

CONSTANTS
    MaxSegments,      \* bound: indices the table can reach
    MaxFree           \* bound: how far the stack of free indices may grow

ASSUME MaxSegmentsAssumption == MaxSegments \in Nat \ {0}
ASSUME MaxFreeAssumption == MaxFree \in Nat

Indices == 0 .. MaxSegments - 1
NONE == 1048575       \* 0xFFFFF: not deregistered (segment.h)
Nobody == "nobody"    \* global_lock is free
ASSUME NobodyAssumption == Nobody \notin Threads

MaxTransactions == 65536    \* MAX_NUM_SEGMENTS, the length of is_ro_flags
ASSUME FewThreadsAssumption == Cardinality(Threads) <= MaxTransactions

VARIABLES
    n_segments,
    segments,         \* per index: deregistered; ready once init_segment is done
    free_seg_indices, \* the stack, its top at the end
    global_lock,      \* the thread that holds it, or Nobody
    op,               \* the call each thread is in
    \* what clients know, which bounds the addresses they may pass:
    live,             \* segments of the epoch's snapshot
    allocated, freed, \* by each thread's running transaction
    newLive, newFreed,\* by the epoch's transactions that ended with tm_end
    shared            \* indices handed out while a client had their address

tableVars == <<n_segments, segments, free_seg_indices, global_lock, op>>
clientVars == <<live, allocated, freed, newLive, newFreed, shared>>
vars == <<batcherVars, tableVars, clientVars>>

Idle == [at |-> "idle"]
NotRunning == [at |-> "not running"]

SegmentTypeOK ==
    /\ n_segments \in 1 .. MaxSegments
    /\ segments \in [Indices -> [deregistered : Nat, ready : BOOLEAN]]
    /\ free_seg_indices \in Seq(Indices)
    /\ global_lock \in Threads \cup {Nobody}
    /\ op \in [Threads -> {Idle, NotRunning}
                   \cup [at : {"alloc", "scan"}, index : Indices]
                   \cup [at : {"abort"}, index : 0 .. MaxSegments]]
    /\ live \in SUBSET Indices /\ newLive \in SUBSET Indices
    /\ newFreed \in SUBSET Indices /\ shared \in SUBSET Indices
    /\ allocated \in [Threads -> SUBSET Indices] /\ freed \in [Threads -> SUBSET Indices]
----------------------------------------------------------------------------
SegmentInit ==
    /\ BatcherInit
    /\ n_segments = 1
    /\ segments = [i \in Indices |-> [deregistered |-> NONE, ready |-> i = 0]]
    /\ free_seg_indices = <<>>
    /\ global_lock = Nobody
    /\ op = [t \in Threads |-> NotRunning]
    /\ live = {} /\ newLive = {} /\ newFreed = {} /\ shared = {}
    /\ allocated = [t \in Threads |-> {}] /\ freed = [t \in Threads |-> {}]

GoTo(t, next) == op' = [op EXCEPT ![t] = next]

TmBegin(t) ==
    /\ EnterFirst(t) \/ Resume(t)
    /\ GoTo(t, Idle)
    /\ UNCHANGED <<n_segments, segments, free_seg_indices, global_lock, clientVars>>

TmBeginBlocks(t) ==
    /\ EnterBlock(t) \/ SpuriousWakeup(t)
    /\ UNCHANGED <<tableVars, clientVars>>

\* the stack of free indices
Top(stack) == stack[Len(stack)]
Pop(stack) == SubSeq(stack, 1, Len(stack) - 1)

\* add_segment: the table grows before the new segment is built
AddSegment(t) ==
    /\ n_segments < MaxSegments
    /\ n_segments' = n_segments + 1
    /\ GoTo(t, [at |-> "alloc", index |-> n_segments])
    /\ UNCHANGED <<segments, free_seg_indices>>

\* or a free index is popped, and its segment is about to be rebuilt
ReuseSegment(t) ==
    LET i == Top(free_seg_indices) IN
    /\ free_seg_indices' = Pop(free_seg_indices)
    /\ segments' = [segments EXCEPT ![i].ready = FALSE]
    /\ GoTo(t, [at |-> "alloc", index |-> i])
    /\ UNCHANGED n_segments

\* tm_alloc takes the lock and finds an index
AllocIndex(t) ==
    /\ op[t] = Idle
    /\ global_lock = Nobody
    /\ global_lock' = t
    /\ IF free_seg_indices = <<>> THEN AddSegment(t) ELSE ReuseSegment(t)
    /\ UNCHANGED <<batcherVars, clientVars>>

\* init_segment: fresh words, no deregistration
InitSegment(i) ==
    segments' = [segments EXCEPT ![i] = [deregistered |-> NONE, ready |-> TRUE]]

InUse == live \cup newLive \cup UNION {allocated[t] : t \in Threads}

\* the segment is built, and tm_alloc returns its address
AllocInit(t) ==
    /\ op[t].at = "alloc"
    /\ InitSegment(op[t].index)
    /\ global_lock' = Nobody
    /\ allocated' = [allocated EXCEPT ![t] = @ \cup {op[t].index}]
    /\ shared' = shared \cup ({op[t].index} \cap InUse)
    /\ GoTo(t, Idle)
    /\ UNCHANGED <<batcherVars, n_segments, free_seg_indices, live, freed, newLive, newFreed>>

\* mutant: a segment is deregistered whether or not another transaction did so
TmFreeUnchecked(t, i) ==
    /\ op[t] = Idle
    /\ i \in (live \cup allocated[t]) \ freed[t]
    /\ global_lock = Nobody
    /\ segments' = [segments EXCEPT ![i].deregistered = tx[t]]
    /\ freed' = [freed EXCEPT ![t] = @ \cup {i}]
    /\ UNCHANGED <<batcherVars, n_segments, free_seg_indices, global_lock, op, live,
                   allocated, newLive, newFreed, shared>>

\* tm_free of a segment t's transaction can see and did not free itself
TmFree(t, i) ==
    /\ op[t] = Idle
    /\ i \in (live \cup allocated[t]) \ freed[t]
    /\ global_lock = Nobody
    /\ IF segments[i].deregistered = NONE
       THEN /\ segments' = [segments EXCEPT ![i].deregistered = tx[t]]
            /\ freed' = [freed EXCEPT ![t] = @ \cup {i}]
            /\ UNCHANGED op
       ELSE /\ segments[i].deregistered # tx[t] => GoTo(t, [at |-> "abort", index |-> 0])
            /\ segments[i].deregistered = tx[t] => UNCHANGED op
            /\ UNCHANGED <<segments, freed>>
    /\ UNCHANGED <<batcherVars, n_segments, free_seg_indices, global_lock, live,
                   allocated, newLive, newFreed, shared>>

\* a read_word or write_word of t's transaction is refused
Conflict(t) ==
    /\ op[t] = Idle
    /\ GoTo(t, [at |-> "abort", index |-> 0])
    /\ UNCHANGED <<batcherVars, n_segments, segments, free_seg_indices, global_lock, clientVars>>

\* mutant: off by one, the loop runs to n_segments included
AbortScanPastEnd(t) ==
    /\ op[t].at = "abort"
    /\ op[t].index <= n_segments
    /\ GoTo(t, [op[t] EXCEPT !.at = "scan"])
    /\ UNCHANGED <<batcherVars, n_segments, segments, free_seg_indices, global_lock, clientVars>>

\* abort_transaction_tx goes through the words of the next segment, no lock held
AbortScan(t) ==
    /\ op[t].at = "abort"
    /\ op[t].index < n_segments
    /\ GoTo(t, [op[t] EXCEPT !.at = "scan"])
    /\ UNCHANGED <<batcherVars, n_segments, segments, free_seg_indices, global_lock, clientVars>>

\* mutant: an aborting transaction leaves its deregistrations in place
AbortKeepsDeregistered(t) ==
    /\ op[t].at = "scan"
    /\ global_lock = Nobody
    /\ GoTo(t, [at |-> "abort", index |-> op[t].index + 1])
    /\ UNCHANGED <<batcherVars, n_segments, segments, free_seg_indices, global_lock, clientVars>>

\* then it takes its deregistration back, with the lock
AbortDeregister(t) ==
    /\ op[t].at = "scan"
    /\ global_lock = Nobody
    /\ LET i == op[t].index IN
       /\ segments' = IF segments[i].deregistered = tx[t]
                      THEN [segments EXCEPT ![i].deregistered = NONE]
                      ELSE segments
       /\ GoTo(t, [at |-> "abort", index |-> i + 1])
    /\ UNCHANGED <<batcherVars, n_segments, free_seg_indices, global_lock, clientVars>>

\* commit_transcations_in_epoch: push what is deregistered, in index order
CommitSegments ==
    LET marked == {i \in 0 .. n_segments - 1 : segments[i].deregistered # NONE}
        places == 1 .. Cardinality(marked)
    IN  \E pushed \in [places -> marked] :
            /\ \A j, k \in places : j < k => pushed[j] < pushed[k]
            /\ free_seg_indices' = free_seg_indices \o pushed
            /\ Len(free_seg_indices') <= MaxFree

\* tm_end, or the end of abort_transaction_tx: leave_batcher
TmLeave(t) ==
    /\ \/ op[t] = Idle
       \/ op[t].at = "abort" /\ op[t].index >= n_segments
    /\ LET ends == op[t] = Idle
           born == newLive \cup (IF ends THEN allocated[t] ELSE {})
           gone == newFreed \cup (IF ends THEN freed[t] ELSE {})
       IN  \/ /\ LeaveLast(t)
              /\ CommitSegments
              /\ live' = (live \cup born) \ gone
              /\ newLive' = {} /\ newFreed' = {}
           \/ /\ LeaveEarly(t)
              /\ newLive' = born /\ newFreed' = gone
              /\ UNCHANGED <<free_seg_indices, live>>
    /\ GoTo(t, NotRunning)
    /\ allocated' = [allocated EXCEPT ![t] = {}]
    /\ freed' = [freed EXCEPT ![t] = {}]
    /\ UNCHANGED <<n_segments, segments, global_lock, shared>>

SegmentStep(t) ==
    \/ TmBegin(t) \/ TmBeginBlocks(t) \/ AllocIndex(t) \/ AllocInit(t) \/ Conflict(t)
    \/ AbortScan(t) \/ AbortDeregister(t) \/ TmLeave(t)
    \/ \E i \in Indices : TmFree(t, i)

SegmentNext == \E t \in Threads : SegmentStep(t)
SegmentSpec == SegmentInit /\ [][SegmentNext]_vars
----------------------------------------------------------------------------
(* Properties                                                              *)

Aborting(t) == op[t].at \in {"abort", "scan"}

(* Two transactions of an epoch that both end have not freed the same      *)
(* segment: the second tm_free aborts its transaction, unless the first    *)
(* aborted and took its mark back.  (An index handed out twice is apart:   *)
(* AllocationIsFresh.)                                                     *)
NoDoubleFree ==
    \A t \in Threads : ~Aborting(t) =>
        /\ freed[t] \cap newFreed \subseteq shared
        /\ \A u \in Threads \ {t} : ~Aborting(u) => freed[t] \cap freed[u] \subseteq shared

(* A segment clients can use is marked for recycling only by a transaction *)
(* of this epoch that freed it and has ended, is running, or is still      *)
(* taking its marks back: what the end of an epoch pushes on the stack for *)
(* the first time, nobody has a right to use any more.                     *)
MarkedMeansFreed ==
    \A i \in (live \cup newLive) \ shared :
        segments[i].deregistered # NONE =>
            i \in newFreed \cup UNION {freed[t] : t \in Threads}

(* The end of an epoch reads the table and changes the stack under the     *)
(* batcher's lock, while tm_alloc, tm_free and the abort loop do so under  *)
(* global_lock: when the one happens, nobody is in the others.             *)
CommitMeetsNobody ==
    [][\A t \in Threads :
          LeaveLast(t) => /\ global_lock = Nobody
                          /\ \A u \in Threads \ {t} : op[u] = NotRunning]_vars

(* tm_alloc gives "the newly allocated, aligned segment" (tm.c:256): one   *)
(* whose address no client has.                                            *)
AllocationIsFresh == shared = {}

(* abort_transaction_tx goes through the words of segments that exist, and *)
(* that nobody rebuilds meanwhile.                                         *)
ScansReadySegments ==
    \A t \in Threads : op[t].at = "scan" => segments[op[t].index].ready
=============================================================================
