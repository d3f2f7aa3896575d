-------------------------------- MODULE Bank --------------------------------
(***************************************************************************)
(* The grader's workload on a transactional library: BankWorkload composed *)
(* with the lock-based memory (ReferenceMemory) and with the words of the  *)
(* dual-versioned one (DualVersionedMemory).  The setting says which of    *)
(* the two a behaviour uses; the variables of the other do not change.     *)
(*                                                                         *)
(* A step of the library that returns to the worker is also the step in    *)
(* which the worker's body goes on to its next call: what it does in       *)
(* between touches nothing but its own variables.                          *)
(*                                                                         *)
(* On the dual-versioned memory the workload stays in its first segment,   *)
(* the one whose words DualVersionedMemory models: in every setting chosen *)
(* for it an alloc_tx finds room there, or an account to remove.           *)
(***************************************************************************)
EXTENDS BankWorkload, ReferenceMemory, DualVersionedMemory

ASSUME SameThreadsAssumption == Threads = Workers
ASSUME NoWriterAssumption == NoWriter \notin Workers
ASSUME OneSegmentAssumption ==
    \A s \in Settings : s.library = "dual-versioned" => SegmentSize(s.nbaccounts) = NWords

dualVars == vars
allVars == <<bankVars, referenceVars, dualVars>>

OnReference == setting.library = "reference"
OnDual == setting.library = "dual-versioned"

AllDone == \A w \in Workers : doing[w] = "done"

(* The memory when the phase begins.  Each worker has run init before run  *)
(* and check, which flips the words it writes once for each of them; with  *)
(* two workers or more both copies then hold what init wrote.              *)
DualInit(words) ==
    /\ BatcherInit
    /\ control = [w \in Words |->
                     [word_is_ro |-> /\ setting.phase # "init" /\ w \notin {NEXT, PARITY}
                                     /\ nbworkers % 2 = 1,
                      access_set |-> NONE, word_has_been_written |-> FALSE]]
    /\ words_array_A = words
    /\ words_array_B = words
    /\ is_ro_flags = [i \in TxIds |-> FALSE]
    /\ op = [t \in Threads |-> NotRunning]
    /\ target = [t \in Threads |-> NoRead]

Init ==
    /\ BankInit
    /\ ReferenceInit(FirstSegment)
    /\ DualInit(IF OnDual THEN FirstSegment ELSE [w \in Words |-> 0])
----------------------------------------------------------------------------
(* Calls of the lock-based memory                                          *)

ReferenceCalls(w, what) == OnReference /\ Calls(w, what) /\ UNCHANGED dualVars

ReferenceBegin(w) ==
    /\ ReferenceCalls(w, "begin")
    /\ RefBegin(w, doing[w] \in ReadOnly)
    /\ Enter(w)

ReferenceRead(w) ==
    /\ ReferenceCalls(w, "read")
    /\ Returned(w, RefReads(Pending(w).seg, Pending(w).off))
    /\ UNCHANGED referenceVars

ReferenceWrite(w) ==
    /\ ReferenceCalls(w, "write")
    /\ RefWrite(Pending(w).seg, Pending(w).off, Pending(w).val)
    /\ Returned(w, Null)

ReferenceAlloc(w) ==
    /\ ReferenceCalls(w, "alloc")
    /\ \E s \in 1 .. MaxSegments :
           RefAlloc(s, SegmentSize(setting.nbaccounts)) /\ Returned(w, s)

ReferenceAllocFails(w) ==
    /\ ReferenceCalls(w, "alloc")
    /\ RefAllocFails
    /\ Unwound(w)

ReferenceFree(w) ==
    /\ ReferenceCalls(w, "free")
    /\ RefFree(Pending(w).seg)
    /\ Returned(w, Null)

ReferenceEnd(w) ==
    /\ ReferenceCalls(w, "end")
    /\ RefEnd(w)
    /\ Ended(w)

ReferenceStep(w) ==
    \/ ReferenceBegin(w) \/ ReferenceRead(w) \/ ReferenceWrite(w)
    \/ ReferenceAlloc(w) \/ ReferenceAllocFails(w) \/ ReferenceFree(w)
    \/ ReferenceEnd(w)

(* The workload is destroyed, and its memory with it, when the workers     *)
(* have been joined.                                                       *)
Destroy ==
    /\ OnReference
    /\ AllDone
    /\ RefDestroyNode \/ RefDestroyRegion
    /\ UNCHANGED <<bankVars, dualVars>>
----------------------------------------------------------------------------
(* Calls of the dual-versioned memory                                      *)

DualCalls(w, what) == OnDual /\ Calls(w, what)

DualBegin(w) ==
    /\ \/ DualCalls(w, "begin") /\ EnterFirst(w)
       \/ Resume(w)
    /\ GoTo(w, Begun)
    /\ UNCHANGED <<control, words_array_A, words_array_B, is_ro_flags, target, bankVars,
                   referenceVars>>

DualBeginBlocks(w) ==
    /\ DualCalls(w, "begin")
    /\ TmBeginBlocks(w)
    /\ UNCHANGED <<bankVars, referenceVars>>

DualBeginFlag(w) ==
    /\ TmBeginFlag(w)
    /\ is_ro_flags'[tx[w]] = (doing[w] \in ReadOnly)
    /\ Enter(w)
    /\ UNCHANGED referenceVars

\* a word operation is issued, goes on, or is refused and taken back
DualCall(w) ==
    /\ \/ DualCalls(w, "read") /\ ReadWord(w, Pending(w).off)
       \/ DualCalls(w, "write") /\ WriteWord(w, Pending(w).off, Pending(w).val)
       \/ WriteLocked(w)
       \/ AbortWord(w)
    /\ UNCHANGED <<bankVars, referenceVars>>

\* tm_read or tm_write returns true
DualReturn(w) ==
    /\ \/ ReadCopy(w) /\ Returned(w, target'[w][2])
       \/ WriteCopy(w) /\ Returned(w, Null)
    /\ UNCHANGED referenceVars

\* tm_end returns
DualEnd(w) ==
    /\ op[w] = Idle
    /\ TmLeave(w)
    /\ Ended(w)
    /\ UNCHANGED referenceVars

\* tm_read or tm_write returns false
DualRefused(w) ==
    /\ op[w].at = "abort"
    /\ TmLeave(w)
    /\ Retry(w)
    /\ UNCHANGED referenceVars

DualStep(w) ==
    \/ DualBegin(w) \/ DualBeginBlocks(w) \/ DualBeginFlag(w)
    \/ DualCall(w) \/ DualReturn(w) \/ DualEnd(w) \/ DualRefused(w)
----------------------------------------------------------------------------
WorkerAlone(w) == Alone(w) /\ UNCHANGED <<referenceVars, dualVars>>

WorkerStep(w) == WorkerAlone(w) \/ ReferenceStep(w) \/ DualStep(w)

Next == Destroy \/ \E w \in Workers : WorkerStep(w)

Spec == Init /\ [][Next]_allVars

(* Some thread that can run does, whichever: neither the scheduler nor the *)
(* readers-writer lock nor the batcher's mutex need be fair, as a worker   *)
(* that waits is let in at the latest when the others have run out of      *)
(* transactions.                                                           *)
FairSpec == Spec /\ WF_allVars(Next)
----------------------------------------------------------------------------
(* Properties                                                              *)

(* Everything the workers have and the locks: a writer of the lock-based   *)
(* memory is alone.                                                        *)
BankTypeOK ==
    /\ doing \in [Workers -> Transactions \cup {"start", "sync", "done"}]
    /\ \A w \in Workers :
        /\ Len(todo[w]) <= setting.nbaccounts + 3
        /\ cntr[w] \in 0 .. setting.nbtxperwrk /\ passed[w] \in 0 .. 3
        /\ todo[w] = <<>> <=> doing[w] \in {"start", "sync", "done"}
    /\ writer \in Workers \cup {NoWriter} /\ readers \subseteq Workers
    /\ writer # NoWriter => readers = {}
    /\ DOMAIN content \subseteq 1 .. MaxSegments

(* The grader never reports a violation: no long transaction sees money    *)
(* made or lost, no read misses a committed write, and the counter that    *)
(* the workers of check decrease together ends at zero (workload.hpp:292,  *)
(* 309, 320, 348, 373, 385).                                               *)
NoViolationReported == violated = {}

(* What is committed: the lock-based memory when nobody writes, and the    *)
(* read-only copies.                                                       *)
CommittedSegments ==
    IF OnReference THEN content ELSE [s \in {Region} |-> [w \in Words |-> RoCopy(w)]]

NextSegments(mem) == {mem[s][NEXT] : s \in DOMAIN mem} \ {Null}

Held(mem, s) ==
    LET held[n \in 0 .. setting.nbaccounts] ==
            IF n = 0 THEN mem[s][PARITY] ELSE held[n - 1] + mem[s][Account(n - 1)]
    IN  held[mem[s][COUNT]]

Total(mem, Of(_, _)) ==
    LET total[n \in 0 .. MaxSegments] ==
            IF n = 0 THEN 0
            ELSE total[n - 1] + (IF n \in DOMAIN mem THEN Of(mem, n) ELSE 0)
    IN  total[MaxSegments]

Counted(mem, s) == mem[s][COUNT]

(* "no money should ever be destroyed or created out of thin air"          *)
(* (workload.hpp:180): in the committed memory the accounts and parities   *)
(* hold the initial balance once for each account that is counted, however *)
(* transfers, removals of accounts and refused transactions mix.           *)
MoneyConserved ==
    setting.phase = "run" /\ writer = NoWriter /\ ~AllDone =>
        Total(CommittedSegments, Held)
            = setting.init_balance * Total(CommittedSegments, Counted)

(* When nobody writes, the segments that are allocated, those the accounts *)
(* are linked in by segment.next, and those in the library's own list, are *)
(* the same, each once; so tm_destroy, which follows the list, leaves none *)
(* behind and frees none twice (reference/tm.c:87).                        *)
SegmentsLinked ==
    OnReference /\ writer = NoWriter =>
        /\ DOMAIN node = DOMAIN content \ {Region}
        /\ ~AllDone =>
            /\ WellLinked
            /\ NextSegments(content) = DOMAIN node
            /\ \A s, r \in DOMAIN content :
                   content[s][NEXT] = content[r][NEXT] /\ s # r => content[s][NEXT] = Null

(* No transaction reads, writes or frees what another has freed: whatever  *)
(* address it follows leads into a segment that is allocated.              *)
AccessesAllocated ==
    \A w \in Workers : (Calls(w, "read") \/ Calls(w, "write") \/ Calls(w, "free")) =>
        LET c == Pending(w) IN
        /\ c.seg \in DOMAIN content
        /\ c.do = "free" => c.seg \in DOMAIN node
        /\ c.do # "free" => c.off \in DOMAIN FirstSegment

(* Every worker gets to the end of its phase and the memory is destroyed:  *)
(* on the lock-based memory no transaction waits for ever, and on the      *)
(* other one transactions that abort and are run again do not keep each    *)
(* other from committing.  (The phase run is left out where accounts can   *)
(* be removed, as a transfer may then ask for missing accounts again and   *)
(* again, and on the dual-versioned memory, where transfers in opposite    *)
(* directions may abort each other again and again.)                       *)
Terminating ==
    \/ setting.phase # "run"
    \/ OnReference /\ "alloc" \notin setting.kinds
WorkersFinish == <>(Terminating => AllDone /\ (OnReference => Destroyed))
=============================================================================
