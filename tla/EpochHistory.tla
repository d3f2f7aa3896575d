---------------------------- MODULE EpochHistory ----------------------------
(***************************************************************************)
(* The dual-versioned memory with a history of each epoch: which words     *)
(* every transaction, named by its id, read and wrote, and how it ended.   *)
(* The history is only observed, it never constrains a step; it is started *)
(* afresh when an epoch hands out its first id.                            *)
(***************************************************************************)
EXTENDS DualVersionedMemory

VARIABLES reads, writes,   \* per transaction id, sets of words
          ended            \* ids of the transactions that ended with tm_end

historyVars == <<reads, writes, ended>>
allVars == <<vars, historyVars>>

HistoryInit ==
    /\ MemoryInit
    /\ reads = [i \in TxIds |-> {}]
    /\ writes = [i \in TxIds |-> {}]
    /\ ended = {}

Fresh ==
    /\ reads' = [i \in TxIds |-> {}]
    /\ writes' = [i \in TxIds |-> {}]
    /\ ended' = {}

BeginRecorded(t) ==
    /\ TmBegin(t)
    /\ IF tx_id_generator = 0 THEN Fresh ELSE UNCHANGED historyVars

ReadRecorded(t, w) ==
    /\ ReadWord(t, w)
    /\ reads' = IF op'[t].at = "abort" THEN reads
                ELSE [reads EXCEPT ![tx[t]] = @ \cup {w}]
    /\ UNCHANGED <<writes, ended>>

WriteRecorded(t) ==
    /\ WriteLocked(t)
    /\ writes' = IF op'[t].at = "abort" THEN writes
                 ELSE [writes EXCEPT ![tx[t]] = @ \cup {op[t].word}]
    /\ UNCHANGED <<reads, ended>>

LeaveRecorded(t) ==
    /\ TmLeave(t)
    /\ ended' = IF op[t] = Idle THEN ended \cup {tx[t]} ELSE ended
    /\ UNCHANGED <<reads, writes>>

Unrecorded(t) ==
    /\ \/ TmBeginBlocks(t) \/ TmBeginFlag(t) \/ ReadCopy(t) \/ WriteCopy(t) \/ AbortWord(t)
       \/ \E w \in Words, v \in Values : WriteWord(t, w, v)
    /\ UNCHANGED historyVars

HistoryNext ==
    \E t \in Threads :
        \/ BeginRecorded(t) \/ WriteRecorded(t) \/ LeaveRecorded(t) \/ Unrecorded(t)
        \/ \E w \in Words : ReadRecorded(t, w)

HistorySpec == HistoryInit /\ [][HistoryNext]_allVars
----------------------------------------------------------------------------
(* A refused operation has a cause in its own epoch: another transaction   *)
(* accessed the word before (it may have been aborted since: its read mark *)
(* stays until the epoch ends).  So a transaction that is alone in its     *)
(* epoch, or that touches words nobody else touches, is never aborted.     *)
Refused(t, w) ==
    /\ op'[t].at = "abort" /\ op[t].at # "abort"
    /\ \/ ReadWord(t, w)
       \/ \E v \in Values : WriteWord(t, w, v)
       \/ WriteLocked(t) /\ op[t].word = w

AbortsHaveACause ==
    [][\A t \in Threads, w \in Words :
           Refused(t, w) => \E i \in TxIds \ {tx[t]} : w \in reads[i] \cup writes[i]]_allVars

(* No update is lost: of the transactions of an epoch that ended, at most  *)
(* one wrote a word, although all of them read the same old value.         *)
NoLostUpdate ==
    \A i \in ended : \A j \in ended \ {i} : writes[i] \cap writes[j] = {}
=============================================================================
