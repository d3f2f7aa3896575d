---------------------------- MODULE GradingSync ----------------------------
(***************************************************************************)
(* The grader drives its worker threads through phases                     *)
(* (grading/grading.cpp, Sync and measure): initialisation, a number of    *)
(* timed runs, a correctness check.  Master and workers share a status     *)
(* word, a counter that is used for readiness and for completion in turn,  *)
(* and a latch; no lock protects the first two.  In the check the workers  *)
(* also meet three times at a barrier (grading/workload.hpp, check).       *)
(*                                                                         *)
(* Grain: one atomic access, or one critical section of the latch, is a    *)
(* step.  Loops that spin are steps enabled when the loop would end.  What *)
(* the workload finds is left open: a phase may end well, with an error,   *)
(* or, in the phases of ThrowIn, with an exception.                        *)
(***************************************************************************)
EXTENDS SpinBarrier

CONSTANTS
    nbrepeats,        \* number of timed runs
    Timeouts,         \* does the master give up waiting? (maxtick is valid)
    ThrowIn           \* the kinds of phase in which the workload may throw

ASSUME NbrepeatsAssumption == nbrepeats \in Nat
ASSUME TimeoutsAssumption == Timeouts \in BOOLEAN
ASSUME ThrowInAssumption == ThrowIn \subseteq {"init", "run", "check"}

VARIABLES
    status, nbready,
    errmsg,           \* has an error message been stored?
    raised,           \* the latch
    at, phase,        \* where each worker is, and in which phase
    master,           \* where the master is, in which phase, the error it returns
    reported, threw   \* workers whose phase ended with an error, with an exception

syncVars == <<status, nbready, errmsg, raised>>
workerVars == <<at, phase, reported, threw>>
vars == <<barrierVars, syncVars, workerVars, master>>

nbworkers == cardinal
LastPhase == nbrepeats + 1
Kind(p) == IF p = 0 THEN "init" ELSE IF p <= nbrepeats THEN "run" ELSE "check"
SyncsInCheck == 3

GradingTypeOK ==
    /\ BarrierTypeOK
    /\ status \in {"Wait", "Run", "Abort", "Done", "Fail", "Quit"}
    /\ nbready \in 0 .. nbworkers
    /\ errmsg \in BOOLEAN /\ raised \in BOOLEAN
    /\ at \in [Workers -> {"wait", "ready", "reset ready", "start", "await run", "work",
                           "set errmsg", "set Abort", "count", "reset done", "settle",
                           "set Done", "set Fail", "raise", "gone"}]
    /\ phase \in [Workers -> 0 .. LastPhase + 1]
    /\ master \in [at : {"notify", "wait", "judge", "join", "joining", "returned", "overrun"},
                   phase : 0 .. LastPhase, error : BOOLEAN]
    /\ reported \in SUBSET Workers /\ threw \in SUBSET Workers

GradingInit ==
    /\ BarrierInit
    /\ status = "Done" /\ nbready = 0 /\ errmsg = FALSE /\ raised = FALSE
    /\ at = [w \in Workers |-> "wait"]
    /\ phase = [w \in Workers |-> 0]
    /\ master = [at |-> "notify", phase |-> 0, error |-> FALSE]
    /\ reported = {} /\ threw = {}

GoTo(w, place) == at' = [at EXCEPT ![w] = place]
\* a step of w that touches the given shared variables only by its own conjuncts
Keeping(shared) == UNCHANGED <<barrierVars, shared, phase, reported, threw, master>>
----------------------------------------------------------------------------
(* Sync::worker_wait                                                       *)

SeeWait(w) ==
    /\ at[w] = "wait" /\ status = "Wait"
    /\ GoTo(w, "ready")
    /\ Keeping(syncVars)

SeeQuit(w) ==
    /\ at[w] = "wait" /\ status = "Quit"
    /\ GoTo(w, "gone")
    /\ Keeping(syncVars)

\* mutant: the last but one starts the phase
CountReadyEarly(w) ==
    /\ at[w] = "ready"
    /\ nbready' = nbready + 1
    /\ GoTo(w, IF nbready' = nbworkers - 1 THEN "reset ready" ELSE "await run")
    /\ Keeping(<<status, errmsg, raised>>)

CountReady(w) ==
    /\ at[w] = "ready"
    /\ nbready' = nbready + 1
    /\ GoTo(w, IF nbready' = nbworkers THEN "reset ready" ELSE "await run")
    /\ Keeping(<<status, errmsg, raised>>)

ResetReady(w) ==
    /\ at[w] = "reset ready"
    /\ nbready' = 0
    /\ GoTo(w, "start")
    /\ Keeping(<<status, errmsg, raised>>)

StartRun(w) ==
    /\ at[w] = "start"
    /\ status' = "Run"
    /\ GoTo(w, "work")
    /\ Keeping(<<nbready, errmsg, raised>>)

\* mutant: only Run is waited for, though a fast worker may have set Abort
SeeRunOnly(w) ==
    /\ at[w] = "await run" /\ status = "Run"
    /\ GoTo(w, "work")
    /\ Keeping(syncVars)

SeeRun(w) ==
    /\ at[w] = "await run" /\ status \in {"Run", "Abort"}
    /\ GoTo(w, "work")
    /\ Keeping(syncVars)
----------------------------------------------------------------------------
(* The workload: WorkloadBank::init, run or check                          *)

CheckSync(w) ==
    /\ at[w] = "work"
    /\ \/ Kind(phase[w]) = "check" /\ passed[w] < SyncsInCheck /\ Arrive(w)
       \/ SyncStep(w)
    /\ UNCHANGED <<syncVars, workerVars, master>>

\* every path through check passes the barrier as often, also those that fail
Finish(w) ==
    /\ at[w] = "work" /\ spot[w] = "out"
    /\ Kind(phase[w]) = "check" => passed[w] = SyncsInCheck
    /\ \/ GoTo(w, "count") /\ UNCHANGED reported
       \/ GoTo(w, "set errmsg") /\ reported' = reported \cup {w}
    /\ UNCHANGED <<barrierVars, syncVars, phase, threw, master>>

\* an exception, caught in the worker's function; also if there is a phase too many
Throw(w) ==
    /\ at[w] = "work" /\ spot[w] = "out"
    /\ Kind(phase[w]) \in ThrowIn \/ phase[w] > LastPhase
    /\ GoTo(w, "set errmsg")
    /\ reported' = reported \cup {w}
    /\ threw' = threw \cup {w}
    /\ UNCHANGED <<barrierVars, syncVars, phase, master>>
----------------------------------------------------------------------------
(* Sync::worker_notify                                                     *)

SetErrmsg(w) ==
    /\ at[w] = "set errmsg"
    /\ errmsg' = TRUE
    /\ GoTo(w, "set Abort")
    /\ Keeping(<<status, nbready, raised>>)

\* mutant: the status is left as it is
SetAbortForgotten(w) ==
    /\ at[w] = "set Abort"
    /\ GoTo(w, "count")
    /\ Keeping(syncVars)

SetAbort(w) ==
    /\ at[w] = "set Abort"
    /\ status' = "Abort"
    /\ GoTo(w, "count")
    /\ Keeping(<<nbready, errmsg, raised>>)

\* back to worker_wait for the next phase, or out of the worker's function
NextPhase(w) ==
    /\ GoTo(w, IF w \in threw THEN "gone" ELSE "wait")
    /\ phase' = [phase EXCEPT ![w] = @ + 1]

CountDone(w) ==
    /\ at[w] = "count"
    /\ nbready' = nbready + 1
    /\ IF nbready' = nbworkers
       THEN GoTo(w, "reset done") /\ UNCHANGED phase
       ELSE NextPhase(w)
    /\ UNCHANGED <<barrierVars, status, errmsg, raised, reported, threw, master>>

\* mutant: the counter goes on from the completions of the last phase
ResetDoneForgotten(w) ==
    /\ at[w] = "reset done"
    /\ GoTo(w, "settle")
    /\ Keeping(syncVars)

\* mutant: the latch is raised before the status is settled
ResetDoneRaises(w) ==
    /\ at[w] = "reset done"
    /\ nbready' = 0
    /\ raised' = TRUE
    /\ GoTo(w, "settle")
    /\ Keeping(<<status, errmsg>>)

ResetDone(w) ==
    /\ at[w] = "reset done"
    /\ nbready' = 0
    /\ GoTo(w, "settle")
    /\ Keeping(<<status, errmsg, raised>>)

Settle(w) ==
    /\ at[w] = "settle"
    /\ GoTo(w, IF status = "Abort" THEN "set Fail" ELSE "set Done")
    /\ Keeping(syncVars)

SetStatus(w) ==
    /\ at[w] \in {"set Done", "set Fail"}
    /\ status' = IF at[w] = "set Done" THEN "Done" ELSE "Fail"
    /\ GoTo(w, "raise")
    /\ Keeping(<<nbready, errmsg, raised>>)

\* Latch::raise
Raise(w) ==
    /\ at[w] = "raise"
    /\ raised' = TRUE
    /\ NextPhase(w)
    /\ UNCHANGED <<barrierVars, status, nbready, errmsg, reported, threw, master>>
----------------------------------------------------------------------------
(* The master: Sync::master_notify, master_wait, master_join and measure   *)

MasterNotify ==
    /\ master.at = "notify"
    /\ status' = "Wait"
    /\ master' = [master EXCEPT !.at = "wait"]
    /\ UNCHANGED <<barrierVars, nbready, errmsg, raised, workerVars>>

\* Latch::wait
MasterWait ==
    /\ master.at = "wait"
    /\ raised
    /\ raised' = FALSE
    /\ master' = [master EXCEPT !.at = "judge"]
    /\ UNCHANGED <<barrierVars, status, nbready, errmsg, workerVars>>

MasterOvertime ==
    /\ Timeouts
    /\ master.at = "wait"
    /\ ~raised
    /\ master' = [master EXCEPT !.at = "overrun"]
    /\ UNCHANGED <<barrierVars, syncVars, workerVars>>

\* any other status than Done and Fail would throw Exception::Unreachable
MasterJudge ==
    /\ master.at = "judge"
    /\ master' = IF status = "Fail"
                 THEN [master EXCEPT !.at = "join", !.error = errmsg]
                 ELSE IF status # "Done"
                 THEN [master EXCEPT !.at = "unreachable"]
                 ELSE IF master.phase = LastPhase
                 THEN [master EXCEPT !.at = "join"]
                 ELSE [master EXCEPT !.at = "notify", !.phase = @ + 1]
    /\ UNCHANGED <<barrierVars, syncVars, workerVars>>

MasterJoin ==
    /\ master.at = "join"
    /\ status' = "Quit"
    /\ master' = [master EXCEPT !.at = "joining"]
    /\ UNCHANGED <<barrierVars, nbready, errmsg, raised, workerVars>>

MasterReturn ==
    /\ master.at = "joining"
    /\ \A w \in Workers : at[w] = "gone"
    /\ master' = [master EXCEPT !.at = "returned"]
    /\ UNCHANGED <<barrierVars, syncVars, workerVars>>

WorkerStep(w) ==
    \/ SeeWait(w) \/ SeeQuit(w) \/ CountReady(w) \/ ResetReady(w) \/ StartRun(w) \/ SeeRun(w)
    \/ CheckSync(w) \/ Finish(w) \/ Throw(w)
    \/ SetErrmsg(w) \/ SetAbort(w) \/ CountDone(w) \/ ResetDone(w) \/ Settle(w)
    \/ SetStatus(w) \/ Raise(w)

MasterStep == MasterNotify \/ MasterWait \/ MasterJudge \/ MasterJoin \/ MasterReturn

GradingNext == MasterStep \/ MasterOvertime \/ \E w \in Workers : WorkerStep(w)

GradingSpec == GradingInit /\ [][GradingNext]_vars

----------------------------------------------------------------------------
(* Properties                                                              *)

(* "Threads are synchronized between each test": while a worker runs a     *)
(* phase the master waits for that phase, and every other worker has       *)
(* announced itself for it, is running it or has ended it.                 *)
PhasesInLockstep ==
    \A w \in Workers : at[w] = "work" =>
        /\ master.phase = phase[w] /\ master.at \in {"wait", "overrun"}
        /\ \A u \in Workers : \/ phase[u] = phase[w] /\ at[u] \notin {"wait", "ready"}
                              \/ phase[u] = phase[w] + 1 /\ at[u] \in {"wait", "gone"}

(* The latch is raised once in a phase, when all is settled: the master    *)
(* wakes to a verdict that is final and to workers that wait for it, and   *)
(* what it stores next overtakes nobody.                                   *)
LatchMeansDone ==
    raised \/ master.at \in {"judge", "notify"} =>
        /\ nbready = 0 /\ status \in {"Done", "Fail"}
        /\ ~raised \/ master.at = "wait" \/ master.at = "overrun"
        /\ \A w \in Workers : at[w] \in {"wait", "gone"}

(* measure returns an error exactly when some worker met one, whichever    *)
(* worker came last and whatever it found itself.                          *)
NoErrorLost ==
    /\ master.at \in {"join", "joining", "returned"} => (master.error <=> reported # {})
    /\ master.at = "notify" => reported = {}
=============================================================================
