------------------------------- MODULE Grader -------------------------------
(***************************************************************************)
(* The grader's main thread around `measure' for one library               *)
(* (grading/grading.cpp, main; transactional.hpp, TransactionalLibrary and *)
(* TransactionalMemory; common.hpp, bounded_run): the library is loaded,   *)
(* the shared memory created by a thread that is given limited time, the   *)
(* workers are run, the memory is destroyed by another such thread, the    *)
(* library unloaded; and the ways out when something fails on the way.     *)
(* Further libraries on the command line go through the same again.        *)
(***************************************************************************)
EXTENDS GradingSync

CONSTANT SpuriousReturns    \* may bounded_run's wait_for return early, unnotified?
ASSUME SpuriousReturnsAssumption == SpuriousReturns \in BOOLEAN

VARIABLES
    main,             \* where the main thread is; where the process has ended
    runner,           \* the thread of bounded_run: what it does for main
    memory,           \* the shared memory of the workload
    loaded            \* is the library loaded?

mainVars == <<main, runner, memory, loaded>>
graderVars == <<vars, mainVars>>

Exits == {"exit 0", "exit 1", "quick_exit 2", "terminate", "crash"}
Exited == main \in Exits

BoundedRunPlaces == {"guarded", "asleep", "woken", "join"}
InBoundedRun == main \in BoundedRunPlaces
\* the mutex of bounded_run: wait_for alone gives it up
GuardLocked == main \in {"guarded", "join"}

NoRunner == [is |-> "none"]

GraderTypeOK ==
    /\ GradingTypeOK
    /\ main \in {"create", "measure", "unload"} \cup BoundedRunPlaces \cup Exits
    /\ runner \in {NoRunner} \cup [is : {"running", "notifying", "over"},
                                   for : {"tm_create", "tm_destroy"}]
    /\ memory \in {"none", "created", "destroyed"}
    /\ loaded \in BOOLEAN

GraderInit ==
    /\ GradingInit
    /\ main = "create"
    /\ runner = NoRunner
    /\ memory = "none"
    /\ loaded = TRUE

Only(changed) == UNCHANGED <<vars, changed>>
----------------------------------------------------------------------------
(* bounded_run: the main thread takes the mutex before it starts the       *)
(* runner, gives it up in wait_for and has it again from there on, while   *)
(* it joins the runner too                                                 *)

BoundedRun(func) ==
    /\ main' = "guarded"
    /\ runner' = [is |-> "running", for |-> func]
    /\ UNCHANGED <<memory, loaded>>

BoundedWait ==
    /\ main = "guarded"
    /\ main' = "asleep"
    /\ Only(<<runner, memory, loaded>>)

\* func(); an exception that leaves it would leave the thread
RunnerRuns ==
    /\ InBoundedRun
    /\ runner.is = "running"
    /\ \/ /\ memory' = IF runner.for = "tm_create" THEN "created" ELSE "destroyed"
          /\ runner' = [runner EXCEPT !.is = "notifying"]
          /\ UNCHANGED main
       \/ /\ runner.for = "tm_create"      \* TransactionCreate
          /\ main' = "terminate"
          /\ UNCHANGED <<memory, runner>>
    /\ Only(loaded)

\* mutant: the mutex is not taken to notify
RunnerNotifiesUnlocked ==
    /\ InBoundedRun
    /\ runner.is = "notifying"
    /\ runner' = [runner EXCEPT !.is = "over"]
    /\ main' = IF main = "asleep" THEN "woken" ELSE main
    /\ Only(<<memory, loaded>>)

\* the runner takes the mutex, notifies and ends
RunnerNotifies ==
    /\ InBoundedRun
    /\ ~GuardLocked
    /\ runner.is = "notifying"
    /\ runner' = [runner EXCEPT !.is = "over"]
    /\ main' = IF main = "asleep" THEN "woken" ELSE main
    /\ Only(<<memory, loaded>>)

\* wait_for returns in time
BoundedWakes ==
    /\ main = "woken"
    /\ main' = "join"
    /\ Only(<<runner, memory, loaded>>)

\* wait_for returns in time though nobody has notified; it does not wait again
BoundedWakesEarly ==
    /\ SpuriousReturns
    /\ main = "asleep"
    /\ main' = "join"
    /\ Only(<<runner, memory, loaded>>)

(* wait_for returns too late, notified or not: the runner is detached and  *)
(* BoundedOverrun thrown, through the constructor of the workload, which   *)
(* takes the library with it, or out of the destructor of the memory,      *)
(* which is noexcept                                                       *)
BoundedOverrun ==
    /\ main \in {"asleep", "woken"}
    /\ main' = IF runner.for = "tm_create" THEN "unload" ELSE "terminate"
    /\ Only(<<runner, memory, loaded>>)

(* A detached runner goes on with a function, a mutex and a condition      *)
(* variable of a frame that is gone, soon in a library that is: it comes   *)
(* to an end, takes the process down, or does neither                      *)
RunnerAstray ==
    /\ main = "unload"
    /\ runner.is \in {"running", "notifying"}
    /\ \/ runner' = [runner EXCEPT !.is = "over"] /\ UNCHANGED main
       \/ main' \in {"terminate", "crash"} /\ UNCHANGED runner
    /\ Only(<<memory, loaded>>)

\* mutant: the runner is not joined
BoundedJoinForgotten ==
    /\ main = "join"
    /\ main' = IF runner.for = "tm_create" THEN "measure" ELSE "unload"
    /\ Only(<<runner, memory, loaded>>)

BoundedJoin ==
    /\ main = "join"
    /\ runner.is = "over"
    /\ main' = IF runner.for = "tm_create" THEN "measure" ELSE "unload"
    /\ Only(<<runner, memory, loaded>>)
----------------------------------------------------------------------------
(* main                                                                    *)

Create ==
    /\ main = "create"
    /\ BoundedRun("tm_create")
    /\ UNCHANGED vars

Measure ==
    /\ main = "measure"
    /\ MasterStep
    /\ UNCHANGED mainVars

MeasureOvertime ==
    /\ main = "measure"
    /\ MasterOvertime
    /\ UNCHANGED mainVars

(* measure has returned, with an error or without: the workload goes out   *)
(* of scope                                                                *)
Destroy ==
    /\ main = "measure"
    /\ master.at = "returned"
    /\ BoundedRun("tm_destroy")
    /\ UNCHANGED vars

(* "cannot unload library with running threads, so print error and         *)
(* quick-exit"                                                             *)
QuickExit ==
    /\ main = "measure"
    /\ master.at \in {"overrun", "unreachable"}
    /\ main' = "quick_exit 2"
    /\ Only(<<runner, memory, loaded>>)

Unload ==
    /\ main = "unload"
    /\ loaded
    /\ loaded' = FALSE
    /\ Only(<<main, runner, memory>>)

ReturnCode ==
    /\ main = "unload"
    /\ ~loaded
    /\ main' = IF master.at = "returned" /\ ~master.error THEN "exit 0" ELSE "exit 1"
    /\ Only(<<runner, memory, loaded>>)

MainStep ==
    \/ Create \/ BoundedWait \/ BoundedWakes \/ BoundedJoin \/ Measure \/ Destroy
    \/ QuickExit \/ Unload \/ ReturnCode

RunnerStep == ~Exited /\ (RunnerRuns \/ RunnerNotifies)
GraderWorkerStep(w) == ~Exited /\ WorkerStep(w) /\ UNCHANGED mainVars

GraderNext ==
    \/ MainStep \/ MeasureOvertime
    \/ RunnerStep \/ BoundedWakesEarly \/ BoundedOverrun \/ RunnerAstray
    \/ \E w \in Workers : GraderWorkerStep(w)

GraderSpec == GraderInit /\ [][GraderNext]_graderVars

(* The threads are scheduled, the phases of the workload and the library's *)
(* functions come to an end, and so does a wait with bounded_run's time    *)
(* limit.  Nothing obliges measure to give up, nor a detached runner to do *)
(* anything.                                                               *)
GraderFairSpec ==
    /\ GraderSpec
    /\ WF_graderVars(MainStep) /\ WF_graderVars(BoundedOverrun)
    /\ WF_graderVars(RunnerStep)
    /\ \A w \in Workers : WF_graderVars(GraderWorkerStep(w))
----------------------------------------------------------------------------
(* Properties                                                              *)

(* The workers run on a memory that is there and in a library that is      *)
(* loaded: bounded_run comes back without an exception only when its       *)
(* function is done, also when the condition variable returns early, and   *)
(* no way out of `measure' takes the memory or the library away from       *)
(* workers that are still running (grading.cpp:336).                       *)
MemoryOutlivesWorkers ==
    ~Exited /\ (\E w \in Workers : at[w] = "work") => memory = "created" /\ loaded

(* bounded_run does not sleep through the end of its function: as the main *)
(* thread holds the mutex from before the runner is started until it       *)
(* waits, the notification cannot come too early (common.hpp:272-281).     *)
RunnerIsHeard == main = "asleep" => runner.is # "over"

\* the runner waits for the mutex that main keeps while it joins the runner
JoinedInVain == main = "join" /\ runner.is = "notifying"

(* The process ends, with 0 only if every phase of every worker went well: *)
(* no thread is left spinning or joined in vain, and no error is dropped   *)
(* on the way out of main.  One thing may keep it from ending: after a     *)
(* spurious return of wait_for, bounded_run joins a runner that needs its  *)
(* mutex to notify (common.hpp:277, 285).                                  *)
GraderExits ==
    /\ <>(Exited \/ (SpuriousReturns /\ JoinedInVain))
    /\ [](main = "exit 0" => reported = {} /\ memory = "destroyed")
=============================================================================
