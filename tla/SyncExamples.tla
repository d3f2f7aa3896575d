---------------------------- MODULE SyncExamples ----------------------------
(***************************************************************************)
(* The twelve programs of sync-examples: a behaviour is a run of one.      *)
(***************************************************************************)
EXTENDS SharedCounter, LeaderElection, ProducerConsumer

vars == <<threadVars, counterVars, electionVars, bufferVars>>

ExamplesTypeOK ==
    /\ pc \in [Threads -> {"end", "read", "write", "add", "test", "claim", "count", "swap",
                           "poll", "copy1", "copy2", "publish",
                           "acquire", "release", "wake"}]
    /\ round \in [Threads -> 0 .. RUNS]
    /\ mutex \in Threads \cup {Free}
    /\ mutex # Free => pc[mutex] \notin {"end", "acquire", "wake"}
    /\ cv \subseteq {t \in Threads : pc[t] = "acquire"}
    /\ counter \in 0 .. RUNS * THREADS
    /\ copy \in [Threads -> 0 .. RUNS * THREADS]
    /\ leader \in [Rounds -> Threads \cup {NoLeader}]
    /\ nb_leaders \in [Rounds -> 0 .. THREADS]
    /\ buffer \in [0 .. BUFFER_SIZE - 1 -> [Halves -> 0 .. RUNS]]
    /\ produced \in [Items -> [Halves -> 0 .. RUNS]]
    /\ consumed \in [Items -> [Halves -> 0 .. RUNS]]
    /\ produced_until \in 0 .. RUNS
    /\ consumed_until \in 0 .. RUNS

ExamplesInit ==
    /\ CounterLaunch \/ ElectionLaunch \/ BufferLaunch
    /\ CounterStart /\ ElectionStart /\ BufferStart

ThreadStep(t) ==
    /\ \/ CounterStep(t) /\ UNCHANGED <<electionVars, bufferVars>>
       \/ ElectionStep(t) /\ UNCHANGED <<counterVars, bufferVars>>
       \/ BufferStep(t) /\ UNCHANGED <<counterVars, electionVars>>
    /\ UNCHANGED program

Spuriously(t) == WakeSpuriously(t) /\ UNCHANGED <<program, counterVars, electionVars>>

ExamplesNext == \E t \in Threads : ThreadStep(t) \/ Spuriously(t)

ExamplesSpec == ExamplesInit /\ [][ExamplesNext]_vars

(* The threads are scheduled.  A thread that asks for the lock again and   *)
(* again, polling (procon2) or woken for nothing (procon4), does not keep  *)
(* the other, who finds the mutex free each time in between, from it.      *)
ExamplesFairSpec ==
    /\ ExamplesSpec
    /\ \A t \in Threads :
          /\ WF_vars(ThreadStep(t))
          /\ SF_vars(TakesTheLock(t) /\ UNCHANGED <<program, counterVars, electionVars>>)

(* main's joins return: nobody sleeps through the wake-up meant for him,   *)
(* or polls for what will not come.                                        *)
EveryoneFinishes == <>Joined
=============================================================================
