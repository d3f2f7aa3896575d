--------------------------- MODULE ExampleProofs ---------------------------
(***************************************************************************)
(* Proofs about the programs of sync-examples, for any number of threads,  *)
(* of rounds and of slots in the buffer: what the comments of the programs *)
(* call correct, and how wrong the others can be.  First the threads and   *)
(* the lock of lock.c, then the counters, the elections and the buffers.   *)
(***************************************************************************)
EXTENDS SyncExamples, FiniteSetTheorems, TLAPS

(* Threads: which steps belong to the program, who holds the lock in which *)
(* step, who sleeps.                                                       *)

Counters == {"counter1", "counter2", "counter3", "counter4"}
Elections == {"election1", "election2", "election3", "election4"}
Buffers == {"procon1", "procon2", "procon3", "procon4"}
Steps == {"end", "read", "write", "add", "test", "claim", "count", "swap", "poll",
          "copy1", "copy2", "publish", "acquire", "release", "wake"}

Locking == {"counter2", "election2", "procon2", "procon4"}
Locked == {"read", "write", "test", "claim", "count", "copy1", "copy2", "publish", "release"}

Belongs(s) ==
    \/ s = "end"
    \/ s \in {"acquire", "release"} /\ program \in Locking
    \/ s \in {"read", "write"} /\ program \in {"counter1", "counter2", "counter3"}
    \/ s = "add" /\ program = "counter4"
    \/ s \in {"test", "claim"} /\ program \in {"election1", "election2", "election3"}
    \/ s = "count" /\ program \in Elections
    \/ s = "swap" /\ program = "election4"
    \/ s = "poll" /\ program = "procon3"
    \/ s = "test" /\ program \in {"procon2", "procon4"}
    \/ s \in {"copy1", "copy2"} /\ program \in Buffers
    \/ s = "publish" /\ program \in {"procon2", "procon3", "procon4"}
    \/ s = "wake" /\ program = "procon4"

ThreadInv ==
    /\ program \in Counters \cup Elections \cup Buffers
    /\ pc \in [Threads -> Steps]
    /\ round \in [Threads -> 0 .. RUNS]
    /\ mutex \in Threads \cup {Free}
    /\ \A t \in Threads :
          /\ Belongs(pc[t])
          /\ pc[t] # "end" => round[t] < RUNS
          /\ pc[t] = "end" => round[t] = RUNS \/ (program \in Buffers /\ t \notin {1, 2})
          /\ program \in Buffers /\ t \notin {1, 2} => pc[t] = "end"
          /\ mutex = t <=> program \in Locking /\ pc[t] \in Locked
    /\ cv \subseteq {t \in Threads : pc[t] = "acquire"}
    /\ program # "procon4" => cv = {}

LEMMA Constants ==
    /\ THREADS \in Nat /\ THREADS >= 2 /\ RUNS \in Nat /\ RUNS >= 2
    /\ 1 \in Threads /\ 2 \in Threads /\ Free \notin Threads
    /\ \A t \in Threads : t \in Nat
  BY THREADSAssumption, RUNSAssumption DEF Threads, Free

(* A step of one thread.                                                   *)
LEMMA Goes ==
    ASSUME ThreadInv, NEW t \in Threads, NEW s \in Steps, GoTo(t, s)
    PROVE  /\ pc' \in [Threads -> Steps] /\ pc'[t] = s
           /\ \A u \in Threads : u # t => pc'[u] = pc[u]
<1>1. pc \in [Threads -> Steps] /\ pc' = [pc EXCEPT ![t] = s]
  BY DEF ThreadInv, GoTo
<1>2. QED
  BY <1>1

LEMMA RoundGoes ==
    ASSUME ThreadInv, NEW t \in Threads, NEW s \in Steps, NextRound(t, s), pc[t] # "end", s # "end"
    PROVE  /\ round' \in [Threads -> 0 .. RUNS] /\ round'[t] = round[t] + 1
           /\ \A u \in Threads : u # t => round'[u] = round[u]
           /\ pc' \in [Threads -> Steps]
           /\ \A u \in Threads : u # t => pc'[u] = pc[u]
           /\ \/ pc'[t] = "end" /\ round'[t] = RUNS
              \/ pc'[t] = s /\ round'[t] < RUNS
           /\ round[t] \in Nat
<1>1. round \in [Threads -> 0 .. RUNS] /\ round[t] < RUNS /\ RUNS \in Nat
  BY Constants DEF ThreadInv
<1>2. round[t] \in Nat /\ round[t] + 1 \in 0 .. RUNS
  BY <1>1
<1>3. round' = [round EXCEPT ![t] = round[t] + 1]
  BY DEF NextRound
<1>4. /\ round' \in [Threads -> 0 .. RUNS] /\ round'[t] = round[t] + 1
      /\ \A u \in Threads : u # t => round'[u] = round[u]
  BY <1>1, <1>2, <1>3
<1> DEFINE next == IF round[t] + 1 = RUNS THEN "end" ELSE s
<1>5. GoTo(t, next) /\ next \in Steps
  BY DEF NextRound, Steps
<1>6. /\ pc' \in [Threads -> Steps] /\ pc'[t] = next
      /\ \A u \in Threads : u # t => pc'[u] = pc[u]
  BY <1>5, Goes
<1>7. \/ next = "end" /\ round[t] + 1 = RUNS
      \/ next = s /\ round[t] + 1 < RUNS
  BY <1>1, <1>2
<1> HIDE DEF next
<1>8. QED
  BY <1>2, <1>4, <1>6, <1>7

LEMMA ThreadGoes ==
    ASSUME ThreadInv, NEW t \in Threads, pc[t] # "end", program' = program,
           pc' \in [Threads -> Steps], \A u \in Threads : u # t => pc'[u] = pc[u],
           round' \in [Threads -> 0 .. RUNS], \A u \in Threads : u # t => round'[u] = round[u],
           Belongs(pc'[t]),
           pc'[t] = "end" => round'[t] = RUNS,
           pc'[t] # "end" => round'[t] < RUNS,
           mutex' = t <=> program \in Locking /\ pc'[t] \in Locked,
           mutex' = mutex \/ (mutex \in {t, Free} /\ mutex' \in {t, Free}),
           cv' \subseteq cv \cup {t}, t \in cv' => pc'[t] = "acquire",
           program # "procon4" => cv' = cv
    PROVE  ThreadInv'
<1>1. mutex' \in Threads \cup {Free}
  BY DEF ThreadInv
<1>2. ASSUME NEW u \in Threads
      PROVE  /\ Belongs(pc[u])'
             /\ pc'[u] # "end" => round'[u] < RUNS
             /\ pc'[u] = "end" => round'[u] = RUNS \/ (program' \in Buffers /\ u \notin {1, 2})
             /\ program' \in Buffers /\ u \notin {1, 2} => pc'[u] = "end"
             /\ mutex' = u <=> program' \in Locking /\ pc'[u] \in Locked
  <2>1. CASE u = t
    <3>1. Belongs(pc[t])'
      BY DEF Belongs
    <3>2. program \in Buffers => t \in {1, 2}
      BY DEF ThreadInv
    <3> QED
      BY <2>1, <3>1, <3>2
  <2>2. CASE u # t
    <3>1. pc'[u] = pc[u] /\ round'[u] = round[u]
      BY <2>2
    <3>2. Belongs(pc[u])'
      BY <3>1 DEF ThreadInv, Belongs
    <3>3. mutex' = u <=> mutex = u
      BY <2>2, Constants
    <3> QED
      BY <3>1, <3>2, <3>3 DEF ThreadInv
  <2> QED
    BY <2>1, <2>2
<1>3. cv' \subseteq {u \in Threads : pc'[u] = "acquire"}
  BY DEF ThreadInv
<1>4. program' # "procon4" => cv' = {}
  BY DEF ThreadInv
<1>5. QED
  BY <1>1, <1>2, <1>3, <1>4 DEF ThreadInv, Threads

(* A step in the round ...                                                 *)
LEMMA Stays ==
    ASSUME ThreadInv, NEW t \in Threads, pc[t] # "end", UNCHANGED <<program, round>>,
           NEW s \in Steps, s # "end", GoTo(t, s), Belongs(s),
           mutex' = t <=> program \in Locking /\ s \in Locked,
           mutex' = mutex \/ (mutex \in {t, Free} /\ mutex' \in {t, Free}),
           cv' \subseteq cv \cup {t}, t \in cv' => s = "acquire", program # "procon4" => cv' = cv
    PROVE  /\ ThreadInv' /\ pc'[t] = s
           /\ \A u \in Threads : u # t => pc'[u] = pc[u]
<1>1. /\ pc' \in [Threads -> Steps] /\ pc'[t] = s
      /\ \A u \in Threads : u # t => pc'[u] = pc[u]
  BY Goes
<1>2. round' \in [Threads -> 0 .. RUNS] /\ round'[t] < RUNS
  BY DEF ThreadInv
<1>3. QED
  BY <1>1, <1>2, ThreadGoes

(* ... and one that ends it, without the lock.                             *)
LEMMA EndsRound ==
    ASSUME ThreadInv, NEW t \in Threads, pc[t] # "end", UNCHANGED program,
           NEW s \in Steps, s # "end", NextRound(t, s), Belongs(s),
           s \notin Locked \/ program \notin Locking, mutex' # t, mutex' = mutex \/ (mutex = t /\ mutex' = Free),
           cv' \subseteq cv, program # "procon4" => cv' = cv, t \notin cv'
    PROVE  /\ ThreadInv'
           /\ round'[t] = round[t] + 1 /\ round[t] \in Nat
           /\ \A u \in Threads : u # t => round'[u] = round[u] /\ pc'[u] = pc[u]
           /\ \/ pc'[t] = "end" /\ round'[t] = RUNS
              \/ pc'[t] = s /\ round'[t] < RUNS
<1>1. /\ round' \in [Threads -> 0 .. RUNS] /\ round'[t] = round[t] + 1
      /\ \A u \in Threads : u # t => round'[u] = round[u]
      /\ pc' \in [Threads -> Steps]
      /\ \A u \in Threads : u # t => pc'[u] = pc[u]
      /\ \/ pc'[t] = "end" /\ round'[t] = RUNS
         \/ pc'[t] = s /\ round'[t] < RUNS
      /\ round[t] \in Nat
  BY RoundGoes
<1>2. Belongs(pc'[t]) /\ ~(program \in Locking /\ pc'[t] \in Locked)
  BY <1>1 DEF Belongs, Locked
<1>3. /\ pc'[t] = "end" => round'[t] = RUNS
      /\ pc'[t] # "end" => round'[t] < RUNS
  BY <1>1, Constants
<1>4. ThreadInv'
  BY <1>1, <1>2, <1>3, ThreadGoes
<1>5. QED
  BY <1>1, <1>4

LEMMA LaunchStarts ==
    ASSUME NEW name, NEW threads, NEW first \in Steps, Launch(name, threads, first),
           \/ name \in Counters \cup Elections /\ threads = Threads
           \/ name \in Buffers /\ threads = {1, 2},
           first # "end", first \notin Locked \/ name \notin Locking, Belongs(first)
    PROVE  ThreadInv
<1>1. /\ program = name /\ mutex = Free /\ cv = {}
      /\ pc = [t \in Threads |-> IF t \in threads THEN first ELSE "end"]
      /\ round = [t \in Threads |-> 0]
  BY DEF Launch, lock_init
<1>2. pc \in [Threads -> Steps] /\ \A t \in Threads : pc[t] = IF t \in threads THEN first ELSE "end"
  BY <1>1 DEF Steps
<1>3. round \in [Threads -> 0 .. RUNS] /\ \A t \in Threads : round[t] = 0 /\ round[t] < RUNS
  BY <1>1, Constants
<1>4. \A t \in Threads : mutex # t
  BY <1>1, Constants
<1>5. ASSUME NEW t \in Threads
      PROVE  Belongs(pc[t]) /\ ~(program \in Locking /\ pc[t] \in Locked)
  <2>1. CASE pc[t] = first
    BY <1>1, <2>1
  <2>2. CASE pc[t] = "end"
    BY <2>2 DEF Belongs, Locked
  <2> QED
    BY <1>2, <2>1, <2>2
<1>6. \A t \in Threads : /\ pc[t] = "end" => program \in Buffers /\ t \notin {1, 2}
                         /\ program \in Buffers /\ t \notin {1, 2} => pc[t] = "end"
  BY <1>1, <1>2 DEF Counters, Elections, Buffers
<1>7. program \in Counters \cup Elections \cup Buffers
  BY <1>1
<1>8. QED
  BY <1>1, <1>2, <1>3, <1>4, <1>5, <1>6, <1>7 DEF ThreadInv

LEMMA ThreadStart == ASSUME ExamplesInit PROVE ThreadInv
<1>1. ASSUME NEW name \in Counters \cup Elections, NEW first \in {"read", "acquire", "add", "test", "swap"},
             Launch(name, Threads, first), Belongs(first),
             first \notin Locked \/ name \notin Locking
      PROVE  ThreadInv
  BY <1>1, LaunchStarts DEF Steps
<1>2. ASSUME NEW name \in Buffers, NEW first \in {"copy1", "acquire", "poll"},
             Launch(name, {Producer, Consumer}, first), Belongs(first),
             first \notin Locked \/ name \notin Locking
      PROVE  ThreadInv
  BY <1>2, LaunchStarts DEF Steps, Producer, Consumer
<1>3. CASE CounterLaunch
  <2>1. ASSUME NEW name, NEW first, Launch(name, Threads, first) PROVE program = name
    BY <2>1 DEF Launch
  <2>2. CASE counter1_main
    BY <1>1, <2>1, <2>2 DEF counter1_main, Counters, Belongs, Locking, Locked
  <2>3. CASE counter2_main
    BY <1>1, <2>1, <2>3 DEF counter2_main, Counters, Belongs, Locking, Locked
  <2>4. CASE counter3_main
    BY <1>1, <2>1, <2>4 DEF counter3_main, Counters, Belongs, Locking, Locked
  <2>5. CASE counter4_main
    BY <1>1, <2>1, <2>5 DEF counter4_main, Counters, Belongs, Locking, Locked
  <2> QED
    BY <1>3, <2>2, <2>3, <2>4, <2>5 DEF CounterLaunch
<1>4. CASE ElectionLaunch
  <2>1. ASSUME NEW name, NEW first, Launch(name, Threads, first) PROVE program = name
    BY <2>1 DEF Launch
  <2>2. CASE election1_main
    BY <1>1, <2>1, <2>2 DEF election1_main, Elections, Belongs, Locking, Locked
  <2>3. CASE election2_main
    BY <1>1, <2>1, <2>3 DEF election2_main, Elections, Belongs, Locking, Locked
  <2>4. CASE election3_main
    BY <1>1, <2>1, <2>4 DEF election3_main, Elections, Belongs, Locking, Locked
  <2>5. CASE election4_main
    BY <1>1, <2>1, <2>5 DEF election4_main, Elections, Belongs, Locking, Locked
  <2> QED
    BY <1>4, <2>2, <2>3, <2>4, <2>5 DEF ElectionLaunch
<1>5. CASE BufferLaunch
  <2>1. ASSUME NEW name, NEW threads, NEW first, Launch(name, threads, first) PROVE program = name
    BY <2>1 DEF Launch
  <2>2. CASE procon1_main
    BY <1>2, <2>1, <2>2 DEF procon1_main, Buffers, Belongs, Locking, Locked
  <2>3. CASE procon2_main
    BY <1>2, <2>1, <2>3 DEF procon2_main, Buffers, Belongs, Locking, Locked
  <2>4. CASE procon3_main
    BY <1>2, <2>1, <2>4 DEF procon3_main, Buffers, Belongs, Locking, Locked
  <2>5. CASE procon4_main
    BY <1>2, <2>1, <2>5 DEF procon4_main, Buffers, Belongs, Locking, Locked
  <2> QED
    BY <1>5, <2>2, <2>3, <2>4, <2>5 DEF BufferLaunch
<1>6. QED
  BY <1>3, <1>4, <1>5 DEF ExamplesInit
----------------------------------------------------------------------------
(* The counters.  A sum over the threads is a cardinality here: that of    *)
(* the set of increments made, each named by its thread and its round.     *)

Increments ==
    {i \in Threads \X Rounds :
        i[2] < round[i[1]] \/ (i[2] = round[i[1]] /\ pc[i[1]] = "release")}

CounterInv ==
    /\ counter \in Nat /\ copy \in [Threads -> Nat]
    /\ program \notin Counters => counter = 0 /\ \A t \in Threads : copy[t] = 0
    /\ program \in Counters =>
        /\ counter <= Cardinality(Increments)
        /\ \A t \in Threads : copy[t] <= Cardinality(Increments)
    /\ program \in {"counter2", "counter4"} => counter = Cardinality(Increments)
    /\ program = "counter2" => \A t \in Threads : pc[t] = "write" => copy[t] = counter
    \* a second increment of a thread is on top of a first one
    /\ program \in {"counter1", "counter3"} =>
        /\ \A t \in Threads : round[t] >= 1 => counter >= 1
        /\ \A t \in Threads : pc[t] = "write" /\ round[t] >= 1 => copy[t] >= 1
        /\ Joined => counter >= 2

LEMMA AllIncrements ==
    /\ IsFiniteSet(Threads \X Rounds)
    /\ Cardinality(Threads \X Rounds) = RUNS * THREADS
    /\ RUNS * THREADS \in Nat
<1>1. IsFiniteSet(Threads) /\ Cardinality(Threads) = THREADS
  <2>1. 1 \in Int /\ THREADS \in Int /\ 1 <= THREADS
    BY Constants
  <2>2. IsFiniteSet(1 .. THREADS) /\ Cardinality(1 .. THREADS) = IF 1 > THREADS THEN 0 ELSE THREADS - 1 + 1
    BY <2>1, FS_Interval
  <2> QED
    BY <2>1, <2>2 DEF Threads
<1>2. IsFiniteSet(Rounds) /\ Cardinality(Rounds) = RUNS
  <2>1. 0 \in Int /\ RUNS - 1 \in Int /\ 0 <= RUNS - 1 /\ RUNS \in Nat
    BY Constants
  <2>2. /\ IsFiniteSet(0 .. RUNS - 1)
        /\ Cardinality(0 .. RUNS - 1) = IF 0 > RUNS - 1 THEN 0 ELSE RUNS - 1 - 0 + 1
    BY <2>1, FS_Interval
  <2> QED
    BY <2>1, <2>2 DEF Rounds
<1>3. IsFiniteSet(Threads \X Rounds) /\ Cardinality(Threads \X Rounds) = THREADS * RUNS
  BY <1>1, <1>2, FS_Product
<1>4. Cardinality(Threads \X Rounds) \in Nat
  BY <1>3, FS_CardinalityType
<1>5. THREADS * RUNS = RUNS * THREADS
  BY Constants
<1>6. QED
  BY <1>3, <1>4, <1>5

LEMMA IncrementsBounded ==
    /\ IsFiniteSet(Increments) /\ Cardinality(Increments) \in Nat
    /\ Cardinality(Increments) <= RUNS * THREADS
<1>1. Increments \subseteq Threads \X Rounds
  BY DEF Increments
<1>2. QED
  BY <1>1, AllIncrements, FS_Subset, FS_CardinalityType

LEMMA IncrementsAtEnd ==
    ASSUME ThreadInv, Joined, program \in Counters
    PROVE  Cardinality(Increments) = RUNS * THREADS
<1>1. \A t \in Threads : round[t] = RUNS
  BY DEF ThreadInv, Joined, Counters, Buffers
<1>2. \A r \in Rounds : r < RUNS
  BY Constants DEF Rounds
<1>3. \A i \in Threads \X Rounds : i[1] \in Threads /\ i[2] \in Rounds
  OBVIOUS
<1>4. Increments = Threads \X Rounds
  BY <1>1, <1>2, <1>3 DEF Increments
<1>5. QED
  BY <1>4, AllIncrements

(* One increment more, which ends the round or the critical section of it. *)
LEMMA IncrementMore ==
    ASSUME ThreadInv, ThreadInv', NEW t \in Threads, round[t] < RUNS, pc[t] # "release",
           \A u \in Threads : u # t => round'[u] = round[u] /\ pc'[u] = pc[u],
           \/ round'[t] = round[t] + 1 /\ pc'[t] # "release"
           \/ round'[t] = round[t] /\ pc'[t] = "release"
    PROVE  /\ Cardinality(Increments') = Cardinality(Increments) + 1
           /\ Cardinality(Increments) \in Nat
<1> DEFINE i == <<t, round[t]>>
<1>1. \A u \in Threads : round[u] \in Nat /\ round'[u] \in Nat
  BY Constants DEF ThreadInv
<1>2. round[t] \in Rounds
  BY <1>1, Constants DEF Rounds
<1>3. i \in Threads \X Rounds /\ i[1] = t /\ i[2] = round[t]
  BY <1>2
<1>4. i \notin Increments
  BY <1>1, <1>3 DEF Increments
<1>5. ASSUME NEW j \in Threads \X Rounds
      PROVE  j \in Increments' <=> j \in Increments \/ j = i
  <2>1. j[1] \in Threads /\ j[2] \in Rounds /\ j = <<j[1], j[2]>> /\ j[2] \in Nat
    BY Constants DEF Rounds
  <2>2. CASE j[1] # t
    BY <1>3, <2>1, <2>2 DEF Increments
  <2>3. CASE j[1] = t
    <3>1. j = i <=> j[2] = round[t]
      BY <1>3, <2>1, <2>3
    <3>2. j \in Increments <=> j[2] < round[t]
      BY <2>3 DEF Increments
    <3>3. CASE round'[t] = round[t] + 1 /\ pc'[t] # "release"
      <4>1. j \in Increments' <=> j[2] < round'[t]
        BY <2>3, <3>3 DEF Increments
      <4> QED
        BY <1>1, <2>1, <3>1, <3>2, <3>3, <4>1
    <3>4. CASE round'[t] = round[t] /\ pc'[t] = "release"
      <4>1. j \in Increments' <=> j[2] < round'[t] \/ j[2] = round'[t]
        BY <2>3, <3>4 DEF Increments
      <4> QED
        BY <3>1, <3>2, <3>4, <4>1
    <3> QED
      BY <3>3, <3>4
  <2> QED
    BY <2>2, <2>3
<1>6. Increments \subseteq Threads \X Rounds /\ Increments' \subseteq Threads \X Rounds
  BY DEF Increments, Rounds, Threads
<1>7. Increments' = Increments \cup {i}
  BY <1>3, <1>5, <1>6
<1>8. IsFiniteSet(Increments) /\ Cardinality(Increments) \in Nat
  BY IncrementsBounded
<1>9. Cardinality(Increments \cup {i}) = Cardinality(Increments) + 1
  BY <1>4, <1>8, FS_AddElement
<1>10. QED
  BY <1>7, <1>8, <1>9

(* A step that is none.                                                    *)
LEMMA IncrementNone ==
    ASSUME ThreadInv, ThreadInv', NEW t \in Threads,
           \A u \in Threads : u # t => round'[u] = round[u] /\ pc'[u] = pc[u],
           \/ round'[t] = round[t] + 1 /\ pc[t] = "release" /\ pc'[t] # "release"
           \/ round'[t] = round[t] /\ pc[t] # "release" /\ pc'[t] # "release"
    PROVE  Cardinality(Increments') = Cardinality(Increments)
<1>1. \A u \in Threads : round[u] \in Nat /\ round'[u] \in Nat
  BY Constants DEF ThreadInv
<1>2. ASSUME NEW j \in Threads \X Rounds
      PROVE  j \in Increments' <=> j \in Increments
  <2>1. j[1] \in Threads /\ j[2] \in Rounds /\ j[2] \in Nat
    BY Constants DEF Rounds
  <2>2. CASE j[1] # t
    BY <2>1, <2>2 DEF Increments
  <2>3. CASE j[1] = t
    <3>1. CASE round'[t] = round[t] + 1 /\ pc[t] = "release" /\ pc'[t] # "release"
      <4>1. j \in Increments' <=> j[2] < round[t] + 1
        BY <2>3, <3>1 DEF Increments
      <4>2. j \in Increments <=> j[2] < round[t] \/ j[2] = round[t]
        BY <2>3, <3>1 DEF Increments
      <4> QED
        BY <1>1, <2>1, <4>1, <4>2
    <3>2. CASE round'[t] = round[t] /\ pc[t] # "release" /\ pc'[t] # "release"
      BY <2>3, <3>2 DEF Increments
    <3> QED
      BY <3>1, <3>2
  <2> QED
    BY <2>2, <2>3
<1>3. Increments \subseteq Threads \X Rounds /\ Increments' \subseteq Threads \X Rounds
  BY DEF Increments, Rounds, Threads
<1>4. Increments' = Increments
  BY <1>2, <1>3
<1>5. QED
  BY <1>4

(* The steps of the counters, of which ReadCounter is in three programs.   *)
LEMMA ReadKeeps ==
    ASSUME ThreadInv, CounterInv, NEW t \in Threads, UNCHANGED program, ReadCounter(t),
           program \in {"counter1", "counter2", "counter3"}
    PROVE  ThreadInv' /\ CounterInv'
<1>1. /\ pc[t] = "read" /\ copy' = [copy EXCEPT ![t] = counter] /\ GoTo(t, "write")
      /\ UNCHANGED <<counter, round, mutex, cv>>
  BY DEF ReadCounter
<1>2. mutex = t <=> program \in Locking
  BY <1>1 DEF ThreadInv, Locked
<1>3. /\ ThreadInv' /\ pc'[t] = "write"
      /\ \A u \in Threads : u # t => pc'[u] = pc[u]
  <2>1. Belongs("write") /\ "write" \in Steps /\ "write" \in Locked
    BY DEF Belongs, Steps, Locked
  <2>2. t \notin cv
    BY <1>1 DEF ThreadInv
  <2> QED
    BY <1>1, <1>2, <2>1, <2>2, Stays
<1>4. /\ counter \in Nat /\ copy \in [Threads -> Nat] /\ copy' \in [Threads -> Nat]
      /\ copy'[t] = counter /\ \A u \in Threads : u # t => copy'[u] = copy[u]
  BY <1>1 DEF CounterInv
<1>5. Cardinality(Increments') = Cardinality(Increments)
  BY <1>1, <1>3, IncrementNone
<1>6. /\ counter <= Cardinality(Increments)
      /\ \A u \in Threads : copy'[u] <= Cardinality(Increments)
  BY <1>4 DEF CounterInv, Counters
<1>7. program = "counter2" => counter = Cardinality(Increments)
  BY DEF CounterInv
<1>8. program = "counter2" => \A u \in Threads : pc'[u] = "write" => copy'[u] = counter
  BY <1>3, <1>4 DEF CounterInv
<1>9. program \in {"counter1", "counter3"} =>
        /\ \A u \in Threads : round[u] >= 1 => counter >= 1
        /\ \A u \in Threads : pc'[u] = "write" /\ round[u] >= 1 => copy'[u] >= 1
  BY <1>3, <1>4 DEF CounterInv
<1>10. ~Joined'
  BY <1>3 DEF Joined, Threads
<1>11. CounterInv'
  BY <1>1, <1>4, <1>5, <1>6, <1>7, <1>8, <1>9, <1>10 DEF CounterInv, Counters
<1>12. QED
  BY <1>3, <1>11

(* counter1 and counter3 write back a copy that may be old.                *)
LEMMA WriteKeeps ==
    ASSUME ThreadInv, CounterInv, NEW t \in Threads, UNCHANGED program,
           WriteCounter(t), NextRound(t, "read"), UNCHANGED <<mutex, cv>>,
           program \in {"counter1", "counter3"}
    PROVE  ThreadInv' /\ CounterInv'
<1>1. pc[t] = "write" /\ counter' = copy[t] + 1 /\ copy' = copy
  BY DEF WriteCounter
<1>2. /\ ThreadInv'
      /\ round'[t] = round[t] + 1 /\ round[t] \in Nat
      /\ \A u \in Threads : u # t => round'[u] = round[u] /\ pc'[u] = pc[u]
      /\ \/ pc'[t] = "end" /\ round'[t] = RUNS
         \/ pc'[t] = "read" /\ round'[t] < RUNS
  <2>1. mutex = Free /\ cv = {}
    BY DEF ThreadInv, Locking
  <2>2. round[t] < RUNS
    BY <1>1 DEF ThreadInv
  <2>3. Belongs("read") /\ "read" \in Steps
    BY DEF Belongs, Steps
  <2>4. mutex' # t /\ t \notin cv' /\ mutex # t
    BY <2>1, Constants
  <2>5. program \notin Locking
    BY DEF Locking
  <2> QED
    BY <1>1, <2>1, <2>3, <2>4, <2>5, EndsRound
<1>3. Cardinality(Increments') = Cardinality(Increments) + 1 /\ Cardinality(Increments) \in Nat
  <2>1. round[t] < RUNS /\ pc'[t] # "release"
    BY <1>1, <1>2 DEF ThreadInv
  <2> QED
    BY <1>1, <1>2, <2>1, IncrementMore
<1>4. /\ copy[t] \in Nat /\ counter' \in Nat /\ copy' \in [Threads -> Nat]
      /\ \A u \in Threads : copy[u] \in Nat /\ copy[u] <= Cardinality(Increments)
  BY <1>1 DEF CounterInv, Counters
<1>5. /\ counter' <= Cardinality(Increments')
      /\ \A u \in Threads : copy'[u] <= Cardinality(Increments')
  BY <1>1, <1>3, <1>4
<1>6. counter' >= 1
  BY <1>1, <1>4
<1>7. \A u \in Threads : pc'[u] = "write" /\ round'[u] >= 1 => copy'[u] >= 1
  BY <1>1, <1>2 DEF CounterInv
<1>8. Joined' => counter' >= 2
  <2>1. Joined' => round[t] >= 1
    BY <1>2, Constants DEF Joined, Threads
  <2>2. round[t] >= 1 => copy[t] >= 1
    BY <1>1 DEF CounterInv
  <2> QED
    BY <1>1, <1>4, <2>1, <2>2
<1>9. CounterInv'
  BY <1>1, <1>4, <1>5, <1>6, <1>7, <1>8 DEF CounterInv, Counters
<1>10. QED
  BY <1>2, <1>9

(* counter2: the copy is the counter as long as the lock is held.          *)
LEMMA LockedCounterKeeps ==
    ASSUME ThreadInv, CounterInv, NEW t \in Threads, UNCHANGED program, counter2_count(t)
    PROVE  ThreadInv' /\ CounterInv'
<1>1. program = "counter2" /\ program \in Locking /\ program \in Counters
      /\ program \notin {"counter1", "counter3"}
  BY DEF counter2_count, Locking, Counters
<1>2. /\ counter \in Nat /\ copy \in [Threads -> Nat] /\ counter = Cardinality(Increments)
      /\ \A u \in Threads : pc[u] = "write" => copy[u] = counter
      /\ \A u \in Threads : copy[u] \in Nat /\ copy[u] <= Cardinality(Increments)
  BY <1>1 DEF CounterInv
<1>3. CASE pc[t] = "acquire" /\ lock_acquire(t) /\ GoTo(t, "read") /\ UNCHANGED <<round, counterVars>>
  <2>1. mutex = Free /\ mutex' = t /\ cv' = cv /\ UNCHANGED <<round, counter, copy>>
    BY <1>3 DEF lock_acquire, counterVars
  <2>2. Belongs("read") /\ "read" \in Steps /\ "read" \in Locked
    BY <1>1 DEF Belongs, Steps, Locked
  <2>3. cv = {}
    BY <1>1 DEF ThreadInv
  <2>4. /\ ThreadInv' /\ pc'[t] = "read"
        /\ \A u \in Threads : u # t => pc'[u] = pc[u]
    BY <1>1, <1>3, <2>1, <2>2, <2>3, Stays
  <2>5. Cardinality(Increments') = Cardinality(Increments)
    BY <1>3, <2>1, <2>4, IncrementNone
  <2>6. \A u \in Threads : pc'[u] = "write" => copy'[u] = counter'
    BY <1>2, <2>1, <2>4
  <2>7. CounterInv'
    BY <1>1, <1>2, <2>1, <2>5, <2>6 DEF CounterInv
  <2> QED
    BY <2>4, <2>7
<1>4. CASE ReadCounter(t)
  BY <1>1, <1>4, ReadKeeps
<1>5. CASE WriteCounter(t) /\ GoTo(t, "release") /\ UNCHANGED <<round, mutex, cv>>
  <2>1. pc[t] = "write" /\ counter' = copy[t] + 1 /\ UNCHANGED <<copy, round, mutex, cv>>
    BY <1>5 DEF WriteCounter
  <2>2. mutex = t /\ cv = {} /\ round[t] < RUNS
    BY <1>1, <2>1 DEF ThreadInv, Locked
  <2>3. Belongs("release") /\ "release" \in Steps /\ "release" \in Locked
    BY <1>1 DEF Belongs, Steps, Locked
  <2>4. /\ ThreadInv' /\ pc'[t] = "release"
        /\ \A u \in Threads : u # t => pc'[u] = pc[u]
    BY <1>1, <1>5, <2>1, <2>2, <2>3, Stays
  <2>5. Cardinality(Increments') = Cardinality(Increments) + 1
    BY <2>1, <2>2, <2>4, IncrementMore
  <2>6. \A u \in Threads : pc'[u] # "write"
    <3>1. ASSUME NEW u \in Threads, pc[u] = "write" PROVE u = t
      BY <1>1, <2>2, <3>1 DEF ThreadInv, Locked
    <3> QED
      BY <2>4, <3>1
  <2>7. counter' = Cardinality(Increments') /\ counter' \in Nat
    BY <1>2, <2>1, <2>5
  <2>8. \A u \in Threads : copy'[u] <= Cardinality(Increments')
    BY <1>2, <2>1, <2>5
  <2>9. CounterInv'
    BY <1>1, <1>2, <2>1, <2>6, <2>7, <2>8 DEF CounterInv
  <2> QED
    BY <2>4, <2>9
<1>6. CASE pc[t] = "release" /\ lock_release(t) /\ NextRound(t, "acquire") /\ UNCHANGED counterVars
  <2>1. mutex' = Free /\ cv' = cv /\ UNCHANGED <<counter, copy>>
    BY <1>6 DEF lock_release, counterVars
  <2>2. mutex = t /\ cv = {}
    BY <1>1, <1>6 DEF ThreadInv, Locked
  <2>3. Belongs("acquire") /\ "acquire" \in Steps /\ "acquire" \notin Locked
    BY <1>1 DEF Belongs, Steps, Locked
  <2>4. /\ ThreadInv' /\ round'[t] = round[t] + 1
        /\ \A u \in Threads : u # t => round'[u] = round[u] /\ pc'[u] = pc[u]
        /\ pc'[t] \in {"end", "acquire"}
    BY <1>1, <1>6, <2>1, <2>2, <2>3, Constants, EndsRound
  <2>5. Cardinality(Increments') = Cardinality(Increments)
    BY <1>6, <2>4, IncrementNone
  <2>6. \A u \in Threads : pc'[u] = "write" => copy'[u] = counter'
    BY <1>2, <2>1, <2>4
  <2>7. CounterInv'
    BY <1>1, <1>2, <2>1, <2>5, <2>6 DEF CounterInv
  <2> QED
    BY <2>4, <2>7
<1>7. QED
  BY <1>3, <1>4, <1>5, <1>6 DEF counter2_count

LEMMA AddKeeps ==
    ASSUME ThreadInv, CounterInv, NEW t \in Threads, UNCHANGED program, counter4_count(t)
    PROVE  ThreadInv' /\ CounterInv'
<1>1. /\ program = "counter4" /\ program \notin Locking /\ program \in Counters
      /\ program \notin {"counter1", "counter2", "counter3"}
      /\ pc[t] = "add" /\ counter' = counter + 1 /\ UNCHANGED <<copy, mutex, cv>>
      /\ NextRound(t, "add")
  BY DEF counter4_count, Locking, Counters
<1>2. mutex # t /\ cv = {} /\ round[t] < RUNS
  BY <1>1 DEF ThreadInv
<1>3. Belongs("add") /\ "add" \in Steps /\ "add" \notin Locked
  BY <1>1 DEF Belongs, Steps, Locked
<1>4. /\ ThreadInv' /\ round'[t] = round[t] + 1
      /\ \A u \in Threads : u # t => round'[u] = round[u] /\ pc'[u] = pc[u]
      /\ pc'[t] \in {"end", "add"}
  BY <1>1, <1>2, <1>3, EndsRound
<1>5. Cardinality(Increments') = Cardinality(Increments) + 1 /\ Cardinality(Increments) \in Nat
  BY <1>1, <1>2, <1>4, IncrementMore
<1>6. /\ counter \in Nat /\ copy \in [Threads -> Nat] /\ counter = Cardinality(Increments)
      /\ \A u \in Threads : copy[u] \in Nat /\ copy[u] <= Cardinality(Increments)
  BY <1>1 DEF CounterInv
<1>7. /\ counter' \in Nat /\ counter' = Cardinality(Increments')
      /\ \A u \in Threads : copy'[u] <= Cardinality(Increments')
  BY <1>1, <1>5, <1>6
<1>8. CounterInv'
  BY <1>1, <1>6, <1>7 DEF CounterInv
<1>9. QED
  BY <1>4, <1>8

LEMMA CounterKeeps ==
    ASSUME ThreadInv, CounterInv, NEW t \in Threads, UNCHANGED program, CounterStep(t)
    PROVE  ThreadInv' /\ CounterInv'
<1>1. CASE counter1_count(t) \/ counter3_count(t)
  BY <1>1, ReadKeeps, WriteKeeps DEF counter1_count, counter3_count
<1>2. CASE counter2_count(t) \/ counter4_count(t)
  BY <1>2, LockedCounterKeeps, AddKeeps
<1>3. QED
  BY <1>1, <1>2 DEF CounterStep

(* What main of a counter finds.                                           *)
LEMMA CountsExact == ASSUME ThreadInv, CounterInv PROVE ExactCount
<1> SUFFICES ASSUME Joined, program \in {"counter2", "counter4"}
             PROVE  counter = RUNS * THREADS
  BY DEF ExactCount
<1>1. Cardinality(Increments) = RUNS * THREADS
  BY IncrementsAtEnd DEF Counters
<1>2. QED
  BY <1>1 DEF CounterInv

LEMMA LossesBounded == ASSUME ThreadInv, CounterInv PROVE LostIncrements
<1> SUFFICES ASSUME Joined, program \in {"counter1", "counter3"}
             PROVE  counter \in 2 .. RUNS * THREADS
  BY DEF LostIncrements
<1>1. Cardinality(Increments) = RUNS * THREADS
  BY IncrementsAtEnd DEF Counters
<1>2. counter \in Nat /\ counter >= 2 /\ counter <= Cardinality(Increments)
  BY DEF CounterInv, Counters
<1> DEFINE all == RUNS * THREADS
<1>3. all \in Nat
  BY AllIncrements
<1>4. counter <= all
  BY <1>1, <1>2
<1> HIDE DEF all
<1>5. counter \in 2 .. all
  BY <1>2, <1>3, <1>4
<1>6. QED
  BY <1>5 DEF all
----------------------------------------------------------------------------
(* The elections.  A thread that is past a round, or counts itself as its  *)
(* leader, has seen a leader there; and a round has as many leaders        *)
(* counted as threads past it, at most.                                    *)

Past(r) == {t \in Threads : round[t] > r \/ (round[t] = r /\ pc[t] = "release")}
Counting(r) == {t \in Threads : pc[t] = "count" /\ round[t] = r}

ElectionInv ==
    /\ leader \in [Rounds -> Threads \cup {NoLeader}]
    /\ nb_leaders \in [Rounds -> Nat]
    /\ program \notin Elections => \A r \in Rounds : nb_leaders[r] = 0
    /\ program \in Elections =>
        \A r \in Rounds :
            /\ nb_leaders[r] <= Cardinality(Past(r))
            /\ \A t \in Past(r) \cup Counting(r) : leader[r] # NoLeader
            /\ leader[r] # NoLeader => nb_leaders[r] >= 1 \/ Counting(r) # {}
    \* a leader is claimed once, and counted once
    /\ program \in {"election2", "election4"} =>
        \A r \in Rounds :
            /\ leader[r] = NoLeader => nb_leaders[r] = 0
            /\ Counting(r) # {} => nb_leaders[r] = 0
            /\ nb_leaders[r] <= 1
            /\ \A t, u \in Counting(r) : t = u
    /\ program = "election2" =>
        \A t \in Threads : pc[t] = "claim" => leader[round[t]] = NoLeader

LEMMA PastFinite ==
    ASSUME NEW r \in Rounds
    PROVE  /\ IsFiniteSet(Past(r)) /\ Cardinality(Past(r)) \in Nat
           /\ Cardinality(Past(r)) <= THREADS
<1>1. IsFiniteSet(Threads) /\ Cardinality(Threads) = THREADS
  <2>1. 1 \in Int /\ THREADS \in Int /\ 1 <= THREADS
    BY Constants
  <2>2. IsFiniteSet(1 .. THREADS) /\ Cardinality(1 .. THREADS) = IF 1 > THREADS THEN 0 ELSE THREADS - 1 + 1
    BY <2>1, FS_Interval
  <2> QED
    BY <2>1, <2>2 DEF Threads
<1>2. Past(r) \subseteq Threads
  BY DEF Past
<1>3. QED
  BY <1>1, <1>2, FS_Subset, FS_CardinalityType

(* Nobody is called back from a round, and a thread is newly past only the *)
(* round it is in.                                                         *)
LEMMA PastGrows ==
    ASSUME ThreadInv, ThreadInv', NEW t \in Threads,
           \A u \in Threads : u # t => round'[u] = round[u] /\ pc'[u] = pc[u],
           \/ round'[t] = round[t] + 1 /\ pc'[t] # "release"
           \/ round'[t] = round[t] /\ pc[t] # "release",
           NEW r \in Rounds
    PROVE  /\ Past(r) \subseteq Past(r)'
           /\ Past(r)' \subseteq Past(r) \cup {t}
           /\ t \in Past(r)' => t \in Past(r) \/ r = round[t]
           /\ IsFiniteSet(Past(r)') /\ Cardinality(Past(r)') \in Nat
           /\ Cardinality(Past(r)) <= Cardinality(Past(r)')
<1>1. \A u \in Threads : round[u] \in Nat /\ round'[u] \in Nat /\ r \in Nat
  BY Constants DEF ThreadInv, Rounds
<1>2. Past(r) \subseteq Past(r)'
  BY <1>1 DEF Past
<1>3. Past(r)' \subseteq Past(r) \cup {t}
  BY <1>1 DEF Past
<1>4. t \in Past(r)' => t \in Past(r) \/ r = round[t]
  <2>1. t \in Past(r)' => round'[t] > r \/ (round'[t] = r /\ pc'[t] = "release")
    BY DEF Past
  <2>2. round[t] > r => t \in Past(r)
    BY DEF Past
  <2> QED
    BY <1>1, <2>1, <2>2
<1>5. IsFiniteSet(Past(r)) /\ IsFiniteSet(Past(r) \cup {t})
  BY PastFinite, FS_AddElement
<1>6. IsFiniteSet(Past(r)') /\ Cardinality(Past(r)') \in Nat
  BY <1>3, <1>5, FS_Subset, FS_CardinalityType
<1>7. Cardinality(Past(r)) <= Cardinality(Past(r)')
  BY <1>2, <1>6, FS_Subset
<1>8. QED
  BY <1>2, <1>3, <1>4, <1>6, <1>7

LEMMA RoundOf ==
    ASSUME ThreadInv, NEW t \in Threads, pc[t] # "end"
    PROVE  round[t] \in Rounds /\ round[t] \in Nat
<1>1. round[t] \in 0 .. RUNS /\ round[t] < RUNS /\ RUNS \in Nat
  BY Constants DEF ThreadInv
<1>2. QED
  BY <1>1 DEF Rounds

(* A step that goes on, or past a round whose leader it has seen.          *)
LEMMA PassingKeeps ==
    ASSUME ThreadInv, ThreadInv', ElectionInv, NEW t \in Threads, program' = program,
           program \in Elections, pc[t] # "end",
           UNCHANGED <<leader, nb_leaders>>, pc[t] # "count", pc'[t] # "count",
           \A u \in Threads : u # t => round'[u] = round[u] /\ pc'[u] = pc[u],
           \/ round'[t] = round[t] + 1 /\ pc'[t] # "release"
           \/ round'[t] = round[t] /\ pc[t] # "release",
           round'[t] # round[t] \/ pc'[t] = "release" =>
                leader[round[t]] # NoLeader,
           program = "election2" /\ pc'[t] = "claim" => leader[round'[t]] = NoLeader
    PROVE  ElectionInv'
<1>1. \A r \in Rounds : Counting(r)' = Counting(r)
  BY DEF Counting, Threads
<1>2. ASSUME NEW r \in Rounds
      PROVE  /\ nb_leaders'[r] <= Cardinality(Past(r)')
             /\ \A u \in Past(r)' \cup Counting(r)' : leader'[r] # NoLeader
  <2>1. /\ Past(r)' \subseteq Past(r) \cup {t} /\ Cardinality(Past(r)) <= Cardinality(Past(r)')
        /\ Cardinality(Past(r)') \in Nat /\ Cardinality(Past(r)) \in Nat
        /\ t \in Past(r)' => t \in Past(r) \/ r = round[t]
    BY PastGrows, PastFinite
  <2>2. nb_leaders[r] \in Nat /\ nb_leaders[r] <= Cardinality(Past(r))
    BY DEF ElectionInv
  <2>3. ASSUME t \in Past(r)', t \notin Past(r) PROVE leader[r] # NoLeader
    <3>1. r = round[t] /\ round[t] \in Nat
      BY <2>1, <2>3, RoundOf
    <3>2. round'[t] # round[t] \/ pc'[t] = "release"
      BY <2>3, <3>1 DEF Past
    <3> QED
      BY <3>1, <3>2
  <2>4. nb_leaders'[r] <= Cardinality(Past(r)')
    BY <2>1, <2>2
  <2> QED
    BY <1>1, <2>1, <2>3, <2>4 DEF ElectionInv
<1>3. program = "election2" =>
        \A u \in Threads : pc'[u] = "claim" => leader'[round'[u]] = NoLeader
  BY DEF ElectionInv
<1>4. leader' \in [Rounds -> Threads \cup {NoLeader}] /\ nb_leaders' \in [Rounds -> Nat]
  BY DEF ElectionInv
<1>5. program \in {"election2", "election4"} =>
        \A r \in Rounds :
            /\ leader'[r] = NoLeader => nb_leaders'[r] = 0
            /\ Counting(r)' # {} => nb_leaders'[r] = 0
            /\ nb_leaders'[r] <= 1
            /\ \A u, v \in Counting(r)' : u = v
  BY <1>1 DEF ElectionInv
<1>6. \A r \in Rounds : leader'[r] # NoLeader => nb_leaders'[r] >= 1 \/ Counting(r)' # {}
  BY <1>1 DEF ElectionInv
<1>7. QED
  BY <1>2, <1>3, <1>4, <1>5, <1>6 DEF ElectionInv, Rounds, Threads

(* A thread that makes itself the leader of its round.                     *)
LEMMA ClaimingKeeps ==
    ASSUME ThreadInv, ThreadInv', ElectionInv, NEW t \in Threads, program' = program,
           program \in Elections, pc[t] \in {"claim", "swap"}, pc'[t] = "count",
           leader' = [leader EXCEPT ![round[t]] = t], UNCHANGED <<round, nb_leaders>>,
           \A u \in Threads : u # t => pc'[u] = pc[u],
           program \in {"election2", "election4"} => leader[round[t]] = NoLeader,
           program = "election2" => \A u \in Threads : pc[u] = "claim" => u = t
    PROVE  ElectionInv'
<1>1. round[t] \in Rounds /\ t # NoLeader
  <2>1. pc[t] # "end"
    OBVIOUS
  <2>2. t # NoLeader
    BY Constants DEF NoLeader, Free
  <2> QED
    BY <2>1, <2>2, RoundOf
<1>2. /\ leader \in [Rounds -> Threads \cup {NoLeader}]
      /\ leader' \in [Rounds -> Threads \cup {NoLeader}] /\ leader'[round[t]] = t
      /\ \A r \in Rounds : r # round[t] => leader'[r] = leader[r]
  BY <1>1 DEF ElectionInv
<1>3. \A r \in Rounds : leader[r] # NoLeader => leader'[r] # NoLeader
  BY <1>1, <1>2
<1>4. ASSUME NEW r \in Rounds
      PROVE  /\ Past(r)' = Past(r)
             /\ Counting(r)' = IF r = round[t] THEN Counting(r) \cup {t} ELSE Counting(r)
  BY DEF Past, Counting, Threads
<1>5. ASSUME NEW r \in Rounds
      PROVE  /\ nb_leaders'[r] <= Cardinality(Past(r)')
             /\ \A u \in Past(r)' \cup Counting(r)' : leader'[r] # NoLeader
             /\ leader'[r] # NoLeader => nb_leaders'[r] >= 1 \/ Counting(r)' # {}
  <2>1. /\ nb_leaders[r] <= Cardinality(Past(r))
        /\ \A u \in Past(r) \cup Counting(r) : leader[r] # NoLeader
        /\ leader[r] # NoLeader => nb_leaders[r] >= 1 \/ Counting(r) # {}
    BY DEF ElectionInv
  <2>2. CASE r = round[t]
    BY <1>1, <1>2, <1>4, <2>1, <2>2
  <2>3. CASE r # round[t]
    BY <1>2, <1>4, <2>1, <2>3
  <2> QED
    BY <2>2, <2>3
<1>6. ASSUME program \in {"election2", "election4"}, NEW r \in Rounds
      PROVE  /\ leader'[r] = NoLeader => nb_leaders'[r] = 0
             /\ Counting(r)' # {} => nb_leaders'[r] = 0
             /\ nb_leaders'[r] <= 1
             /\ \A u, v \in Counting(r)' : u = v
  <2>1. /\ leader[r] = NoLeader => nb_leaders[r] = 0
        /\ Counting(r) # {} => nb_leaders[r] = 0
        /\ nb_leaders[r] <= 1
        /\ \A u, v \in Counting(r) : u = v
        /\ \A u \in Past(r) \cup Counting(r) : leader[r] # NoLeader
    BY <1>6 DEF ElectionInv
  <2>2. CASE r = round[t]
    <3>1. leader[r] = NoLeader /\ Counting(r) = {}
      BY <1>6, <2>1, <2>2
    <3> QED
      BY <1>4, <2>1, <2>2, <3>1
  <2>3. CASE r # round[t]
    BY <1>2, <1>4, <2>1, <2>3
  <2> QED
    BY <2>2, <2>3
<1>7. program = "election2" =>
        \A u \in Threads : pc'[u] = "claim" => leader'[round'[u]] = NoLeader
  <2>1. program = "election2" => \A u \in Threads : pc'[u] # "claim"
    OBVIOUS
  <2> QED
    BY <2>1
<1>8. nb_leaders' \in [Rounds -> Nat] /\ program' \in Elections
  BY DEF ElectionInv
<1>9. QED
  BY <1>2, <1>5, <1>6, <1>7, <1>8 DEF ElectionInv, Rounds, Threads

(* A thread that counts itself.                                            *)
LEMMA CountingKeeps ==
    ASSUME ThreadInv, ThreadInv', ElectionInv, NEW t \in Threads, program' = program,
           program \in Elections, pc[t] = "count", pc'[t] \notin {"count", "claim"},
           nb_leaders' = [nb_leaders EXCEPT ![round[t]] = nb_leaders[round[t]] + 1],
           leader' = leader,
           \A u \in Threads : u # t => round'[u] = round[u] /\ pc'[u] = pc[u],
           \/ round'[t] = round[t] + 1 /\ pc'[t] # "release"
           \/ round'[t] = round[t] /\ pc'[t] = "release"
    PROVE  ElectionInv'
<1>1. round[t] \in Rounds /\ round[t] \in Nat /\ \A r \in Rounds : r \in Nat
  BY RoundOf, Constants DEF Rounds
<1>2. /\ nb_leaders \in [Rounds -> Nat] /\ nb_leaders[round[t]] \in Nat
      /\ nb_leaders' \in [Rounds -> Nat] /\ nb_leaders'[round[t]] = nb_leaders[round[t]] + 1
      /\ \A r \in Rounds : r # round[t] => nb_leaders'[r] = nb_leaders[r]
  <2>1. nb_leaders \in [Rounds -> Nat] /\ nb_leaders[round[t]] \in Nat
    BY <1>1 DEF ElectionInv
  <2>2. nb_leaders[round[t]] + 1 \in Nat
    BY <2>1
  <2> QED
    BY <1>1, <2>1, <2>2
<1>3. t \in Counting(round[t]) /\ leader[round[t]] # NoLeader
  <2>1. t \in Counting(round[t])
    BY DEF Counting
  <2> QED
    BY <1>1, <2>1 DEF ElectionInv
<1>4. ASSUME NEW r \in Rounds
      PROVE  Counting(r)' = IF r = round[t] THEN Counting(r) \ {t} ELSE Counting(r)
  BY DEF Counting, Threads
<1>5. ASSUME NEW r \in Rounds
      PROVE  /\ nb_leaders'[r] <= Cardinality(Past(r)')
             /\ \A u \in Past(r)' \cup Counting(r)' : leader'[r] # NoLeader
             /\ leader'[r] # NoLeader => nb_leaders'[r] >= 1 \/ Counting(r)' # {}
  <2>1. /\ nb_leaders[r] <= Cardinality(Past(r)) /\ nb_leaders[r] \in Nat
        /\ \A u \in Past(r) \cup Counting(r) : leader[r] # NoLeader
        /\ leader[r] # NoLeader => nb_leaders[r] >= 1 \/ Counting(r) # {}
    BY DEF ElectionInv
  <2>2. /\ Past(r) \subseteq Past(r)' /\ Past(r)' \subseteq Past(r) \cup {t}
        /\ t \in Past(r)' => t \in Past(r) \/ r = round[t]
        /\ IsFiniteSet(Past(r)') /\ Cardinality(Past(r)') \in Nat
        /\ Cardinality(Past(r)) <= Cardinality(Past(r)') /\ Cardinality(Past(r)) \in Nat
    BY PastGrows, PastFinite
  <2>3. CASE r = round[t]
    <3>1. t \notin Past(r)
      BY <1>1, <2>3 DEF Past
    <3>2. t \in Past(r)'
      BY <1>1, <2>3 DEF Past, Threads
    <3>3. Past(r) \cup {t} \subseteq Past(r)' /\ IsFiniteSet(Past(r))
      BY <2>2, <3>2, PastFinite
    <3>4. Cardinality(Past(r) \cup {t}) = Cardinality(Past(r)) + 1
      BY <3>1, <3>3, FS_AddElement
    <3>5. Cardinality(Past(r) \cup {t}) <= Cardinality(Past(r)')
      BY <2>2, <3>3, FS_Subset
    <3>6. nb_leaders'[r] <= Cardinality(Past(r)')
      BY <1>2, <2>1, <2>2, <2>3, <3>4, <3>5
    <3>7. nb_leaders'[r] >= 1
      BY <1>2, <2>3
    <3> QED
      BY <1>3, <2>3, <3>6, <3>7
  <2>4. CASE r # round[t]
    <3>1. nb_leaders'[r] <= Cardinality(Past(r)')
      BY <1>2, <2>1, <2>2, <2>4
    <3>2. nb_leaders'[r] = nb_leaders[r] /\ Counting(r)' = Counting(r)
      BY <1>2, <1>4, <2>4
    <3> QED
      BY <2>1, <2>2, <2>4, <3>1, <3>2
  <2> QED
    BY <2>3, <2>4
<1>6. ASSUME program \in {"election2", "election4"}, NEW r \in Rounds
      PROVE  /\ leader'[r] = NoLeader => nb_leaders'[r] = 0
             /\ Counting(r)' # {} => nb_leaders'[r] = 0
             /\ nb_leaders'[r] <= 1
             /\ \A u, v \in Counting(r)' : u = v
  <2>1. /\ leader[r] = NoLeader => nb_leaders[r] = 0
        /\ Counting(r) # {} => nb_leaders[r] = 0
        /\ nb_leaders[r] <= 1
        /\ \A u, v \in Counting(r) : u = v
    BY <1>6 DEF ElectionInv
  <2>2. CASE r = round[t]
    <3>1. nb_leaders[r] = 0 /\ Counting(r)' = {} /\ nb_leaders'[r] = 1
      BY <1>2, <1>3, <1>4, <2>1, <2>2
    <3> QED
      BY <1>3, <2>2, <3>1
  <2>3. CASE r # round[t]
    <3>1. nb_leaders'[r] = nb_leaders[r] /\ Counting(r)' = Counting(r)
      BY <1>2, <1>4, <2>3
    <3> QED
      BY <2>1, <3>1
  <2> QED
    BY <2>2, <2>3
<1>7. program = "election2" =>
        \A u \in Threads : pc'[u] = "claim" => leader'[round'[u]] = NoLeader
  BY DEF ElectionInv
<1>8. leader' \in [Rounds -> Threads \cup {NoLeader}] /\ program' \in Elections
  BY DEF ElectionInv
<1>9. QED
  BY <1>2, <1>5, <1>6, <1>7, <1>8 DEF ElectionInv, Rounds, Threads

(* The steps of the elections.                                             *)
LEMMA FindsNoneKeeps ==
    ASSUME ThreadInv, ElectionInv, NEW t \in Threads, program' = program, FindsNone(t),
           program \in {"election1", "election2", "election3"}
    PROVE  ThreadInv' /\ ElectionInv'
<1>1. /\ pc[t] = "test" /\ leader[round[t]] = NoLeader /\ GoTo(t, "claim")
      /\ UNCHANGED <<round, leader, nb_leaders, mutex, cv>>
  BY DEF FindsNone, electionVars
<1>2. mutex = t <=> program \in Locking
  BY <1>1 DEF ThreadInv, Locked
<1>3. Belongs("claim") /\ "claim" \in Steps /\ "claim" \in Locked
  BY DEF Belongs, Steps, Locked
<1>4. t \notin cv
  BY <1>1 DEF ThreadInv
<1>5. /\ ThreadInv' /\ pc'[t] = "claim"
      /\ \A u \in Threads : u # t => pc'[u] = pc[u]
  BY <1>1, <1>2, <1>3, <1>4, Stays
<1>6. ElectionInv'
  BY <1>1, <1>5, PassingKeeps DEF Elections
<1>7. QED
  BY <1>5, <1>6

LEMMA ClaimKeeps ==
    ASSUME ThreadInv, ElectionInv, NEW t \in Threads, program' = program, Claim(t),
           program \in {"election1", "election2", "election3"}
    PROVE  ThreadInv' /\ ElectionInv'
<1>1. /\ pc[t] = "claim" /\ leader' = [leader EXCEPT ![round[t]] = t] /\ GoTo(t, "count")
      /\ UNCHANGED <<round, nb_leaders, mutex, cv>>
  BY DEF Claim
<1>2. mutex = t <=> program \in Locking
  BY <1>1 DEF ThreadInv, Locked
<1>3. Belongs("count") /\ "count" \in Steps /\ "count" \in Locked
  BY DEF Belongs, Steps, Locked, Elections
<1>4. t \notin cv
  BY <1>1 DEF ThreadInv
<1>5. /\ ThreadInv' /\ pc'[t] = "count"
      /\ \A u \in Threads : u # t => pc'[u] = pc[u]
  BY <1>1, <1>2, <1>3, <1>4, Stays
<1>6. program = "election2" => \A u \in Threads : pc[u] = "claim" => u = t
  BY <1>2 DEF ThreadInv, Locking, Locked
<1>7. program = "election2" => leader[round[t]] = NoLeader
  BY <1>1 DEF ElectionInv
<1>8. ElectionInv'
  BY <1>1, <1>5, <1>6, <1>7, ClaimingKeeps DEF Elections
<1>9. QED
  BY <1>5, <1>8

\* a step that ends the round in a program without the lock
LEMMA EndsRoundFree ==
    ASSUME ThreadInv, NEW t \in Threads, pc[t] # "end", program' = program,
           program \in {"election1", "election3", "election4"}, NEW s \in {"test", "swap"},
           Belongs(s), NextRound(t, s), UNCHANGED <<mutex, cv>>
    PROVE  /\ ThreadInv'
           /\ round'[t] = round[t] + 1 /\ round[t] \in Nat
           /\ \A u \in Threads : u # t => round'[u] = round[u] /\ pc'[u] = pc[u]
           /\ pc'[t] \in {"end", s}
<1>1. program \notin Locking /\ cv = {} /\ mutex # t /\ s \in Steps /\ s # "end"
  BY DEF ThreadInv, Locking, Steps
<1>2. QED
  BY <1>1, EndsRound

LEMMA UnlockedElectionKeeps ==
    ASSUME ThreadInv, ElectionInv, NEW t \in Threads, program' = program,
           election1_elect(t) \/ election3_elect(t) \/ election4_elect(t)
    PROVE  ThreadInv' /\ ElectionInv'
<1>1. CASE /\ program \in {"election1", "election3"}
           /\ FindsLeader(t) /\ NextRound(t, "test")
  <2>1. /\ pc[t] = "test" /\ leader[round[t]] # NoLeader
        /\ UNCHANGED <<leader, nb_leaders, mutex, cv>>
    BY <1>1 DEF FindsLeader, electionVars
  <2>2. Belongs("test")
    BY <1>1 DEF Belongs
  <2>3. /\ ThreadInv' /\ round'[t] = round[t] + 1
        /\ \A u \in Threads : u # t => round'[u] = round[u] /\ pc'[u] = pc[u]
        /\ pc'[t] \in {"end", "test"}
    BY <1>1, <2>1, <2>2, EndsRoundFree
  <2>4. ElectionInv'
    BY <1>1, <2>1, <2>3, PassingKeeps DEF Elections
  <2> QED
    BY <2>3, <2>4
<1>2. CASE /\ program \in {"election1", "election3", "election4"}
           /\ CountLeader(t)
           /\ NextRound(t, IF program = "election4" THEN "swap" ELSE "test")
  <2> DEFINE first == IF program = "election4" THEN "swap" ELSE "test"
  <2>1. /\ pc[t] = "count"
        /\ nb_leaders' = [nb_leaders EXCEPT ![round[t]] = nb_leaders[round[t]] + 1]
        /\ UNCHANGED <<leader, mutex, cv>>
    BY <1>2 DEF CountLeader
  <2>2. Belongs(first) /\ first \in {"test", "swap"} /\ NextRound(t, first)
    BY <1>2 DEF Belongs
  <2> HIDE DEF first
  <2>3. /\ ThreadInv' /\ round'[t] = round[t] + 1
        /\ \A u \in Threads : u # t => round'[u] = round[u] /\ pc'[u] = pc[u]
        /\ pc'[t] \in {"end", first}
    BY <1>2, <2>1, <2>2, EndsRoundFree
  <2>4. ElectionInv'
    BY <1>2, <2>1, <2>2, <2>3, CountingKeeps DEF Elections
  <2> QED
    BY <2>3, <2>4
<1>3. CASE program = "election4" /\ CompareAndSwap(t)
  <2>1. /\ pc[t] = "swap" /\ leader[round[t]] = NoLeader
        /\ leader' = [leader EXCEPT ![round[t]] = t] /\ GoTo(t, "count")
        /\ UNCHANGED <<round, nb_leaders, mutex, cv>>
    BY <1>3 DEF CompareAndSwap
  <2>2. Belongs("count") /\ "count" \in Steps /\ program \notin Locking
    BY <1>3 DEF Belongs, Steps, Locking, Elections
  <2>3. t \notin cv /\ mutex # t
    BY <2>1, <2>2 DEF ThreadInv
  <2>4. /\ ThreadInv' /\ pc'[t] = "count"
        /\ \A u \in Threads : u # t => pc'[u] = pc[u]
    BY <2>1, <2>2, <2>3, Stays
  <2>5. ElectionInv'
    BY <1>3, <2>1, <2>4, ClaimingKeeps DEF Elections
  <2> QED
    BY <2>4, <2>5
<1>4. CASE /\ program = "election4"
           /\ pc[t] = "swap" /\ leader[round[t]] # NoLeader
           /\ NextRound(t, "swap") /\ UNCHANGED <<electionVars, mutex, cv>>
  <2>1. UNCHANGED <<leader, nb_leaders, mutex, cv>>
    BY <1>4 DEF electionVars
  <2>2. Belongs("swap")
    BY <1>4 DEF Belongs
  <2>3. /\ ThreadInv' /\ round'[t] = round[t] + 1
        /\ \A u \in Threads : u # t => round'[u] = round[u] /\ pc'[u] = pc[u]
        /\ pc'[t] \in {"end", "swap"}
    BY <1>4, <2>1, <2>2, EndsRoundFree
  <2>4. ElectionInv'
    BY <1>4, <2>1, <2>3, PassingKeeps DEF Elections
  <2> QED
    BY <2>3, <2>4
<1>5. CASE election1_elect(t) \/ election3_elect(t)
  <2>1. /\ program \in {"election1", "election3"} /\ program # "election4"
        /\ \/ FindsNone(t)
           \/ FindsLeader(t) /\ NextRound(t, "test")
           \/ Claim(t)
           \/ CountLeader(t) /\ NextRound(t, "test")
    BY <1>5 DEF election1_elect, election3_elect
  <2> QED
    BY <1>1, <1>2, <2>1, FindsNoneKeeps, ClaimKeeps
<1>6. CASE election4_elect(t)
  BY <1>2, <1>3, <1>4, <1>6 DEF election4_elect
<1>7. QED
  BY <1>5, <1>6

LEMMA LockedElectionKeeps ==
    ASSUME ThreadInv, ElectionInv, NEW t \in Threads, program' = program, election2_elect(t)
    PROVE  ThreadInv' /\ ElectionInv'
<1>1. program = "election2" /\ program \in Locking /\ program \in Elections
  BY DEF election2_elect, Locking, Elections
<1>2. cv = {}
  BY <1>1 DEF ThreadInv
<1>3. CASE pc[t] = "acquire" /\ lock_acquire(t) /\ GoTo(t, "test") /\ UNCHANGED <<round, electionVars>>
  <2>1. mutex = Free /\ mutex' = t /\ cv' = cv /\ UNCHANGED <<round, leader, nb_leaders>>
    BY <1>3 DEF lock_acquire, electionVars
  <2>2. Belongs("test") /\ "test" \in Steps /\ "test" \in Locked
    BY <1>1 DEF Belongs, Steps, Locked
  <2>3. /\ ThreadInv' /\ pc'[t] = "test"
        /\ \A u \in Threads : u # t => pc'[u] = pc[u]
    BY <1>1, <1>2, <1>3, <2>1, <2>2, Stays
  <2>4. ElectionInv'
    BY <1>1, <1>3, <2>1, <2>3, PassingKeeps
  <2> QED
    BY <2>3, <2>4
<1>4. CASE FindsLeader(t) /\ GoTo(t, "release") /\ UNCHANGED round
  <2>1. /\ pc[t] = "test" /\ leader[round[t]] # NoLeader
        /\ UNCHANGED <<round, leader, nb_leaders, mutex, cv>>
    BY <1>4 DEF FindsLeader, electionVars
  <2>2. Belongs("release") /\ "release" \in Steps /\ "release" \in Locked
    BY <1>1 DEF Belongs, Steps, Locked
  <2>3. mutex = t
    BY <1>1, <2>1 DEF ThreadInv, Locked
  <2>4. /\ ThreadInv' /\ pc'[t] = "release"
        /\ \A u \in Threads : u # t => pc'[u] = pc[u]
    BY <1>1, <1>2, <1>4, <2>1, <2>2, <2>3, Stays
  <2>5. ElectionInv'
    BY <1>1, <2>1, <2>4, PassingKeeps
  <2> QED
    BY <2>4, <2>5
<1>5. CASE CountLeader(t) /\ GoTo(t, "release") /\ UNCHANGED round
  <2>1. /\ pc[t] = "count"
        /\ nb_leaders' = [nb_leaders EXCEPT ![round[t]] = nb_leaders[round[t]] + 1]
        /\ UNCHANGED <<round, leader, mutex, cv>>
    BY <1>5 DEF CountLeader
  <2>2. Belongs("release") /\ "release" \in Steps /\ "release" \in Locked
    BY <1>1 DEF Belongs, Steps, Locked
  <2>3. mutex = t
    BY <1>1, <2>1 DEF ThreadInv, Locked
  <2>4. /\ ThreadInv' /\ pc'[t] = "release"
        /\ \A u \in Threads : u # t => pc'[u] = pc[u]
    BY <1>1, <1>2, <1>5, <2>1, <2>2, <2>3, Stays
  <2>5. ElectionInv'
    BY <1>1, <2>1, <2>4, CountingKeeps
  <2> QED
    BY <2>4, <2>5
<1>6. CASE pc[t] = "release" /\ lock_release(t) /\ NextRound(t, "acquire") /\ UNCHANGED electionVars
  <2>1. mutex' = Free /\ cv' = cv /\ UNCHANGED <<leader, nb_leaders>>
    BY <1>6 DEF lock_release, electionVars
  <2>2. mutex = t
    BY <1>1, <1>6 DEF ThreadInv, Locked
  <2>3. Belongs("acquire") /\ "acquire" \in Steps /\ "acquire" \notin Locked
    BY <1>1 DEF Belongs, Steps, Locked
  <2>4. /\ ThreadInv' /\ round'[t] = round[t] + 1
        /\ \A u \in Threads : u # t => round'[u] = round[u] /\ pc'[u] = pc[u]
        /\ pc'[t] \in {"end", "acquire"}
    BY <1>1, <1>2, <1>6, <2>1, <2>2, <2>3, Constants, EndsRound
  <2>5. leader[round[t]] # NoLeader
    <3>1. t \in Past(round[t]) /\ round[t] \in Rounds
      BY <1>6, RoundOf DEF Past
    <3> QED
      BY <1>1, <3>1 DEF ElectionInv
  <2>6. ElectionInv'
    BY <1>1, <1>6, <2>1, <2>4, <2>5, PassingKeeps
  <2> QED
    BY <2>4, <2>6
<1>7. QED
  BY <1>1, <1>3, <1>4, <1>5, <1>6, FindsNoneKeeps, ClaimKeeps DEF election2_elect

LEMMA ElectionKeeps ==
    ASSUME ThreadInv, ElectionInv, NEW t \in Threads, program' = program, ElectionStep(t)
    PROVE  ThreadInv' /\ ElectionInv'
  BY UnlockedElectionKeeps, LockedElectionKeeps DEF ElectionStep

(* What main of an election finds.                                         *)
LEMMA ElectsOne == ASSUME ThreadInv, ElectionInv PROVE OneLeader
<1> SUFFICES ASSUME program \in {"election2", "election4"}, NEW r \in Rounds
             PROVE  /\ leader[r] # NoLeader <=> nb_leaders[r] + Cardinality(Counting(r)) = 1
                    /\ (\E t \in Threads : round[t] > r) => leader[r] # NoLeader
  BY DEF OneLeader, Counting
<1>1. /\ \A t \in Past(r) \cup Counting(r) : leader[r] # NoLeader
      /\ leader[r] # NoLeader => nb_leaders[r] >= 1 \/ Counting(r) # {}
      /\ leader[r] = NoLeader => nb_leaders[r] = 0
      /\ Counting(r) # {} => nb_leaders[r] = 0
      /\ nb_leaders[r] <= 1 /\ nb_leaders[r] \in Nat
      /\ \A t, u \in Counting(r) : t = u
  BY DEF ElectionInv, Elections
<1>2. CASE Counting(r) = {}
  <2>1. Cardinality(Counting(r)) = 0
    BY <1>2, FS_EmptySet
  <2>2. leader[r] # NoLeader <=> nb_leaders[r] = 1
    BY <1>1, <1>2
  <2>3. nb_leaders[r] + 0 = nb_leaders[r]
    BY <1>1
  <2> QED
    BY <1>1, <2>1, <2>2, <2>3 DEF Past
<1>3. CASE Counting(r) # {}
  <2>1. PICK t : t \in Counting(r)
    BY <1>3
  <2>2. Counting(r) = {t}
    BY <1>1, <2>1
  <2>3. Cardinality(Counting(r)) = 1
    BY <2>2, FS_Singleton
  <2>4. leader[r] # NoLeader /\ nb_leaders[r] = 0
    BY <1>1, <2>1
  <2> QED
    BY <2>3, <2>4
<1>4. QED
  BY <1>2, <1>3

LEMMA ElectsSome == ASSUME ThreadInv, ElectionInv PROVE SomeoneLeads
<1> SUFFICES ASSUME Joined, program \in {"election1", "election3"}, NEW r \in Rounds
             PROVE  nb_leaders[r] \in Threads /\ leader[r] \in Threads
  BY DEF SomeoneLeads
<1>1. 1 \in Threads /\ r < RUNS
  BY Constants DEF Rounds
<1>2. round[1] > r
  <2>1. pc[1] = "end" /\ round[1] = RUNS
    BY <1>1 DEF Joined, ThreadInv, Buffers
  <2> QED
    BY <1>1, <2>1, Constants DEF Rounds
<1>3. leader[r] # NoLeader
  BY <1>1, <1>2 DEF ElectionInv, Past, Elections
<1>4. Counting(r) = {}
  BY DEF Joined, Counting
<1>5. nb_leaders[r] \in Nat /\ nb_leaders[r] >= 1 /\ nb_leaders[r] <= Cardinality(Past(r))
  BY <1>3, <1>4 DEF ElectionInv, Elections
<1>6. nb_leaders[r] <= THREADS /\ THREADS \in Nat
  BY <1>5, PastFinite, Constants
<1>7. nb_leaders[r] \in Threads
  BY <1>5, <1>6 DEF Threads
<1>8. leader[r] \in Threads
  BY <1>3 DEF ElectionInv
<1>9. QED
  BY <1>7, <1>8
----------------------------------------------------------------------------
(* The buffers.  The producer is between two items, has generated one, or  *)
(* has published it; so has the consumer.                                  *)

Slots == 0 .. BUFFER_SIZE - 1
Published == {"release", "wake"}
Unstarted == {"acquire", "test", "poll", "copy1"}
Allowed == {"copy1", "copy2", "publish"}

BufferTypes ==
    /\ buffer \in [Slots -> [Halves -> 0 .. RUNS]]
    /\ produced \in [Items -> [Halves -> 0 .. RUNS]]
    /\ consumed \in [Items -> [Halves -> 0 .. RUNS]]
    /\ produced_until \in Nat /\ consumed_until \in Nat

Ordered ==
    /\ pc[1] \in Published => produced_until = round[1] + 1
    /\ pc[1] \notin Published => produced_until = round[1]
    /\ pc[2] \in Published => consumed_until = round[2] + 1
    /\ pc[2] \notin Published => consumed_until = round[2]
    /\ consumed_until <= produced_until /\ produced_until <= consumed_until + BUFFER_SIZE
    /\ pc[1] \in Allowed => round[1] < consumed_until + BUFFER_SIZE
    /\ pc[2] \in Allowed => round[2] < produced_until

InBuffer ==
    /\ \A r \in Items, h \in Halves :
          consumed_until <= r /\ r < produced_until => buffer[Slot(r)][h] = r + 1
    /\ pc[1] = "copy2" => buffer[Slot(round[1])][1] = round[1] + 1
    /\ pc[1] = "publish" => \A h \in Halves : buffer[Slot(round[1])][h] = round[1] + 1

WasProduced ==
    /\ \A r \in Items, h \in Halves : r < produced_until => produced[r][h] = r + 1
    /\ pc[1] \in {"copy2", "publish"} => \A h \in Halves : produced[round[1]][h] = round[1] + 1

WasConsumed ==
    /\ \A r \in Items, h \in Halves : r < consumed_until => consumed[r][h] = r + 1
    /\ \A r \in Items, h \in Halves : round[2] < r => consumed[r][h] = 0
    /\ pc[2] \in Unstarted => \A h \in Halves : consumed[round[2]][h] = 0
    /\ pc[2] = "copy2" => consumed[round[2]][1] = round[2] + 1 /\ consumed[round[2]][2] = 0
    /\ pc[2] = "publish" => \A h \in Halves : consumed[round[2]][h] = round[2] + 1

BufferInv ==
    /\ BufferTypes
    /\ program \notin {"procon2", "procon3", "procon4"} => produced_until = 0 /\ consumed_until = 0
    /\ program \in {"procon2", "procon3", "procon4"} =>
          Ordered /\ InBuffer /\ WasProduced /\ WasConsumed

LEMMA SlotIn == ASSUME NEW r \in Nat PROVE Slot(r) \in Slots
  BY BufferSizeAssumption DEF Slot, Slots

LEMMA SlotDivision == ASSUME NEW r \in Nat PROVE \E q \in Nat : r = BUFFER_SIZE * q + Slot(r)
<1>1. r = BUFFER_SIZE * (r \div BUFFER_SIZE) + (r % BUFFER_SIZE) /\ r \div BUFFER_SIZE \in Nat
  BY BufferSizeAssumption
<1>2. QED
  BY <1>1 DEF Slot

(* Items less than a buffer apart have slots of their own.                 *)
LEMMA SlotsDiffer ==
    ASSUME NEW x \in Nat, NEW y \in Nat, x < y, y < x + BUFFER_SIZE
    PROVE  Slot(x) # Slot(y)
<1> SUFFICES ASSUME Slot(x) = Slot(y) PROVE FALSE
  OBVIOUS
<1>1. PICK q \in Nat : x = BUFFER_SIZE * q + Slot(x)
  BY SlotDivision
<1>2. PICK s \in Nat : y = BUFFER_SIZE * s + Slot(y)
  BY SlotDivision
<1>3. BUFFER_SIZE \in Nat /\ Slot(x) \in Nat
  BY BufferSizeAssumption, SlotIn DEF Slots
<1>4. BUFFER_SIZE * q \in Nat /\ BUFFER_SIZE * s \in Nat
  BY <1>3
<1>5. CASE s <= q
  <2>1. BUFFER_SIZE * s <= BUFFER_SIZE * q
    BY <1>3, <1>5
  <2> QED
    BY <1>1, <1>2, <1>3, <1>4, <2>1
<1>6. CASE s >= q + 1
  <2>1. BUFFER_SIZE * s >= BUFFER_SIZE * q + BUFFER_SIZE
    BY <1>3, <1>6
  <2> QED
    BY <1>1, <1>2, <1>3, <1>4, <2>1
<1>7. QED
  BY <1>5, <1>6

LEMMA ProduceWrites ==
    ASSUME ThreadInv, BufferTypes, pc[1] # "end", NEW h \in Halves, Produce(h)
    PROVE  /\ BufferTypes'
           /\ \A s \in Slots, k \in Halves :
                 buffer'[s][k] = IF s = Slot(round[1]) /\ k = h THEN round[1] + 1 ELSE buffer[s][k]
           /\ \A r \in Items, k \in Halves :
                 produced'[r][k] = IF r = round[1] THEN round[1] + 1 ELSE produced[r][k]
           /\ UNCHANGED <<consumed, produced_until, consumed_until>>
           /\ round[1] \in Items
<1> DEFINE p == round[1]
<1>1. p \in Items /\ p \in Nat /\ p + 1 \in 0 .. RUNS
  BY Constants DEF ThreadInv, Items
<1>2. /\ produced' = [produced EXCEPT ![p] = [k \in Halves |-> p + 1]]
      /\ buffer' = [buffer EXCEPT ![Slot(p)][h] = p + 1]
      /\ UNCHANGED <<consumed, produced_until, consumed_until>>
  BY DEF Produce, Producer
<1> HIDE DEF p
<1>3. Slot(p) \in Slots
  BY <1>1, SlotIn
<1>4. [k \in Halves |-> p + 1] \in [Halves -> 0 .. RUNS]
  BY <1>1
<1>5. /\ produced' \in [Items -> [Halves -> 0 .. RUNS]]
      /\ \A r \in Items, k \in Halves : produced'[r][k] = IF r = p THEN p + 1 ELSE produced[r][k]
  BY <1>1, <1>2, <1>4 DEF BufferTypes
<1>6. /\ [buffer[Slot(p)] EXCEPT ![h] = p + 1] \in [Halves -> 0 .. RUNS]
      /\ \A k \in Halves :
            [buffer[Slot(p)] EXCEPT ![h] = p + 1][k] = IF k = h THEN p + 1 ELSE buffer[Slot(p)][k]
  BY <1>1, <1>3 DEF BufferTypes
<1>7. buffer' = [buffer EXCEPT ![Slot(p)] = [buffer[Slot(p)] EXCEPT ![h] = p + 1]]
  BY <1>2, <1>3 DEF BufferTypes
<1>8. /\ buffer' \in [Slots -> [Halves -> 0 .. RUNS]]
      /\ \A s \in Slots : s # Slot(p) => buffer'[s] = buffer[s]
      /\ buffer'[Slot(p)] = [buffer[Slot(p)] EXCEPT ![h] = p + 1]
  BY <1>3, <1>6, <1>7 DEF BufferTypes
<1>9. \A s \in Slots, k \in Halves :
         buffer'[s][k] = IF s = Slot(p) /\ k = h THEN p + 1 ELSE buffer[s][k]
  BY <1>6, <1>8
<1>10. BufferTypes'
  BY <1>2, <1>5, <1>8 DEF BufferTypes
<1>11. QED
  BY <1>1, <1>2, <1>5, <1>9, <1>10 DEF p

LEMMA ConsumeReads ==
    ASSUME ThreadInv, BufferTypes, pc[2] # "end", NEW h \in Halves, Consume(h)
    PROVE  /\ BufferTypes'
           /\ \A r \in Items, k \in Halves :
                 consumed'[r][k] = IF r = round[2] /\ k = h THEN buffer[Slot(round[2])][h]
                                                           ELSE consumed[r][k]
           /\ UNCHANGED <<buffer, produced, produced_until, consumed_until>>
           /\ round[2] \in Items
<1> DEFINE c == round[2]
<1> DEFINE got == buffer[Slot(c)][h]
<1>1. c \in Items /\ c \in Nat
  BY Constants DEF ThreadInv, Items
<1>2. /\ consumed' = [consumed EXCEPT ![c][h] = got]
      /\ UNCHANGED <<buffer, produced, produced_until, consumed_until>>
  BY DEF Consume, Consumer
<1>3. got \in 0 .. RUNS
  BY <1>1, SlotIn DEF BufferTypes
<1> HIDE DEF c, got
<1>4. /\ [consumed[c] EXCEPT ![h] = got] \in [Halves -> 0 .. RUNS]
      /\ \A k \in Halves : [consumed[c] EXCEPT ![h] = got][k] = IF k = h THEN got ELSE consumed[c][k]
  BY <1>1, <1>3 DEF BufferTypes
<1>5. consumed' = [consumed EXCEPT ![c] = [consumed[c] EXCEPT ![h] = got]]
  BY <1>1, <1>2 DEF BufferTypes
<1>6. /\ consumed' \in [Items -> [Halves -> 0 .. RUNS]]
      /\ \A r \in Items : r # c => consumed'[r] = consumed[r]
      /\ consumed'[c] = [consumed[c] EXCEPT ![h] = got]
  BY <1>1, <1>4, <1>5 DEF BufferTypes
<1>7. \A r \in Items, k \in Halves :
         consumed'[r][k] = IF r = c /\ k = h THEN got ELSE consumed[r][k]
  BY <1>4, <1>6
<1>8. BufferTypes'
  BY <1>2, <1>6 DEF BufferTypes
<1>9. QED
  BY <1>1, <1>2, <1>7, <1>8 DEF c, got

Synchronised == {"procon2", "procon3", "procon4"}

(* A thread that leaves the buffer alone: it may wait, be allowed to go on *)
(* or end a round it has published.                                        *)
LEMMA MoveKeepsOrder ==
    ASSUME ThreadInv, ThreadInv', NEW t \in {1, 2}, BufferTypes, Ordered, UNCHANGED bufferVars,
           \A u \in {1, 2} : u # t => round'[u] = round[u] /\ pc'[u] = pc[u],
           \/ /\ pc[t] \in Unstarted \cup Published /\ round'[t] = round[t]
              /\ pc[t] \in Published <=> pc'[t] \in Published
              /\ pc'[t] \in Allowed => MayProceed(t)
           \/ pc[t] \in Published /\ round'[t] = round[t] + 1 /\ pc'[t] \notin Published \cup Allowed
    PROVE  Ordered'
<1>1. UNCHANGED <<produced_until, consumed_until>>
  BY DEF bufferVars
<1>2. /\ round[1] \in Nat /\ round[2] \in Nat /\ round'[1] \in Nat /\ round'[2] \in Nat
      /\ produced_until \in Nat /\ consumed_until \in Nat /\ BUFFER_SIZE \in Nat
  BY Constants, BufferSizeAssumption DEF ThreadInv, BufferTypes
<1>3. CASE t = 1
  <2>1. round'[2] = round[2] /\ pc'[2] = pc[2]
    BY <1>3
  <2>2. /\ pc'[1] \in Published => produced_until = round'[1] + 1
        /\ pc'[1] \notin Published => produced_until = round'[1]
    BY <1>2, <1>3 DEF Ordered, Unstarted, Published
  <2>3. pc'[1] \in Allowed => round'[1] < consumed_until + BUFFER_SIZE
    BY <1>2, <1>3 DEF MayProceed, Producer
  <2> QED
    BY <1>1, <2>1, <2>2, <2>3 DEF Ordered
<1>4. CASE t = 2
  <2>1. round'[1] = round[1] /\ pc'[1] = pc[1]
    BY <1>4
  <2>2. /\ pc'[2] \in Published => consumed_until = round'[2] + 1
        /\ pc'[2] \notin Published => consumed_until = round'[2]
    BY <1>2, <1>4 DEF Ordered, Unstarted, Published
  <2>3. pc'[2] \in Allowed => round'[2] < produced_until
    BY <1>2, <1>4 DEF MayProceed, Producer
  <2> QED
    BY <1>1, <2>1, <2>2, <2>3 DEF Ordered
<1>5. QED
  BY <1>3, <1>4

LEMMA MoveKeeps ==
    ASSUME ThreadInv, ThreadInv', NEW t \in {1, 2}, BufferInv, UNCHANGED bufferVars,
           program \in Synchronised, program' = program,
           \A u \in {1, 2} : u # t => round'[u] = round[u] /\ pc'[u] = pc[u],
           \/ /\ pc[t] \in Unstarted \cup Published /\ round'[t] = round[t]
              /\ pc[t] \in Published <=> pc'[t] \in Published
              /\ pc'[t] \in Allowed => MayProceed(t)
           \/ pc[t] \in Published /\ round'[t] = round[t] + 1 /\ pc'[t] \notin Published \cup Allowed,
           pc'[t] \notin {"copy2", "publish"}
    PROVE  BufferInv'
<1>1. BufferTypes /\ Ordered /\ InBuffer /\ WasProduced /\ WasConsumed
  BY DEF BufferInv, Synchronised
<1>2. UNCHANGED <<buffer, produced, consumed, produced_until, consumed_until>>
  BY DEF bufferVars
<1>3. Ordered'
  BY <1>1, MoveKeepsOrder
<1>4. /\ pc'[1] \in {"copy2", "publish"} => pc'[1] = pc[1] /\ round'[1] = round[1]
      /\ pc'[2] \in {"copy2", "publish"} => pc'[2] = pc[2] /\ round'[2] = round[2]
  OBVIOUS
<1>5. InBuffer'
  BY <1>1, <1>2, <1>4 DEF InBuffer
<1>6. WasProduced'
  BY <1>1, <1>2, <1>4 DEF WasProduced
<1>7. /\ round[2] \in Nat /\ round'[2] \in Nat /\ round[2] <= round'[2]
      /\ \A r \in Items : r \in Nat
  BY Constants DEF ThreadInv, Items
<1>8. \A r \in Items, h \in Halves : round'[2] < r => consumed[r][h] = 0
  BY <1>1, <1>7 DEF WasConsumed
<1>9. pc'[2] \in Unstarted => \A h \in Halves : consumed[round'[2]][h] = 0
  <2>1. CASE round'[2] = round[2]
    <3>1. pc'[2] \in Unstarted => pc[2] \in Unstarted
      BY <2>1, <1>1, <1>7 DEF Unstarted, Published
    <3> QED
      BY <1>1, <2>1, <3>1 DEF WasConsumed
  <2>2. CASE round'[2] # round[2]
    <3>1. round[2] < round'[2]
      BY <1>7, <2>2
    <3>2. pc'[2] \in Unstarted => round'[2] \in Items
      BY Constants, <1>7 DEF ThreadInv, Unstarted, Items
    <3> QED
      BY <1>1, <3>1, <3>2 DEF WasConsumed
  <2> QED
    BY <2>1, <2>2
<1>10. WasConsumed'
  BY <1>1, <1>2, <1>4, <1>8, <1>9 DEF WasConsumed
<1>11. BufferTypes'
  BY <1>1, <1>2 DEF BufferTypes
<1>12. QED
  BY <1>3, <1>5, <1>6, <1>10, <1>11 DEF BufferInv, Synchronised

(* The producer copies half of his item.                                   *)
LEMMA ProduceKeeps ==
    ASSUME ThreadInv, ThreadInv', BufferInv, program \in Synchronised, program' = program,
           NEW h \in Halves, Produce(h), UNCHANGED round, pc'[2] = pc[2],
           \/ h = 1 /\ pc[1] = "copy1" /\ pc'[1] = "copy2"
           \/ h = 2 /\ pc[1] = "copy2" /\ pc'[1] = "publish"
    PROVE  BufferInv'
<1>1. BufferTypes /\ Ordered /\ InBuffer /\ WasProduced /\ WasConsumed
  BY DEF BufferInv, Synchronised
<1> DEFINE p == round[1]
<1>2. /\ BufferTypes'
      /\ \A s \in Slots, k \in Halves :
            buffer'[s][k] = IF s = Slot(p) /\ k = h THEN p + 1 ELSE buffer[s][k]
      /\ \A r \in Items, k \in Halves : produced'[r][k] = IF r = p THEN p + 1 ELSE produced[r][k]
      /\ UNCHANGED <<consumed, produced_until, consumed_until>>
      /\ p \in Items
  BY <1>1, ProduceWrites
<1>3. /\ pc[1] \in Allowed /\ pc'[1] \in Allowed /\ pc'[1] \notin Published
      /\ pc[1] \notin Published
  BY DEF Allowed, Published
<1>4. /\ produced_until = p /\ consumed_until <= p /\ p < consumed_until + BUFFER_SIZE
      /\ p \in Nat /\ consumed_until \in Nat /\ BUFFER_SIZE \in Nat
  BY <1>1, <1>2, <1>3, BufferSizeAssumption, Constants DEF Ordered, BufferTypes, Items
<1>5. Ordered'
  BY <1>1, <1>2, <1>3 DEF Ordered
<1>6. p' = p
  OBVIOUS
<1> HIDE DEF p
<1>7. ASSUME NEW r \in Items, NEW k \in Halves, consumed_until <= r, r < produced_until
      PROVE  buffer'[Slot(r)][k] = r + 1
  <2>1. r \in Nat /\ r < p /\ p < r + BUFFER_SIZE
    BY <1>4, <1>7, Constants DEF Items
  <2>2. Slot(r) # Slot(p) /\ Slot(r) \in Slots
    BY <1>4, <2>1, SlotsDiffer, SlotIn
  <2>3. buffer'[Slot(r)][k] = buffer[Slot(r)][k]
    BY <1>2, <2>2
  <2> QED
    BY <1>1, <1>7, <2>3 DEF InBuffer
<1>8. Slot(p) \in Slots /\ 1 \in Halves /\ 2 \in Halves /\ \A k \in Halves : k = 1 \/ k = 2
  BY <1>4, SlotIn DEF Halves
<1>9. /\ pc'[1] = "copy2" => buffer'[Slot(p)][1] = p + 1
      /\ pc'[1] = "publish" => \A k \in Halves : buffer'[Slot(p)][k] = p + 1
  BY <1>1, <1>2, <1>8 DEF InBuffer, p
<1>10. InBuffer'
  BY <1>2, <1>6, <1>7, <1>9 DEF InBuffer, p
<1>11. WasProduced'
  <2>1. ASSUME NEW r \in Items, NEW k \in Halves, r < produced_until
        PROVE  produced'[r][k] = r + 1
    BY <1>1, <1>2, <2>1 DEF WasProduced
  <2>2. \A k \in Halves : produced'[p][k] = p + 1
    BY <1>2
  <2> QED
    BY <1>2, <1>6, <2>1, <2>2 DEF WasProduced, p
<1>12. WasConsumed'
  BY <1>1, <1>2 DEF WasConsumed
<1>13. QED
  BY <1>2, <1>5, <1>10, <1>11, <1>12 DEF BufferInv, Synchronised

(* The consumer copies half of the item of his round.                      *)
LEMMA ConsumeKeeps ==
    ASSUME ThreadInv, ThreadInv', BufferInv, program \in Synchronised, program' = program,
           NEW h \in Halves, Consume(h), UNCHANGED round, pc'[1] = pc[1],
           \/ h = 1 /\ pc[2] = "copy1" /\ pc'[2] = "copy2"
           \/ h = 2 /\ pc[2] = "copy2" /\ pc'[2] = "publish"
    PROVE  BufferInv'
<1>1. BufferTypes /\ Ordered /\ InBuffer /\ WasProduced /\ WasConsumed
  BY DEF BufferInv, Synchronised
<1> DEFINE c == round[2]
<1>2. /\ BufferTypes'
      /\ \A r \in Items, k \in Halves :
            consumed'[r][k] = IF r = c /\ k = h THEN buffer[Slot(c)][h] ELSE consumed[r][k]
      /\ UNCHANGED <<buffer, produced, produced_until, consumed_until>>
      /\ c \in Items
  BY <1>1, ConsumeReads
<1>3. /\ pc[2] \in Allowed /\ pc'[2] \in Allowed /\ pc'[2] \notin Published
      /\ pc[2] \notin Published /\ pc'[2] \notin Unstarted
  BY DEF Allowed, Published, Unstarted
<1>4. /\ consumed_until = c /\ c < produced_until /\ c \in Nat
  BY <1>1, <1>2, <1>3, Constants DEF Ordered, Items
<1>5. Ordered'
  BY <1>1, <1>2, <1>3 DEF Ordered
<1>6. InBuffer' /\ WasProduced'
  BY <1>1, <1>2 DEF InBuffer, WasProduced
<1>7. buffer[Slot(c)][h] = c + 1
  BY <1>1, <1>2, <1>4 DEF InBuffer
<1> HIDE DEF c
<1>8. 1 \in Halves /\ 2 \in Halves /\ \A k \in Halves : k = 1 \/ k = 2
  BY DEF Halves
<1>9. ASSUME NEW r \in Items, NEW k \in Halves, r # c
      PROVE  consumed'[r][k] = consumed[r][k]
  BY <1>2, <1>9
<1>10. /\ pc'[2] = "copy2" => consumed'[c][1] = c + 1 /\ consumed'[c][2] = 0
       /\ pc'[2] = "publish" => \A k \in Halves : consumed'[c][k] = c + 1
  <2>1. CASE h = 1 /\ pc[2] = "copy1" /\ pc'[2] = "copy2"
    <3>1. consumed[c][2] = 0
      BY <1>1, <1>8, <2>1 DEF WasConsumed, Unstarted, c
    <3> QED
      BY <1>2, <1>7, <1>8, <2>1, <3>1
  <2>2. CASE h = 2 /\ pc[2] = "copy2" /\ pc'[2] = "publish"
    <3>1. consumed[c][1] = c + 1
      BY <1>1, <2>2 DEF WasConsumed, c
    <3> QED
      BY <1>2, <1>7, <1>8, <2>2, <3>1
  <2> QED
    BY <2>1, <2>2
<1>11. \A r \in Items, k \in Halves : r < consumed_until => consumed'[r][k] = r + 1
  BY <1>1, <1>4, <1>9, Constants DEF WasConsumed, Items
<1>12. \A r \in Items, k \in Halves : c < r => consumed'[r][k] = 0
  BY <1>1, <1>4, <1>9, Constants DEF WasConsumed, Items, c
<1>13. WasConsumed'
  BY <1>2, <1>3, <1>10, <1>11, <1>12 DEF WasConsumed, c
<1>14. QED
  BY <1>2, <1>5, <1>6, <1>13 DEF BufferInv, Synchronised

(* A thread tells the other that its item is there, or its slot free.      *)
LEMMA PublishKeeps ==
    ASSUME ThreadInv, ThreadInv', BufferInv, program \in Synchronised, program' = program,
           NEW t \in {1, 2}, Publish(t),
           \A u \in {1, 2} : u # t => round'[u] = round[u] /\ pc'[u] = pc[u],
           \/ pc'[t] = "release" /\ round'[t] = round[t]
           \/ pc'[t] \in {"end", "poll"} /\ round'[t] = round[t] + 1
    PROVE  BufferInv'
<1>1. BufferTypes /\ Ordered /\ InBuffer /\ WasProduced /\ WasConsumed
  BY DEF BufferInv, Synchronised
<1>2. /\ pc[t] = "publish" /\ UNCHANGED <<buffer, produced, consumed>>
      /\ produced_until' = produced_until + (IF t = 1 THEN 1 ELSE 0)
      /\ consumed_until' = consumed_until + (IF t = 2 THEN 1 ELSE 0)
  BY DEF Publish, Producer, Consumer
<1>3. /\ round[1] \in Nat /\ round[2] \in Nat /\ produced_until \in Nat /\ consumed_until \in Nat
      /\ BUFFER_SIZE \in Nat /\ \A r \in Items : r \in Nat
  BY <1>1, Constants, BufferSizeAssumption DEF ThreadInv, BufferTypes, Items
<1>4. pc'[t] \notin Allowed /\ pc[t] \in Allowed /\ pc[t] \notin Published
  BY <1>2 DEF Allowed, Published
<1>5. \/ pc'[t] \in Published /\ round'[t] = round[t]
      \/ pc'[t] \notin Published /\ round'[t] = round[t] + 1
  BY DEF Published
<1>6. CASE t = 1
  <2>1. /\ produced_until' = round[1] + 1 /\ produced_until = round[1] /\ consumed_until' = consumed_until
        /\ round'[2] = round[2] /\ pc'[2] = pc[2]
        /\ round[1] < consumed_until + BUFFER_SIZE
    BY <1>1, <1>2, <1>3, <1>4, <1>6 DEF Ordered
  <2>2. Ordered'
    BY <1>1, <1>3, <1>4, <1>5, <1>6, <2>1 DEF Ordered
  <2>3. pc'[1] \notin {"copy2", "publish"}
    BY <1>6
  <2>4. \A r \in Items, h \in Halves :
           consumed_until <= r /\ r < produced_until' => buffer[Slot(r)][h] = r + 1
    <3>1. \A h \in Halves : buffer[Slot(round[1])][h] = round[1] + 1
      BY <1>1, <1>2, <1>6 DEF InBuffer
    <3>2. \A r \in Items : r < produced_until' => r < produced_until \/ r = round[1]
      BY <1>3, <2>1
    <3> QED
      BY <1>1, <3>1, <3>2 DEF InBuffer
  <2>5. InBuffer'
    BY <1>2, <2>1, <2>3, <2>4 DEF InBuffer
  <2>6. \A r \in Items, h \in Halves : r < produced_until' => produced[r][h] = r + 1
    <3>1. \A h \in Halves : produced[round[1]][h] = round[1] + 1
      BY <1>1, <1>2, <1>6 DEF WasProduced
    <3>2. \A r \in Items : r < produced_until' => r < produced_until \/ r = round[1]
      BY <1>3, <2>1
    <3> QED
      BY <1>1, <3>1, <3>2 DEF WasProduced
  <2>7. WasProduced'
    BY <1>2, <2>3, <2>6 DEF WasProduced
  <2>8. WasConsumed'
    BY <1>1, <1>2, <2>1 DEF WasConsumed
  <2>9. BufferTypes'
    BY <1>1, <1>2, <1>3, <2>1 DEF BufferTypes
  <2> QED
    BY <2>2, <2>5, <2>7, <2>8, <2>9 DEF BufferInv, Synchronised
<1>7. CASE t = 2
  <2>1. /\ consumed_until' = round[2] + 1 /\ consumed_until = round[2] /\ produced_until' = produced_until
        /\ round'[1] = round[1] /\ pc'[1] = pc[1]
        /\ round[2] < produced_until
    BY <1>1, <1>2, <1>3, <1>4, <1>7 DEF Ordered
  <2>2. Ordered'
    BY <1>1, <1>3, <1>4, <1>5, <1>7, <2>1 DEF Ordered
  <2>3. pc'[2] \notin {"copy2", "publish"}
    BY <1>7
  <2>4. \A r \in Items : consumed_until' <= r => consumed_until <= r
    BY <1>3, <2>1
  <2>5. InBuffer'
    BY <1>1, <1>2, <2>1, <2>4 DEF InBuffer
  <2>6. WasProduced'
    BY <1>1, <1>2, <2>1 DEF WasProduced
  <2>7. \A r \in Items, h \in Halves : r < consumed_until' => consumed[r][h] = r + 1
    <3>1. \A h \in Halves : consumed[round[2]][h] = round[2] + 1
      BY <1>1, <1>2, <1>7 DEF WasConsumed
    <3>2. \A r \in Items : r < consumed_until' => r < consumed_until \/ r = round[2]
      BY <1>3, <2>1
    <3> QED
      BY <1>1, <3>1, <3>2 DEF WasConsumed
  <2>8. \A r \in Items, h \in Halves : round'[2] < r => consumed[r][h] = 0
    <3>1. \A r \in Items : round'[2] < r => round[2] < r
      BY <1>3, <1>5, <1>7
    <3> QED
      BY <1>1, <3>1 DEF WasConsumed
  <2>9. pc'[2] \in Unstarted => \A h \in Halves : consumed[round'[2]][h] = 0
    <3>1. ASSUME pc'[2] \in Unstarted PROVE round'[2] \in Items /\ round[2] < round'[2]
      <4>1. pc'[2] = "poll" /\ round'[2] = round[2] + 1 /\ pc'[2] # "end"
        BY <1>7, <3>1 DEF Unstarted
      <4>2. round'[2] < RUNS /\ RUNS \in Nat
        BY <4>1, Constants DEF ThreadInv, Threads
      <4> QED
        BY <1>3, <4>1, <4>2 DEF Items
    <3> QED
      BY <1>1, <3>1 DEF WasConsumed
  <2>10. WasConsumed'
    BY <1>2, <2>3, <2>7, <2>8, <2>9 DEF WasConsumed
  <2>11. BufferTypes'
    BY <1>1, <1>2, <1>3, <2>1 DEF BufferTypes
  <2> QED
    BY <2>2, <2>5, <2>6, <2>10, <2>11 DEF BufferInv, Synchronised
<1>8. QED
  BY <1>6, <1>7

LEMMA BufferThreads ==
    ASSUME ThreadInv, NEW t \in Threads, pc[t] # "end", program \in Buffers
    PROVE  t \in {1, 2} /\ \A u \in {1, 2} : u \in Threads
  BY Constants DEF ThreadInv

LEMMA CopyTypes ==
    ASSUME ThreadInv, BufferTypes, NEW t \in {1, 2}, pc[t] # "end", NEW h \in Halves, CopyHalf(t, h)
    PROVE  BufferTypes' /\ UNCHANGED <<produced_until, consumed_until>>
<1>1. CASE t = 1
  BY <1>1, ProduceWrites DEF CopyHalf, Producer
<1>2. CASE t = 2
  BY <1>2, ConsumeReads DEF CopyHalf, Producer
<1>3. QED
  BY <1>1, <1>2

LEMMA CopyKeeps ==
    ASSUME ThreadInv, ThreadInv', BufferInv, program \in Synchronised, program' = program,
           NEW t \in {1, 2}, NEW h \in Halves, CopyHalf(t, h), UNCHANGED round,
           \A u \in {1, 2} : u # t => pc'[u] = pc[u],
           \/ h = 1 /\ pc[t] = "copy1" /\ pc'[t] = "copy2"
           \/ h = 2 /\ pc[t] = "copy2" /\ pc'[t] = "publish"
    PROVE  BufferInv'
<1>1. CASE t = 1
  <2>1. Produce(h) /\ pc'[2] = pc[2]
    BY <1>1 DEF CopyHalf, Producer
  <2> QED
    BY <1>1, <2>1, ProduceKeeps
<1>2. CASE t = 2
  <2>1. Consume(h) /\ pc'[1] = pc[1]
    BY <1>2 DEF CopyHalf, Producer
  <2> QED
    BY <1>2, <2>1, ConsumeKeeps
<1>3. QED
  BY <1>1, <1>2

LEMMA CopyFirstKeeps ==
    ASSUME ThreadInv, BufferInv, NEW t \in Threads, program' = program, program \in Buffers,
           CopyFirst(t)
    PROVE  ThreadInv' /\ BufferInv'
<1>1. /\ pc[t] = "copy1" /\ CopyHalf(t, 1) /\ GoTo(t, "copy2")
      /\ UNCHANGED <<round, mutex, cv>>
  BY DEF CopyFirst
<1>2. mutex = t <=> program \in Locking
  BY <1>1 DEF ThreadInv, Locked
<1>3. Belongs("copy2") /\ "copy2" \in Steps /\ "copy2" \in Locked
  BY DEF Belongs, Steps, Locked
<1>4. t \notin cv
  BY <1>1 DEF ThreadInv
<1>5. /\ ThreadInv' /\ pc'[t] = "copy2"
      /\ \A u \in Threads : u # t => pc'[u] = pc[u]
  BY <1>1, <1>2, <1>3, <1>4, Stays
<1>6. t \in {1, 2} /\ 1 \in Threads /\ 2 \in Threads /\ 1 \in Halves
  BY <1>1, BufferThreads DEF Halves
<1>7. CASE program = "procon1"
  <2>1. BufferTypes' /\ UNCHANGED <<produced_until, consumed_until>>
    BY <1>1, <1>6, CopyTypes DEF BufferInv
  <2>2. program \notin {"procon2", "procon3", "procon4"}
    BY <1>7
  <2>3. BufferInv'
    BY <2>1, <2>2 DEF BufferInv
  <2> QED
    BY <1>5, <2>3
<1>8. CASE program \in Synchronised
  <2>1. BufferInv'
    BY <1>1, <1>5, <1>6, <1>8, CopyKeeps
  <2> QED
    BY <1>5, <2>1
<1>9. QED
  BY <1>7, <1>8 DEF Buffers, Synchronised

LEMMA CopySecondKeeps ==
    ASSUME ThreadInv, BufferInv, NEW t \in Threads, program' = program, program \in Synchronised,
           CopySecond(t), GoTo(t, "publish"), UNCHANGED round
    PROVE  ThreadInv' /\ BufferInv'
<1>1. pc[t] = "copy2" /\ CopyHalf(t, 2) /\ UNCHANGED <<mutex, cv>>
  BY DEF CopySecond
<1>2. mutex = t <=> program \in Locking
  BY <1>1 DEF ThreadInv, Locked
<1>3. Belongs("publish") /\ "publish" \in Steps /\ "publish" \in Locked
  BY DEF Belongs, Steps, Locked, Synchronised
<1>4. t \notin cv
  BY <1>1 DEF ThreadInv
<1>5. /\ ThreadInv' /\ pc'[t] = "publish"
      /\ \A u \in Threads : u # t => pc'[u] = pc[u]
  BY <1>1, <1>2, <1>3, <1>4, Stays
<1>6. t \in {1, 2} /\ 1 \in Threads /\ 2 \in Threads /\ 2 \in Halves
  BY <1>1, BufferThreads DEF Halves, Synchronised, Buffers
<1>7. BufferInv'
  BY <1>1, <1>5, <1>6, CopyKeeps
<1>8. QED
  BY <1>5, <1>7

\* a step in the round that leaves the buffer alone
LEMMA WaitingKeeps ==
    ASSUME ThreadInv, ThreadInv', BufferInv, NEW t \in Threads, program' = program,
           program \in Synchronised, UNCHANGED <<round, bufferVars>>,
           \A u \in Threads : u # t => pc'[u] = pc[u],
           \/ pc[t] \in Unstarted /\ pc'[t] \in Unstarted \ {"copy1"}
           \/ pc[t] \in Unstarted /\ pc'[t] = "copy1" /\ MayProceed(t)
           \/ pc[t] = "release" /\ pc'[t] = "wake"
    PROVE  BufferInv'
<1>1. pc[t] # "end" /\ pc'[t] \notin {"copy2", "publish"}
  BY DEF Unstarted
<1>2. t \in {1, 2} /\ 1 \in Threads /\ 2 \in Threads
  BY <1>1, BufferThreads DEF Synchronised, Buffers
<1>3. /\ pc[t] \in Unstarted \cup Published
      /\ pc[t] \in Published <=> pc'[t] \in Published
      /\ pc'[t] \in Allowed => MayProceed(t)
  BY DEF Unstarted, Published, Allowed
<1>4. QED
  BY <1>1, <1>2, <1>3, MoveKeeps

\* a thread that has published ends its round
LEMMA RoundEndKeeps ==
    ASSUME ThreadInv, ThreadInv', BufferInv, NEW t \in Threads, program' = program,
           program \in Synchronised, UNCHANGED bufferVars, pc[t] \in Published,
           \A u \in Threads : u # t => round'[u] = round[u] /\ pc'[u] = pc[u],
           round'[t] = round[t] + 1, pc'[t] \in {"end", "acquire"}
    PROVE  BufferInv'
<1>1. pc[t] # "end" /\ pc'[t] \notin {"copy2", "publish"} /\ pc'[t] \notin Published \cup Allowed
  BY DEF Published, Allowed
<1>2. t \in {1, 2} /\ 1 \in Threads /\ 2 \in Threads
  BY <1>1, BufferThreads DEF Synchronised, Buffers
<1>3. QED
  BY <1>1, <1>2, MoveKeeps

(* The steps of the producers and consumers.                               *)
LEMMA AcquireKeeps ==
    ASSUME ThreadInv, BufferInv, NEW t \in Threads, program' = program,
           program \in {"procon2", "procon4"}, Acquire(t)
    PROVE  ThreadInv' /\ BufferInv'
<1>1. /\ pc[t] = "acquire" /\ mutex = Free /\ mutex' = t /\ cv' = cv /\ t \notin cv
      /\ GoTo(t, "test") /\ UNCHANGED <<round, bufferVars>>
  BY DEF Acquire, lock_acquire
<1>2. program \in Locking /\ program \in Synchronised
  BY DEF Locking, Synchronised
<1>3. Belongs("test") /\ "test" \in Steps /\ "test" \in Locked
  BY DEF Belongs, Steps, Locked
<1>4. /\ ThreadInv' /\ pc'[t] = "test"
      /\ \A u \in Threads : u # t => pc'[u] = pc[u]
  BY <1>1, <1>2, <1>3, Stays
<1>5. pc[t] \in Unstarted /\ pc'[t] \in Unstarted \ {"copy1"}
  BY <1>1, <1>4 DEF Unstarted
<1>6. BufferInv'
  BY <1>1, <1>2, <1>4, <1>5, WaitingKeeps
<1>7. QED
  BY <1>4, <1>6

\* the condition holds, under the lock or not
LEMMA PassKeeps ==
    ASSUME ThreadInv, BufferInv, NEW t \in Threads, program' = program, program \in Synchronised,
           pc[t] \in {"test", "poll"}, MayProceed(t), GoTo(t, "copy1"),
           UNCHANGED <<round, bufferVars, mutex, cv>>
    PROVE  ThreadInv' /\ BufferInv'
<1>1. mutex = t <=> program \in Locking /\ "copy1" \in Locked
  BY DEF ThreadInv, Belongs, Locking, Locked, Synchronised
<1>2. Belongs("copy1") /\ "copy1" \in Steps
  BY DEF Belongs, Steps, Buffers, Synchronised
<1>3. t \notin cv
  BY DEF ThreadInv
<1>4. /\ ThreadInv' /\ pc'[t] = "copy1"
      /\ \A u \in Threads : u # t => pc'[u] = pc[u]
  BY <1>1, <1>2, <1>3, Stays
<1>5. pc[t] \in Unstarted
  BY DEF Unstarted
<1>6. BufferInv'
  BY <1>4, <1>5, WaitingKeeps
<1>7. QED
  BY <1>4, <1>6

\* the condition does not hold: the lock is released, perhaps to sleep
LEMMA WaitKeeps ==
    ASSUME ThreadInv, BufferInv, NEW t \in Threads, program' = program,
           \/ program = "procon2" /\ cv' = cv
           \/ program = "procon4" /\ cv' = cv \cup {t},
           pc[t] = "test", mutex' = Free, GoTo(t, "acquire"), UNCHANGED <<round, bufferVars>>
    PROVE  ThreadInv' /\ BufferInv'
<1>1. program \in Locking /\ program \in Synchronised
  BY DEF Locking, Synchronised
<1>2. mutex = t /\ mutex' # t
  BY <1>1, Constants DEF ThreadInv, Locked
<1>3. Belongs("acquire") /\ "acquire" \in Steps /\ "acquire" \notin Locked
  BY <1>1 DEF Belongs, Steps, Locked
<1>4. cv' \subseteq cv \cup {t} /\ (program # "procon4" => cv' = cv)
  OBVIOUS
<1>5. /\ ThreadInv' /\ pc'[t] = "acquire"
      /\ \A u \in Threads : u # t => pc'[u] = pc[u]
  BY <1>1, <1>2, <1>3, <1>4, Stays
<1>6. pc[t] \in Unstarted /\ pc'[t] \in Unstarted \ {"copy1"}
  BY <1>5 DEF Unstarted
<1>7. BufferInv'
  BY <1>1, <1>5, <1>6, WaitingKeeps
<1>8. QED
  BY <1>5, <1>7

LEMMA PublishLockedKeeps ==
    ASSUME ThreadInv, BufferInv, NEW t \in Threads, program' = program,
           program \in {"procon2", "procon4"},
           Publish(t), GoTo(t, "release"), UNCHANGED <<round, mutex, cv>>
    PROVE  ThreadInv' /\ BufferInv'
<1>1. pc[t] = "publish" /\ program \in Locking /\ program \in Synchronised /\ program \in Buffers
  BY DEF Publish, Locking, Synchronised, Buffers
<1>2. mutex = t
  BY <1>1 DEF ThreadInv, Locked
<1>3. Belongs("release") /\ "release" \in Steps /\ "release" \in Locked
  BY <1>1 DEF Belongs, Steps, Locked
<1>4. t \notin cv
  BY <1>1 DEF ThreadInv
<1>5. /\ ThreadInv' /\ pc'[t] = "release"
      /\ \A u \in Threads : u # t => pc'[u] = pc[u]
  BY <1>1, <1>2, <1>3, <1>4, Stays
<1>6. t \in {1, 2} /\ 1 \in Threads /\ 2 \in Threads
  BY <1>1, BufferThreads
<1>7. BufferInv'
  BY <1>1, <1>5, <1>6, PublishKeeps
<1>8. QED
  BY <1>5, <1>7

LEMMA PublishFreeKeeps ==
    ASSUME ThreadInv, BufferInv, NEW t \in Threads, program' = program, program = "procon3",
           Publish(t), NextRound(t, "poll"), UNCHANGED <<mutex, cv>>
    PROVE  ThreadInv' /\ BufferInv'
<1>1. pc[t] = "publish" /\ program \notin Locking /\ program \in Synchronised /\ program \in Buffers
  BY DEF Publish, Locking, Synchronised, Buffers
<1>2. mutex # t /\ cv = {}
  BY <1>1 DEF ThreadInv
<1>3. Belongs("poll") /\ "poll" \in Steps
  BY DEF Belongs, Steps
<1>4. /\ ThreadInv' /\ round'[t] = round[t] + 1
      /\ \A u \in Threads : u # t => round'[u] = round[u] /\ pc'[u] = pc[u]
      /\ pc'[t] \in {"end", "poll"}
  BY <1>1, <1>2, <1>3, EndsRound
<1>5. t \in {1, 2} /\ 1 \in Threads /\ 2 \in Threads
  BY <1>1, BufferThreads
<1>6. BufferInv'
  BY <1>1, <1>4, <1>5, PublishKeeps
<1>7. QED
  BY <1>4, <1>6

\* procon2 ends the round as it releases the lock, procon4 after a wake-up
LEMMA ReleaseKeeps ==
    ASSUME ThreadInv, BufferInv, NEW t \in Threads, program' = program, NextRound(t, "acquire"),
           UNCHANGED bufferVars,
           \/ program = "procon2" /\ pc[t] = "release" /\ mutex' = Free /\ cv' = cv
           \/ program = "procon4" /\ pc[t] = "wake" /\ mutex' = mutex /\ cv' = {}
    PROVE  ThreadInv' /\ BufferInv'
<1>1. /\ program \in Locking /\ program \in Synchronised
      /\ pc[t] # "end" /\ pc[t] \in Published /\ pc[t] # "acquire"
  BY DEF Locking, Synchronised, Published
<1>2. mutex' # t /\ (mutex' = mutex \/ (mutex = t /\ mutex' = Free))
  BY <1>1, Constants DEF ThreadInv, Locked
<1>3. cv' \subseteq cv /\ t \notin cv' /\ (program # "procon4" => cv' = cv)
  BY <1>1 DEF ThreadInv
<1>4. Belongs("acquire") /\ "acquire" \in Steps /\ "acquire" \notin Locked
  BY <1>1 DEF Belongs, Steps, Locked
<1>5. /\ ThreadInv' /\ round'[t] = round[t] + 1
      /\ \A u \in Threads : u # t => round'[u] = round[u] /\ pc'[u] = pc[u]
      /\ pc'[t] \in {"end", "acquire"}
  BY <1>1, <1>2, <1>3, <1>4, EndsRound
<1>6. BufferInv'
  BY <1>1, <1>5, RoundEndKeeps
<1>7. QED
  BY <1>5, <1>6

LEMMA ReleaseToWakeKeeps ==
    ASSUME ThreadInv, BufferInv, NEW t \in Threads, program' = program, program = "procon4",
           pc[t] = "release", lock_release(t), GoTo(t, "wake"), UNCHANGED <<round, bufferVars>>
    PROVE  ThreadInv' /\ BufferInv'
<1>1. mutex' = Free /\ cv' = cv /\ program \in Locking /\ program \in Synchronised
  BY DEF lock_release, Locking, Synchronised
<1>2. mutex = t /\ mutex' # t /\ t \notin cv
  BY <1>1, Constants DEF ThreadInv, Locked
<1>3. Belongs("wake") /\ "wake" \in Steps /\ "wake" \notin Locked
  BY DEF Belongs, Steps, Locked
<1>4. /\ ThreadInv' /\ pc'[t] = "wake"
      /\ \A u \in Threads : u # t => pc'[u] = pc[u]
  BY <1>1, <1>2, <1>3, Stays
<1>5. BufferInv'
  BY <1>1, <1>4, WaitingKeeps
<1>6. QED
  BY <1>4, <1>5

LEMMA Procon1Keeps ==
    ASSUME ThreadInv, BufferInv, NEW t \in Threads, program' = program, procon1_thread(t)
    PROVE  ThreadInv' /\ BufferInv'
<1>1. program = "procon1" /\ program \in Buffers /\ program \notin Locking
  BY DEF procon1_thread, Buffers, Locking
<1>2. CASE CopySecond(t) /\ NextRound(t, "copy1")
  <2>1. pc[t] = "copy2" /\ CopyHalf(t, 2) /\ UNCHANGED <<mutex, cv>>
    BY <1>2 DEF CopySecond
  <2>2. mutex # t /\ cv = {}
    BY <1>1 DEF ThreadInv
  <2>3. Belongs("copy1") /\ "copy1" \in Steps
    BY <1>1 DEF Belongs, Steps
  <2>4. ThreadInv'
    BY <1>1, <1>2, <2>1, <2>2, <2>3, EndsRound
  <2>5. t \in {1, 2} /\ 2 \in Halves /\ pc[t] # "end"
    BY <1>1, <2>1, BufferThreads DEF Halves
  <2>6. BufferTypes' /\ UNCHANGED <<produced_until, consumed_until>>
    BY <2>1, <2>5, CopyTypes DEF BufferInv
  <2>7. program \notin {"procon2", "procon3", "procon4"}
    BY <1>1
  <2>8. BufferInv'
    BY <2>6, <2>7 DEF BufferInv
  <2> QED
    BY <2>4, <2>8
<1>3. QED
  BY <1>1, <1>2, CopyFirstKeeps DEF procon1_thread

LEMMA BufferKeeps ==
    ASSUME ThreadInv, BufferInv, NEW t \in Threads, program' = program, BufferStep(t)
    PROVE  ThreadInv' /\ BufferInv'
<1>1. CASE /\ program \in {"procon2", "procon4"}
           /\ Acquire(t) \/ TestPasses(t) \/ CopyAndPublishLocked(t)
  <2>1. program \in Synchronised /\ program \in Buffers
    BY <1>1 DEF Synchronised, Buffers
  <2>2. CASE TestPasses(t)
    BY <2>1, <2>2, PassKeeps DEF TestPasses
  <2>3. CASE CopyAndPublishLocked(t)
    BY <1>1, <2>1, <2>3, CopyFirstKeeps, CopySecondKeeps, PublishLockedKeeps DEF CopyAndPublishLocked
  <2> QED
    BY <1>1, <2>2, <2>3, AcquireKeeps
<1>2. CASE procon2_thread(t)
  <2>1. program = "procon2"
    BY <1>2 DEF procon2_thread
  <2>2. CASE /\ pc[t] = "test" /\ ~MayProceed(t) /\ lock_release(t)
             /\ GoTo(t, "acquire") /\ UNCHANGED <<round, bufferVars>>
    BY <2>1, <2>2, WaitKeeps DEF lock_release
  <2>3. CASE pc[t] = "release" /\ lock_release(t) /\ NextRound(t, "acquire") /\ UNCHANGED bufferVars
    BY <2>1, <2>3, ReleaseKeeps DEF lock_release
  <2> QED
    BY <1>1, <1>2, <2>1, <2>2, <2>3 DEF procon2_thread
<1>3. CASE procon4_thread(t)
  <2>1. program = "procon4"
    BY <1>3 DEF procon4_thread
  <2>2. CASE /\ pc[t] = "test" /\ ~MayProceed(t) /\ lock_wait(t)
             /\ GoTo(t, "acquire") /\ UNCHANGED <<round, bufferVars>>
    BY <2>1, <2>2, WaitKeeps DEF lock_wait
  <2>3. CASE pc[t] = "wake" /\ lock_wake_up /\ NextRound(t, "acquire") /\ UNCHANGED bufferVars
    BY <2>1, <2>3, ReleaseKeeps DEF lock_wake_up
  <2>4. CASE pc[t] = "release" /\ lock_release(t) /\ GoTo(t, "wake") /\ UNCHANGED <<round, bufferVars>>
    BY <2>1, <2>4, ReleaseToWakeKeeps
  <2> QED
    BY <1>1, <1>3, <2>1, <2>2, <2>3, <2>4 DEF procon4_thread
<1>4. CASE procon3_thread(t)
  <2>1. program = "procon3" /\ program \in Synchronised /\ program \in Buffers
    BY <1>4 DEF procon3_thread, Synchronised, Buffers
  <2>2. CASE /\ pc[t] = "poll" /\ MayProceed(t) /\ GoTo(t, "copy1")
             /\ UNCHANGED <<round, bufferVars, mutex, cv>>
    BY <2>1, <2>2, PassKeeps
  <2> QED
    BY <1>4, <2>1, <2>2, CopyFirstKeeps, CopySecondKeeps, PublishFreeKeeps DEF procon3_thread
<1>5. QED
  BY <1>2, <1>3, <1>4, Procon1Keeps DEF BufferStep

(* What the consumer gets.                                                 *)
LEMMA GetsWhatWasPut == ASSUME ThreadInv, BufferInv PROVE ConsumesProduced
<1> SUFFICES ASSUME program \in Synchronised, NEW r \in Items, NEW h \in Halves
             PROVE  \/ consumed[r][h] = produced[r][h] /\ produced[r][h] # 0
                    \/ consumed[r][h] = 0 /\ round[2] <= r
  BY DEF ConsumesProduced, Synchronised, Consumer
<1>1. BufferTypes /\ Ordered /\ WasProduced /\ WasConsumed
  BY DEF BufferInv, Synchronised
<1>2. /\ r \in Nat /\ round[2] \in Nat /\ produced_until \in Nat /\ consumed_until \in Nat
      /\ r < RUNS /\ RUNS \in Nat
  BY <1>1, Constants DEF BufferTypes, ThreadInv, Items
<1>3. CASE r < consumed_until
  <2>1. r < produced_until
    BY <1>1, <1>2, <1>3 DEF Ordered
  <2>2. consumed[r][h] = r + 1 /\ produced[r][h] = r + 1 /\ r + 1 # 0
    BY <1>1, <1>2, <1>3, <2>1 DEF WasProduced, WasConsumed
  <2> QED
    BY <2>2
<1>4. CASE round[2] < r
  BY <1>1, <1>2, <1>4 DEF WasConsumed
<1>5. CASE r >= consumed_until /\ r <= round[2]
  <2>1. pc[2] \notin Published /\ r = round[2]
    BY <1>1, <1>2, <1>5 DEF Ordered
  <2>2. pc[2] # "end"
    <3>1. round[2] # RUNS
      BY <1>2, <2>1
    <3>2. 2 \in Threads
      BY Constants
    <3> QED
      BY <3>1, <3>2 DEF ThreadInv
  <2>3. pc[2] \in Unstarted \cup {"copy2", "publish"}
    <3>1. 2 \in Threads
      BY Constants
    <3>2. pc[2] \in Steps /\ Belongs(pc[2]) /\ pc[2] \notin {"release", "wake"}
      BY <2>1, <3>1 DEF ThreadInv, Published
    <3> QED
      BY <2>2, <3>2 DEF Steps, Belongs, Unstarted, Synchronised, Elections
  <2>4. CASE pc[2] \in Unstarted
    <3>1. consumed[r][h] = 0
      BY <1>1, <2>1, <2>4 DEF WasConsumed
    <3> QED
      BY <1>2, <2>1, <3>1
  <2>5. CASE pc[2] \in {"copy2", "publish"}
    <3>1. r < produced_until
      BY <1>1, <2>1, <2>5 DEF Ordered, Allowed
    <3>2. produced[r][h] = r + 1 /\ r + 1 # 0
      BY <1>1, <1>2, <3>1 DEF WasProduced
    <3>3. consumed[r][h] = r + 1 \/ consumed[r][h] = 0
      <4>1. h = 1 \/ h = 2
        BY DEF Halves
      <4>2. CASE pc[2] = "copy2"
        BY <1>1, <2>1, <4>1, <4>2 DEF WasConsumed
      <4>3. CASE pc[2] = "publish"
        BY <1>1, <2>1, <4>3 DEF WasConsumed
      <4> QED
        BY <2>5, <4>2, <4>3
    <3> QED
      BY <1>2, <2>1, <3>2, <3>3
  <2> QED
    BY <2>3, <2>4, <2>5
<1>6. QED
  BY <1>2, <1>3, <1>4, <1>5

LEMMA SharesNoSlot == ASSUME ThreadInv, BufferInv PROVE SlotsNotShared
<1> SUFFICES ASSUME program \in Synchronised, pc[1] \in Allowed, pc[2] \in Allowed
             PROVE  Slot(round[1]) # Slot(round[2])
  BY DEF SlotsNotShared, Synchronised, Producer, Consumer, Allowed
<1>1. BufferTypes /\ Ordered
  BY DEF BufferInv, Synchronised
<1>2. pc[1] \notin Published /\ pc[2] \notin Published
  BY DEF Allowed, Published
<1>3. round[1] \in Nat /\ round[2] \in Nat /\ produced_until \in Nat /\ consumed_until \in Nat
  BY <1>1, Constants DEF BufferTypes, ThreadInv
<1>4. round[2] < round[1] /\ round[1] < round[2] + BUFFER_SIZE
  BY <1>1, <1>2, <1>3 DEF Ordered
<1>5. QED
  BY <1>3, <1>4, SlotsDiffer
----------------------------------------------------------------------------
(* The three families together.                                            *)

ExamplesInv == ThreadInv /\ CounterInv /\ ElectionInv /\ BufferInv

LEMMA FamiliesDiffer ==
    /\ program \in Counters => program \notin Elections /\ program \notin Buffers
    /\ program \in Elections => program \notin Counters /\ program \notin Buffers
    /\ program \in Buffers => program \notin Counters /\ program \notin Elections
  BY DEF Counters, Elections, Buffers

LEMMA CounterRests ==
    ASSUME CounterInv, program \notin Counters, program' = program, UNCHANGED counterVars
    PROVE  CounterInv'
<1>1. UNCHANGED <<counter, copy>>
  BY DEF counterVars
<1>2. program \notin {"counter1", "counter3"} /\ program \notin {"counter2", "counter4"} /\ program # "counter2"
  BY DEF Counters
<1>3. QED
  BY <1>1, <1>2 DEF CounterInv

LEMMA ElectionRests ==
    ASSUME ElectionInv, program \notin Elections, program' = program, UNCHANGED electionVars
    PROVE  ElectionInv'
<1>1. UNCHANGED <<leader, nb_leaders>>
  BY DEF electionVars
<1>2. program \notin {"election2", "election4"} /\ program # "election2"
  BY DEF Elections
<1>3. QED
  BY <1>1, <1>2 DEF ElectionInv

LEMMA BufferRests ==
    ASSUME BufferInv, program \notin Buffers, program' = program, UNCHANGED bufferVars
    PROVE  BufferInv'
<1>1. UNCHANGED <<buffer, produced, consumed, produced_until, consumed_until>>
  BY DEF bufferVars
<1>2. program \notin {"procon2", "procon3", "procon4"}
  BY DEF Buffers
<1>3. BufferTypes'
  BY <1>1 DEF BufferInv, BufferTypes
<1>4. QED
  BY <1>1, <1>2, <1>3 DEF BufferInv

LEMMA ExamplesStart == ASSUME ExamplesInit PROVE ExamplesInv
<1>1. ThreadInv
  BY ThreadStart
<1>2. /\ \A t \in Threads : round[t] = 0 /\ pc[t] \in {"end", "read", "acquire", "add", "test", "swap", "copy1", "poll"}
      /\ \A t \in Threads : pc[t] = "end" => program \in Buffers
  <2>1. ASSUME NEW t \in Threads PROVE round[t] = 0
    BY DEF ExamplesInit, CounterLaunch, ElectionLaunch, BufferLaunch, Launch, counter1_main,
           counter2_main, counter3_main, counter4_main, election1_main, election2_main,
           election3_main, election4_main, procon1_main, procon2_main, procon3_main, procon4_main
  <2>2. ASSUME NEW t \in Threads
        PROVE  pc[t] \in {"end", "read", "acquire", "add", "test", "swap", "copy1", "poll"}
    BY DEF ExamplesInit, CounterLaunch, ElectionLaunch, BufferLaunch, Launch, counter1_main,
           counter2_main, counter3_main, counter4_main, election1_main, election2_main,
           election3_main, election4_main, procon1_main, procon2_main, procon3_main, procon4_main
  <2>3. ASSUME NEW t \in Threads, pc[t] = "end" PROVE program \in Buffers
    <3>1. round[t] # RUNS
      BY <2>1, Constants
    <3> QED
      BY <1>1, <2>3, <3>1 DEF ThreadInv
  <2> QED
    BY <2>1, <2>2, <2>3
<1>3. CounterInv
  <2>1. counter = 0 /\ counter \in Nat
    BY DEF ExamplesInit, CounterStart
  <2>2. copy \in [Threads -> Nat] /\ \A t \in Threads : copy[t] = 0
    BY DEF ExamplesInit, CounterStart
  <2>3. Increments = {}
    <3>1. ASSUME NEW i \in Threads \X Rounds
          PROVE  ~(i[2] < round[i[1]] \/ (i[2] = round[i[1]] /\ pc[i[1]] = "release"))
      <4>1. i[1] \in Threads /\ i[2] \in Rounds
        BY <3>1
      <4>2. round[i[1]] = 0 /\ pc[i[1]] # "release"
        BY <1>2, <4>1
      <4>3. i[2] \in Nat
        BY <4>1, Constants DEF Rounds
      <4> QED
        BY <4>2, <4>3
    <3> QED
      BY <3>1 DEF Increments
  <2>4. Cardinality(Increments) = 0
    BY <2>3, FS_EmptySet
  <2>5. program \in {"counter1", "counter3"} => ~Joined
    <3>1. 1 \in Threads
      BY Constants
    <3> QED
      BY <1>2, <3>1 DEF Joined, Buffers
  <2>6. \A t \in Threads : ~(round[t] >= 1) /\ pc[t] # "write"
    BY <1>2
  <2>7. counter <= Cardinality(Increments) /\ \A t \in Threads : copy[t] <= Cardinality(Increments)
    BY <2>1, <2>2, <2>4
  <2>8. counter = Cardinality(Increments)
    BY <2>1, <2>4
  <2> QED
    BY <2>1, <2>2, <2>5, <2>6, <2>7, <2>8 DEF CounterInv
<1>4. ElectionInv
  <2>1. /\ leader \in [Rounds -> Threads \cup {NoLeader}] /\ nb_leaders \in [Rounds -> Nat]
        /\ \A r \in Rounds : leader[r] = NoLeader /\ nb_leaders[r] = 0
    BY DEF ExamplesInit, ElectionStart
  <2>2. ASSUME NEW r \in Rounds PROVE Past(r) = {} /\ Counting(r) = {}
    <3>1. r \in Nat
      BY Constants DEF Rounds
    <3>2. \A t \in Threads : ~(round[t] > r)
      BY <1>2, <3>1
    <3> QED
      BY <1>2, <3>2 DEF Past, Counting
  <2>3. \A r \in Rounds : nb_leaders[r] <= Cardinality(Past(r)) /\ nb_leaders[r] <= 1
    BY <2>1, PastFinite
  <2>4. \A t \in Threads : pc[t] # "claim"
    BY <1>2
  <2> QED
    BY <2>1, <2>2, <2>3, <2>4 DEF ElectionInv
<1>5. BufferInv
  <2>1. /\ buffer = [s \in Slots |-> Nothing] /\ produced_until = 0 /\ consumed_until = 0
        /\ produced = [r \in Items |-> Nothing] /\ consumed = [r \in Items |-> Nothing]
    BY DEF ExamplesInit, BufferStart, Slots
  <2>2. Nothing \in [Halves -> 0 .. RUNS] /\ \A h \in Halves : Nothing[h] = 0
    BY Constants DEF Nothing
  <2>3. BufferTypes
    BY <2>1, <2>2 DEF BufferTypes
  <2>4. 1 \in Threads /\ 2 \in Threads
    BY Constants
  <2>5. /\ round[1] = 0 /\ round[2] = 0
        /\ pc[1] \notin Published /\ pc[2] \notin Published
        /\ pc[1] \notin {"copy2", "publish"} /\ pc[2] \notin {"copy2", "publish"}
    BY <1>2, <2>4 DEF Published
  <2>6. program \in Synchronised => pc[1] \notin Allowed /\ pc[2] \notin Allowed
    BY <2>4 DEF ExamplesInit, CounterLaunch, ElectionLaunch, BufferLaunch, Launch, counter1_main,
           counter2_main, counter3_main, counter4_main, election1_main, election2_main,
           election3_main, election4_main, procon1_main, procon2_main, procon3_main, procon4_main,
           Synchronised, Allowed, Producer, Consumer
  <2>7. program \in Synchronised => Ordered
    BY <2>1, <2>5, <2>6, BufferSizeAssumption DEF Ordered
  <2>8. \A r \in Items : ~(r < 0)
    BY Constants DEF Items
  <2>9. InBuffer /\ WasProduced
    BY <2>1, <2>5, <2>8 DEF InBuffer, WasProduced
  <2>10. \A r \in Items, h \in Halves : consumed[r][h] = 0
    BY <2>1, <2>2
  <2>11. 0 \in Items
    BY Constants DEF Items
  <2>12. WasConsumed
    BY <2>1, <2>5, <2>8, <2>10, <2>11 DEF WasConsumed
  <2> QED
    BY <2>1, <2>3, <2>7, <2>9, <2>12 DEF BufferInv, Synchronised
<1>6. QED
  BY <1>1, <1>3, <1>4, <1>5 DEF ExamplesInv

\* a wake-up that nobody gave changes no one's work
LEMMA SpuriousKeeps ==
    ASSUME ExamplesInv, NEW t \in Threads, Spuriously(t)
    PROVE  ExamplesInv'
<1>1. /\ cv' = cv \ {t} /\ t \in cv
      /\ UNCHANGED <<program, pc, round, mutex, counterVars, electionVars, bufferVars>>
  BY DEF Spuriously, WakeSpuriously
<1>2. program = "procon4"
  BY <1>1 DEF ExamplesInv, ThreadInv
<1>3. program \notin Counters /\ program \notin Elections
  BY <1>2 DEF Counters, Elections
<1>4. ThreadInv'
  <2>1. ASSUME NEW u \in Threads PROVE Belongs(pc[u])'
    BY <1>1 DEF ExamplesInv, ThreadInv, Belongs
  <2>2. cv' \subseteq {u \in Threads : pc'[u] = "acquire"} /\ program' = "procon4"
    BY <1>1, <1>2 DEF ExamplesInv, ThreadInv
  <2> QED
    BY <1>1, <2>1, <2>2 DEF ExamplesInv, ThreadInv, Threads
<1>5. CounterInv' /\ ElectionInv'
  BY <1>1, <1>3, CounterRests, ElectionRests DEF ExamplesInv
<1>6. BufferInv'
  <2>1. UNCHANGED <<program, pc, round, buffer, produced, consumed, produced_until, consumed_until>>
    BY <1>1 DEF bufferVars
  <2> QED
    BY <2>1 DEF ExamplesInv, BufferInv, BufferTypes, Ordered, InBuffer, WasProduced, WasConsumed
<1>7. QED
  BY <1>4, <1>5, <1>6 DEF ExamplesInv

LEMMA ExamplesStep == ASSUME ExamplesInv, [ExamplesNext]_vars PROVE ExamplesInv'
<1>1. ASSUME NEW t \in Threads, CounterStep(t), UNCHANGED <<electionVars, bufferVars, program>>
      PROVE  ExamplesInv'
  <2>1. program \in Counters
    BY <1>1 DEF CounterStep, counter1_count, counter2_count, counter3_count, counter4_count, Counters
  <2>2. ThreadInv' /\ CounterInv'
    BY <1>1, CounterKeeps DEF ExamplesInv
  <2>3. ElectionInv' /\ BufferInv'
    BY <1>1, <2>1, FamiliesDiffer, ElectionRests, BufferRests DEF ExamplesInv
  <2> QED
    BY <2>2, <2>3 DEF ExamplesInv
<1>2. ASSUME NEW t \in Threads, ElectionStep(t), UNCHANGED <<counterVars, bufferVars, program>>
      PROVE  ExamplesInv'
  <2>1. program \in Elections
    BY <1>2 DEF ElectionStep, election1_elect, election2_elect, election3_elect, election4_elect, Elections
  <2>2. ThreadInv' /\ ElectionInv'
    BY <1>2, ElectionKeeps DEF ExamplesInv
  <2>3. CounterInv' /\ BufferInv'
    BY <1>2, <2>1, FamiliesDiffer, CounterRests, BufferRests DEF ExamplesInv
  <2> QED
    BY <2>2, <2>3 DEF ExamplesInv
<1>3. ASSUME NEW t \in Threads, BufferStep(t), UNCHANGED <<counterVars, electionVars, program>>
      PROVE  ExamplesInv'
  <2>1. program \in Buffers
    BY <1>3 DEF BufferStep, procon1_thread, procon2_thread, procon3_thread, procon4_thread, Buffers
  <2>2. ThreadInv' /\ BufferInv'
    BY <1>3, BufferKeeps DEF ExamplesInv
  <2>3. CounterInv' /\ ElectionInv'
    BY <1>3, <2>1, FamiliesDiffer, CounterRests, ElectionRests DEF ExamplesInv
  <2> QED
    BY <2>2, <2>3 DEF ExamplesInv
<1>4. CASE UNCHANGED vars
  <2>1. /\ UNCHANGED <<program, pc, round, mutex, cv, counter, copy, leader, nb_leaders>>
        /\ UNCHANGED <<buffer, produced, consumed, produced_until, consumed_until>>
    BY <1>4 DEF vars, threadVars, counterVars, electionVars, bufferVars
  <2>2. ThreadInv'
    BY <2>1 DEF ExamplesInv, ThreadInv, Belongs
  <2>3. CounterInv'
    BY <2>1 DEF ExamplesInv, CounterInv, Increments, Joined
  <2>4. ElectionInv'
    BY <2>1 DEF ExamplesInv, ElectionInv, Past, Counting
  <2>5. BufferInv'
    <3>1. BufferTypes' /\ Ordered' = Ordered /\ InBuffer' = InBuffer
      BY <2>1 DEF ExamplesInv, BufferInv, BufferTypes, Ordered, InBuffer
    <3>2. WasProduced' = WasProduced /\ WasConsumed' = WasConsumed
      BY <2>1 DEF WasProduced, WasConsumed
    <3> QED
      BY <2>1, <3>1, <3>2 DEF ExamplesInv, BufferInv
  <2> QED
    BY <2>2, <2>3, <2>4, <2>5 DEF ExamplesInv
<1>5. ASSUME NEW t \in Threads, ThreadStep(t) PROVE ExamplesInv'
  BY <1>1, <1>2, <1>3, <1>5 DEF ThreadStep
<1>6. QED
  BY <1>4, <1>5, SpuriousKeeps DEF ExamplesNext

LEMMA ExamplesTypes == ASSUME ExamplesInv PROVE ExamplesTypeOK
<1>1. ThreadInv /\ CounterInv /\ ElectionInv /\ BufferInv
  BY DEF ExamplesInv
<1>2. /\ pc \in [Threads -> Steps] /\ round \in [Threads -> 0 .. RUNS] /\ mutex \in Threads \cup {Free}
      /\ cv \subseteq {t \in Threads : pc[t] = "acquire"}
  BY <1>1 DEF ThreadInv
<1>3. mutex # Free => pc[mutex] \notin {"end", "acquire", "wake"}
  <2>1. mutex # Free => pc[mutex] \in Locked
    BY <1>1, <1>2 DEF ThreadInv
  <2> QED
    BY <2>1 DEF Locked
<1>4. counter \in 0 .. RUNS * THREADS /\ copy \in [Threads -> 0 .. RUNS * THREADS]
  <2> DEFINE all == RUNS * THREADS
  <2>1. all \in Nat /\ Cardinality(Increments) <= all /\ Cardinality(Increments) \in Nat
    BY AllIncrements, IncrementsBounded
  <2>2. counter \in Nat /\ copy \in [Threads -> Nat]
    BY <1>1 DEF CounterInv
  <2> HIDE DEF all
  <2>3. counter <= all /\ \A t \in Threads : copy[t] <= all
    <3>1. CASE program \in Counters
      <4>1. counter <= Cardinality(Increments) /\ \A t \in Threads : copy[t] <= Cardinality(Increments)
        BY <1>1, <3>1 DEF CounterInv
      <4> DEFINE made == Cardinality(Increments)
      <4> HIDE DEF made
      <4>2. made \in Nat /\ made <= all /\ counter <= made /\ \A t \in Threads : copy[t] <= made
        BY <2>1, <4>1 DEF made
      <4> QED
        BY <2>1, <2>2, <4>2
    <3>2. CASE program \notin Counters
      BY <1>1, <2>1, <3>2 DEF CounterInv
    <3> QED
      BY <3>1, <3>2
  <2>4. counter \in 0 .. all /\ copy \in [Threads -> 0 .. all]
    BY <2>1, <2>2, <2>3
  <2> QED
    BY <2>4 DEF all
<1>5. leader \in [Rounds -> Threads \cup {NoLeader}]
  BY <1>1 DEF ElectionInv
<1>6. nb_leaders \in [Rounds -> 0 .. THREADS]
  <2>1. nb_leaders \in [Rounds -> Nat] /\ THREADS \in Nat
    BY <1>1, Constants DEF ElectionInv
  <2>2. ASSUME NEW r \in Rounds PROVE nb_leaders[r] <= THREADS
    <3>1. CASE program \in Elections
      <4>1. nb_leaders[r] <= Cardinality(Past(r))
        BY <1>1, <3>1 DEF ElectionInv
      <4>2. Cardinality(Past(r)) <= THREADS /\ Cardinality(Past(r)) \in Nat
        BY PastFinite
      <4> DEFINE past == Cardinality(Past(r))
      <4> HIDE DEF past
      <4>3. past \in Nat /\ past <= THREADS /\ nb_leaders[r] <= past
        BY <4>1, <4>2 DEF past
      <4> QED
        BY <2>1, <4>3
    <3>2. CASE program \notin Elections
      <4>1. nb_leaders[r] = 0
        BY <1>1, <3>2 DEF ElectionInv
      <4> QED
        BY <2>1, <4>1
    <3> QED
      BY <3>1, <3>2
  <2> QED
    BY <2>1, <2>2
<1>7. /\ buffer \in [Slots -> [Halves -> 0 .. RUNS]]
      /\ produced \in [Items -> [Halves -> 0 .. RUNS]]
      /\ consumed \in [Items -> [Halves -> 0 .. RUNS]]
      /\ produced_until \in Nat /\ consumed_until \in Nat
  BY <1>1 DEF BufferInv, BufferTypes
<1>8. produced_until \in 0 .. RUNS /\ consumed_until \in 0 .. RUNS
  <2>1. /\ 1 \in Threads /\ 2 \in Threads /\ RUNS \in Nat
        /\ round[1] \in 0 .. RUNS /\ round[2] \in 0 .. RUNS
    BY <1>2, Constants
  <2>2. ASSUME NEW t \in Threads, pc[t] \in Published PROVE round[t] < RUNS
    BY <1>1, <2>2 DEF ThreadInv, Published
  <2>3. CASE program \in Synchronised
    <3>1. Ordered
      BY <1>1, <2>3 DEF BufferInv, Synchronised
    <3>2. produced_until <= RUNS
      BY <1>7, <2>1, <2>2, <3>1 DEF Ordered
    <3>3. consumed_until <= RUNS
      BY <1>7, <2>1, <2>2, <3>1 DEF Ordered
    <3> QED
      BY <1>7, <2>1, <3>2, <3>3
  <2>4. CASE program \notin Synchronised
    BY <1>1, <2>1, <2>4 DEF BufferInv, Synchronised
  <2> QED
    BY <2>3, <2>4
<1>9. QED
  BY <1>2, <1>3, <1>4, <1>5, <1>6, <1>7, <1>8 DEF ExamplesTypeOK, Steps, Slots
----------------------------------------------------------------------------
(* The invariant of the twelve programs holds in every run of them.        *)
THEOREM ExamplesInvariance == ExamplesSpec => []ExamplesInv
<1>1. ExamplesInit => ExamplesInv
  BY ExamplesStart
<1>2. ExamplesInv /\ [ExamplesNext]_vars => ExamplesInv'
  BY ExamplesStep
<1>3. QED
  BY <1>1, <1>2, PTL DEF ExamplesSpec

(* Every variable keeps its type; a counter never counts more than the     *)
(* increments asked for, a round never more leaders than threads.          *)
THEOREM ExamplesTypesKept == ExamplesSpec => []ExamplesTypeOK
<1>1. ExamplesInv => ExamplesTypeOK
  BY ExamplesTypes
<1>2. QED
  BY <1>1, ExamplesInvariance, PTL

(* counter2 (the lock) and counter4 (an atomic) count every increment.     *)
THEOREM CountersExact == ExamplesSpec => []ExactCount
<1>1. ExamplesInv => ExactCount
  BY CountsExact DEF ExamplesInv
<1>2. QED
  BY <1>1, ExamplesInvariance, PTL

(* counter1 and counter3 may lose increments; whatever the schedule, main  *)
(* finds at least 2 and at most all that were asked for.                   *)
THEOREM CountersLoseSome == ExamplesSpec => []LostIncrements
<1>1. ExamplesInv => LostIncrements
  BY LossesBounded DEF ExamplesInv
<1>2. QED
  BY <1>1, ExamplesInvariance, PTL

(* election2 (the lock) and election4 (a swap) elect one leader a round.   *)
THEOREM ElectionsElectOne == ExamplesSpec => []OneLeader
<1>1. ExamplesInv => OneLeader
  BY ElectsOne DEF ExamplesInv
<1>2. QED
  BY <1>1, ExamplesInvariance, PTL

(* election1 and election3 may elect several in a round, never none.       *)
THEOREM ElectionsElectSome == ExamplesSpec => []SomeoneLeads
<1>1. ExamplesInv => SomeoneLeads
  BY ElectsSome DEF ExamplesInv
<1>2. QED
  BY <1>1, ExamplesInvariance, PTL

(* The consumers of procon2, procon3 and procon4 get what was put there    *)
(* for them, whole, for a buffer of any size.                              *)
THEOREM ConsumersGetItems == ExamplesSpec => []ConsumesProduced
<1>1. ExamplesInv => ConsumesProduced
  BY GetsWhatWasPut DEF ExamplesInv
<1>2. QED
  BY <1>1, ExamplesInvariance, PTL

(* In those programs no slot is written while it is read.                  *)
THEOREM SlotsKeptApart == ExamplesSpec => []SlotsNotShared
<1>1. ExamplesInv => SlotsNotShared
  BY SharesNoSlot DEF ExamplesInv
<1>2. QED
  BY <1>1, ExamplesInvariance, PTL
=============================================================================
