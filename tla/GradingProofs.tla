--------------------------- MODULE GradingProofs ---------------------------
(***************************************************************************)
(* Proofs about the grader (SpinBarrier, GradingSync, Grader), for any     *)
(* number of workers and of timed runs, with time limit or without, and    *)
(* whatever kinds of phase the workload throws in.  First the barrier,     *)
(* then the phases that master and workers go through, then main.          *)
(***************************************************************************)
EXTENDS Grader, FiniteSetTheorems, TLAPS

(* A worker more among those that have counted themselves.                 *)
LEMMA OneMore ==
    ASSUME NEW S \in SUBSET Workers, NEW w \in Workers, w \notin S
    PROVE  /\ Cardinality(S) \in Nat /\ cardinal \in Nat
           /\ Cardinality(S \cup {w}) = Cardinality(S) + 1
           /\ Cardinality(S) + 1 <= cardinal
           /\ Cardinality(S) + 1 = cardinal <=> S \cup {w} = Workers
<1>1. IsFiniteSet(Workers)
  BY WorkersAssumption
<1>2. IsFiniteSet(S) /\ IsFiniteSet(S \cup {w}) /\ S \cup {w} \subseteq Workers
  BY <1>1, FS_Subset, FS_AddElement
<1>3. Cardinality(S) \in Nat /\ cardinal \in Nat
  BY <1>1, <1>2, FS_CardinalityType DEF cardinal
<1>4. Cardinality(S \cup {w}) = Cardinality(S) + 1
  BY <1>2, FS_AddElement
<1>5. Cardinality(S \cup {w}) <= cardinal
  BY <1>1, <1>2, FS_Subset DEF cardinal
<1>6. ASSUME Cardinality(S \cup {w}) = cardinal PROVE S \cup {w} = Workers
  BY <1>1, <1>2, <1>6, FS_Subset DEF cardinal
<1>7. QED
  BY <1>3, <1>4, <1>5, <1>6 DEF cardinal

(* A worker less.                                                          *)
LEMMA OneLess ==
    ASSUME NEW S \in SUBSET Workers, NEW w \in S
    PROVE  /\ Cardinality(S) \in Nat
           /\ Cardinality(S \ {w}) = Cardinality(S) - 1
           /\ Cardinality(S) - 1 \in Nat
           /\ Cardinality(S) - 1 = 0 <=> S \ {w} = {}
           /\ Cardinality(S) <= cardinal /\ cardinal \in Nat
<1>1. IsFiniteSet(Workers) /\ IsFiniteSet(S) /\ IsFiniteSet(S \ {w})
  BY WorkersAssumption, FS_Subset
<1>2. /\ Cardinality(S) \in Nat /\ cardinal \in Nat /\ Cardinality(S) <= cardinal
      /\ Cardinality(S \ {w}) \in Nat
  BY <1>1, FS_CardinalityType, FS_Subset DEF cardinal
<1>3. Cardinality(S \ {w}) = Cardinality(S) - 1
  BY <1>1, FS_RemoveElement
<1>4. S \ {w} = {} <=> Cardinality(S \ {w}) = 0
  BY <1>1, FS_EmptySet
<1>5. QED
  BY <1>2, <1>3, <1>4
----------------------------------------------------------------------------
(* The barrier.  Its counter is the number of threads that have arrived    *)
(* and not departed yet, in both modes; the one that opens it is alone     *)
(* with everybody inside, the one that closes it with nobody inside.       *)

Inside == {w \in Workers : spot[w] \in {"open", "await leave", "depart"}}

\* the round that w is in: those that saw the last one end are in the next
Round(w) == passed[w] + (IF mode = "enter" /\ spot[w] = "await enter" THEN 1 ELSE 0)

ModeMatches ==
    /\ mode = "enter" => \A w \in Workers : spot[w] \notin {"depart", "close"}
    /\ mode = "leave" => \A w \in Workers : spot[w] \notin {"out", "open"}

LastIsAlone ==
    \A w \in Workers :
        /\ spot[w] = "open" => Inside = Workers /\ \A u \in Workers : spot[u] = "open" => u = w
        /\ spot[w] = "close" => Inside = {} /\ \A u \in Workers : spot[u] = "close" => u = w

BarrierInv ==
    /\ BarrierTypeOK
    /\ step = Cardinality(Inside)
    /\ ModeMatches
    /\ LastIsAlone
    /\ \A w, u \in Workers : Round(w) = Round(u)

BarrierNext == \E w \in Workers : Arrive(w) \/ SyncStep(w)

LEMMA BarrierStart == BarrierInit => BarrierInv
<1> SUFFICES ASSUME BarrierInit PROVE BarrierInv
  OBVIOUS
<1>1. Inside = {} /\ Cardinality({}) = 0 /\ cardinal \in Nat
  BY FS_EmptySet, FS_CardinalityType, WorkersAssumption DEF BarrierInit, Inside, cardinal
<1>2. BarrierTypeOK
  BY <1>1 DEF BarrierInit, BarrierTypeOK, Spots
<1>3. ModeMatches /\ LastIsAlone
  BY DEF BarrierInit, ModeMatches, LastIsAlone
<1>4. \A w, u \in Workers : Round(w) = Round(u)
  BY DEF BarrierInit, Round
<1>5. step = Cardinality(Inside)
  BY <1>1 DEF BarrierInit
<1>6. QED
  BY <1>2, <1>3, <1>4, <1>5 DEF BarrierInv

LEMMA ArriveKeeps ==
    ASSUME BarrierInv, NEW w \in Workers, Arrive(w) PROVE BarrierInv'
<1> DEFINE there == IF step' = cardinal THEN "open" ELSE "await leave"
<1>1. /\ spot[w] = "out" /\ mode = "enter" /\ mode' = mode /\ passed' = passed
      /\ step' = step + 1 /\ step = Cardinality(Inside)
      /\ spot' = [spot EXCEPT ![w] = there] /\ there \in {"open", "await leave"}
      /\ BarrierTypeOK
  BY DEF BarrierInv, ModeMatches, BarrierTypeOK, Arrive, GoToSpot
<1>2. /\ spot'[w] = there
      /\ \A u \in Workers : u # w => spot'[u] = spot[u]
      /\ spot' \in [Workers -> Spots]
  BY <1>1 DEF BarrierTypeOK, Spots
<1> HIDE DEF there
<1>3. Inside \subseteq Workers /\ w \notin Inside /\ Inside' = Inside \cup {w}
  BY <1>1, <1>2 DEF Inside
<1>4. /\ Cardinality(Inside) \in Nat /\ cardinal \in Nat
      /\ Cardinality(Inside') = Cardinality(Inside) + 1
      /\ Cardinality(Inside) + 1 <= cardinal
      /\ Cardinality(Inside) + 1 = cardinal <=> Inside' = Workers
  BY <1>3, OneMore
<1>5. step' = Cardinality(Inside') /\ step' \in 0 .. cardinal
  <2> DEFINE n == Cardinality(Inside)
             m == Cardinality(Inside')
  <2>1. n \in Nat /\ cardinal \in Nat /\ m = n + 1 /\ n + 1 <= cardinal
    BY <1>4
  <2>2. step' = step + 1 /\ step = n
    BY <1>1
  <2> HIDE DEF n, m
  <2>3. step' = m /\ step' \in 0 .. cardinal
    BY <2>1, <2>2
  <2> QED
    BY <2>3 DEF m
<1>6. BarrierTypeOK'
  BY <1>1, <1>2, <1>5 DEF BarrierTypeOK, cardinal
<1>7. ModeMatches'
  BY <1>1, <1>2 DEF BarrierInv, ModeMatches
<1>8. Inside # Workers /\ \A u \in Workers : spot[u] \notin {"open", "close"}
  BY <1>1, <1>3 DEF BarrierInv, LastIsAlone, ModeMatches
<1>9. there = "open" => Inside' = Workers
  BY <1>1, <1>4 DEF there
<1>10. LastIsAlone'
  BY <1>1, <1>2, <1>8, <1>9 DEF LastIsAlone
<1>11. \A u \in Workers : Round(u)' = Round(u)
  BY <1>1, <1>2 DEF Round
<1>12. QED
  BY <1>5, <1>6, <1>7, <1>10, <1>11 DEF BarrierInv

(* The four steps of sync() that do not count.                             *)
LEMMA OpenKeeps ==
    ASSUME BarrierInv, NEW w \in Workers, Open(w) PROVE BarrierInv'
<1>1. /\ spot[w] = "open" /\ mode = "enter" /\ mode' = "leave" /\ passed' = passed
      /\ step' = step /\ step = Cardinality(Inside)
      /\ spot' = [spot EXCEPT ![w] = "depart"]
      /\ BarrierTypeOK
  BY DEF BarrierInv, ModeMatches, BarrierTypeOK, Open, GoToSpot
<1>2. /\ spot'[w] = "depart"
      /\ \A u \in Workers : u # w => spot'[u] = spot[u]
      /\ spot' \in [Workers -> Spots]
  BY <1>1 DEF BarrierTypeOK, Spots
<1>3. Inside = Workers /\ \A u \in Workers : spot[u] = "open" => u = w
  BY <1>1 DEF BarrierInv, LastIsAlone
<1>4. \A u \in Workers : u # w => spot[u] = "await leave"
  BY <1>1, <1>3 DEF BarrierInv, ModeMatches, Inside
<1>5. Inside' = Inside
  BY <1>2, <1>3, <1>4 DEF Inside
<1>6. BarrierTypeOK'
  BY <1>1, <1>2 DEF BarrierTypeOK, cardinal
<1>7. ModeMatches' /\ LastIsAlone'
  BY <1>1, <1>2, <1>4 DEF ModeMatches, LastIsAlone
<1>8. \A u \in Workers : Round(u)' = Round(u)
  BY <1>1, <1>2, <1>4 DEF Round
<1>9. QED
  BY <1>1, <1>5, <1>6, <1>7, <1>8 DEF BarrierInv

LEMMA SeeLeaveKeeps ==
    ASSUME BarrierInv, NEW w \in Workers, SeeLeave(w) PROVE BarrierInv'
<1>1. /\ spot[w] = "await leave" /\ mode = "leave" /\ mode' = mode /\ passed' = passed
      /\ step' = step /\ step = Cardinality(Inside)
      /\ spot' = [spot EXCEPT ![w] = "depart"]
      /\ BarrierTypeOK
  BY DEF BarrierInv, BarrierTypeOK, SeeLeave, GoToSpot
<1>2. /\ spot'[w] = "depart"
      /\ \A u \in Workers : u # w => spot'[u] = spot[u]
      /\ spot' \in [Workers -> Spots]
  BY <1>1 DEF BarrierTypeOK, Spots
<1>3. Inside' = Inside /\ Inside # {}
  BY <1>1, <1>2 DEF Inside
<1>4. BarrierTypeOK'
  BY <1>1, <1>2 DEF BarrierTypeOK, cardinal
<1>5. ModeMatches' /\ LastIsAlone'
  BY <1>1, <1>2, <1>3 DEF BarrierInv, ModeMatches, LastIsAlone
<1>6. \A u \in Workers : Round(u)' = Round(u)
  BY <1>1, <1>2 DEF Round
<1>7. QED
  BY <1>1, <1>3, <1>4, <1>5, <1>6 DEF BarrierInv

LEMMA DepartKeeps ==
    ASSUME BarrierInv, NEW w \in Workers, Depart(w) PROVE BarrierInv'
<1> DEFINE there == IF step' = 0 THEN "close" ELSE "await enter"
<1>1. /\ spot[w] = "depart" /\ mode = "leave" /\ mode' = mode /\ passed' = passed
      /\ step' = step - 1 /\ step = Cardinality(Inside)
      /\ spot' = [spot EXCEPT ![w] = there] /\ there \in {"close", "await enter"}
      /\ BarrierTypeOK
  BY DEF BarrierInv, ModeMatches, BarrierTypeOK, Depart, GoToSpot
<1>2. /\ spot'[w] = there
      /\ \A u \in Workers : u # w => spot'[u] = spot[u]
      /\ spot' \in [Workers -> Spots]
  BY <1>1 DEF BarrierTypeOK, Spots
<1> HIDE DEF there
<1>3. Inside \subseteq Workers /\ w \in Inside /\ Inside' = Inside \ {w}
  BY <1>1, <1>2 DEF Inside
<1>4. /\ step' = Cardinality(Inside') /\ step' \in 0 .. cardinal
      /\ step' = 0 <=> Inside' = {}
  <2> DEFINE n == Cardinality(Inside)
             m == Cardinality(Inside')
  <2>1. /\ n \in Nat /\ m = n - 1 /\ m \in Nat /\ n <= cardinal /\ cardinal \in Nat
        /\ m = 0 <=> Inside' = {}
    BY <1>3, OneLess
  <2>2. step' = step - 1 /\ step = n
    BY <1>1
  <2> HIDE DEF n, m
  <2>3. step' = m /\ step' \in 0 .. cardinal
    BY <2>1, <2>2
  <2> QED
    BY <2>1, <2>3 DEF m
<1>5. BarrierTypeOK'
  BY <1>1, <1>2, <1>4 DEF BarrierTypeOK, cardinal
<1>6. \A u \in Workers : spot[u] \notin {"open", "close"}
  BY <1>1, <1>3 DEF BarrierInv, LastIsAlone, ModeMatches
<1>7. there = "close" => Inside' = {}
  BY <1>4 DEF there
<1>8. ModeMatches' /\ LastIsAlone'
  BY <1>1, <1>2, <1>6, <1>7 DEF BarrierInv, ModeMatches, LastIsAlone
<1>9. \A u \in Workers : Round(u)' = Round(u)
  BY <1>1, <1>2 DEF Round
<1>10. QED
  BY <1>4, <1>5, <1>8, <1>9 DEF BarrierInv

LEMMA CloseKeeps ==
    ASSUME BarrierInv, NEW w \in Workers, Close(w) PROVE BarrierInv'
<1>1. /\ spot[w] = "close" /\ mode = "leave" /\ mode' = "enter" /\ step' = step
      /\ step = Cardinality(Inside)
      /\ spot' = [spot EXCEPT ![w] = "out"]
      /\ passed' = [passed EXCEPT ![w] = passed[w] + 1]
      /\ BarrierTypeOK
  BY DEF BarrierInv, ModeMatches, BarrierTypeOK, Close, Return, GoToSpot
<1>2. /\ spot'[w] = "out" /\ passed'[w] = passed[w] + 1
      /\ \A u \in Workers : u # w => spot'[u] = spot[u] /\ passed'[u] = passed[u]
      /\ spot' \in [Workers -> Spots] /\ passed' \in [Workers -> Nat]
  <2>1. spot \in [Workers -> Spots] /\ "out" \in Spots /\ passed \in [Workers -> Nat]
    BY <1>1 DEF BarrierTypeOK, Spots
  <2>2. passed[w] \in Nat /\ passed[w] + 1 \in Nat
    BY <2>1
  <2>3. spot' \in [Workers -> Spots] /\ spot'[w] = "out"
    BY <1>1, <2>1
  <2>4. passed' \in [Workers -> Nat] /\ passed'[w] = passed[w] + 1
    BY <1>1, <2>1, <2>2
  <2> QED
    BY <1>1, <2>1, <2>3, <2>4
<1>3. Inside = {} /\ \A u \in Workers : spot[u] = "close" => u = w
  BY <1>1 DEF BarrierInv, LastIsAlone
<1>4. \A u \in Workers : u # w => spot[u] = "await enter"
  BY <1>1, <1>3 DEF BarrierInv, BarrierTypeOK, Spots, ModeMatches, Inside
<1>5. Inside' = Inside
  BY <1>2, <1>3, <1>4 DEF Inside
<1>6. BarrierTypeOK'
  BY <1>1, <1>2 DEF BarrierTypeOK, cardinal
<1>7. ModeMatches' /\ LastIsAlone'
  BY <1>1, <1>2, <1>4 DEF ModeMatches, LastIsAlone
<1>8. ASSUME NEW u \in Workers PROVE Round(u) = passed[u] /\ Round(u)' = passed[u] + 1
  <2>1. passed[u] \in Nat /\ passed'[u] \in Nat
    BY <1>1, <1>2 DEF BarrierTypeOK
  <2>2. mode # "enter" /\ Round(u) = passed[u]
    BY <1>1, <2>1 DEF Round
  <2>3. CASE u = w
    <3>1. Round(u)' = passed'[u] + 0
      BY <1>2, <2>3 DEF Round
    <3> QED
      BY <1>2, <2>1, <2>2, <2>3, <3>1
  <2>4. CASE u # w
    <3>1. Round(u)' = passed'[u] + 1
      BY <1>1, <1>2, <1>4, <2>4 DEF Round
    <3> QED
      BY <1>2, <2>1, <2>2, <2>4, <3>1
  <2> QED
    BY <2>3, <2>4
<1>9. \A u, v \in Workers : Round(u)' = Round(v)'
  BY <1>8 DEF BarrierInv
<1>10. QED
  BY <1>1, <1>5, <1>6, <1>7, <1>9 DEF BarrierInv

LEMMA SeeEnterKeeps ==
    ASSUME BarrierInv, NEW w \in Workers, SeeEnter(w) PROVE BarrierInv'
<1>1. /\ spot[w] = "await enter" /\ mode = "enter" /\ mode' = mode /\ step' = step
      /\ step = Cardinality(Inside)
      /\ spot' = [spot EXCEPT ![w] = "out"]
      /\ passed' = [passed EXCEPT ![w] = passed[w] + 1]
      /\ BarrierTypeOK
  BY DEF BarrierInv, BarrierTypeOK, SeeEnter, Return, GoToSpot
<1>2. /\ spot'[w] = "out" /\ passed'[w] = passed[w] + 1
      /\ \A u \in Workers : u # w => spot'[u] = spot[u] /\ passed'[u] = passed[u]
      /\ spot' \in [Workers -> Spots] /\ passed' \in [Workers -> Nat]
  <2>1. spot \in [Workers -> Spots] /\ "out" \in Spots /\ passed \in [Workers -> Nat]
    BY <1>1 DEF BarrierTypeOK, Spots
  <2>2. passed[w] \in Nat /\ passed[w] + 1 \in Nat
    BY <2>1
  <2>3. spot' \in [Workers -> Spots] /\ spot'[w] = "out"
    BY <1>1, <2>1
  <2>4. passed' \in [Workers -> Nat] /\ passed'[w] = passed[w] + 1
    BY <1>1, <2>1, <2>2
  <2> QED
    BY <1>1, <2>1, <2>3, <2>4
<1>3. Inside' = Inside /\ Inside # Workers
  BY <1>1, <1>2 DEF Inside
<1>4. BarrierTypeOK'
  BY <1>1, <1>2 DEF BarrierTypeOK, cardinal
<1>5. ModeMatches' /\ LastIsAlone'
  BY <1>1, <1>2, <1>3 DEF BarrierInv, ModeMatches, LastIsAlone
<1>6. ASSUME NEW u \in Workers PROVE Round(u)' = Round(u)
  <2>1. CASE u = w
    <3>1. Round(u) = passed[u] + 1 /\ Round(u)' = passed'[u] + 0
      BY <1>1, <1>2, <2>1 DEF Round
    <3>2. passed[u] \in Nat /\ passed'[u] = passed[u] + 1
      BY <1>1, <1>2, <2>1 DEF BarrierTypeOK
    <3> QED
      BY <3>1, <3>2
  <2>2. CASE u # w
    BY <1>1, <1>2, <2>2 DEF Round
  <2> QED
    BY <2>1, <2>2
<1>7. QED
  BY <1>1, <1>3, <1>4, <1>5, <1>6 DEF BarrierInv

LEMMA BarrierStep == BarrierInv /\ [BarrierNext]_barrierVars => BarrierInv'
<1> SUFFICES ASSUME BarrierInv, [BarrierNext]_barrierVars PROVE BarrierInv'
  OBVIOUS
<1>1. CASE BarrierNext
  BY <1>1, ArriveKeeps, OpenKeeps, SeeLeaveKeeps, DepartKeeps, CloseKeeps, SeeEnterKeeps
     DEF BarrierNext, SyncStep
<1>2. CASE UNCHANGED barrierVars
  BY <1>2 DEF barrierVars, BarrierInv, BarrierTypeOK, Inside, Round, ModeMatches, LastIsAlone,
              cardinal
<1>3. QED
  BY <1>1, <1>2

(* Who has passed once more than another left while that one is inside.    *)
LEMMA BarrierSafe == BarrierInv => RoundsInLockstep
<1> SUFFICES ASSUME BarrierInv, NEW w \in Workers, NEW u \in Workers
             PROVE  passed[w] <= passed[u] + (IF spot[u] = "out" THEN 0 ELSE 1)
  BY DEF RoundsInLockstep
<1>1. passed[w] \in Nat /\ passed[u] \in Nat /\ Round(w) = Round(u)
  BY DEF BarrierInv, BarrierTypeOK
<1>2. Round(w) = passed[w] + 0 \/ Round(w) = passed[w] + 1
  BY DEF Round
<1>3. CASE spot[u] = "out"
  <2>1. Round(u) = passed[u] + 0
    BY <1>3 DEF Round
  <2> QED
    BY <1>1, <1>2, <1>3, <2>1
<1>4. CASE spot[u] # "out"
  <2>1. Round(u) = passed[u] + 0 \/ Round(u) = passed[u] + 1
    BY DEF Round
  <2>2. passed[w] <= passed[u] + 1
    BY <1>1, <1>2, <2>1
  <2> QED
    BY <1>4, <2>2
<1>5. QED
  BY <1>3, <1>4
----------------------------------------------------------------------------
(* The phases.  While the master waits, with the latch down, the workers   *)
(* first gather for the phase and then run it; otherwise all is settled.   *)
(* The one counter is used for both and is zero in between: the worker     *)
(* that counts last resets it alone.                                       *)

WorkerPlaces == {"wait", "ready", "reset ready", "start", "await run", "work",
                 "set errmsg", "set Abort", "count", "reset done", "settle",
                 "set Done", "set Fail", "raise", "gone"}
MasterPlaces == {"notify", "wait", "judge", "join", "joining", "returned", "overrun"}
Masters == [at : MasterPlaces, phase : 0 .. LastPhase, error : BOOLEAN]

SyncTypeOK ==
    /\ status \in {"Wait", "Run", "Abort", "Done", "Fail", "Quit"}
    /\ nbready \in 0 .. nbworkers
    /\ errmsg \in BOOLEAN /\ raised \in BOOLEAN
    /\ at \in [Workers -> WorkerPlaces]
    /\ phase \in [Workers -> 0 .. LastPhase + 1]
    /\ master \in Masters
    /\ reported \in SUBSET Workers /\ threw \in SUBSET Workers

Watching == master.at \in {"wait", "overrun"} /\ raised = FALSE

\* those counted as ready, those counted as done
Announced == {w \in Workers : at[w] \in {"await run", "reset ready"}}
Counted == {w \in Workers : phase[w] = master.phase + 1 \/ at[w] = "reset done"}

Gathering ==
    /\ reported = {}
    /\ \A w \in Workers :
          /\ phase[w] = master.phase
          /\ at[w] \in {"wait", "ready", "await run", "reset ready", "start"}
          /\ at[w] \in {"reset ready", "start"} =>
                \A u \in Workers : u # w => at[u] = "await run"
          /\ at[w] = "start" => nbready = 0
    /\ (\A w \in Workers : at[w] # "start") => nbready = Cardinality(Announced)

Verdicts == {"settle", "set Done", "set Fail", "raise"}
Ended(w) == phase[w] = master.phase + 1 /\ at[w] \in {"wait", "gone"}
Engaged(w) ==
    /\ phase[w] = master.phase
    /\ at[w] \in {"await run", "work", "set errmsg", "set Abort", "count", "reset done"}
                 \cup Verdicts

Running ==
    /\ \A w \in Workers :
          /\ Ended(w) \/ Engaged(w)
          /\ at[w] \in {"reset done"} \cup Verdicts => \A u \in Workers : u # w => Ended(u)
          /\ at[w] \in Verdicts => nbready = 0
          /\ at[w] = "raise" => status \in {"Done", "Fail"}
    /\ (\A w \in Workers : at[w] \notin Verdicts) => nbready = Cardinality(Counted)
    /\ (\A w \in Workers : at[w] # "raise") => status \in {"Run", "Abort"}

Settled ==
    /\ nbready = 0
    /\ \A w \in Workers : at[w] \in {"wait", "gone"}
    /\ raised = TRUE => master.at \in {"wait", "overrun"}
    /\ master.at = "notify" => status = "Done" /\ reported = {}
    /\ master.at \in {"wait", "overrun", "judge", "join"} => status \in {"Done", "Fail"}
    /\ master.at \in {"joining", "returned"} => status = "Quit"
    /\ master.at = "notify" => \A w \in Workers : phase[w] = master.phase
    /\ master.at # "notify" => \A w \in Workers : phase[w] = master.phase + 1

StageInv ==
    \/ Watching /\ status = "Wait" /\ Gathering
    \/ Watching /\ status # "Wait" /\ Running
    \/ ~Watching /\ Settled

(* An error that is being stored is known by its worker, one that is       *)
(* stored by the status.                                                   *)
ErrorInv ==
    /\ threw \subseteq reported
    /\ \A w \in Workers :
          /\ at[w] \in {"set errmsg", "set Abort"} => w \in reported
          /\ at[w] = "set Abort" => errmsg = TRUE
          /\ at[w] = "set Done" => status = "Run"
          /\ at[w] = "set Fail" => status = "Abort"
          /\ at[w] = "gone" => status = "Quit" \/ w \in threw
    /\ \A w \in reported :
          at[w] \in {"set errmsg", "set Abort"} \/ status \in {"Abort", "Fail", "Quit"}
    /\ status \in {"Abort", "Fail"} => reported # {} /\ errmsg = TRUE
    /\ master.at \in {"join", "joining", "returned"} => (master.error = TRUE <=> reported # {})
    /\ master.at \notin {"join", "joining", "returned"} => master.error = FALSE

SyncInv == SyncTypeOK /\ StageInv /\ ErrorInv

LEMMA Numbers == cardinal \in Nat /\ nbworkers = cardinal /\ LastPhase \in Nat
                 /\ Cardinality({}) = 0
  BY WorkersAssumption, NbrepeatsAssumption, FS_CardinalityType, FS_EmptySet
     DEF cardinal, nbworkers, LastPhase

LEMMA Goes ==
    ASSUME SyncTypeOK, NEW w \in Workers, NEW place \in WorkerPlaces, GoTo(w, place)
    PROVE  /\ at' \in [Workers -> WorkerPlaces] /\ at'[w] = place
           /\ \A u \in Workers : u # w => at'[u] = at[u]
<1>1. at \in [Workers -> WorkerPlaces] /\ at' = [at EXCEPT ![w] = place]
  BY DEF SyncTypeOK, GoTo
<1>2. QED
  BY <1>1

LEMMA MasterGoes ==
    ASSUME NEW m \in Masters, NEW place \in MasterPlaces
    PROVE  /\ [m EXCEPT !.at = place] \in Masters
           /\ [m EXCEPT !.at = place].at = place
           /\ [m EXCEPT !.at = place].phase = m.phase
           /\ [m EXCEPT !.at = place].error = m.error
<1>1. [m EXCEPT !.at = place] = [at |-> place, phase |-> m.phase, error |-> m.error]
  BY DEF Masters
<1>2. m.phase \in 0 .. LastPhase /\ m.error \in BOOLEAN
  BY DEF Masters
<1>3. QED
  BY <1>1, <1>2 DEF Masters

(* Where a worker is tells the stage.                                      *)
LEMMA StageOf ==
    ASSUME SyncInv, NEW w \in Workers
    PROVE  /\ at[w] \in {"ready", "reset ready", "start"} =>
                Watching /\ status = "Wait" /\ Gathering
           /\ at[w] \in {"work", "set errmsg", "set Abort", "count", "reset done"} \cup Verdicts =>
                Watching /\ status # "Wait" /\ Running
           /\ at[w] = "wait" /\ status = "Wait" => Watching /\ Gathering
           /\ status = "Quit" => ~Watching /\ Settled
           /\ at[w] = "await run" /\ status # "Wait" => Watching /\ Running
           /\ master.phase \in Nat /\ phase[w] \in Nat
<1>1. master.phase \in Nat /\ phase[w] \in Nat /\ master.at \in MasterPlaces
  BY Numbers DEF SyncInv, SyncTypeOK, Masters
<1>2. CASE Watching /\ status = "Wait" /\ Gathering
  BY <1>1, <1>2 DEF Gathering, Verdicts
<1>3. CASE Watching /\ status # "Wait" /\ Running
  <2>1. at[w] \notin {"ready", "reset ready", "start"}
    BY <1>3 DEF Running, Ended, Engaged, Verdicts
  <2>2. status # "Quit"
    BY <1>3 DEF Running
  <2> QED
    BY <1>1, <1>3, <2>1, <2>2
<1>4. CASE ~Watching /\ Settled
  <2>1. at[w] \in {"wait", "gone"} /\ status # "Wait"
    BY <1>1, <1>4 DEF Settled, MasterPlaces
  <2> QED
    BY <1>1, <1>4, <2>1 DEF Verdicts
<1>5. QED
  BY <1>2, <1>3, <1>4 DEF SyncInv, StageInv

LEMMA SyncStart == GradingInit => SyncInv
<1> SUFFICES ASSUME GradingInit PROVE SyncInv
  OBVIOUS
<1>1. master.at = "notify" /\ master.phase = 0 /\ master.error = FALSE /\ master \in Masters
  BY Numbers DEF GradingInit, Masters, MasterPlaces
<1>2. SyncTypeOK
  <2>1. 0 \in 0 .. LastPhase + 1 /\ 0 \in 0 .. nbworkers
    BY Numbers
  <2>2. /\ status = "Done" /\ nbready = 0 /\ errmsg = FALSE /\ raised = FALSE
        /\ at = [w \in Workers |-> "wait"] /\ phase = [w \in Workers |-> 0]
        /\ reported = {} /\ threw = {}
    BY DEF GradingInit
  <2>3. at \in [Workers -> WorkerPlaces]
    BY <2>2 DEF WorkerPlaces
  <2>4. phase \in [Workers -> 0 .. LastPhase + 1]
    BY <2>1, <2>2
  <2> QED
    BY <1>1, <2>1, <2>2, <2>3, <2>4 DEF SyncTypeOK
<1>3. ~Watching /\ Settled
  BY <1>1 DEF GradingInit, Watching, Settled
<1>4. ErrorInv
  BY <1>1 DEF GradingInit, ErrorInv
<1>5. QED
  BY <1>2, <1>3, <1>4 DEF SyncInv, StageInv

(* A step that changes only where the worker is.                           *)
LEMMA TypesGo ==
    ASSUME SyncTypeOK, NEW w \in Workers, NEW place \in WorkerPlaces, GoTo(w, place),
           UNCHANGED <<phase, reported, threw, master>>,
           status' \in {"Wait", "Run", "Abort", "Done", "Fail", "Quit"},
           nbready' \in 0 .. nbworkers, errmsg' \in BOOLEAN, raised' \in BOOLEAN
    PROVE  SyncTypeOK'
<1>1. at' \in [Workers -> WorkerPlaces]
  BY Goes
<1>2. QED
  BY <1>1 DEF SyncTypeOK, nbworkers, cardinal, LastPhase, Masters

(* A step that does not touch what is known of errors.                     *)
LEMMA ErrorGoes ==
    ASSUME ErrorInv, reported \subseteq Workers, NEW w \in Workers, at[w] \notin {"set errmsg", "set Abort"},
           at'[w] \notin {"set errmsg", "set Abort", "set Done", "set Fail", "gone"},
           \A u \in Workers : u # w => at'[u] = at[u],
           UNCHANGED <<status, errmsg, reported, threw, master>>
    PROVE  ErrorInv'
<1>1. threw' \subseteq reported'
  BY DEF ErrorInv
<1>2. ASSUME NEW u \in Workers
      PROVE  /\ at'[u] \in {"set errmsg", "set Abort"} => u \in reported'
             /\ at'[u] = "set Abort" => errmsg' = TRUE
             /\ at'[u] = "set Done" => status' = "Run"
             /\ at'[u] = "set Fail" => status' = "Abort"
             /\ at'[u] = "gone" => status' = "Quit" \/ u \in threw'
  BY DEF ErrorInv
<1>3. ASSUME NEW u \in reported'
      PROVE  at'[u] \in {"set errmsg", "set Abort"} \/ status' \in {"Abort", "Fail", "Quit"}
  BY DEF ErrorInv
<1>4. status' \in {"Abort", "Fail"} => reported' # {} /\ errmsg' = TRUE
  BY DEF ErrorInv
<1>5. /\ master'.at \in {"join", "joining", "returned"} => (master'.error = TRUE <=> reported' # {})
      /\ master'.at \notin {"join", "joining", "returned"} => master'.error = FALSE
  BY DEF ErrorInv
<1> QED
  BY <1>1, <1>2, <1>3, <1>4, <1>5 DEF ErrorInv

LEMMA SeeWaitKeeps ==
    ASSUME SyncInv, NEW w \in Workers, SeeWait(w) PROVE SyncInv'
<1>1. /\ at[w] = "wait" /\ status = "Wait" /\ SyncTypeOK /\ GoTo(w, "ready")
      /\ UNCHANGED <<syncVars, phase, reported, threw, master>>
  BY DEF SyncInv, SeeWait, Keeping
<1>2. /\ at'[w] = "ready" /\ \A u \in Workers : u # w => at'[u] = at[u]
  BY <1>1, Goes DEF WorkerPlaces
<1>3. Watching /\ Gathering
  BY <1>1, StageOf
<1>4. SyncTypeOK'
  BY <1>1, TypesGo DEF WorkerPlaces, SyncTypeOK, syncVars
<1>5. Announced' = Announced
  BY <1>1, <1>2 DEF Announced
<1>6. Gathering'
  BY <1>1, <1>2, <1>3, <1>5 DEF Gathering, syncVars
<1>7. Watching' /\ status' = "Wait"
  BY <1>1, <1>3 DEF Watching, syncVars
<1>8. ErrorInv'
  BY <1>1, <1>2, ErrorGoes DEF SyncInv, SyncTypeOK, syncVars
<1>9. QED
  BY <1>4, <1>6, <1>7, <1>8 DEF SyncInv, StageInv

LEMMA SeeQuitKeeps ==
    ASSUME SyncInv, NEW w \in Workers, SeeQuit(w) PROVE SyncInv'
<1>1. /\ at[w] = "wait" /\ status = "Quit" /\ SyncTypeOK /\ GoTo(w, "gone")
      /\ UNCHANGED <<syncVars, phase, reported, threw, master>>
  BY DEF SyncInv, SeeQuit, Keeping
<1>2. /\ at'[w] = "gone" /\ \A u \in Workers : u # w => at'[u] = at[u]
  BY <1>1, Goes DEF WorkerPlaces
<1>3. ~Watching /\ Settled
  BY <1>1, StageOf
<1>4. SyncTypeOK'
  BY <1>1, TypesGo DEF WorkerPlaces, SyncTypeOK, syncVars
<1>5. Settled'
  BY <1>1, <1>2, <1>3 DEF Settled, syncVars
<1>6. ~Watching'
  BY <1>1, <1>3 DEF Watching, syncVars
<1>7. ErrorInv'
  BY <1>1, <1>2 DEF SyncInv, ErrorInv, syncVars
<1>8. QED
  BY <1>4, <1>5, <1>6, <1>7 DEF SyncInv, StageInv

(* The last to count itself ready finds all the others waiting for it.     *)
LEMMA CountReadyKeeps ==
    ASSUME SyncInv, NEW w \in Workers, CountReady(w) PROVE SyncInv'
<1> DEFINE there == IF nbready' = nbworkers THEN "reset ready" ELSE "await run"
<1>1. /\ at[w] = "ready" /\ nbready' = nbready + 1 /\ SyncTypeOK /\ GoTo(w, there)
      /\ there \in {"reset ready", "await run"} /\ there \in WorkerPlaces
      /\ UNCHANGED <<status, errmsg, raised, phase, reported, threw, master>>
  BY DEF SyncInv, CountReady, Keeping, WorkerPlaces
<1> HIDE DEF there
<1>2. /\ at'[w] = there /\ \A u \in Workers : u # w => at'[u] = at[u]
  BY <1>1, Goes
<1>3. Watching /\ status = "Wait" /\ Gathering
  BY <1>1, StageOf
<1>4. /\ \A u \in Workers : at[u] \notin {"reset ready", "start"}
      /\ nbready = Cardinality(Announced)
  BY <1>1, <1>3 DEF Gathering
<1>5. /\ Announced \in SUBSET Workers /\ w \notin Announced
      /\ Announced' = Announced \cup {w}
  BY <1>1, <1>2 DEF Announced
<1>6. /\ nbready' = Cardinality(Announced') /\ nbready' \in 0 .. nbworkers
      /\ nbready' = nbworkers <=> Announced' = Workers
  <2> DEFINE n == Cardinality(Announced)
             m == Cardinality(Announced')
  <2>1. /\ n \in Nat /\ cardinal \in Nat /\ m = n + 1 /\ n + 1 <= cardinal
        /\ n + 1 = cardinal <=> Announced' = Workers
    BY <1>5, OneMore
  <2>2. nbready' = nbready + 1 /\ nbready = n /\ nbworkers = cardinal
    BY <1>1, <1>4, Numbers
  <2> HIDE DEF n, m
  <2>3. nbready' = m /\ nbready' \in 0 .. nbworkers
    BY <2>1, <2>2
  <2>4. nbready' = nbworkers <=> Announced' = Workers
    BY <2>1, <2>2
  <2> QED
    BY <2>3, <2>4 DEF m
<1>7. SyncTypeOK'
  BY <1>1, <1>6, TypesGo DEF SyncTypeOK
<1>8. there = "reset ready" => \A u \in Workers : u # w => at'[u] = "await run"
  <2>1. there = "reset ready" => Announced' = Workers
    BY <1>6 DEF there
  <2> QED
    BY <1>2, <1>4, <1>5, <2>1 DEF Announced
<1>9. Gathering'
  <2>1. ASSUME NEW u \in Workers
        PROVE  /\ phase'[u] = master'.phase
               /\ at'[u] \in {"wait", "ready", "await run", "reset ready"}
               /\ at'[u] = "reset ready" => u = w
    BY <1>1, <1>2, <1>3, <1>4 DEF Gathering
  <2>2. reported' = {}
    BY <1>1, <1>3 DEF Gathering
  <2> QED
    BY <1>2, <1>6, <1>8, <2>1, <2>2 DEF Gathering
<1>10. Watching' /\ status' = "Wait"
  BY <1>1, <1>3 DEF Watching
<1>11. ErrorInv'
  BY <1>1, <1>2, ErrorGoes DEF SyncInv, SyncTypeOK
<1>12. QED
  BY <1>7, <1>9, <1>10, <1>11 DEF SyncInv, StageInv

LEMMA ResetReadyKeeps ==
    ASSUME SyncInv, NEW w \in Workers, ResetReady(w) PROVE SyncInv'
<1>1. /\ at[w] = "reset ready" /\ nbready' = 0 /\ SyncTypeOK /\ GoTo(w, "start")
      /\ UNCHANGED <<status, errmsg, raised, phase, reported, threw, master>>
  BY DEF SyncInv, ResetReady, Keeping
<1>2. /\ at'[w] = "start" /\ \A u \in Workers : u # w => at'[u] = at[u]
  BY <1>1, Goes DEF WorkerPlaces
<1>3. Watching /\ status = "Wait" /\ Gathering
  BY <1>1, StageOf
<1>4. SyncTypeOK'
  <2>1. 0 \in 0 .. nbworkers
    BY Numbers
  <2> QED
    BY <1>1, <2>1, TypesGo DEF WorkerPlaces, SyncTypeOK
<1>5. Gathering'
  <2>1. \A u \in Workers : u # w => at'[u] = "await run"
    BY <1>1, <1>2, <1>3 DEF Gathering
  <2>2. reported' = {} /\ \A u \in Workers : phase'[u] = master'.phase
    BY <1>1, <1>3 DEF Gathering
  <2> QED
    BY <1>1, <1>2, <2>1, <2>2 DEF Gathering
<1>6. Watching' /\ status' = "Wait"
  BY <1>1, <1>3 DEF Watching
<1>7. ErrorInv'
  BY <1>1, <1>2, ErrorGoes DEF SyncInv, SyncTypeOK
<1>8. QED
  BY <1>4, <1>5, <1>6, <1>7 DEF SyncInv, StageInv

LEMMA StartRunKeeps ==
    ASSUME SyncInv, NEW w \in Workers, StartRun(w) PROVE SyncInv'
<1>1. /\ at[w] = "start" /\ status' = "Run" /\ SyncTypeOK /\ GoTo(w, "work")
      /\ UNCHANGED <<nbready, errmsg, raised, phase, reported, threw, master>>
  BY DEF SyncInv, StartRun, Keeping
<1>2. /\ at'[w] = "work" /\ \A u \in Workers : u # w => at'[u] = at[u]
  BY <1>1, Goes DEF WorkerPlaces
<1>3. Watching /\ status = "Wait" /\ Gathering /\ master.phase \in Nat
  BY <1>1, StageOf
<1>4. SyncTypeOK'
  BY <1>1, TypesGo DEF WorkerPlaces, SyncTypeOK
<1>5. \A u \in Workers : at'[u] \in {"work", "await run"} /\ phase'[u] = master'.phase
  BY <1>1, <1>2, <1>3 DEF Gathering
<1>6. Counted' = {}
  <2>1. master'.phase # master'.phase + 1
    BY <1>1, <1>3
  <2> QED
    BY <1>5, <2>1 DEF Counted
<1>7. nbready' = Cardinality(Counted')
  BY <1>1, <1>3, <1>6, Numbers DEF Gathering
<1>8. Running'
  BY <1>1, <1>5, <1>7 DEF Running, Engaged, Verdicts
<1>9. Watching' /\ status' # "Wait"
  BY <1>1, <1>3 DEF Watching
<1>10. ErrorInv'
  BY <1>1, <1>2, <1>3, <1>5 DEF SyncInv, ErrorInv, Gathering
<1>11. QED
  BY <1>4, <1>8, <1>9, <1>10 DEF SyncInv, StageInv

(* A worker goes on in its phase, without counting itself: nobody can be   *)
(* about to end the phase.                                                 *)
LEMMA EngagedGoes ==
    ASSUME Running, NEW w \in Workers,
           at[w] \in {"await run", "work", "set errmsg", "set Abort", "count"},
           at'[w] \in {"work", "set errmsg", "set Abort", "count"},
           \A u \in Workers : u # w => at'[u] = at[u],
           UNCHANGED <<phase, master, nbready>>, status' \in {"Run", "Abort"}
    PROVE  /\ Running' /\ status \in {"Run", "Abort"}
           /\ phase[w] = master.phase
<1>1. ~Ended(w) /\ Engaged(w)
  BY DEF Running, Ended
<1>2. \A u \in Workers : at[u] \notin {"reset done"} \cup Verdicts
  BY <1>1 DEF Running, Verdicts
<1>3. \A u \in Workers : at'[u] \notin {"reset done"} \cup Verdicts
  BY <1>2 DEF Verdicts
<1>4. Engaged(w)'
  BY <1>1 DEF Engaged
<1>5. \A u \in Workers : u # w => (Ended(u) \/ Engaged(u))'
  BY DEF Running, Ended, Engaged
<1>6. Counted' = Counted
  BY <1>2, <1>3 DEF Counted
<1>7. nbready' = Cardinality(Counted')
  BY <1>2, <1>6 DEF Running
<1>8. \A u \in Workers : at'[u] \notin Verdicts /\ at'[u] # "raise"
  BY <1>3 DEF Verdicts
<1>9. Running'
  BY <1>3, <1>4, <1>5, <1>7, <1>8 DEF Running
<1>10. status \in {"Run", "Abort"}
  BY <1>2 DEF Running, Verdicts
<1>11. QED
  BY <1>1, <1>9, <1>10 DEF Engaged

LEMMA SeeRunKeeps ==
    ASSUME SyncInv, NEW w \in Workers, SeeRun(w) PROVE SyncInv'
<1>1. /\ at[w] = "await run" /\ status \in {"Run", "Abort"} /\ SyncTypeOK /\ GoTo(w, "work")
      /\ UNCHANGED <<syncVars, phase, reported, threw, master>>
  BY DEF SyncInv, SeeRun, Keeping
<1>2. /\ at'[w] = "work" /\ \A u \in Workers : u # w => at'[u] = at[u]
  BY <1>1, Goes DEF WorkerPlaces
<1>3. Watching /\ Running
  BY <1>1, StageOf
<1>4. SyncTypeOK'
  BY <1>1, TypesGo DEF WorkerPlaces, SyncTypeOK, syncVars
<1>5. Running'
  BY <1>1, <1>2, <1>3, EngagedGoes DEF syncVars
<1>6. Watching' /\ status' # "Wait"
  BY <1>1, <1>3 DEF Watching, syncVars
<1>7. ErrorInv'
  BY <1>1, <1>2, ErrorGoes DEF SyncInv, SyncTypeOK, syncVars
<1>8. QED
  BY <1>4, <1>5, <1>6, <1>7 DEF SyncInv, StageInv

(* An end of the workload, with an error or without.                       *)
LEMMA FinishKeeps ==
    ASSUME SyncInv, NEW w \in Workers, Finish(w) PROVE SyncInv'
<1> DEFINE there == at'[w]
<1>1. /\ at[w] = "work" /\ SyncTypeOK
      /\ \/ GoTo(w, "count") /\ reported' = reported
         \/ GoTo(w, "set errmsg") /\ reported' = reported \cup {w}
      /\ UNCHANGED <<syncVars, phase, threw, master>>
  BY DEF SyncInv, Finish
<1>2. /\ \A u \in Workers : u # w => at'[u] = at[u]
      /\ \/ at'[w] = "count" /\ reported' = reported
         \/ at'[w] = "set errmsg" /\ reported' = reported \cup {w}
      /\ at' \in [Workers -> WorkerPlaces]
  BY <1>1, Goes DEF WorkerPlaces
<1>3. Watching /\ status # "Wait" /\ Running
  BY <1>1, StageOf
<1>4. status \in {"Run", "Abort"}
  <2>1. ~Ended(w)
    BY <1>1 DEF Ended
  <2> QED
    BY <1>1, <1>3, <2>1 DEF Running, Verdicts
<1>5. SyncTypeOK'
  BY <1>1, <1>2 DEF SyncTypeOK, syncVars, nbworkers, cardinal, LastPhase, Masters
<1>6. Running'
  BY <1>1, <1>2, <1>3, <1>4, EngagedGoes DEF syncVars
<1>7. Watching' /\ status' # "Wait"
  BY <1>1, <1>3 DEF Watching, syncVars
<1>8. ErrorInv'
  <2>1. threw' \subseteq reported'
    BY <1>1, <1>2 DEF SyncInv, ErrorInv
  <2>2. ASSUME NEW u \in Workers
        PROVE  /\ at'[u] \in {"set errmsg", "set Abort"} => u \in reported'
               /\ at'[u] = "set Abort" => errmsg' = TRUE
               /\ at'[u] = "set Done" => status' = "Run"
               /\ at'[u] = "set Fail" => status' = "Abort"
               /\ at'[u] = "gone" => status' = "Quit" \/ u \in threw'
    BY <1>1, <1>2 DEF SyncInv, ErrorInv, syncVars
  <2>3. ASSUME NEW u \in reported'
        PROVE  at'[u] \in {"set errmsg", "set Abort"} \/ status' \in {"Abort", "Fail", "Quit"}
    BY <1>1, <1>2 DEF SyncInv, SyncTypeOK, ErrorInv, syncVars
  <2>4. status' \in {"Abort", "Fail"} => reported' # {} /\ errmsg' = TRUE
    BY <1>1, <1>2 DEF SyncInv, ErrorInv, syncVars
  <2>5. master'.at \notin {"join", "joining", "returned"} /\ master'.error = FALSE
    BY <1>1, <1>3 DEF SyncInv, ErrorInv, Watching
  <2> QED
    BY <2>1, <2>2, <2>3, <2>4, <2>5 DEF ErrorInv
<1>9. QED
  BY <1>5, <1>6, <1>7, <1>8 DEF SyncInv, StageInv

LEMMA ThrowKeeps ==
    ASSUME SyncInv, NEW w \in Workers, Throw(w) PROVE SyncInv'
<1>1. /\ at[w] = "work" /\ SyncTypeOK /\ GoTo(w, "set errmsg")
      /\ reported' = reported \cup {w} /\ threw' = threw \cup {w}
      /\ UNCHANGED <<syncVars, phase, master>>
  BY DEF SyncInv, Throw
<1>2. /\ at'[w] = "set errmsg" /\ \A u \in Workers : u # w => at'[u] = at[u]
      /\ at' \in [Workers -> WorkerPlaces]
  BY <1>1, Goes DEF WorkerPlaces
<1>3. Watching /\ status # "Wait" /\ Running
  BY <1>1, StageOf
<1>4. status \in {"Run", "Abort"}
  <2>1. ~Ended(w)
    BY <1>1 DEF Ended
  <2> QED
    BY <1>1, <1>3, <2>1 DEF Running, Verdicts
<1>5. SyncTypeOK'
  BY <1>1, <1>2 DEF SyncTypeOK, syncVars, nbworkers, cardinal, LastPhase, Masters
<1>6. Running'
  BY <1>1, <1>2, <1>3, <1>4, EngagedGoes DEF syncVars
<1>7. Watching' /\ status' # "Wait"
  BY <1>1, <1>3 DEF Watching, syncVars
<1>8. ErrorInv'
  <2>1. threw' \subseteq reported'
    BY <1>1, <1>2 DEF SyncInv, ErrorInv
  <2>2. ASSUME NEW u \in Workers
        PROVE  /\ at'[u] \in {"set errmsg", "set Abort"} => u \in reported'
               /\ at'[u] = "set Abort" => errmsg' = TRUE
               /\ at'[u] = "set Done" => status' = "Run"
               /\ at'[u] = "set Fail" => status' = "Abort"
               /\ at'[u] = "gone" => status' = "Quit" \/ u \in threw'
    BY <1>1, <1>2 DEF SyncInv, ErrorInv, syncVars
  <2>3. ASSUME NEW u \in reported'
        PROVE  at'[u] \in {"set errmsg", "set Abort"} \/ status' \in {"Abort", "Fail", "Quit"}
    BY <1>1, <1>2 DEF SyncInv, SyncTypeOK, ErrorInv, syncVars
  <2>4. status' \in {"Abort", "Fail"} => reported' # {} /\ errmsg' = TRUE
    BY <1>1, <1>2 DEF SyncInv, ErrorInv, syncVars
  <2>5. master'.at \notin {"join", "joining", "returned"} /\ master'.error = FALSE
    BY <1>1, <1>3 DEF SyncInv, ErrorInv, Watching
  <2> QED
    BY <2>1, <2>2, <2>3, <2>4, <2>5 DEF ErrorInv
<1>9. QED
  BY <1>5, <1>6, <1>7, <1>8 DEF SyncInv, StageInv

LEMMA SetErrmsgKeeps ==
    ASSUME SyncInv, NEW w \in Workers, SetErrmsg(w) PROVE SyncInv'
<1>1. /\ at[w] = "set errmsg" /\ SyncTypeOK /\ GoTo(w, "set Abort") /\ errmsg' = TRUE
      /\ UNCHANGED <<status, nbready, raised, phase, reported, threw, master>>
  BY DEF SyncInv, SetErrmsg, Keeping
<1>2. /\ at'[w] = "set Abort" /\ \A u \in Workers : u # w => at'[u] = at[u]
  BY <1>1, Goes DEF WorkerPlaces
<1>3. Watching /\ status # "Wait" /\ Running
  BY <1>1, StageOf
<1>4. SyncTypeOK'
  BY <1>1, TypesGo DEF WorkerPlaces, SyncTypeOK
<1>5. status \in {"Run", "Abort"}
  <2>1. ~Ended(w)
    BY <1>1 DEF Ended
  <2> QED
    BY <1>1, <1>3, <2>1 DEF Running, Verdicts
<1>6. Running'
  BY <1>1, <1>2, <1>3, <1>5, EngagedGoes
<1>7. Watching' /\ status' # "Wait"
  BY <1>1, <1>3 DEF Watching
<1>8. ErrorInv'
  <2>1. threw' \subseteq reported'
    BY <1>1 DEF SyncInv, ErrorInv
  <2>2. ASSUME NEW u \in Workers
        PROVE  /\ at'[u] \in {"set errmsg", "set Abort"} => u \in reported'
               /\ at'[u] = "set Abort" => errmsg' = TRUE
               /\ at'[u] = "set Done" => status' = "Run"
               /\ at'[u] = "set Fail" => status' = "Abort"
               /\ at'[u] = "gone" => status' = "Quit" \/ u \in threw'
    BY <1>1, <1>2 DEF SyncInv, ErrorInv
  <2>3. ASSUME NEW u \in reported'
        PROVE  at'[u] \in {"set errmsg", "set Abort"} \/ status' \in {"Abort", "Fail", "Quit"}
    BY <1>1, <1>2 DEF SyncInv, SyncTypeOK, ErrorInv
  <2>4. status' \in {"Abort", "Fail"} => reported' # {} /\ errmsg' = TRUE
    BY <1>1 DEF SyncInv, ErrorInv
  <2>5. /\ master'.at \notin {"join", "joining", "returned"} /\ master'.error = FALSE
    BY <1>1, <1>3 DEF SyncInv, ErrorInv, Watching
  <2> QED
    BY <2>1, <2>2, <2>3, <2>4, <2>5 DEF ErrorInv
<1>9. QED
  BY <1>4, <1>6, <1>7, <1>8 DEF SyncInv, StageInv

LEMMA SetAbortKeeps ==
    ASSUME SyncInv, NEW w \in Workers, SetAbort(w) PROVE SyncInv'
<1>1. /\ at[w] = "set Abort" /\ SyncTypeOK /\ GoTo(w, "count") /\ status' = "Abort"
      /\ UNCHANGED <<nbready, errmsg, raised, phase, reported, threw, master>>
  BY DEF SyncInv, SetAbort, Keeping
<1>2. /\ at'[w] = "count" /\ \A u \in Workers : u # w => at'[u] = at[u]
  BY <1>1, Goes DEF WorkerPlaces
<1>3. Watching /\ status # "Wait" /\ Running
  BY <1>1, StageOf
<1>4. SyncTypeOK'
  BY <1>1, TypesGo DEF WorkerPlaces, SyncTypeOK
<1>5. Running' /\ status \in {"Run", "Abort"}
  BY <1>1, <1>2, <1>3, EngagedGoes
<1>6. Watching' /\ status' # "Wait"
  BY <1>1, <1>3 DEF Watching
<1>7. \A u \in Workers : at[u] \notin {"set Done", "set Fail"}
  <2>1. ~Ended(w)
    BY <1>1 DEF Ended
  <2> QED
    BY <1>1, <1>3, <2>1 DEF Running, Verdicts
<1>8. w \in reported /\ errmsg = TRUE
  BY <1>1 DEF SyncInv, ErrorInv
<1>9. ErrorInv'
  BY <1>1, <1>2, <1>5, <1>7, <1>8 DEF SyncInv, ErrorInv
<1>10. QED
  BY <1>4, <1>5, <1>6, <1>9 DEF SyncInv, StageInv

(* The worker that ends the phase: everybody else has ended it.            *)
LEMMA EndsAlone ==
    ASSUME Running, NEW w \in Workers, at[w] \in {"reset done"} \cup Verdicts
    PROVE  /\ \A u \in Workers : u # w => Ended(u) /\ at[u] \in {"wait", "gone"}
           /\ phase[w] = master.phase
           /\ at[w] # "raise" => status \in {"Run", "Abort"}
           /\ at[w] \in Verdicts => nbready = 0
<1>1. \A u \in Workers : u # w => Ended(u) /\ at[u] \in {"wait", "gone"}
  BY DEF Running, Ended
<1>2. phase[w] = master.phase
  BY DEF Running, Ended, Engaged, Verdicts
<1>3. at[w] # "raise" => \A u \in Workers : at[u] # "raise"
  BY <1>1
<1>4. QED
  BY <1>1, <1>2, <1>3 DEF Running

LEMMA EndGoes ==
    ASSUME Running, NEW w \in Workers, at[w] \in {"reset done"} \cup Verdicts,
           at'[w] \in Verdicts, at'[w] = "raise" => status' \in {"Done", "Fail"},
           at'[w] # "raise" => status' \in {"Run", "Abort"},
           \A u \in Workers : u # w => at'[u] = at[u],
           nbready' = 0, UNCHANGED <<phase, master>>
    PROVE  Running'
<1>1. /\ \A u \in Workers : u # w => Ended(u) /\ at[u] \in {"wait", "gone"}
      /\ phase[w] = master.phase
  BY EndsAlone
<1>2. \A u \in Workers : u # w => Ended(u)' /\ at'[u] \notin {"reset done"} \cup Verdicts
  BY <1>1 DEF Ended, Verdicts
<1>3. Engaged(w)'
  BY <1>1 DEF Engaged
<1>4. ASSUME NEW u \in Workers
      PROVE  /\ Ended(u)' \/ Engaged(u)'
             /\ at'[u] \in {"reset done"} \cup Verdicts => \A v \in Workers : v # u => Ended(v)'
             /\ at'[u] = "raise" => status' \in {"Done", "Fail"}
  BY <1>2, <1>3 DEF Verdicts
<1>5. (\A u \in Workers : at'[u] # "raise") => status' \in {"Run", "Abort"}
  OBVIOUS
<1>6. QED
  BY <1>4, <1>5 DEF Running

LEMMA ResetDoneKeeps ==
    ASSUME SyncInv, NEW w \in Workers, ResetDone(w) PROVE SyncInv'
<1>1. /\ at[w] = "reset done" /\ nbready' = 0 /\ SyncTypeOK /\ GoTo(w, "settle")
      /\ UNCHANGED <<status, errmsg, raised, phase, reported, threw, master>>
  BY DEF SyncInv, ResetDone, Keeping
<1>2. /\ at'[w] = "settle" /\ \A u \in Workers : u # w => at'[u] = at[u]
  BY <1>1, Goes DEF WorkerPlaces
<1>3. Watching /\ status # "Wait" /\ Running
  BY <1>1, StageOf
<1>4. SyncTypeOK'
  <2>1. 0 \in 0 .. nbworkers
    BY Numbers
  <2> QED
    BY <1>1, <2>1, TypesGo DEF WorkerPlaces, SyncTypeOK
<1>5. status \in {"Run", "Abort"}
  BY <1>1, <1>3, EndsAlone
<1>6. Running'
  BY <1>1, <1>2, <1>3, <1>5, EndGoes DEF Verdicts
<1>7. Watching' /\ status' # "Wait"
  BY <1>1, <1>3 DEF Watching
<1>8. ErrorInv'
  BY <1>1, <1>2, ErrorGoes DEF SyncInv, SyncTypeOK
<1>9. QED
  BY <1>4, <1>6, <1>7, <1>8 DEF SyncInv, StageInv

LEMMA SettleKeeps ==
    ASSUME SyncInv, NEW w \in Workers, Settle(w) PROVE SyncInv'
<1> DEFINE there == IF status = "Abort" THEN "set Fail" ELSE "set Done"
<1>1. /\ at[w] = "settle" /\ SyncTypeOK /\ GoTo(w, there)
      /\ there \in {"set Fail", "set Done"} /\ there \in WorkerPlaces
      /\ UNCHANGED <<syncVars, phase, reported, threw, master>>
  BY DEF SyncInv, Settle, Keeping, WorkerPlaces
<1>2. /\ at'[w] = there /\ \A u \in Workers : u # w => at'[u] = at[u]
  BY <1>1, Goes
<1>3. Watching /\ status # "Wait" /\ Running
  BY <1>1, StageOf DEF Verdicts
<1>4. SyncTypeOK'
  BY <1>1, TypesGo DEF SyncTypeOK, syncVars
<1>5. status \in {"Run", "Abort"} /\ nbready = 0
  BY <1>1, <1>3, EndsAlone DEF Verdicts
<1>6. Running'
  BY <1>1, <1>2, <1>3, <1>5, EndGoes DEF Verdicts, syncVars
<1>7. Watching' /\ status' # "Wait"
  BY <1>1, <1>3 DEF Watching, syncVars
<1>8. at'[w] = "set Fail" => status = "Abort"
  BY <1>2
<1>9. at'[w] = "set Done" => status = "Run"
  BY <1>2, <1>5
<1>10. ErrorInv'
  <2>1. threw' \subseteq reported'
    BY <1>1 DEF SyncInv, ErrorInv
  <2>2. ASSUME NEW u \in Workers
        PROVE  /\ at'[u] \in {"set errmsg", "set Abort"} => u \in reported'
               /\ at'[u] = "set Abort" => errmsg' = TRUE
               /\ at'[u] = "set Done" => status' = "Run"
               /\ at'[u] = "set Fail" => status' = "Abort"
               /\ at'[u] = "gone" => status' = "Quit" \/ u \in threw'
    BY <1>1, <1>2, <1>8, <1>9 DEF SyncInv, ErrorInv, syncVars
  <2>3. ASSUME NEW u \in reported'
        PROVE  at'[u] \in {"set errmsg", "set Abort"} \/ status' \in {"Abort", "Fail", "Quit"}
    BY <1>1, <1>2 DEF SyncInv, SyncTypeOK, ErrorInv, syncVars
  <2>4. status' \in {"Abort", "Fail"} => reported' # {} /\ errmsg' = TRUE
    BY <1>1 DEF SyncInv, ErrorInv, syncVars
  <2>5. /\ master'.at \notin {"join", "joining", "returned"} /\ master'.error = FALSE
    BY <1>1, <1>3 DEF SyncInv, ErrorInv, Watching
  <2> QED
    BY <2>1, <2>2, <2>3, <2>4, <2>5 DEF ErrorInv
<1>11. QED
  BY <1>4, <1>6, <1>7, <1>10 DEF SyncInv, StageInv

(* The verdict counts every error: a worker that met one and has ended the *)
(* phase has set Abort, and nothing has overwritten it.                    *)
LEMMA SetStatusKeeps ==
    ASSUME SyncInv, NEW w \in Workers, SetStatus(w) PROVE SyncInv'
<1>1. /\ at[w] \in {"set Done", "set Fail"} /\ SyncTypeOK /\ GoTo(w, "raise")
      /\ status' = IF at[w] = "set Done" THEN "Done" ELSE "Fail"
      /\ UNCHANGED <<nbready, errmsg, raised, phase, reported, threw, master>>
  BY DEF SyncInv, SetStatus, Keeping
<1>2. /\ at'[w] = "raise" /\ \A u \in Workers : u # w => at'[u] = at[u]
  BY <1>1, Goes DEF WorkerPlaces
<1>3. Watching /\ status # "Wait" /\ Running
  BY <1>1, StageOf DEF Verdicts
<1>4. SyncTypeOK'
  BY <1>1, TypesGo DEF WorkerPlaces, SyncTypeOK
<1>5. /\ nbready = 0 /\ \A u \in Workers : u # w => at[u] \in {"wait", "gone"}
  BY <1>1, <1>3, EndsAlone DEF Verdicts
<1>6. Running'
  BY <1>1, <1>2, <1>3, <1>5, EndGoes DEF Verdicts
<1>7. Watching' /\ status' # "Wait"
  BY <1>1, <1>3 DEF Watching
<1>8. \A u \in Workers : at[u] \notin {"set errmsg", "set Abort"}
  BY <1>1, <1>5
<1>9. reported \subseteq Workers
  BY <1>1 DEF SyncTypeOK
<1>10. \/ at[w] = "set Done" /\ status' = "Done" /\ reported = {}
       \/ at[w] = "set Fail" /\ status' = "Fail" /\ reported # {} /\ errmsg = TRUE
  BY <1>1, <1>8, <1>9 DEF SyncInv, ErrorInv
<1>11. master.at \notin {"join", "joining", "returned"}
  BY <1>3 DEF Watching
<1>12. ASSUME NEW u \in Workers
       PROVE  /\ at'[u] \notin {"set errmsg", "set Abort", "set Done", "set Fail"}
              /\ at'[u] = "gone" => status' = "Quit" \/ u \in threw'
  <2>1. status # "Quit"
    BY <1>1 DEF SyncInv, ErrorInv
  <2> QED
    BY <1>1, <1>2, <1>5, <2>1 DEF SyncInv, ErrorInv
<1>13. ErrorInv'
  BY <1>1, <1>10, <1>11, <1>12 DEF SyncInv, ErrorInv
<1>14. QED
  BY <1>4, <1>6, <1>7, <1>13 DEF SyncInv, StageInv

(* A worker's way out of a phase.                                          *)
LEMMA Leaves ==
    ASSUME SyncInv, NEW w \in Workers, phase[w] = master.phase, NextPhase(w)
    PROVE  /\ at'[w] = (IF w \in threw THEN "gone" ELSE "wait") /\ at'[w] \in {"wait", "gone"}
           /\ phase'[w] = master.phase + 1
           /\ \A u \in Workers : u # w => at'[u] = at[u] /\ phase'[u] = phase[u]
           /\ at' \in [Workers -> WorkerPlaces] /\ phase' \in [Workers -> 0 .. LastPhase + 1]
<1> DEFINE there == IF w \in threw THEN "gone" ELSE "wait"
<1>1. there \in WorkerPlaces /\ there \in {"wait", "gone"} /\ GoTo(w, there) /\ SyncTypeOK
  BY DEF NextPhase, WorkerPlaces, SyncInv
<1> HIDE DEF there
<1>2. at'[w] = there /\ at' \in [Workers -> WorkerPlaces]
      /\ \A u \in Workers : u # w => at'[u] = at[u]
  BY <1>1, Goes
<1>3. master.phase \in 0 .. LastPhase /\ LastPhase \in Nat
  BY <1>1, Numbers DEF SyncTypeOK, Masters
<1>4. phase[w] + 1 = master.phase + 1 /\ master.phase + 1 \in 0 .. LastPhase + 1
  BY <1>3
<1>5. phase \in [Workers -> 0 .. LastPhase + 1] /\ phase' = [phase EXCEPT ![w] = phase[w] + 1]
  BY <1>1 DEF SyncTypeOK, NextPhase
<1>6. /\ phase' \in [Workers -> 0 .. LastPhase + 1] /\ phase'[w] = master.phase + 1
      /\ \A u \in Workers : u # w => phase'[u] = phase[u]
  BY <1>4, <1>5
<1>7. QED
  BY <1>1, <1>2, <1>6 DEF there

(* A worker leaves for good only if it has thrown.                         *)
LEMMA ErrorLeaves ==
    ASSUME ErrorInv, SyncTypeOK, NEW w \in Workers, at[w] \notin {"set errmsg", "set Abort"},
           at'[w] = (IF w \in threw THEN "gone" ELSE "wait"),
           \A u \in Workers : u # w => at'[u] = at[u],
           UNCHANGED <<status, errmsg, reported, threw, master>>
    PROVE  ErrorInv'
<1>1. threw' \subseteq reported'
  BY DEF ErrorInv
<1>2. ASSUME NEW u \in Workers
      PROVE  /\ at'[u] \in {"set errmsg", "set Abort"} => u \in reported'
             /\ at'[u] = "set Abort" => errmsg' = TRUE
             /\ at'[u] = "set Done" => status' = "Run"
             /\ at'[u] = "set Fail" => status' = "Abort"
             /\ at'[u] = "gone" => status' = "Quit" \/ u \in threw'
  BY DEF ErrorInv
<1>3. ASSUME NEW u \in reported'
      PROVE  at'[u] \in {"set errmsg", "set Abort"} \/ status' \in {"Abort", "Fail", "Quit"}
  BY DEF ErrorInv, SyncTypeOK
<1>4. status' \in {"Abort", "Fail"} => reported' # {} /\ errmsg' = TRUE
  BY DEF ErrorInv
<1>5. /\ master'.at \in {"join", "joining", "returned"} => (master'.error = TRUE <=> reported' # {})
      /\ master'.at \notin {"join", "joining", "returned"} => master'.error = FALSE
  BY DEF ErrorInv
<1> QED
  BY <1>1, <1>2, <1>3, <1>4, <1>5 DEF ErrorInv

(* The last to count itself done finds that the others have ended.         *)
LEMMA CountDoneKeeps ==
    ASSUME SyncInv, NEW w \in Workers, CountDone(w) PROVE SyncInv'
<1>1. /\ at[w] = "count" /\ nbready' = nbready + 1 /\ SyncTypeOK
      /\ UNCHANGED <<status, errmsg, raised, reported, threw, master>>
  BY DEF SyncInv, CountDone
<1>2. /\ Watching /\ status # "Wait" /\ Running /\ master.phase \in Nat
      /\ \A u \in Workers : phase[u] \in Nat
  BY <1>1, StageOf
<1>3. /\ ~Ended(w) /\ Engaged(w) /\ phase[w] = master.phase
      /\ \A u \in Workers : at[u] \notin {"reset done"} \cup Verdicts
  BY <1>1, <1>2 DEF Running, Ended, Engaged, Verdicts
<1>4. /\ nbready = Cardinality(Counted) /\ status \in {"Run", "Abort"}
  BY <1>2, <1>3 DEF Running, Verdicts
<1>5. Counted \in SUBSET Workers /\ w \notin Counted /\ master.phase # master.phase + 1
  <2>1. master.phase # master.phase + 1
    BY <1>2
  <2> QED
    BY <1>1, <1>3, <2>1 DEF Counted
<1>6. /\ nbready' = Cardinality(Counted \cup {w}) /\ nbready' \in 0 .. nbworkers
      /\ nbready' = nbworkers => Counted \cup {w} = Workers
  <2> DEFINE n == Cardinality(Counted)
             m == Cardinality(Counted \cup {w})
  <2>1. /\ n \in Nat /\ cardinal \in Nat /\ m = n + 1 /\ n + 1 <= cardinal
        /\ n + 1 = cardinal <=> Counted \cup {w} = Workers
    BY <1>5, OneMore
  <2>2. nbready' = nbready + 1 /\ nbready = n /\ nbworkers = cardinal
    BY <1>1, <1>4, Numbers
  <2> HIDE DEF n, m
  <2>3. nbready' = m /\ nbready' \in 0 .. nbworkers
    BY <2>1, <2>2
  <2>4. nbready' = nbworkers => Counted \cup {w} = Workers
    BY <2>1, <2>2
  <2> QED
    BY <2>3, <2>4 DEF m
<1>7. Watching' /\ status' # "Wait"
  BY <1>1, <1>2 DEF Watching
<1>8. CASE nbready' = nbworkers
  <2>1. GoTo(w, "reset done") /\ UNCHANGED phase
    BY <1>8 DEF CountDone
  <2>2. /\ at'[w] = "reset done" /\ at' \in [Workers -> WorkerPlaces]
        /\ \A u \in Workers : u # w => at'[u] = at[u]
    BY <1>1, <2>1, Goes DEF WorkerPlaces
  <2>3. \A u \in Workers : u # w => Ended(u)
    <3> SUFFICES ASSUME NEW u \in Workers, u # w PROVE Ended(u)
      OBVIOUS
    <3>1. phase[u] = master.phase + 1
      BY <1>3, <1>6, <1>8 DEF Counted
    <3>2. ~Engaged(u)
      BY <1>5, <3>1 DEF Engaged
    <3> QED
      BY <1>2, <3>2 DEF Running
  <2>4. Counted' = Counted \cup {w}
    BY <1>1, <1>3, <2>1, <2>2 DEF Counted
  <2>5. \A u \in Workers : u # w => Ended(u)' /\ at'[u] \notin {"reset done"} \cup Verdicts
    BY <1>1, <1>3, <2>1, <2>2, <2>3 DEF Ended
  <2>6. Engaged(w)' /\ at'[w] \notin Verdicts
    BY <1>1, <1>3, <2>1, <2>2 DEF Engaged, Verdicts
  <2>7. \A u \in Workers : at'[u] \notin Verdicts /\ at'[u] # "raise"
    BY <2>5, <2>6 DEF Verdicts
  <2>8. Running'
    BY <1>1, <1>4, <1>6, <2>4, <2>5, <2>6, <2>7 DEF Running
  <2>9. SyncTypeOK'
    BY <1>1, <1>6, <2>1, <2>2 DEF SyncTypeOK, nbworkers, cardinal, LastPhase, Masters
  <2>10. ErrorInv'
    BY <1>1, <2>2, ErrorGoes DEF SyncInv, SyncTypeOK
  <2> QED
    BY <1>2, <1>7, <2>8, <2>9, <2>10 DEF SyncInv, StageInv
<1>9. CASE nbready' # nbworkers
  <2>1. NextPhase(w)
    BY <1>9 DEF CountDone
  <2>2. /\ at'[w] = (IF w \in threw THEN "gone" ELSE "wait") /\ at'[w] \in {"wait", "gone"}
        /\ phase'[w] = master.phase + 1
        /\ \A u \in Workers : u # w => at'[u] = at[u] /\ phase'[u] = phase[u]
        /\ at' \in [Workers -> WorkerPlaces] /\ phase' \in [Workers -> 0 .. LastPhase + 1]
    BY <1>3, <2>1, Leaves
  <2>3. Ended(w)' /\ \A u \in Workers : at'[u] \notin {"reset done"} \cup Verdicts
    BY <1>1, <1>3, <2>2 DEF Ended, Verdicts
  <2>4. \A u \in Workers : Ended(u)' \/ Engaged(u)'
    BY <1>1, <1>2, <2>2, <2>3 DEF Running, Ended, Engaged
  <2>5. Counted' = Counted \cup {w}
    BY <1>1, <2>2 DEF Counted
  <2>6. \A u \in Workers : at'[u] \notin Verdicts /\ at'[u] # "raise"
    BY <2>3 DEF Verdicts
  <2>7. Running'
    BY <1>1, <1>4, <1>6, <2>3, <2>4, <2>5, <2>6 DEF Running
  <2>8. SyncTypeOK'
    BY <1>1, <1>6, <2>2 DEF SyncTypeOK, nbworkers, cardinal, LastPhase, Masters
  <2>9. ErrorInv'
    BY <1>1, <2>2, ErrorLeaves DEF SyncInv
  <2> QED
    BY <1>2, <1>7, <2>7, <2>8, <2>9 DEF SyncInv, StageInv
<1>10. QED
  BY <1>8, <1>9

(* All is settled before the latch is raised.                              *)
LEMMA RaiseKeeps ==
    ASSUME SyncInv, NEW w \in Workers, Raise(w) PROVE SyncInv'
<1>1. /\ at[w] = "raise" /\ raised' = TRUE /\ SyncTypeOK /\ NextPhase(w)
      /\ UNCHANGED <<status, nbready, errmsg, reported, threw, master>>
  BY DEF SyncInv, Raise
<1>2. Watching /\ status # "Wait" /\ Running
  BY <1>1, StageOf DEF Verdicts
<1>3. /\ \A u \in Workers : u # w => Ended(u) /\ at[u] \in {"wait", "gone"}
      /\ phase[w] = master.phase /\ nbready = 0
  BY <1>1, <1>2, EndsAlone DEF Verdicts
<1>4. /\ at'[w] = (IF w \in threw THEN "gone" ELSE "wait") /\ at'[w] \in {"wait", "gone"}
      /\ phase'[w] = master.phase + 1
      /\ \A u \in Workers : u # w => at'[u] = at[u] /\ phase'[u] = phase[u]
      /\ at' \in [Workers -> WorkerPlaces] /\ phase' \in [Workers -> 0 .. LastPhase + 1]
  BY <1>1, <1>3, Leaves
<1>5. status \in {"Done", "Fail"}
  BY <1>1, <1>2 DEF Running
<1>6. \A u \in Workers : at'[u] \in {"wait", "gone"} /\ phase'[u] = master'.phase + 1
  BY <1>1, <1>3, <1>4 DEF Ended
<1>7. master'.at \in {"wait", "overrun"} /\ raised' = TRUE
  BY <1>1, <1>2 DEF Watching
<1>8. ~Watching' /\ Settled'
  BY <1>1, <1>3, <1>5, <1>6, <1>7 DEF Settled, Watching
<1>9. SyncTypeOK'
  BY <1>1, <1>4 DEF SyncTypeOK, nbworkers, cardinal, LastPhase, Masters
<1>10. ErrorInv'
  BY <1>1, <1>4, ErrorLeaves DEF SyncInv
<1>11. QED
  BY <1>8, <1>9, <1>10 DEF SyncInv, StageInv

(* The master.  It changes status only where no worker is on its way.      *)
LEMMA MasterNotifyKeeps == ASSUME SyncInv, MasterNotify PROVE SyncInv'
<1>1. /\ master.at = "notify" /\ status' = "Wait" /\ master' = [master EXCEPT !.at = "wait"]
      /\ UNCHANGED <<nbready, errmsg, raised, at, phase, reported, threw>>
      /\ SyncTypeOK /\ master \in Masters
  BY DEF SyncInv, SyncTypeOK, MasterNotify, workerVars
<1>2. /\ master' \in Masters /\ master'.at = "wait" /\ master'.phase = master.phase
      /\ master'.error = master.error
  <2>1. "wait" \in MasterPlaces
    BY DEF MasterPlaces
  <2>2. /\ [master EXCEPT !.at = "wait"] \in Masters
        /\ [master EXCEPT !.at = "wait"].at = "wait"
        /\ [master EXCEPT !.at = "wait"].phase = master.phase
        /\ [master EXCEPT !.at = "wait"].error = master.error
    BY <1>1, <2>1, MasterGoes
  <2> QED
    BY <1>1, <2>2
<1>3. ~Watching /\ Settled
  BY <1>1 DEF SyncInv, StageInv, Watching
<1>4. raised = FALSE /\ reported = {} /\ threw = {} /\ status = "Done"
  BY <1>1, <1>3 DEF Settled, SyncInv, SyncTypeOK, ErrorInv
<1>5. \A w \in Workers : at[w] = "wait" /\ phase[w] = master.phase
  BY <1>1, <1>3, <1>4 DEF Settled, SyncInv, ErrorInv
<1>6. Announced' = {} /\ nbready' = 0
  BY <1>1, <1>3, <1>5 DEF Announced, Settled
<1>7. Gathering'
  BY <1>1, <1>2, <1>4, <1>5, <1>6, Numbers DEF Gathering
<1>8. Watching' /\ status' = "Wait"
  BY <1>1, <1>2, <1>4 DEF Watching
<1>9. SyncTypeOK'
  BY <1>1, <1>2 DEF SyncTypeOK, nbworkers, cardinal, LastPhase, Masters
<1>10. ErrorInv'
  BY <1>1, <1>2, <1>4, <1>5 DEF SyncInv, ErrorInv
<1>11. QED
  BY <1>7, <1>8, <1>9, <1>10 DEF SyncInv, StageInv

LEMMA MasterWaitKeeps == ASSUME SyncInv, MasterWait PROVE SyncInv'
<1>1. /\ master.at = "wait" /\ raised = TRUE /\ raised' = FALSE
      /\ master' = [master EXCEPT !.at = "judge"]
      /\ UNCHANGED <<status, nbready, errmsg, at, phase, reported, threw>>
      /\ SyncTypeOK /\ master \in Masters
  BY DEF SyncInv, SyncTypeOK, MasterWait, workerVars
<1>2. /\ master' \in Masters /\ master'.at = "judge" /\ master'.phase = master.phase
      /\ master'.error = master.error
  BY <1>1, MasterGoes, "judge" \in MasterPlaces DEF MasterPlaces
<1>3. ~Watching /\ Settled
  BY <1>1 DEF SyncInv, StageInv, Watching
<1>4. ~Watching' /\ Settled'
  BY <1>1, <1>2, <1>3 DEF Settled, Watching
<1>5. SyncTypeOK'
  BY <1>1, <1>2 DEF SyncTypeOK, nbworkers, cardinal, LastPhase, Masters
<1>6. ErrorInv'
  BY <1>1, <1>2 DEF SyncInv, ErrorInv
<1>7. QED
  BY <1>4, <1>5, <1>6 DEF SyncInv, StageInv

LEMMA OvertimeKeeps == ASSUME SyncInv, MasterOvertime PROVE SyncInv'
<1>1. /\ master.at = "wait" /\ raised = FALSE
      /\ master' = [master EXCEPT !.at = "overrun"]
      /\ UNCHANGED <<status, nbready, errmsg, raised, at, phase, reported, threw>>
      /\ SyncTypeOK /\ master \in Masters
  BY DEF SyncInv, SyncTypeOK, MasterOvertime, workerVars, syncVars
<1>2. /\ master' \in Masters /\ master'.at = "overrun" /\ master'.phase = master.phase
      /\ master'.error = master.error
  BY <1>1, MasterGoes, "overrun" \in MasterPlaces DEF MasterPlaces
<1>3. Watching /\ Watching'
  BY <1>1, <1>2 DEF Watching
<1>4. Announced' = Announced /\ Counted' = Counted
  BY <1>1, <1>2 DEF Announced, Counted
<1>5. ASSUME Gathering PROVE Gathering'
  BY <1>1, <1>2, <1>4, <1>5 DEF Gathering
<1>6. ASSUME Running PROVE Running'
  BY <1>1, <1>2, <1>4, <1>6 DEF Running, Ended, Engaged
<1>7. SyncTypeOK'
  BY <1>1, <1>2 DEF SyncTypeOK, nbworkers, cardinal, LastPhase, Masters
<1>8. ErrorInv'
  BY <1>1, <1>2 DEF SyncInv, ErrorInv
<1>9. QED
  BY <1>1, <1>3, <1>5, <1>6, <1>7, <1>8 DEF SyncInv, StageInv

(* What the master finds in status is the verdict.                         *)
LEMMA MasterJudgeKeeps == ASSUME SyncInv, MasterJudge PROVE SyncInv'
<1>1. /\ master.at = "judge"
      /\ UNCHANGED <<status, nbready, errmsg, raised, at, phase, reported, threw>>
      /\ SyncTypeOK /\ master \in Masters
  BY DEF SyncInv, SyncTypeOK, MasterJudge, workerVars, syncVars
<1>2. ~Watching /\ Settled
  BY <1>1 DEF SyncInv, StageInv, Watching
<1>3. /\ raised = FALSE /\ status \in {"Done", "Fail"}
      /\ \A w \in Workers : at[w] \in {"wait", "gone"} /\ phase[w] = master.phase + 1
  BY <1>1, <1>2 DEF Settled, SyncInv, SyncTypeOK
<1>4. master.phase \in 0 .. LastPhase /\ LastPhase \in Nat /\ master.error = FALSE
  BY <1>1, Numbers DEF Masters, SyncInv, ErrorInv
<1>5. status = "Done" => reported = {}
  BY <1>1, <1>3 DEF SyncInv, SyncTypeOK, ErrorInv
<1>6. status = "Fail" => reported # {} /\ errmsg = TRUE
  BY DEF SyncInv, ErrorInv
<1>7. /\ master' \in Masters
      /\ \/ /\ master'.at = "join" /\ master'.phase = master.phase
            /\ master'.error = TRUE <=> reported # {}
         \/ /\ master'.at = "notify" /\ master'.phase = master.phase + 1
            /\ master'.error = FALSE /\ status = "Done"
  <2>1. CASE status = "Fail"
    <3>1. master' = [master EXCEPT !.at = "join", !.error = errmsg]
      BY <2>1 DEF MasterJudge
    <3>2. master' = [at |-> "join", phase |-> master.phase, error |-> TRUE]
      BY <1>1, <1>6, <2>1, <3>1 DEF Masters
    <3> QED
      BY <1>4, <1>6, <2>1, <3>2 DEF Masters, MasterPlaces
  <2>2. CASE status = "Done" /\ master.phase = LastPhase
    <3>1. master' = [master EXCEPT !.at = "join"]
      BY <2>2 DEF MasterJudge
    <3>2. master' = [at |-> "join", phase |-> master.phase, error |-> FALSE]
      BY <1>1, <1>4, <3>1 DEF Masters
    <3> QED
      BY <1>4, <1>5, <2>2, <3>2 DEF Masters, MasterPlaces
  <2>3. CASE status = "Done" /\ master.phase # LastPhase
    <3>1. master' = [master EXCEPT !.at = "notify", !.phase = master.phase + 1]
      BY <2>3 DEF MasterJudge
    <3>2. master' = [at |-> "notify", phase |-> master.phase + 1, error |-> FALSE]
      BY <1>1, <1>4, <3>1 DEF Masters
    <3>3. master.phase + 1 \in 0 .. LastPhase
      BY <1>4, <2>3
    <3> QED
      BY <2>3, <3>2, <3>3 DEF Masters, MasterPlaces
  <2> QED
    BY <1>3, <2>1, <2>2, <2>3
<1>8. ~Watching' /\ Settled'
  BY <1>1, <1>2, <1>3, <1>5, <1>7 DEF Settled, Watching
<1>9. SyncTypeOK'
  BY <1>1, <1>7 DEF SyncTypeOK, nbworkers, cardinal, LastPhase, Masters
<1>10. /\ master'.at \in {"join", "joining", "returned"} => (master'.error = TRUE <=> reported' # {})
       /\ master'.at \notin {"join", "joining", "returned"} => master'.error = FALSE
  BY <1>1, <1>7
<1>11. ErrorInv'
  BY <1>1, <1>10 DEF SyncInv, ErrorInv
<1>12. QED
  BY <1>8, <1>9, <1>11 DEF SyncInv, StageInv

LEMMA MasterJoinKeeps == ASSUME SyncInv, MasterJoin PROVE SyncInv'
<1>1. /\ master.at = "join" /\ status' = "Quit" /\ master' = [master EXCEPT !.at = "joining"]
      /\ UNCHANGED <<nbready, errmsg, raised, at, phase, reported, threw>>
      /\ SyncTypeOK /\ master \in Masters
  BY DEF SyncInv, SyncTypeOK, MasterJoin, workerVars
<1>2. /\ master' \in Masters /\ master'.at = "joining" /\ master'.phase = master.phase
      /\ master'.error = master.error
  BY <1>1, MasterGoes, "joining" \in MasterPlaces DEF MasterPlaces
<1>3. ~Watching /\ Settled
  BY <1>1 DEF SyncInv, StageInv, Watching
<1>4. ~Watching' /\ Settled'
  BY <1>1, <1>2, <1>3 DEF Settled, Watching
<1>5. SyncTypeOK'
  BY <1>1, <1>2 DEF SyncTypeOK, nbworkers, cardinal, LastPhase, Masters
<1>6. \A w \in Workers : at'[w] \in {"wait", "gone"}
  BY <1>1, <1>3 DEF Settled
<1>7. ErrorInv'
  BY <1>1, <1>2, <1>6 DEF SyncInv, ErrorInv
<1>8. QED
  BY <1>4, <1>5, <1>7 DEF SyncInv, StageInv

LEMMA MasterReturnKeeps == ASSUME SyncInv, MasterReturn PROVE SyncInv'
<1>1. /\ master.at = "joining" /\ master' = [master EXCEPT !.at = "returned"]
      /\ UNCHANGED <<status, nbready, errmsg, raised, at, phase, reported, threw>>
      /\ SyncTypeOK /\ master \in Masters
  BY DEF SyncInv, SyncTypeOK, MasterReturn, workerVars, syncVars
<1>2. /\ master' \in Masters /\ master'.at = "returned" /\ master'.phase = master.phase
      /\ master'.error = master.error
  BY <1>1, MasterGoes, "returned" \in MasterPlaces DEF MasterPlaces
<1>3. ~Watching /\ Settled
  BY <1>1 DEF SyncInv, StageInv, Watching
<1>4. ~Watching' /\ Settled'
  BY <1>1, <1>2, <1>3 DEF Settled, Watching
<1>5. SyncTypeOK'
  BY <1>1, <1>2 DEF SyncTypeOK, nbworkers, cardinal, LastPhase, Masters
<1>6. ErrorInv'
  BY <1>1, <1>2 DEF SyncInv, ErrorInv
<1>7. QED
  BY <1>4, <1>5, <1>6 DEF SyncInv, StageInv

LEMMA SyncUnchanged ==
    ASSUME SyncInv, UNCHANGED <<syncVars, workerVars, master>> PROVE SyncInv'
<1>1. UNCHANGED <<status, nbready, errmsg, raised, at, phase, reported, threw, master>>
  BY DEF syncVars, workerVars
<1>2. SyncTypeOK'
  BY <1>1 DEF SyncInv, SyncTypeOK, nbworkers, cardinal, LastPhase, Masters
<1>3. ErrorInv'
  BY <1>1 DEF SyncInv, ErrorInv
<1>4. Watching' = Watching /\ Announced' = Announced /\ Counted' = Counted
  BY <1>1 DEF Watching, Announced, Counted
<1>5. Gathering' = Gathering /\ Settled' = Settled
  BY <1>1, <1>4 DEF Gathering, Settled
<1>6. Running' = Running
  BY <1>1, <1>4 DEF Running, Ended, Engaged
<1>7. QED
  BY <1>1, <1>2, <1>3, <1>4, <1>5, <1>6 DEF SyncInv, StageInv

LEMMA SyncKept == ASSUME SyncInv, GradingNext PROVE SyncInv'
<1>1. CASE MasterStep \/ MasterOvertime
  BY <1>1, MasterNotifyKeeps, MasterWaitKeeps, OvertimeKeeps, MasterJudgeKeeps, MasterJoinKeeps,
     MasterReturnKeeps DEF MasterStep
<1>2. ASSUME NEW w \in Workers, WorkerStep(w) PROVE SyncInv'
  <2>1. CASE SeeWait(w) \/ SeeQuit(w) \/ CountReady(w) \/ ResetReady(w) \/ StartRun(w) \/ SeeRun(w)
    BY <2>1, SeeWaitKeeps, SeeQuitKeeps, CountReadyKeeps, ResetReadyKeeps, StartRunKeeps,
       SeeRunKeeps
  <2>2. CASE CheckSync(w)
    BY <2>2, SyncUnchanged DEF CheckSync
  <2>3. CASE Finish(w) \/ Throw(w) \/ SetErrmsg(w) \/ SetAbort(w)
    BY <2>3, FinishKeeps, ThrowKeeps, SetErrmsgKeeps, SetAbortKeeps
  <2>4. CASE CountDone(w) \/ ResetDone(w) \/ Settle(w) \/ SetStatus(w) \/ Raise(w)
    BY <2>4, CountDoneKeeps, ResetDoneKeeps, SettleKeeps, SetStatusKeeps, RaiseKeeps
  <2> QED
    BY <1>2, <2>1, <2>2, <2>3, <2>4 DEF WorkerStep
<1>3. QED
  BY <1>1, <1>2 DEF GradingNext
----------------------------------------------------------------------------
(* What the invariant says of the phases.                                  *)

LEMMA PhasesSafe == SyncInv => PhasesInLockstep
<1> SUFFICES ASSUME SyncInv, NEW w \in Workers, at[w] = "work"
             PROVE  /\ master.phase = phase[w] /\ master.at \in {"wait", "overrun"}
                    /\ \A u \in Workers : \/ phase[u] = phase[w] /\ at[u] \notin {"wait", "ready"}
                                          \/ phase[u] = phase[w] + 1 /\ at[u] \in {"wait", "gone"}
  BY DEF PhasesInLockstep
<1>1. Watching /\ Running
  BY StageOf
<1>2. master.phase = phase[w] /\ master.at \in {"wait", "overrun"}
  BY <1>1 DEF Running, Ended, Engaged, Watching
<1>3. ASSUME NEW u \in Workers
      PROVE  \/ phase[u] = phase[w] /\ at[u] \notin {"wait", "ready"}
             \/ phase[u] = phase[w] + 1 /\ at[u] \in {"wait", "gone"}
  <2>1. Ended(u) \/ Engaged(u)
    BY <1>1 DEF Running
  <2> QED
    BY <1>2, <2>1 DEF Ended, Engaged, Verdicts
<1>4. QED
  BY <1>2, <1>3

LEMMA LatchSafe == SyncInv => LatchMeansDone
<1> SUFFICES ASSUME SyncInv, raised = TRUE \/ master.at \in {"judge", "notify"}
             PROVE  /\ nbready = 0 /\ status \in {"Done", "Fail"}
                    /\ ~raised \/ master.at = "wait" \/ master.at = "overrun"
                    /\ \A w \in Workers : at[w] \in {"wait", "gone"}
  BY DEF LatchMeansDone, SyncInv, SyncTypeOK
<1>1. ~Watching /\ Settled
  BY DEF SyncInv, StageInv, Watching
<1>2. raised \in BOOLEAN
  BY DEF SyncInv, SyncTypeOK
<1>3. nbready = 0 /\ \A w \in Workers : at[w] \in {"wait", "gone"}
  BY <1>1 DEF Settled
<1>4. raised = TRUE => master.at \in {"wait", "overrun"}
  BY <1>1 DEF Settled
<1>5. status \in {"Done", "Fail"}
  BY <1>1, <1>4 DEF Settled
<1>6. QED
  BY <1>2, <1>3, <1>4, <1>5

LEMMA ErrorsSafe == SyncInv => NoErrorLost
<1> SUFFICES ASSUME SyncInv PROVE NoErrorLost
  OBVIOUS
<1>1. master.error \in BOOLEAN
  BY DEF SyncInv, SyncTypeOK, Masters
<1>2. ASSUME master.at = "notify" PROVE reported = {}
  <2>1. ~Watching /\ Settled
    BY <1>2 DEF SyncInv, StageInv, Watching
  <2> QED
    BY <1>2, <2>1 DEF Settled
<1>3. ASSUME master.at \in {"join", "joining", "returned"}
      PROVE  master.error <=> reported # {}
  <2>1. master.error = TRUE <=> reported # {}
    BY <1>3 DEF SyncInv, ErrorInv
  <2> QED
    BY <1>1, <2>1
<1>4. QED
  BY <1>2, <1>3 DEF NoErrorLost
----------------------------------------------------------------------------
(* The main thread and the threads of bounded_run.                         *)

Runners == [is : {"running", "notifying", "over"}, for : {"tm_create", "tm_destroy"}]

MainTypeOK ==
    /\ main \in {"create", "measure", "unload"} \cup BoundedRunPlaces \cup Exits
    /\ runner \in {NoRunner} \cup Runners
    /\ memory \in {"none", "created", "destroyed"}
    /\ loaded \in BOOLEAN

\* what the runner's function leaves behind
Effect(func) == IF func = "tm_create" THEN "created" ELSE "destroyed"
\* where measure is while the main thread is in bounded_run
Around(func) == IF func = "tm_create" THEN "notify" ELSE "returned"

MainInv ==
    /\ main = "create" => runner = NoRunner /\ master.at = "notify"
    /\ InBoundedRun =>
        /\ runner \in Runners
        /\ master.at = Around(runner.for)
        /\ runner.is # "running" => memory = Effect(runner.for)
        /\ main \in {"guarded", "asleep"} => runner.is # "over"
    /\ main = "measure" => memory = "created" /\ runner \in Runners /\ runner.is = "over"
    /\ main = "unload" =>
        /\ master.at \in {"notify", "returned"}
        /\ master.at = "returned" => memory = "destroyed" /\ runner \in Runners /\ runner.is = "over"
    /\ main = "exit 0" => memory = "destroyed" /\ master.at = "returned" /\ master.error = FALSE
    /\ loaded = FALSE => main \in {"unload"} \cup Exits

GraderInv == SyncInv /\ BarrierInv /\ MainTypeOK /\ MainInv

LEMMA RunnerGoes ==
    ASSUME NEW r \in Runners, NEW now \in {"running", "notifying", "over"}
    PROVE  /\ [r EXCEPT !.is = now] \in Runners
           /\ [r EXCEPT !.is = now].is = now
           /\ [r EXCEPT !.is = now].for = r.for
<1>1. [r EXCEPT !.is = now] = [is |-> now, for |-> r.for]
  BY DEF Runners
<1>2. r.for \in {"tm_create", "tm_destroy"}
  BY DEF Runners
<1>3. QED
  BY <1>1, <1>2 DEF Runners

LEMMA NoRunnerIs == NoRunner.is = "none" /\ NoRunner \notin Runners
                    /\ \A r \in Runners : r.is # "none" /\ r.for \in {"tm_create", "tm_destroy"}
<1>1. NoRunner.is = "none"
  BY DEF NoRunner
<1>2. \A r \in Runners : r.is # "none" /\ r.for \in {"tm_create", "tm_destroy"}
  BY DEF Runners
<1>3. QED
  BY <1>1, <1>2

(* The grader's steps are steps of master and workers, or none of theirs;  *)
(* a worker does not move the master.                                      *)
LEMMA GradingMoves ==
    ASSUME GraderNext PROVE GradingNext \/ UNCHANGED vars
<1>1. CASE Measure \/ MeasureOvertime
  BY <1>1 DEF Measure, MeasureOvertime, GradingNext
<1>2. ASSUME NEW w \in Workers, GraderWorkerStep(w) PROVE GradingNext
  BY <1>2 DEF GraderWorkerStep, GradingNext
<1>3. CASE Create \/ BoundedWait \/ BoundedWakes \/ BoundedJoin \/ Destroy \/ QuickExit
           \/ Unload \/ ReturnCode \/ RunnerStep \/ BoundedWakesEarly \/ BoundedOverrun
           \/ RunnerAstray
  BY <1>3 DEF Create, BoundedWait, BoundedWakes, BoundedJoin, Destroy, QuickExit, Unload,
              ReturnCode, RunnerStep, RunnerRuns, RunnerNotifies, BoundedWakesEarly,
              BoundedOverrun, RunnerAstray, Only
<1>4. QED
  BY <1>1, <1>2, <1>3 DEF GraderNext, MainStep

LEMMA WorkerLeavesMaster ==
    ASSUME NEW w \in Workers, WorkerStep(w) PROVE master' = master
<1>1. CASE SeeWait(w) \/ SeeQuit(w) \/ CountReady(w) \/ ResetReady(w) \/ StartRun(w) \/ SeeRun(w)
           \/ SetErrmsg(w) \/ SetAbort(w) \/ ResetDone(w) \/ Settle(w) \/ SetStatus(w)
  BY <1>1 DEF SeeWait, SeeQuit, CountReady, ResetReady, StartRun, SeeRun, SetErrmsg, SetAbort,
              ResetDone, Settle, SetStatus, Keeping
<1>2. CASE CheckSync(w) \/ Finish(w) \/ Throw(w) \/ CountDone(w) \/ Raise(w)
  BY <1>2 DEF CheckSync, Finish, Throw, CountDone, Raise
<1>3. QED
  BY <1>1, <1>2 DEF WorkerStep

LEMMA MainUnchanged ==
    ASSUME MainTypeOK, MainInv, UNCHANGED <<mainVars, master>> PROVE MainTypeOK' /\ MainInv'
  BY DEF mainVars, MainTypeOK, MainInv, InBoundedRun

(* bounded_run starts the runner with the mutex taken.                     *)
LEMMA BoundedRunKeeps ==
    ASSUME MainTypeOK, MainInv, NEW func \in {"tm_create", "tm_destroy"}, BoundedRun(func),
           master' = master, master.at = Around(func), loaded = TRUE
    PROVE  MainTypeOK' /\ MainInv'
<1> DEFINE r == [is |-> "running", for |-> func]
<1>1. r \in Runners /\ r.is = "running" /\ r.for = func
  BY DEF Runners
<1>2. main' = "guarded" /\ runner' = r /\ memory' = memory /\ loaded' = loaded
  BY DEF BoundedRun
<1> HIDE DEF r
<1>3. MainTypeOK'
  BY <1>1, <1>2 DEF MainTypeOK, BoundedRunPlaces
<1>4. MainInv'
  BY <1>1, <1>2 DEF MainInv, Around, InBoundedRun, BoundedRunPlaces
<1>5. QED
  BY <1>3, <1>4

LEMMA MainKeeps == ASSUME GraderInv, GraderNext PROVE MainTypeOK' /\ MainInv'
<1>1. MainTypeOK /\ MainInv
  BY DEF GraderInv
<1>2. CASE Create
  <2>1. main = "create" /\ BoundedRun("tm_create") /\ master' = master
    BY <1>2 DEF Create, vars
  <2>2. master.at = Around("tm_create") /\ loaded = TRUE
    BY <1>1, <2>1 DEF MainInv, MainTypeOK, Around, Exits, InBoundedRun, BoundedRunPlaces
  <2> QED
    BY <1>1, <2>1, <2>2, BoundedRunKeeps
<1>3. CASE Destroy
  <2>1. main = "measure" /\ BoundedRun("tm_destroy") /\ master' = master
    BY <1>3 DEF Destroy, vars
  <2>2. master.at = Around("tm_destroy") /\ loaded = TRUE
    BY <1>1, <1>3, <2>1 DEF Destroy, MainInv, MainTypeOK, Around, Exits, InBoundedRun, BoundedRunPlaces
  <2> QED
    BY <1>1, <2>1, <2>2, BoundedRunKeeps
<1>4. CASE BoundedWait \/ BoundedWakes \/ BoundedWakesEarly
  <2>1. /\ \/ main = "guarded" /\ main' = "asleep"
           \/ main \in {"asleep", "woken"} /\ main' = "join"
        /\ UNCHANGED <<runner, memory, loaded, master>>
    BY <1>4 DEF BoundedWait, BoundedWakes, BoundedWakesEarly, Only, vars
  <2> QED
    BY <1>1, <2>1 DEF MainInv, MainTypeOK, Exits, InBoundedRun, BoundedRunPlaces
<1>5. CASE BoundedJoin
  <2>1. /\ main = "join" /\ runner.is = "over"
        /\ main' = IF runner.for = "tm_create" THEN "measure" ELSE "unload"
        /\ UNCHANGED <<runner, memory, loaded, master>>
    BY <1>5 DEF BoundedJoin, Only, vars
  <2>2. /\ runner \in Runners /\ master.at = Around(runner.for) /\ memory = Effect(runner.for)
        /\ loaded = TRUE
    BY <1>1, <2>1 DEF MainInv, MainTypeOK, Exits, InBoundedRun, BoundedRunPlaces
  <2>3. CASE runner.for = "tm_create"
    BY <1>1, <2>1, <2>2, <2>3 DEF MainInv, MainTypeOK, Effect, Exits, InBoundedRun, BoundedRunPlaces
  <2>4. CASE runner.for # "tm_create"
    BY <1>1, <2>1, <2>2, <2>4 DEF MainInv, MainTypeOK, Effect, Around, Exits, InBoundedRun,
                              BoundedRunPlaces
  <2> QED
    BY <2>3, <2>4
<1>6. CASE Measure \/ MeasureOvertime
  <2>1. main = "measure" /\ UNCHANGED <<main, runner, memory, loaded>>
    BY <1>6 DEF Measure, MeasureOvertime, mainVars
  <2> QED
    BY <1>1, <2>1 DEF MainInv, MainTypeOK, Exits, InBoundedRun, BoundedRunPlaces
<1>7. CASE QuickExit
  <2>1. main' = "quick_exit 2" /\ UNCHANGED <<runner, memory, loaded>>
    BY <1>7 DEF QuickExit, Only
  <2> QED
    BY <1>1, <2>1 DEF MainInv, MainTypeOK, Exits, InBoundedRun, BoundedRunPlaces
<1>8. CASE Unload
  <2>1. /\ main = "unload" /\ loaded' = FALSE
        /\ UNCHANGED <<main, runner, memory, master>>
    BY <1>8 DEF Unload, Only, vars
  <2> QED
    BY <1>1, <2>1 DEF MainInv, MainTypeOK, InBoundedRun, BoundedRunPlaces
<1>9. CASE ReturnCode
  <2>1. /\ main = "unload"
        /\ main' = IF master.at = "returned" /\ ~master.error THEN "exit 0" ELSE "exit 1"
        /\ UNCHANGED <<runner, memory, loaded, master>>
    BY <1>9 DEF ReturnCode, Only, vars
  <2>2. master.error \in BOOLEAN
    BY DEF GraderInv, SyncInv, SyncTypeOK, Masters
  <2> QED
    BY <1>1, <2>1, <2>2 DEF MainInv, MainTypeOK, Exits, InBoundedRun, BoundedRunPlaces
<1>10. CASE RunnerStep
  <2>1. main \notin Exits
    BY <1>10 DEF RunnerStep, Exited
  <2>2. CASE RunnerRuns
    <3>1. InBoundedRun /\ runner.is = "running" /\ loaded' = loaded /\ master' = master
      BY <2>2 DEF RunnerRuns, Only, vars
    <3>2. runner \in Runners /\ runner.for \in {"tm_create", "tm_destroy"}
      BY <1>1, <3>1, NoRunnerIs DEF MainInv
    <3>3. CASE main' = "terminate" /\ UNCHANGED <<memory, runner>>
      BY <1>1, <3>1, <3>3 DEF MainInv, MainTypeOK, Exits, InBoundedRun, BoundedRunPlaces
    <3>4. CASE /\ memory' = IF runner.for = "tm_create" THEN "created" ELSE "destroyed"
               /\ runner' = [runner EXCEPT !.is = "notifying"]
               /\ main' = main
      <4>1. /\ [runner EXCEPT !.is = "notifying"] \in Runners
            /\ [runner EXCEPT !.is = "notifying"].is = "notifying"
            /\ [runner EXCEPT !.is = "notifying"].for = runner.for
        BY <3>2, RunnerGoes
      <4>2. runner' \in Runners /\ runner'.is = "notifying" /\ runner'.for = runner.for
        BY <3>4, <4>1
      <4>3. memory' = Effect(runner.for) /\ memory' \in {"created", "destroyed"} /\ main' = main
        BY <3>4 DEF Effect
      <4>4. MainTypeOK'
        BY <1>1, <3>1, <4>2, <4>3 DEF MainTypeOK
      <4>5. MainInv'
        BY <1>1, <3>1, <4>2, <4>3 DEF MainInv, Exits, InBoundedRun, BoundedRunPlaces
      <4> QED
        BY <4>4, <4>5
    <3> QED
      BY <2>2, <3>3, <3>4 DEF RunnerRuns
  <2>3. CASE RunnerNotifies
    <3>1. /\ InBoundedRun /\ main \notin {"guarded", "join"} /\ runner.is = "notifying"
          /\ runner' = [runner EXCEPT !.is = "over"]
          /\ main' = IF main = "asleep" THEN "woken" ELSE main
          /\ UNCHANGED <<memory, loaded, master>>
      BY <2>3 DEF RunnerNotifies, GuardLocked, Only, vars
    <3>2. /\ runner \in Runners /\ memory = Effect(runner.for)
          /\ master.at = Around(runner.for)
      BY <1>1, <3>1 DEF MainInv
    <3>3. /\ [runner EXCEPT !.is = "over"] \in Runners
          /\ [runner EXCEPT !.is = "over"].is = "over"
          /\ [runner EXCEPT !.is = "over"].for = runner.for
      BY <3>2, RunnerGoes
    <3>4. runner' \in Runners /\ runner'.is = "over" /\ runner'.for = runner.for
      BY <3>1, <3>3
    <3>5. main' = "woken" /\ UNCHANGED <<memory, loaded, master>>
      BY <3>1 DEF InBoundedRun, BoundedRunPlaces
    <3>6. MainTypeOK'
      BY <1>1, <3>4, <3>5 DEF MainTypeOK, BoundedRunPlaces
    <3>7. MainInv'
      BY <1>1, <3>1, <3>2, <3>4, <3>5 DEF MainInv, Exits, InBoundedRun, BoundedRunPlaces
    <3> QED
      BY <3>6, <3>7
  <2> QED
    BY <1>10, <2>2, <2>3 DEF RunnerStep
<1>11. CASE BoundedOverrun
  <2>1. /\ main \in {"asleep", "woken"}
        /\ main' = IF runner.for = "tm_create" THEN "unload" ELSE "terminate"
        /\ UNCHANGED <<runner, memory, loaded, master>>
    BY <1>11 DEF BoundedOverrun, Only, vars
  <2>2. master.at = Around(runner.for)
    BY <1>1, <2>1 DEF MainInv, InBoundedRun, BoundedRunPlaces
  <2> QED
    BY <1>1, <2>1, <2>2 DEF MainInv, MainTypeOK, Around, Exits, InBoundedRun, BoundedRunPlaces
<1>12. CASE RunnerAstray
  <2>1. /\ main = "unload" /\ runner.is \in {"running", "notifying"}
        /\ \/ runner' = [runner EXCEPT !.is = "over"] /\ main' = main
           \/ main' \in {"terminate", "crash"} /\ runner' = runner
        /\ UNCHANGED <<memory, loaded, master>>
    BY <1>12 DEF RunnerAstray, Only, vars
  <2>2. runner \in Runners
    BY <1>1, <2>1, NoRunnerIs DEF MainTypeOK
  <2>3. [runner EXCEPT !.is = "over"] \in Runners
    BY <2>2, RunnerGoes
  <2>4. master.at = "notify"
    BY <1>1, <2>1 DEF MainInv
  <2>5. runner' \in Runners /\ main' \in {"unload", "terminate", "crash"}
    BY <2>1, <2>2, <2>3
  <2>6. MainTypeOK'
    BY <1>1, <2>1, <2>5 DEF MainTypeOK, Exits
  <2>7. MainInv'
    BY <1>1, <2>1, <2>4, <2>5 DEF MainInv, Exits, InBoundedRun, BoundedRunPlaces
  <2> QED
    BY <2>6, <2>7
<1>13. ASSUME NEW w \in Workers, GraderWorkerStep(w) PROVE MainTypeOK' /\ MainInv'
  BY <1>1, <1>13, WorkerLeavesMaster, MainUnchanged DEF GraderWorkerStep
<1>14. QED
  BY <1>2, <1>3, <1>4, <1>5, <1>6, <1>7, <1>8, <1>9, <1>10, <1>11, <1>12, <1>13
     DEF GraderNext, MainStep

LEMMA BarrierMoves ==
    ASSUME GraderNext PROVE [BarrierNext]_barrierVars
<1>1. CASE UNCHANGED vars
  BY <1>1 DEF vars
<1>2. CASE MasterStep \/ MasterOvertime
  BY <1>2 DEF MasterStep, MasterNotify, MasterWait, MasterJudge, MasterJoin, MasterReturn,
              MasterOvertime
<1>3. ASSUME NEW w \in Workers, WorkerStep(w) PROVE BarrierNext \/ UNCHANGED barrierVars
  <2>1. CASE SeeWait(w) \/ SeeQuit(w) \/ CountReady(w) \/ ResetReady(w) \/ StartRun(w) \/ SeeRun(w)
             \/ SetErrmsg(w) \/ SetAbort(w) \/ ResetDone(w) \/ Settle(w) \/ SetStatus(w)
    BY <2>1 DEF SeeWait, SeeQuit, CountReady, ResetReady, StartRun, SeeRun, SetErrmsg, SetAbort,
                ResetDone, Settle, SetStatus, Keeping
  <2>2. CASE Finish(w) \/ Throw(w) \/ CountDone(w) \/ Raise(w)
    BY <2>2 DEF Finish, Throw, CountDone, Raise
  <2>3. CASE CheckSync(w)
    BY <2>3 DEF CheckSync, BarrierNext
  <2> QED
    BY <1>3, <2>1, <2>2, <2>3 DEF WorkerStep
<1>4. QED
  BY <1>1, <1>2, <1>3, GradingMoves DEF GradingNext

LEMMA GraderStart == GraderInit => GraderInv
<1> SUFFICES ASSUME GraderInit PROVE GraderInv
  OBVIOUS
<1>1. SyncInv /\ BarrierInv
  BY SyncStart, BarrierStart DEF GraderInit, GradingInit
<1>2. master.at = "notify"
  BY DEF GraderInit, GradingInit
<1>3. MainTypeOK /\ MainInv
  BY <1>2 DEF GraderInit, MainTypeOK, MainInv, Exits, InBoundedRun, BoundedRunPlaces
<1>4. QED
  BY <1>1, <1>3 DEF GraderInv

LEMMA GraderKeeps == GraderInv /\ [GraderNext]_graderVars => GraderInv'
<1>1. ASSUME GraderInv, GraderNext PROVE GraderInv'
  <2>1. SyncInv'
    BY <1>1, GradingMoves, SyncKept, SyncUnchanged DEF GraderInv, vars
  <2>2. BarrierInv'
    BY <1>1, BarrierMoves, BarrierStep DEF GraderInv
  <2>3. MainTypeOK' /\ MainInv'
    BY <1>1, MainKeeps
  <2> QED
    BY <2>1, <2>2, <2>3 DEF GraderInv
<1>2. ASSUME GraderInv, UNCHANGED graderVars PROVE GraderInv'
  <2>1. UNCHANGED <<vars, mainVars>>
    BY <1>2 DEF graderVars
  <2>2. UNCHANGED <<barrierVars, syncVars, workerVars, master, mainVars>>
    BY <2>1 DEF vars
  <2>3. SyncInv'
    BY <1>2, <2>2, SyncUnchanged DEF GraderInv
  <2>4. BarrierInv'
    BY <1>2, <2>2, BarrierStep DEF GraderInv
  <2>5. MainTypeOK' /\ MainInv'
    BY <1>2, <2>2, MainUnchanged DEF GraderInv
  <2> QED
    BY <2>3, <2>4, <2>5 DEF GraderInv
<1>3. QED
  BY <1>1, <1>2
----------------------------------------------------------------------------
(* The theorems.                                                           *)

(* The inductive invariant of the grader.                                  *)
THEOREM GraderInvariance == GraderSpec => []GraderInv
  BY GraderStart, GraderKeeps, PTL DEF GraderSpec

(* Barrier::sync of common.hpp: no worker of the grader completes a call   *)
(* of it before all others have made theirs of the same round, for any     *)
(* number of workers (RoundsInLockstep).                                   *)
THEOREM RoundsKept == GraderSpec => []RoundsInLockstep
<1>1. GraderInv => RoundsInLockstep
  BY BarrierSafe DEF GraderInv
<1>2. QED
  BY <1>1, GraderInvariance, PTL

(* Sync of grading.cpp: a worker runs a phase only while the master waits  *)
(* for it and all workers are in it (PhasesInLockstep), for any number of  *)
(* workers and timed runs.                                                 *)
THEOREM PhasesKept == GraderSpec => []PhasesInLockstep
<1>1. GraderInv => PhasesInLockstep
  BY PhasesSafe DEF GraderInv
<1>2. QED
  BY <1>1, GraderInvariance, PTL

(* Sync::worker_notify raises the latch when all is settled and no worker  *)
(* is on its way (LatchMeansDone).                                         *)
THEOREM LatchKept == GraderSpec => []LatchMeansDone
<1>1. GraderInv => LatchMeansDone
  BY LatchSafe DEF GraderInv
<1>2. QED
  BY <1>1, GraderInvariance, PTL

(* measure returns an error exactly when a worker reported one             *)
(* (NoErrorLost).                                                          *)
THEOREM ErrorsKept == GraderSpec => []NoErrorLost
<1>1. GraderInv => NoErrorLost
  BY ErrorsSafe DEF GraderInv
<1>2. QED
  BY <1>1, GraderInvariance, PTL

(* Type correctness, with this in it: the counters of Sync and Barrier     *)
(* never exceed the number of workers, no worker enters a phase after the  *)
(* last, and the master never meets a status that it takes for             *)
(* Exception::Unreachable.                                                 *)
THEOREM GraderTypes == GraderSpec => []GraderTypeOK
<1>1. GraderInv => GraderTypeOK
  BY DEF GraderInv, SyncInv, SyncTypeOK, BarrierInv, MainTypeOK, GraderTypeOK, GradingTypeOK,
         Masters, MasterPlaces, WorkerPlaces, Runners
<1>2. QED
  BY <1>1, GraderInvariance, PTL

(* main of grading.cpp: workers run the workload on a memory that exists   *)
(* and in a library that is loaded (MemoryOutlivesWorkers).                *)
THEOREM WorkersHaveMemory == GraderSpec => []MemoryOutlivesWorkers
<1>1. ASSUME GraderInv, ~Exited, NEW w \in Workers, at[w] = "work"
      PROVE  memory = "created" /\ loaded
  <2>1. master.at \in {"wait", "overrun"}
    BY <1>1, StageOf DEF GraderInv, Watching
  <2>2. main = "measure"
    <3>1. main \notin {"create", "unload"}
      BY <1>1, <2>1 DEF GraderInv, MainInv
    <3>2. ~InBoundedRun
      BY <1>1, <2>1 DEF GraderInv, MainInv, Around
    <3> QED
      BY <1>1, <3>1, <3>2 DEF GraderInv, MainTypeOK, Exited, InBoundedRun
  <2> QED
    BY <1>1, <2>2 DEF GraderInv, MainInv, MainTypeOK, Exits
<1>2. GraderInv => MemoryOutlivesWorkers
  BY <1>1 DEF MemoryOutlivesWorkers
<1>3. QED
  BY <1>2, GraderInvariance, PTL

(* bounded_run of common.hpp: the notification never comes before the main *)
(* thread waits for it, whether or not wait_for may return without one     *)
(* (RunnerIsHeard).                                                        *)
THEOREM RunnerHeard == GraderSpec => []RunnerIsHeard
<1>1. GraderInv => RunnerIsHeard
  BY DEF GraderInv, MainInv, RunnerIsHeard, InBoundedRun, BoundedRunPlaces
<1>2. QED
  BY <1>1, GraderInvariance, PTL

(* What the grader's exit code says: with 0, every phase of every worker   *)
(* went well, and the memory was destroyed in time (the safety half of     *)
(* GraderExits).                                                           *)
THEOREM ExitsHonestly ==
    GraderSpec => [](main = "exit 0" => reported = {} /\ memory = "destroyed")
<1>1. ASSUME GraderInv, main = "exit 0" PROVE reported = {} /\ memory = "destroyed"
  <2>1. memory = "destroyed" /\ master.at = "returned" /\ master.error = FALSE
    BY <1>1 DEF GraderInv, MainInv
  <2>2. NoErrorLost
    BY <1>1, ErrorsSafe DEF GraderInv
  <2> QED
    BY <2>1, <2>2 DEF NoErrorLost
<1>2. GraderInv => (main = "exit 0" => reported = {} /\ memory = "destroyed")
  BY <1>1
<1>3. QED
  BY <1>2, GraderInvariance, PTL
=============================================================================
