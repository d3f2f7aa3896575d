----------------------------- MODULE EpochGate -----------------------------
(***************************************************************************)
(* What a batcher promises (project description, section 1.3.2): threads   *)
(* run in groups, the epochs.  A thread that arrives while a group runs    *)
(* joins the next group, which starts as a whole when the last member of   *)
(* the running group is done.  No counters, no lock, no ids.               *)
(***************************************************************************)
CONSTANT Threads

VARIABLES active,   \* members of the running epoch that are not done
          queued    \* threads that wait for the next epoch

gateVars == <<active, queued>>

GateInit == active = {} /\ queued = {}

Start(t) ==
    /\ active = {}
    /\ active' = {t}
    /\ UNCHANGED queued

Queue(t) ==
    /\ active # {}
    /\ t \notin active \cup queued
    /\ queued' = queued \cup {t}
    /\ UNCHANGED active

Finish(t) ==
    /\ t \in active
    /\ active # {t}
    /\ active' = active \ {t}
    /\ UNCHANGED queued

\* the last member ends the epoch and lets the next group in
EndEpoch(t) ==
    /\ active = {t}
    /\ active' = queued
    /\ queued' = {}

GateNext == \E t \in Threads : Start(t) \/ Queue(t) \/ Finish(t) \/ EndEpoch(t)

GateSpec == GateInit /\ [][GateNext]_gateVars
=============================================================================
