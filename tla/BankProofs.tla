----------------------------- MODULE BankProofs -----------------------------
(***************************************************************************)
(* Proofs about the bank workload on either memory, for any finite set of  *)
(* workers, any settings and any number of segments.                       *)
(***************************************************************************)
EXTENDS Bank, SequenceTheorems, FiniteSetTheorems, TLAPS

Places == {"start", "sync", "done"}

\* a queue of calls, whatever the addresses and values in them
Queue(q) == q \in Seq({q[i] : i \in DOMAIN q})

(* What the place of a worker of a setting s says of its queue of calls,   *)
(* of the rounds it has committed and of how often it passed the barrier.  *)
Fits(s, place, q, rounds, barrier) ==
    /\ place \in Transactions \cup Places
    /\ place \in Transactions => Queue(q) /\ Len(q) \in 1 .. s.nbaccounts + 3
    /\ place \in Places => q = <<>>
    /\ rounds \in 0 .. s.nbtxperwrk /\ barrier \in 0 .. 3
    /\ place \in {"long", "alloc", "short", "last", "dec"} => rounds < s.nbtxperwrk
    /\ place = "start" => rounds = 0 /\ barrier = 0
    /\ place = "sync" => barrier < 3 /\ (barrier < 2 => rounds = 0)
    /\ place \in {"set", "verify"} => barrier = 1 /\ rounds = 0
    /\ place \in {"last", "dec"} => barrier = 2

WorkersFit == \A w \in Workers : Fits(setting, doing[w], todo[w], cntr[w], passed[w])

Shapes ==
    /\ setting \in Settings
    /\ doing \in [Workers -> Transactions \cup Places]
    /\ DOMAIN todo = Workers /\ DOMAIN cntr = Workers /\ DOMAIN passed = Workers

(* The lock-based memory's lock and segments.                              *)
LockFits ==
    /\ writer \in Workers \cup {NoWriter} /\ readers \subseteq Workers
    /\ writer # NoWriter => readers = {}
    /\ DOMAIN content \subseteq 1 .. MaxSegments

(* Whoever is in the batcher or in an operation of the dual-versioned      *)
(* memory is in a transaction; on the lock-based memory nobody is.         *)
InTransactions ==
    /\ DOMAIN pc = Workers /\ DOMAIN op = Workers
    /\ \A w \in Workers :
           pc[w] # "outside" \/ op[w] # NotRunning => OnDual /\ doing[w] \in Transactions

(* BankTypeOK is not inductive: that the barrier is passed three times at  *)
(* most, and that no more rounds are committed than were asked for, follow *)
(* from the order in which a worker goes through its transactions, which   *)
(* Fits keeps; that a queue is empty only between transactions, from the   *)
(* retries that refill it being those of transactions (InTransactions).    *)
BankInv == Shapes /\ WorkersFit /\ LockFits /\ InTransactions
----------------------------------------------------------------------------
(* The queues a body makes of a few calls are queues.                      *)
LEMMA QueueOf ==
    ASSUME NEW S, NEW q \in Seq(S)
    PROVE  Queue(q)
  <1>1. q \in [1 .. Len(q) -> {q[i] : i \in DOMAIN q}] /\ Len(q) \in Nat
    OBVIOUS
  <1> QED
    BY <1>1 DEF Queue

LEMMA QueuesOfCalls ==
    /\ \A a : Queue(<<a>>) /\ Len(<<a>>) = 1
    /\ \A a, b : Queue(<<a, b>>) /\ Len(<<a, b>>) = 2
    /\ \A a, b, c : Queue(<<a, b, c>>) /\ Len(<<a, b, c>>) = 3
    /\ \A a, b, c, d : Queue(<<a, b, c, d>>) /\ Len(<<a, b, c, d>>) = 4
  <1>1. ASSUME NEW a PROVE Queue(<<a>>) /\ Len(<<a>>) = 1
    <2>1. <<a>> \in Seq({a})
      OBVIOUS
    <2> QED
      BY <2>1, QueueOf
  <1>2. ASSUME NEW a, NEW b PROVE Queue(<<a, b>>) /\ Len(<<a, b>>) = 2
    <2>1. <<a, b>> \in Seq({a, b})
      OBVIOUS
    <2> QED
      BY <2>1, QueueOf
  <1>3. ASSUME NEW a, NEW b, NEW c PROVE Queue(<<a, b, c>>) /\ Len(<<a, b, c>>) = 3
    <2>1. <<a, b, c>> \in Seq({a, b, c})
      OBVIOUS
    <2> QED
      BY <2>1, QueueOf
  <1>4. ASSUME NEW a, NEW b, NEW c, NEW d
        PROVE  Queue(<<a, b, c, d>>) /\ Len(<<a, b, c, d>>) = 4
    <2>1. <<a, b, c, d>> \in Seq({a, b, c, d})
      OBVIOUS
    <2> QED
      BY <2>1, QueueOf
  <1> QED
    BY <1>1, <1>2, <1>3, <1>4

LEMMA FourCallsFit ==
    ASSUME Shapes, NEW n \in 1 .. 4
    PROVE  n \in 1 .. setting.nbaccounts + 3
  BY SettingsAssumption DEF Shapes, SettingOK

(* What is left of a queue when its first call has returned.               *)
LEMMA QueueGoesOn ==
    ASSUME NEW q, Queue(q), Len(q) > 1
    PROVE  Queue(Tail(q)) /\ Len(Tail(q)) = Len(q) - 1 /\ Len(q) \in Nat
  <1> DEFINE S == {q[i] : i \in DOMAIN q}
  <1>1. q \in Seq(S)
    BY DEF Queue
  <1> HIDE DEF S
  <1>2. Tail(q) \in Seq(S) /\ Len(Tail(q)) = Len(q) - 1 /\ Len(q) \in Nat
    BY <1>1
  <1> QED
    BY <1>2, QueueOf

LEMMA SettingIs ==
    ASSUME Shapes
    PROVE  /\ setting.nbaccounts \in Nat \ {0} /\ setting.nbtxperwrk \in Nat \ {0}
           /\ setting.library \in {"reference", "dual-versioned"}
  BY SettingsAssumption DEF Shapes, SettingOK

(* The type invariant follows.                                             *)
LEMMA FitsTypes == BankInv => BankTypeOK
  <1> SUFFICES ASSUME BankInv PROVE BankTypeOK
    OBVIOUS
  <1>1. ASSUME NEW w \in Workers
        PROVE  /\ Len(todo[w]) <= setting.nbaccounts + 3
               /\ todo[w] = <<>> <=> doing[w] \in Places
    <2>1. Fits(setting, doing[w], todo[w], cntr[w], passed[w])
      BY DEF BankInv, WorkersFit
    <2>2. setting.nbaccounts \in Nat
      BY SettingIs DEF BankInv
    <2>3. CASE doing[w] \in Transactions
      <3>1. Len(todo[w]) \in 1 .. setting.nbaccounts + 3
        BY <2>1, <2>3 DEF Fits
      <3>2. todo[w] # <<>>
        <4>1. Len(<<>>) = 0
          OBVIOUS
        <4> QED
          BY <3>1, <4>1, <2>2
      <3>3. doing[w] \notin Places
        BY <2>3 DEF Transactions, Places
      <3> QED
        BY <3>1, <3>2, <3>3, <2>2
    <2>4. CASE doing[w] \in Places
      <3>1. todo[w] = <<>>
        BY <2>1, <2>4 DEF Fits
      <3> QED
        BY <2>2, <2>4, <3>1
    <2> QED
      BY <2>1, <2>3, <2>4 DEF Fits
  <1>2. \A w \in Workers : cntr[w] \in 0 .. setting.nbtxperwrk /\ passed[w] \in 0 .. 3
    BY DEF BankInv, WorkersFit, Fits
  <1> QED
    BY <1>1, <1>2 DEF BankInv, Shapes, LockFits, BankTypeOK, Places

LEMMA InitFits == Init => BankInv
  <1> SUFFICES ASSUME Init PROVE BankInv
    OBVIOUS
  <1>1. Shapes
    BY DEF Init, BankInit, Shapes, Places
  <1>2. WorkersFit
    <2>1. ASSUME NEW w \in Workers
          PROVE  /\ doing[w] \in {"start", "done"} /\ todo[w] = <<>>
                 /\ cntr[w] = 0 /\ passed[w] = 0
      BY DEF Init, BankInit
    <2> QED
      BY <2>1, <1>1, SettingIs DEF WorkersFit, Fits, Places, Transactions
  <1>3. LockFits
    <2>1. DOMAIN content = {1}
      BY DEF Init, ReferenceInit, Region
    <2> QED
      BY <2>1, MaxSegmentsAssumption DEF Init, ReferenceInit, LockFits
  <1>4. InTransactions
    BY SameThreadsAssumption DEF Init, DualInit, BatcherInit, InTransactions
  <1> QED
    BY <1>1, <1>2, <1>3, <1>4 DEF BankInv
----------------------------------------------------------------------------
(* A worker w moves to another place or goes on with another queue.        *)
LEMMA Moves ==
    ASSUME Shapes, WorkersFit, NEW w \in Workers, NEW place, NEW q,
           doing' = [doing EXCEPT ![w] = place] \/ (doing' = doing /\ place = doing[w]),
           todo' = [todo EXCEPT ![w] = q],
           cntr' = cntr \/ (\E c : cntr' = [cntr EXCEPT ![w] = c]),
           passed' = passed \/ (\E p : passed' = [passed EXCEPT ![w] = p]),
           setting' = setting,
           Fits(setting, place, q, cntr'[w], passed'[w])
    PROVE  Shapes' /\ WorkersFit'
  <1>1. place \in Transactions \cup Places
    BY DEF Fits
  <1>2. Shapes'
    BY <1>1 DEF Shapes
  <1>3. \A u \in Workers \ {w} : /\ doing'[u] = doing[u] /\ todo'[u] = todo[u]
                                 /\ cntr'[u] = cntr[u] /\ passed'[u] = passed[u]
    BY DEF Shapes
  <1>4. doing'[w] = place /\ todo'[w] = q
    BY DEF Shapes
  <1>5. ASSUME NEW u \in Workers
        PROVE  Fits(setting', doing'[u], todo'[u], cntr'[u], passed'[u])
    <2>1. CASE u = w
      BY <1>4, <2>1
    <2>2. CASE u # w
      <3>1. Fits(setting, doing[u], todo[u], cntr[u], passed[u])
        BY DEF WorkersFit
      <3> QED
        BY <1>3, <2>2, <3>1
    <2> QED
      BY <2>1, <2>2
  <1> QED
    BY <1>2, <1>5 DEF WorkersFit

(* A body goes on with some calls.                                         *)
LEMMA GoesFits ==
    ASSUME Shapes, WorkersFit, NEW w \in Workers, NEW m, NEW q, Goes(w, m, q),
           doing[w] \in Transactions, Queue(q), Len(q) \in 1 .. setting.nbaccounts + 3
    PROVE  Shapes' /\ WorkersFit' /\ doing' = doing
  <1>1. /\ todo' = [todo EXCEPT ![w] = q] /\ doing' = doing
        /\ cntr' = cntr /\ passed' = passed /\ setting' = setting
    BY DEF Goes
  <1>2. doing[w] \notin Places
    BY DEF Transactions, Places
  <1>3. Fits(setting, doing[w], q, cntr[w], passed[w])
    BY <1>2 DEF WorkersFit, Fits
  <1>4. Fits(setting, doing[w], q, cntr'[w], passed'[w])
    BY <1>1, <1>3
  <1> QED
    BY <1>1, <1>4, Moves

(* A transaction begins, or begins again.                                  *)
LEMMA BeginQueue ==
    ASSUME Shapes
    PROVE  Queue(<<Begin>>) /\ Len(<<Begin>>) \in 1 .. setting.nbaccounts + 3
  BY QueuesOfCalls, SettingIs

LEMMA RetryFits ==
    ASSUME Shapes, WorkersFit, NEW w \in Workers, Retry(w), doing[w] \in Transactions
    PROVE  Shapes' /\ WorkersFit' /\ doing' = doing
  <1>1. Goes(w, Locals, <<Begin>>)
    BY DEF Retry, Goes
  <1> QED
    BY <1>1, BeginQueue, GoesFits

LEMMA RunFits ==
    ASSUME Shapes, WorkersFit, NEW w \in Workers, NEW t \in Transactions, NEW a, Run(w, t, a),
           cntr' = cntr \/ (\E c : cntr' = [cntr EXCEPT ![w] = c]),
           passed' = passed \/ (\E p : passed' = [passed EXCEPT ![w] = p]),
           setting' = setting,
           cntr'[w] \in 0 .. setting.nbtxperwrk, passed'[w] \in 0 .. 3,
           t \in {"long", "alloc", "short", "last", "dec"} => cntr'[w] < setting.nbtxperwrk,
           t \in {"set", "verify"} => passed'[w] = 1 /\ cntr'[w] = 0,
           t \in {"last", "dec"} => passed'[w] = 2
    PROVE  Shapes' /\ WorkersFit'
  <1>1. doing' = [doing EXCEPT ![w] = t] /\ todo' = [todo EXCEPT ![w] = <<Begin>>]
    BY DEF Run
  <1>2. t \notin Places
    BY DEF Transactions, Places
  <1>3. Fits(setting, t, <<Begin>>, cntr'[w], passed'[w])
    BY <1>2, BeginQueue DEF Fits, Places
  <1> QED
    BY <1>1, <1>3, Moves

(* A worker is between two transactions, or done.                          *)
LEMMA LeavesFits ==
    ASSUME Shapes, WorkersFit, NEW w \in Workers, NEW place \in {"sync", "done"},
           Leaves(w, place),
           cntr' = cntr \/ (\E c : cntr' = [cntr EXCEPT ![w] = c]),
           passed' = passed \/ (\E p : passed' = [passed EXCEPT ![w] = p]),
           setting' = setting,
           cntr'[w] \in 0 .. setting.nbtxperwrk, passed'[w] \in 0 .. 3,
           place = "sync" => passed'[w] < 3 /\ (passed'[w] < 2 => cntr'[w] = 0)
    PROVE  Shapes' /\ WorkersFit'
  <1>1. doing' = [doing EXCEPT ![w] = place] /\ todo' = [todo EXCEPT ![w] = <<>>]
    BY DEF Leaves
  <1>2. place \in Places /\ place \notin Transactions
    BY DEF Transactions, Places
  <1>3. Fits(setting, place, <<>>, cntr'[w], passed'[w])
    BY <1>2 DEF Fits
  <1> QED
    BY <1>1, <1>3, Moves
----------------------------------------------------------------------------
(* The bodies queue four calls at most, or one for each account.           *)
LEMMA EnterFits ==
    ASSUME Shapes, WorkersFit, NEW w \in Workers, Enter(w), doing[w] \in Transactions
    PROVE  Shapes' /\ WorkersFit' /\ doing' = doing
  <1>1. setting.nbaccounts \in Nat \ {0}
    BY SettingIs
  <1>2. Queue(InitCalls) /\ Len(InitCalls) \in 1 .. setting.nbaccounts + 3
    <2> DEFINE n == setting.nbaccounts
               one == <<Write(Start, COUNT, setting.nbaccounts)>>
               each == [i \in 1 .. n |-> Write(Start, Account(i - 1), setting.init_balance)]
               last == <<End(TRUE)>>
               S == {one[1], last[1]} \cup {each[i] : i \in 1 .. n}
    <2>1. one \in Seq(S) /\ Len(one) = 1 /\ last \in Seq(S) /\ Len(last) = 1
      OBVIOUS
    <2>2. each \in [1 .. n -> S] /\ n \in Nat
      BY <1>1
    <2>3. InitCalls = (one \o each) \o last
      BY DEF InitCalls
    <2> HIDE DEF one, each, last, S, n
    <2>4. each \in Seq(S) /\ Len(each) = n
      BY <2>2
    <2>5. one \o each \in Seq(S) /\ Len(one \o each) = 1 + n
      <3>1. one \in Seq(S) /\ each \in Seq(S) /\ Len(one) = 1 /\ Len(each) = n
        BY <2>1, <2>4
      <3>2. one \o each \in Seq(S) /\ Len(one \o each) = Len(one) + Len(each)
        BY ONLY <3>1, ConcatProperties
      <3> QED
        BY <3>1, <3>2
    <2>6. InitCalls \in Seq(S) /\ Len(InitCalls) = 1 + n + 1
      BY <2>1, <2>2, <2>3, <2>5, ConcatProperties
    <2> QED
      BY <2>2, <2>6, QueueOf DEF n
  <1>3. PICK q : /\ Goes(w, Locals, q)
                 /\ \/ q = InitCalls
                    \/ \E a : q = <<a>>
                    \/ \E a, b : q = <<a, b>>
    BY DEF Enter
  <1>4. Queue(q) /\ Len(q) \in 1 .. setting.nbaccounts + 3
    <2>1. CASE q = InitCalls
      BY <1>2, <2>1
    <2>2. CASE Queue(q) /\ Len(q) \in 1 .. 4
      BY <2>2, FourCallsFit
    <2>3. q = InitCalls \/ (Queue(q) /\ Len(q) \in 1 .. 4)
      BY <1>3, QueuesOfCalls
    <2> QED
      BY <2>1, <2>2, <2>3
  <1> QED
    BY <1>3, <1>4, GoesFits

(* What a body makes of the value its last call returned.                  *)
LEMMA BodyGoes ==
    ASSUME NEW w \in Workers, NEW v,
           long_tx(w, v) \/ alloc_tx(w, v) \/ short_tx(w, v) \/ one_read(w, v)
    PROVE  /\ doing[w] \in Transactions
           /\ \E m, q : /\ Goes(w, m, q)
                        /\ Queue(q) /\ Len(q) \in 1 .. 4
  <1> DEFINE Few(q) == \/ \E a : q = <<a>>
                       \/ \E a, b : q = <<a, b>>
                       \/ \E a, b, c : q = <<a, b, c>>
                       \/ \E a, b, c, d : q = <<a, b, c, d>>
             GoesOn == \E m, q : Goes(w, m, q) /\ Few(q)
  <1>0. ASSUME NEW q, Few(q) PROVE Queue(q) /\ Len(q) \in 1 .. 4
    BY <1>0, QueuesOfCalls
  <1>1. CASE long_tx(w, v)
    <2>1. doing[w] \in Transactions
      BY <1>1 DEF long_tx, Transactions
    <2>2. GoesOn
      BY <1>1 DEF long_tx
    <2> QED
      BY <1>0, <2>1, <2>2
  <1>2. CASE alloc_tx(w, v)
    <2>1. doing[w] \in Transactions
      BY <1>2 DEF alloc_tx, Transactions
    <2>2. RemoveAccount(w, v) => GoesOn
      BY DEF RemoveAccount
    <2>3. UnlinkSegment(w, v) => GoesOn
      BY DEF UnlinkSegment
    <2>4. AddAccount(w) => GoesOn
      BY DEF AddAccount
    <2>5. LinkSegment(w, v) => GoesOn
      BY DEF LinkSegment
    <2>6. GoesOn
      BY <1>2, <2>2, <2>3, <2>4, <2>5 DEF alloc_tx
    <2> QED
      BY <1>0, <2>1, <2>6
  <1>3. CASE short_tx(w, v)
    <2>1. doing[w] \in Transactions
      BY <1>3 DEF short_tx, Transactions
    <2>2. GoesOn
      BY <1>3 DEF short_tx
    <2> QED
      BY <1>0, <2>1, <2>2
  <1>4. CASE one_read(w, v)
    <2>1. doing[w] \in Transactions
      BY <1>4 DEF one_read, Transactions
    <2>2. GoesOn
      BY <1>4 DEF one_read
    <2> QED
      BY <1>0, <2>1, <2>2
  <1> QED
    BY <1>1, <1>2, <1>3, <1>4

LEMMA ReturnedFits ==
    ASSUME Shapes, WorkersFit, NEW w \in Workers, NEW v, Returned(w, v)
    PROVE  Shapes' /\ WorkersFit' /\ doing' = doing /\ doing[w] \in Transactions
  <1>a. setting.nbaccounts \in Nat \ {0}
    BY SettingIs
  <1>1. CASE Len(todo[w]) > 1
    <2>1. doing[w] \in Transactions
      <3>1. todo[w] # <<>>
        <4>1. Len(<<>>) = 0
          OBVIOUS
        <4> QED
          BY <1>1, <4>1
      <3> QED
        BY <3>1 DEF WorkersFit, Fits
    <2>2. Queue(todo[w]) /\ Len(todo[w]) \in 1 .. setting.nbaccounts + 3
      BY <2>1 DEF WorkersFit, Fits
    <2>3. /\ Queue(Tail(todo[w]))
          /\ Len(Tail(todo[w])) \in 1 .. setting.nbaccounts + 3
      BY <1>a, <1>1, <2>2, QueueGoesOn
    <2>4. Goes(w, my[w], Tail(todo[w]))
      BY <1>1 DEF Returned
    <2> QED
      BY <2>1, <2>3, <2>4, GoesFits
  <1>2. CASE ~(Len(todo[w]) > 1)
    <2>1. /\ doing[w] \in Transactions
          /\ \E m, q : Goes(w, m, q) /\ Queue(q) /\ Len(q) \in 1 .. 4
      <3>1. long_tx(w, v) \/ alloc_tx(w, v) \/ short_tx(w, v) \/ one_read(w, v)
        BY <1>2 DEF Returned
      <3> QED
        BY <3>1, BodyGoes
    <2>2. PICK m, q : Goes(w, m, q) /\ Queue(q) /\ Len(q) \in 1 .. 4
      BY <2>1
    <2>3. Len(q) \in 1 .. setting.nbaccounts + 3
      BY <2>2, FourCallsFit
    <2> QED
      BY <2>1, <2>2, <2>3, GoesFits
  <1> QED
    BY <1>1, <1>2

LEMMA UnwoundFits ==
    ASSUME Shapes, WorkersFit, NEW w \in Workers, Unwound(w), doing[w] \in Transactions
    PROVE  Shapes' /\ WorkersFit' /\ doing' = doing
  <1>1. Goes(w, my[w], <<EndThrowing>>)
    BY DEF Unwound
  <1>2. Queue(<<EndThrowing>>) /\ Len(<<EndThrowing>>) \in 1 .. setting.nbaccounts + 3
    BY QueuesOfCalls, SettingIs
  <1> QED
    BY <1>1, <1>2, GoesFits
----------------------------------------------------------------------------
(* The phases lead a worker from one transaction to the next.              *)
LEMMA DrawIs ==
    ASSUME NEW w \in Workers, NEW n, Draw(w, n)
    PROVE  \E t \in {"long", "alloc", "short"} : \E a : Run(w, t, a)
  BY DEF Draw

LEMMA NextDrawFits ==
    ASSUME Shapes, WorkersFit, NEW w \in Workers, NextDraw(w), passed' = passed,
           setting' = setting, doing[w] \in {"long", "alloc", "short"}
    PROVE  Shapes' /\ WorkersFit'
  <1> DEFINE n == setting.nbtxperwrk
  <1>a. n \in Nat \ {0} /\ cntr[w] \in 0 .. n /\ cntr[w] < n /\ passed[w] \in 0 .. 3
    BY SettingIs DEF WorkersFit, Fits
  <1>b. /\ cntr' = [cntr EXCEPT ![w] = cntr[w] + 1] /\ cntr'[w] = cntr[w] + 1
        /\ passed'[w] = passed[w]
    BY DEF NextDraw, Shapes
  <1>1. CASE cntr'[w] = n
    <2>1. Run(w, "final", NoArg)
      BY <1>1 DEF NextDraw
    <2>2. "final" \in Transactions
      BY DEF Transactions
    <2>3. "final" \notin {"long", "alloc", "short", "last", "dec", "set", "verify"}
      OBVIOUS
    <2>4. cntr'[w] \in 0 .. n /\ passed'[w] \in 0 .. 3
      BY <1>a, <1>b
    <2> HIDE DEF n
    <2> QED
      BY <1>b, <2>1, <2>2, <2>3, <2>4, RunFits DEF n
  <1>2. CASE cntr'[w] # n
    <2>1. PICK t \in {"long", "alloc", "short"} : \E a : Run(w, t, a)
      BY <1>2, DrawIs DEF NextDraw
    <2>2. t \in Transactions /\ t \notin {"last", "dec", "set", "verify"}
      BY DEF Transactions
    <2>4. cntr'[w] \in 0 .. n /\ passed'[w] \in 0 .. 3 /\ cntr'[w] < n
      BY <1>a, <1>b, <1>2
    <2> QED
      BY <1>b, <2>1, <2>2, <2>4, RunFits
  <1> QED
    BY <1>1, <1>2

LEMMA PhaseRunFits ==
    ASSUME Shapes, WorkersFit, NEW w \in Workers, NEW ret, run(w, ret), setting' = setting
    PROVE  Shapes' /\ WorkersFit'
  <1> DEFINE n == setting.nbtxperwrk
  <1>a. n \in Nat \ {0} /\ cntr[w] \in 0 .. n /\ passed[w] \in 0 .. 3
    BY SettingIs DEF WorkersFit, Fits
  <1>b. passed' = passed
    BY DEF run
  <1>1. CASE NextDraw(w) /\ doing[w] \in {"long", "alloc", "short"}
    BY <1>1, <1>b, NextDrawFits
  <1>2. CASE cntr' = cntr /\ doing[w] = "short" /\ \E a : Run(w, "short", a)
    <2>1. "short" \in Transactions
      BY DEF Transactions
    <2>2. cntr[w] < n
      BY <1>2 DEF WorkersFit, Fits
    <2> QED
      BY <1>a, <1>b, <1>2, <2>1, <2>2, RunFits
  <1>3. CASE cntr' = cntr /\ Leaves(w, "done")
    BY <1>a, <1>b, <1>3, LeavesFits
  <1> QED
    BY <1>1, <1>2, <1>3 DEF run

LEMMA PhaseInitFits ==
    ASSUME Shapes, WorkersFit, NEW w \in Workers, NEW ret, init(w, ret), setting' = setting
    PROVE  Shapes' /\ WorkersFit'
  <1>a. cntr[w] \in 0 .. setting.nbtxperwrk /\ passed[w] \in 0 .. 3
    BY DEF WorkersFit, Fits
  <1>b. passed' = passed /\ cntr' = cntr
    BY DEF init
  <1>1. CASE Run(w, "first", NoArg)
    <2>1. /\ "first" \in Transactions
          /\ "first" \notin {"long", "alloc", "short", "last", "dec", "set", "verify"}
      BY DEF Transactions
    <2> QED
      BY <1>a, <1>b, <1>1, <2>1, RunFits
  <1>2. CASE Leaves(w, "done")
    BY <1>a, <1>b, <1>2, LeavesFits
  <1> QED
    BY <1>1, <1>2 DEF init

LEMMA PhaseCheckFits ==
    ASSUME Shapes, WorkersFit, NEW w \in Workers, NEW ret, check(w, ret), setting' = setting
    PROVE  Shapes' /\ WorkersFit'
  <1> DEFINE n == setting.nbtxperwrk
  <1>a. n \in Nat \ {0} /\ Fits(setting, doing[w], todo[w], cntr[w], passed[w])
    BY SettingIs DEF WorkersFit
  <1>b. passed' = passed /\ cntr[w] \in 0 .. n /\ passed[w] \in 0 .. 3
    BY <1>a DEF check, Fits
  <1>c. \A t \in {"verify", "last", "dec", "zero"} : t \in Transactions
    BY DEF Transactions
  <1>1. CASE doing[w] = "set" /\ Run(w, "verify", NoArg) /\ cntr' = cntr
    <2>1. passed[w] = 1 /\ cntr[w] = 0
      BY <1>1, <1>a DEF Fits
    <2> QED
      BY <1>a, <1>b, <1>c, <1>1, <2>1, RunFits
  <1>2. CASE doing[w] = "verify" /\ Leaves(w, "sync") /\ cntr' = cntr
    <2>1. passed[w] = 1 /\ cntr[w] = 0
      BY <1>2, <1>a DEF Fits
    <2> QED
      BY <1>a, <1>b, <1>2, <2>1, LeavesFits
  <1>3. CASE doing[w] = "last" /\ Run(w, "dec", arg[w]) /\ cntr' = cntr
    <2>1. passed[w] = 2 /\ cntr[w] < n
      BY <1>3, <1>a DEF Fits
    <2> QED
      BY <1>a, <1>b, <1>c, <1>3, <2>1, RunFits
  <1>4. CASE /\ doing[w] = "dec" /\ cntr' = [cntr EXCEPT ![w] = @ + 1]
             /\ (cntr'[w] < n /\ Run(w, "last", NoArg)) \/ Leaves(w, "sync")
    <2>1. passed[w] = 2 /\ cntr[w] < n
      BY <1>4, <1>a DEF Fits
    <2>2. cntr'[w] = cntr[w] + 1 /\ cntr' = [cntr EXCEPT ![w] = cntr[w] + 1]
      BY <1>4 DEF Shapes
    <2>3. cntr'[w] \in 0 .. n /\ passed'[w] = 2
      BY <1>a, <1>b, <2>1, <2>2
    <2>4. CASE cntr'[w] < n /\ Run(w, "last", NoArg)
      BY <1>b, <1>c, <2>2, <2>3, <2>4, RunFits
    <2>5. CASE Leaves(w, "sync")
      <3>1. passed'[w] \in 0 .. 3 /\ passed'[w] < 3 /\ ~(passed'[w] < 2)
        BY <2>3
      <3>2. \E c : cntr' = [cntr EXCEPT ![w] = c]
        BY <2>2
      <3>3. setting' = setting /\ passed' = passed /\ cntr'[w] \in 0 .. n
        BY <1>b, <2>3
      <3> QED
        BY <3>1, <3>2, <3>3, <2>5, LeavesFits
    <2> QED
      BY <1>4, <2>4, <2>5
  <1>5. CASE Leaves(w, "done") /\ cntr' = cntr
    BY <1>a, <1>b, <1>5, LeavesFits
  <1> QED
    BY <1>1, <1>2, <1>3, <1>4, <1>5 DEF check

LEMMA EndedFits ==
    ASSUME Shapes, WorkersFit, NEW w \in Workers, Ended(w)
    PROVE  Shapes' /\ WorkersFit' /\ \A u \in Workers \ {w} : doing'[u] = doing[u]
  <1>1. CASE ~Pending(w).throws
    <2>1. \E ret : init(w, ret) \/ run(w, ret) \/ check(w, ret)
      BY <1>1 DEF Ended
    <2>2. setting' = setting
      BY DEF Ended
    <2>3. \A u \in Workers \ {w} : doing'[u] = doing[u]
      BY <2>1 DEF Shapes, init, run, check, NextDraw, Draw, Run, Leaves
    <2> QED
      BY <2>1, <2>2, <2>3, PhaseInitFits, PhaseRunFits, PhaseCheckFits
  <1>2. CASE Pending(w).throws
    <2>1. Leaves(w, "done") /\ cntr' = cntr /\ passed' = passed /\ setting' = setting
      BY <1>2 DEF Ended
    <2>2. cntr[w] \in 0 .. setting.nbtxperwrk /\ passed[w] \in 0 .. 3
      BY DEF WorkersFit, Fits
    <2>3. \A u \in Workers \ {w} : doing'[u] = doing[u]
      BY <2>1 DEF Shapes, Leaves
    <2> QED
      BY <2>1, <2>2, <2>3, LeavesFits
  <1> QED
    BY <1>1, <1>2

(* A worker's own steps: into the phase, and past the barrier of check.    *)
LEMMA AloneFits ==
    ASSUME Shapes, WorkersFit, NEW w \in Workers, Alone(w)
    PROVE  /\ Shapes' /\ WorkersFit'
           /\ doing[w] \notin Transactions
           /\ \A u \in Workers \ {w} : doing'[u] = doing[u]
  <1> DEFINE n == setting.nbtxperwrk
  <1>a. n \in Nat \ {0} /\ Fits(setting, doing[w], todo[w], cntr[w], passed[w])
    BY SettingIs DEF WorkersFit
  <1>b. setting' = setting /\ cntr' = cntr
    BY DEF Alone, StartPhase, Sync
  <1>c. \A t \in {"init", "long", "alloc", "short", "set", "last", "zero"} : t \in Transactions
    BY DEF Transactions
  <1>d. \A u \in Workers \ {w} : doing'[u] = doing[u]
    BY DEF Alone, StartPhase, Sync, Draw, Run, Leaves, Shapes
  <1>e. doing[w] \notin Transactions
    BY DEF Alone, StartPhase, Sync, Transactions
  <1> SUFFICES Shapes' /\ WorkersFit'
    BY <1>d, <1>e
  <1>1. CASE StartPhase(w)
    <2>0. passed' = passed /\ cntr[w] = 0 /\ passed[w] = 0
      BY <1>1, <1>a DEF StartPhase, Fits
    <2>1. /\ passed' = passed /\ passed'[w] \in 0 .. 3 /\ passed'[w] < 3
          /\ cntr'[w] \in 0 .. n /\ cntr'[w] < n /\ cntr'[w] = 0
      BY <2>0, <1>a, <1>b
    <2>2. CASE Run(w, "init", NoArg)
      BY <1>a, <1>b, <1>c, <2>1, <2>2, RunFits
    <2>3. CASE Draw(w, known[w])
      <3>1. PICK t \in {"long", "alloc", "short"} : \E a : Run(w, t, a)
        BY <2>3, DrawIs
      <3> QED
        BY <1>a, <1>b, <1>c, <2>1, <3>1, RunFits
    <2>4. CASE Leaves(w, "sync")
      BY <1>a, <1>b, <2>1, <2>4, LeavesFits
    <2> QED
      BY <1>1, <2>2, <2>3, <2>4 DEF StartPhase
  <1>2. CASE Sync(w)
    <2>1. /\ passed[w] \in 0 .. 2 /\ cntr[w] \in 0 .. n
          /\ passed[w] < 2 => cntr[w] = 0
      BY <1>2, <1>a DEF Sync, Fits
    <2>2. /\ passed' = [passed EXCEPT ![w] = passed[w] + 1]
          /\ passed'[w] = passed[w] + 1 /\ passed'[w] \in 0 .. 3
      BY <1>2, <2>1 DEF Sync, Shapes
    <2>a. cntr'[w] \in 0 .. n /\ \E p : passed' = [passed EXCEPT ![w] = p]
      BY <1>b, <2>1, <2>2
    <2>3. CASE passed'[w] = 1 /\ Run(w, "set", NoArg)
      <3>1. cntr'[w] = 0
        BY <1>b, <2>1, <2>2, <2>3
      <3> QED
        BY <1>b, <1>c, <2>a, <2>2, <2>3, <3>1, RunFits
    <2>4. CASE passed'[w] < 3 /\ Leaves(w, "sync")
      <3>1. passed'[w] < 2 => cntr'[w] = 0
        BY <1>b, <2>1, <2>2
      <3> QED
        BY <1>b, <2>a, <2>2, <2>4, <3>1, LeavesFits
    <2>5. CASE passed'[w] = 2 /\ Run(w, "last", NoArg)
      <3>1. cntr'[w] = 0 /\ cntr'[w] < n
        BY <1>a, <1>b, <2>1, <2>2, <2>5
      <3> QED
        BY <1>b, <1>c, <2>a, <2>2, <2>5, <3>1, RunFits
    <2>6. CASE Run(w, "zero", NoArg)
      BY <1>b, <1>c, <2>a, <2>2, <2>6, RunFits
    <2>7. CASE Leaves(w, "done")
      BY <1>b, <2>a, <2>2, <2>7, LeavesFits
    <2> QED
      BY <1>2, <2>3, <2>4, <2>5, <2>6, <2>7 DEF Sync
  <1> QED
    BY <1>1, <1>2 DEF Alone
----------------------------------------------------------------------------
(* What the calls of the lock-based memory do to the lock and the segments *)
LEMMA ReferenceKeepsLock ==
    ASSUME LockFits, NEW w \in Workers, ReferenceStep(w)
    PROVE  LockFits'
  <1>1. CASE ReferenceBegin(w)
    BY <1>1 DEF ReferenceBegin, RefBegin, shared_lock_acquire, shared_lock_acquire_shared,
       LockFits
  <1>2. CASE ReferenceEnd(w)
    BY <1>2 DEF ReferenceEnd, RefEnd, shared_lock_release, LockFits
  <1>3. CASE ReferenceRead(w) \/ ReferenceAllocFails(w)
    BY <1>3 DEF ReferenceRead, ReferenceAllocFails, RefAllocFails, referenceVars, LockFits
  <1>4. CASE ReferenceWrite(w)
    BY <1>4 DEF ReferenceWrite, RefWrite, LockFits
  <1>5. CASE ReferenceAlloc(w)
    <2>1. PICK s \in 1 .. MaxSegments : RefAlloc(s, SegmentSize(setting.nbaccounts))
      BY <1>5 DEF ReferenceAlloc
    <2>2. DOMAIN content' = DOMAIN content \cup {s} /\ UNCHANGED <<writer, readers>>
      BY <2>1 DEF RefAlloc
    <2> QED
      BY <2>2 DEF LockFits
  <1>6. CASE ReferenceFree(w)
    BY <1>6 DEF ReferenceFree, RefFree, Without, LockFits
  <1> QED
    BY <1>1, <1>2, <1>3, <1>4, <1>5, <1>6 DEF ReferenceStep

LEMMA CallsInTransaction ==
    ASSUME WorkersFit, Shapes, NEW w \in Workers, NEW what, Calls(w, what)
    PROVE  doing[w] \in Transactions
  BY DEF WorkersFit, Fits, Calls

(* A step of a worker on the lock-based memory.                            *)
LEMMA ReferenceFits ==
    ASSUME BankInv, NEW w \in Workers, ReferenceStep(w)
    PROVE  BankInv'
  <1>a. Shapes /\ WorkersFit /\ InTransactions /\ LockFits
    BY DEF BankInv
  <1>b. OnReference /\ UNCHANGED <<pc, op>> /\ \E what : Calls(w, what)
    BY DEF ReferenceStep, ReferenceBegin, ReferenceRead, ReferenceWrite, ReferenceAlloc,
       ReferenceAllocFails, ReferenceFree, ReferenceEnd, ReferenceCalls, dualVars, vars,
       batcherVars, memoryVars
  <1>c. doing[w] \in Transactions
    BY <1>a, <1>b, CallsInTransaction
  <1>1. Shapes' /\ WorkersFit'
    <2>1. CASE ReferenceBegin(w)
      BY <2>1, <1>a, <1>c, EnterFits DEF ReferenceBegin
    <2>2. CASE ReferenceAllocFails(w)
      BY <2>2, <1>a, <1>c, UnwoundFits DEF ReferenceAllocFails
    <2>3. CASE ReferenceEnd(w)
      BY <2>3, <1>a, EndedFits DEF ReferenceEnd
    <2>4. CASE \E v : Returned(w, v)
      BY <2>4, <1>a, ReturnedFits
    <2> QED
      BY <2>1, <2>2, <2>3, <2>4 DEF ReferenceStep, ReferenceRead, ReferenceWrite,
         ReferenceAlloc, ReferenceFree
  <1>2. InTransactions'
    <2>1. ~OnDual
      BY <1>b DEF OnReference, OnDual
    <2>2. \A u \in Workers : pc[u] = "outside" /\ op[u] = NotRunning
      BY <1>a, <2>1 DEF InTransactions
    <2> QED
      BY <1>a, <1>b, <2>2 DEF InTransactions
  <1>3. LockFits'
    BY <1>a, ReferenceKeepsLock
  <1> QED
    BY <1>1, <1>2, <1>3 DEF BankInv

(* A step of a worker on the dual-versioned memory.                        *)
LEMMA DualMoves ==
    ASSUME InTransactions, NEW w \in Workers, DualStep(w)
    PROVE  /\ DOMAIN pc' = Workers /\ DOMAIN op' = Workers
           /\ \A u \in Workers \ {w} :
                  /\ pc'[u] # "outside" => pc[u] # "outside"
                  /\ op'[u] = op[u]
  <1>1. CASE DualBegin(w)
    BY <1>1, SameThreadsAssumption DEF DualBegin, EnterFirst, Resume, TakeId, GoTo,
       InTransactions
  <1>2. CASE DualBeginBlocks(w)
    BY <1>2, SameThreadsAssumption DEF DualBeginBlocks, TmBeginBlocks, EnterBlock,
       SpuriousWakeup, memoryVars, InTransactions
  <1>3. CASE DualBeginFlag(w)
    BY <1>3 DEF DualBeginFlag, TmBeginFlag, GoTo, batcherVars, InTransactions
  <1>4. CASE DualCall(w) \/ DualReturn(w)
    <2>1. UNCHANGED batcherVars /\ \E o : op' = [op EXCEPT ![w] = o]
      BY <1>4 DEF DualCall, DualReturn, ReadWord, WriteWord, WriteLocked, AbortWord, ReadCopy,
         WriteCopy, GoTo, ToAbort
    <2> QED
      BY <2>1 DEF batcherVars, InTransactions
  <1>5. CASE TmLeave(w)
    <2>1. /\ op' = [op EXCEPT ![w] = NotRunning]
          /\ LeaveLast(w) \/ LeaveEarly(w)
      BY <1>5 DEF TmLeave, GoTo
    <2>2. /\ DOMAIN pc' = Workers
          /\ \A u \in Workers \ {w} : pc'[u] # "outside" => pc[u] # "outside"
      BY <2>1, SameThreadsAssumption DEF LeaveLast, LeaveEarly, InTransactions
    <2> QED
      BY <2>1, <2>2 DEF InTransactions
  <1> QED
    BY <1>1, <1>2, <1>3, <1>4, <1>5 DEF DualStep, DualEnd, DualRefused

LEMMA DualFits ==
    ASSUME BankInv, NEW w \in Workers, DualStep(w)
    PROVE  BankInv'
  <1>a. Shapes /\ WorkersFit /\ InTransactions /\ LockFits
    BY DEF BankInv
  <1>b. UNCHANGED referenceVars
    BY DEF DualStep, DualBegin, DualBeginBlocks, DualBeginFlag, DualCall, DualReturn, DualEnd,
       DualRefused
  <1>c. LockFits'
    BY <1>a, <1>b DEF LockFits, referenceVars
  <1>d. Idle # NotRunning /\ Begun # NotRunning
        /\ \A o : o.at \in {"abort", "read_ro_copy", "read_writable_copy", "write_lock",
                            "first_copy", "write_copy"} => o # NotRunning
    <2>1. Idle.at = "idle" /\ Begun.at = "begun" /\ NotRunning.at = "not running"
      BY DEF Idle, Begun, NotRunning
    <2> QED
      BY <2>1
  \* what has to be shown of w and of the workers' queues
  <1>q. ASSUME Shapes' /\ WorkersFit', setting' = setting,
               \A u \in Workers \ {w} : doing'[u] = doing[u],
               \/ OnDual /\ doing'[w] \in Transactions
               \/ pc'[w] = "outside" /\ op'[w] = NotRunning
        PROVE  BankInv'
    <2>1. OnDual' = OnDual
      BY <1>q DEF OnDual
    <2>2. ASSUME NEW u \in Workers, pc'[u] # "outside" \/ op'[u] # NotRunning
          PROVE  OnDual /\ doing'[u] \in Transactions
      <3>1. CASE u = w
        BY <1>q, <2>2, <3>1
      <3>2. CASE u # w
        BY <1>a, <1>q, <2>2, <3>2, DualMoves DEF InTransactions
      <3> QED
        BY <3>1, <3>2
    <2>3. InTransactions'
      BY <1>a, <2>1, <2>2, DualMoves DEF InTransactions
    <2> QED
      BY <1>c, <1>q, <2>3 DEF BankInv
  <1>r. ASSUME UNCHANGED bankVars, OnDual /\ doing[w] \in Transactions
        PROVE  BankInv'
    <2>1. /\ setting' = setting /\ doing' = doing /\ todo' = todo /\ cntr' = cntr
          /\ passed' = passed
      BY <1>r DEF bankVars
    <2>2. Shapes' /\ WorkersFit'
      BY <1>a, <2>1 DEF Shapes, WorkersFit, Fits
    <2> QED
      BY <1>q, <1>r, <2>1, <2>2
  <1>1. CASE DualBegin(w)
    <2>1. OnDual /\ doing[w] \in Transactions
      <3>1. CASE DualCalls(w, "begin")
        BY <1>a, <3>1, CallsInTransaction DEF DualCalls
      <3>2. CASE pc[w] # "outside"
        BY <1>a, <3>2 DEF InTransactions
      <3> QED
        BY <1>1, <3>1, <3>2 DEF DualBegin, Resume
    <2> QED
      BY <1>1, <1>r, <2>1 DEF DualBegin, bankVars
  <1>2. CASE DualBeginBlocks(w)
    <2>1. OnDual /\ doing[w] \in Transactions
      BY <1>2, <1>a, CallsInTransaction DEF DualBeginBlocks, DualCalls
    <2> QED
      BY <1>2, <1>r, <2>1 DEF DualBeginBlocks
  <1>3. CASE DualBeginFlag(w)
    <2>1. OnDual /\ doing[w] \in Transactions
      BY <1>3, <1>a, <1>d DEF DualBeginFlag, TmBeginFlag, InTransactions
    <2>2. Enter(w) /\ setting' = setting
      BY <1>3 DEF DualBeginFlag, Enter, Goes
    <2>3. Shapes' /\ WorkersFit' /\ doing' = doing
      BY <1>a, <2>1, <2>2, EnterFits
    <2> QED
      BY <1>q, <2>1, <2>2, <2>3
  <1>4. CASE DualCall(w)
    <2>1. OnDual /\ doing[w] \in Transactions
      <3>1. CASE \E what : DualCalls(w, what)
        BY <1>a, <3>1, CallsInTransaction DEF DualCalls
      <3>2. CASE op[w].at \in {"write_lock", "abort"}
        BY <1>a, <1>d, <3>2 DEF InTransactions
      <3> QED
        BY <1>4, <3>1, <3>2 DEF DualCall, WriteLocked, AbortWord
    <2> QED
      BY <1>4, <1>r, <2>1 DEF DualCall
  <1>5. CASE DualReturn(w)
    <2>1. op[w].at \in {"read_ro_copy", "read_writable_copy", "first_copy", "write_copy"}
      BY <1>5 DEF DualReturn, ReadCopy, WriteCopy
    <2>2. OnDual /\ doing[w] \in Transactions
      BY <1>a, <1>d, <2>1 DEF InTransactions
    <2>3. \E v : Returned(w, v)
      BY <1>5 DEF DualReturn
    <2>4. Shapes' /\ WorkersFit' /\ doing' = doing
      BY <1>a, <2>3, ReturnedFits
    <2>5. setting' = setting
      BY <2>3 DEF Returned, Goes, long_tx, alloc_tx, short_tx, one_read, RemoveAccount,
         UnlinkSegment, AddAccount, LinkSegment
    <2> QED
      BY <1>q, <2>2, <2>4, <2>5
  <1>6. CASE DualEnd(w)
    <2>1. pc'[w] = "outside" /\ op'[w] = NotRunning
      BY <1>6, <1>a, SameThreadsAssumption DEF DualEnd, TmLeave, LeaveLast, LeaveEarly, GoTo,
         InTransactions
    <2>2. Ended(w) /\ setting' = setting
      BY <1>6 DEF DualEnd, Ended
    <2> QED
      BY <1>a, <1>q, <2>1, <2>2, EndedFits
  <1>7. CASE DualRefused(w)
    <2>1. OnDual /\ doing[w] \in Transactions
      BY <1>7, <1>a, <1>d DEF DualRefused, InTransactions
    <2>2. Retry(w) /\ setting' = setting
      BY <1>7 DEF DualRefused, Retry
    <2> QED
      BY <1>a, <1>q, <2>1, <2>2, RetryFits
  <1> QED
    BY <1>1, <1>2, <1>3, <1>4, <1>5, <1>6, <1>7 DEF DualStep

LEMMA WorkerAloneFits ==
    ASSUME BankInv, NEW w \in Workers, WorkerAlone(w)
    PROVE  BankInv'
  <1>a. Shapes /\ WorkersFit /\ InTransactions /\ LockFits
    BY DEF BankInv
  <1>1. /\ Alone(w) /\ UNCHANGED <<pc, op>> /\ UNCHANGED referenceVars /\ setting' = setting
    BY DEF WorkerAlone, Alone, StartPhase, Sync, dualVars, vars, batcherVars, memoryVars
  <1>2. /\ Shapes' /\ WorkersFit' /\ doing[w] \notin Transactions
        /\ \A u \in Workers \ {w} : doing'[u] = doing[u]
    BY <1>a, <1>1, AloneFits
  <1>3. InTransactions'
    BY <1>a, <1>1, <1>2 DEF InTransactions, OnDual
  <1>4. LockFits'
    BY <1>a, <1>1 DEF LockFits, referenceVars
  <1> QED
    BY <1>2, <1>3, <1>4 DEF BankInv

LEMMA DestroyFits ==
    ASSUME BankInv, Destroy
    PROVE  BankInv'
  <1>1. UNCHANGED <<setting, doing, todo, cntr, passed, pc, op, writer, readers>>
    BY DEF Destroy, bankVars, dualVars, vars, batcherVars, memoryVars, RefDestroyNode,
       RefDestroyRegion
  <1>2. DOMAIN content' \subseteq DOMAIN content
    BY DEF Destroy, RefDestroyNode, RefDestroyRegion, Without
  <1>3. LockFits'
    BY <1>1, <1>2 DEF BankInv, LockFits
  <1>4. Shapes' /\ WorkersFit' /\ InTransactions'
    BY <1>1 DEF BankInv, Shapes, WorkersFit, Fits, InTransactions, OnDual
  <1> QED
    BY <1>3, <1>4 DEF BankInv

LEMMA BankInvariance == Spec => []BankInv
  <1>1. BankInv /\ [Next]_allVars => BankInv'
    <2> SUFFICES ASSUME BankInv, [Next]_allVars PROVE BankInv'
      OBVIOUS
    <2>1. CASE UNCHANGED allVars
      <3>1. UNCHANGED <<setting, doing, todo, cntr, passed, pc, op, writer, readers, content>>
        BY <2>1 DEF allVars, bankVars, referenceVars, dualVars, vars, batcherVars, memoryVars
      <3> QED
        BY <3>1 DEF BankInv, Shapes, WorkersFit, Fits, LockFits, InTransactions, OnDual
    <2> QED
      BY <2>1, DestroyFits, WorkerAloneFits, ReferenceFits, DualFits DEF Next, WorkerStep
  <1> QED
    BY <1>1, InitFits, PTL DEF Spec

(* On either memory, and however calls are refused and run again: a worker *)
(* has calls left exactly while it is in a transaction, and never more     *)
(* than a body queues; it commits no more rounds than it was asked for     *)
(* (workload.hpp:306, 354) and passes the barrier of check three times at  *)
(* most; whoever has the lock for writing has it alone.                    *)
THEOREM BankTypes == Spec => []BankTypeOK
  BY BankInvariance, FitsTypes, PTL
----------------------------------------------------------------------------
(* Where the accounts are.  On the lock-based memory they are in a chain   *)
(* of segments that alloc_tx makes longer and shorter; on the dual-        *)
(* versioned one in the first segment only, which is what `content' goes   *)
(* on holding there.                                                       *)
Offsets(s) == 0 .. SegmentSize(s.nbaccounts) - 1
Counts(s) == 1 .. s.nbaccounts

(* The chain in a memory C: each segment but the first is the next one of  *)
(* exactly one other, except for a fresh one; a segment that is gone may   *)
(* still be linked; and in run each counts its accounts, unless it is      *)
(* still empty.                                                            *)
Chain(s, C, fresh, gone, empty) ==
    /\ \A x \in DOMAIN C :
           /\ DOMAIN C[x] = Offsets(s)
           /\ C[x][NEXT] \in {Null} \cup gone \cup (DOMAIN C \ ({Region} \cup fresh))
           /\ C[x][NEXT] # x
           /\ s.phase = "run" /\ x \notin empty => C[x][COUNT] \in Counts(s)
    /\ \A y \in DOMAIN C \ ({Region} \cup fresh) : \E x \in DOMAIN C : C[x][NEXT] = y
    /\ \A x, y \in DOMAIN C : C[x][NEXT] = C[y][NEXT] /\ x # y => C[x][NEXT] = Null

Whole(s, C) == Chain(s, C, {}, {}, {})

(* The end of a transaction, or a write to one of the segments that leaves *)
(* the chain as it is.                                                     *)
Harmless(s, C, c) ==
    \/ c.do = "end"
    \/ /\ c.do = "write" /\ c.seg \in DOMAIN C /\ c.off \in Offsets(s) \ {NEXT}
       /\ s.phase = "run" /\ c.off = COUNT => c.val \in Counts(s)

(* A body that has nothing left to read.                                   *)
Finishes(s, C, q) ==
    /\ \A i \in 1 .. Len(q) : Harmless(s, C, q[i])
    /\ q[Len(q)].do = "end"

LastCall(q) == q = <<q[1]>> /\ q[1].do = "end"

(* Where the bodies may be, with m their variables and q what they are     *)
(* about to call.                                                          *)
LongAt(s, C, m, q) ==
    \/ LastCall(q)
    \/ /\ m.seg \in DOMAIN C /\ m.segment_count \in 0 .. s.nbaccounts
       /\ \E off \in Offsets(s) : q = <<Read(m.seg, off)>>

Pointer(s, C, p) ==
    p = <<>> \/ \E x \in DOMAIN C, off \in Offsets(s) \ {COUNT, NEXT, PARITY} : p = <<x, off>>

ShortAt(s, C, m, q) ==
    \/ Finishes(s, C, q)
    \/ /\ Pointer(s, C, m.send_ptr) /\ Pointer(s, C, m.recv_ptr)
       /\ \/ /\ ~m.sent /\ m.seg \in DOMAIN C
             /\ q = <<Read(m.seg, COUNT)>> \/ q = <<Read(m.seg, NEXT)>>
          \/ /\ m.send_ptr # <<>> /\ m.recv_ptr # <<>>
             /\ \/ ~m.sent /\ q = <<ReadAt(m.send_ptr)>>
                \/ m.sent /\ q = <<ReadAt(m.recv_ptr)>>
                \/ /\ m.sent /\ Len(q) = 2
                   /\ q = <<WriteAt(m.send_ptr, q[1].val), ReadAt(m.recv_ptr)>>

(* alloc_tx is at a segment that is the next of the one it came from, and  *)
(* has counted more accounts than that one segment has if it came from any *)
Placed(C, m) ==
    /\ m.seg \in DOMAIN C /\ m.segment_count \in Nat
    /\ \/ m.prev = Null
       \/ m.prev \in DOMAIN C /\ m.prev # m.seg /\ m.seg # Region /\ C[m.prev][NEXT] = m.seg

AllocAt(s, C, m, q) ==
    \/ Finishes(s, C, q)
    \/ Placed(C, m) /\ q = <<Read(m.seg, COUNT)>> /\ (m.prev = Null => m.count = 0)
    \/ /\ Placed(C, m)
       /\ m.segment_count \in Counts(s) /\ (m.prev = Null => m.count = m.segment_count)
       /\ \/ q = <<Read(m.seg, NEXT)>>
          \/ /\ C[m.seg][NEXT] = Null /\ m.count > 2
             /\ \/ q = <<Read(m.seg, PARITY)>>
                \/ q = <<Read(m.seg, Account(m.segment_count - 1))>>
          \/ /\ C[m.seg][NEXT] = Null /\ m.prev # Null
             /\ \/ q = <<Read(m.prev, NEXT)>>
                \/ q = <<Free(m.seg), Write(m.prev, NEXT, Null), Read(m.prev, PARITY)>>
          \/ C[m.seg][NEXT] = Null /\ q = <<Alloc>>
    \/ m.prev \in DOMAIN C /\ m.prev # m.seg /\ q = <<Read(m.prev, PARITY)>>

(* alloc_tx where it has the chain in pieces: the last segment is freed    *)
(* and still linked, or a new one is not yet linked, or has no account yet *)
InPieces(s, C, m, q) ==
    \/ /\ m.seg \notin DOMAIN C /\ m.seg \notin {Null, Region}
       /\ m.prev \in DOMAIN C /\ C[m.prev][NEXT] = m.seg
       /\ q = <<Write(m.prev, NEXT, Null), Read(m.prev, PARITY)>>
       /\ Chain(s, C, {}, {m.seg}, {})
    \/ \E x \in DOMAIN C \ {Region} :
           \/ /\ m.seg \in DOMAIN C \ {x} /\ C[m.seg][NEXT] = Null /\ C[x][NEXT] = Null
              /\ q = <<Write(m.seg, NEXT, x), Write(x, COUNT, 1),
                       Write(x, Account(0), s.init_balance), End(TRUE)>>
              /\ Chain(s, C, {x}, {}, {x})
           \/ /\ q = <<Write(x, COUNT, 1), Write(x, Account(0), s.init_balance), End(TRUE)>>
              /\ Chain(s, C, {}, {}, {x})

OneReadAt(s, C, place, q) ==
    \/ LastCall(q)
    \/ \E off \in Offsets(s) \ {NEXT} : q = <<Read(Start, off)>>
    \/ place = "dec" /\ Finishes(s, C, q)

BodyAt(s, C, place, m, q) ==
    /\ place \in {"long", "final"} => LongAt(s, C, m, q)
    /\ place = "alloc" => AllocAt(s, C, m, q) \/ InPieces(s, C, m, q)
    /\ place = "short" => ShortAt(s, C, m, q)
    /\ place \in {"init", "set"} => Finishes(s, C, q)
    /\ place \in {"first", "verify", "last", "dec", "zero"} => OneReadAt(s, C, place, q)

(* A transaction that tm_begin has let in.                                 *)
Inside(w) == doing[w] \in Transactions /\ todo[w] # <<Begin>>

BodiesFit ==
    \A w \in Workers :
        Inside(w) => BodyAt(setting, content, doing[w], my[w], todo[w])

Fields == DOMAIN Locals

Sound(m) == DOMAIN m = Fields /\ m.count \in Nat
SoundArg(a) == DOMAIN a = DOMAIN NoArg /\ a.send_id \in Nat /\ a.recv_id \in Nat

LocalsFit ==
    /\ DOMAIN my = Workers /\ DOMAIN arg = Workers /\ DOMAIN known = Workers
    /\ \A w \in Workers : Sound(my[w]) /\ SoundArg(arg[w]) /\ known[w] \in Int

PhaseOf(place) ==
    CASE place \in {"init", "first"} -> {"init"}
      [] place \in {"long", "alloc", "short", "final"} -> {"run"}
      [] place \in {"set", "verify", "last", "dec", "zero", "sync"} -> {"check"}
      [] OTHER -> {"init", "run", "check"}

PhasesFit == \A w \in Workers : setting.phase \in PhaseOf(doing[w])

(* The lock is held by whoever is inside, as its transaction needs it.     *)
LockHeld ==
    OnReference => \A w \in Workers :
        Inside(w) => IF doing[w] \in ReadOnly THEN w \in readers ELSE writer = w

Splits(w) == doing[w] = "alloc" /\ InPieces(setting, content, my[w], todo[w])

AccountsFit ==
    ~AllDone => /\ Region \in DOMAIN content
                /\ Whole(setting, content) \/ \E w \in Workers : Splits(w)

(* The library's list of segments: in both directions the same, and        *)
(* without a circle (any of its nodes, taken together, have a first one).  *)
ListFits ==
    /\ DOMAIN node = DOMAIN content \ {Region}
    /\ ~AllDone =>
        /\ allocs \in {NULL} \cup DOMAIN node
        /\ \A n \in DOMAIN node :
               /\ node[n] \in [prev : {NULL} \cup DOMAIN node, next : {NULL} \cup DOMAIN node]
               /\ node[n].prev # NULL => node[node[n].prev].next = n
        /\ WellLinked
        /\ \A S \in SUBSET DOMAIN node : S # {} => \E n \in S : node[n].prev \notin S

(* The dual-versioned memory: an operation is the pending call, and both   *)
(* copies of the first segment's header are good for one.                  *)
HeaderFits(words) ==
    /\ DOMAIN words = Words
    /\ setting.phase = "run" => words[NEXT] = Null /\ words[COUNT] \in Counts(setting)

CallIs(w, what) ==
    what \in {"read_ro_copy", "read_writable_copy", "write_lock", "first_copy", "write_copy"} =>
        IF what \in {"read_ro_copy", "read_writable_copy"}
        THEN Calls(w, "read") /\ op[w] = [at |-> what, word |-> Pending(w).off]
        ELSE /\ Calls(w, "write")
             /\ op[w] = [at |-> what, word |-> Pending(w).off, val |-> Pending(w).val]

DualFit ==
    OnDual =>
        /\ content = [x \in {Region} |-> FirstSegment]
        /\ HeaderFits(words_array_A) /\ HeaderFits(words_array_B)
        /\ DOMAIN target = Workers
        /\ \A w \in Workers : CallIs(w, op[w].at)

LinksInv ==
    /\ BankInv
    /\ BodiesFit /\ LocalsFit /\ PhasesFit /\ LockHeld
    /\ AccountsFit /\ ListFits /\ DualFit
----------------------------------------------------------------------------
(* Calls differ in what they do, or in their fields.                       *)
LEMMA CallFields ==
    /\ Begin.do = "begin" /\ Alloc.do = "alloc" /\ EndThrowing.do = "end"
    /\ \A b : End(b).do = "end"
    /\ \A x : Free(x).do = "free" /\ Free(x).seg = x
    /\ \A x, off : Read(x, off).do = "read" /\ Read(x, off).seg = x /\ Read(x, off).off = off
    /\ \A x, off, v : /\ Write(x, off, v).do = "write" /\ Write(x, off, v).seg = x
                      /\ Write(x, off, v).off = off /\ Write(x, off, v).val = v
  BY DEF Begin, Alloc, EndThrowing, End, Free, Read, Write

(* The first of a few calls, and the others.                               *)
LEMMA FewCalls ==
    /\ Len(<<>>) = 0
    /\ \A a : /\ Head(<<a>>) = a /\ Tail(<<a>>) = <<>> /\ <<a>>[1] = a /\ Len(<<a>>) = 1
    /\ \A a, b : /\ Head(<<a, b>>) = a /\ Tail(<<a, b>>) = <<b>> /\ Len(<<a, b>>) = 2
                 /\ <<a, b>>[1] = a /\ <<a, b>>[2] = b
    /\ \A a, b, c : /\ Head(<<a, b, c>>) = a /\ Tail(<<a, b, c>>) = <<b, c>>
                    /\ Len(<<a, b, c>>) = 3
                    /\ <<a, b, c>>[1] = a /\ <<a, b, c>>[2] = b /\ <<a, b, c>>[3] = c
    /\ \A a, b, c, d : /\ Head(<<a, b, c, d>>) = a /\ Tail(<<a, b, c, d>>) = <<b, c, d>>
                       /\ Len(<<a, b, c, d>>) = 4
  <1>1. Len(<<>>) = 0
    OBVIOUS
  <1>2. \A a : Head(<<a>>) = a /\ Tail(<<a>>) = <<>> /\ <<a>>[1] = a /\ Len(<<a>>) = 1
    OBVIOUS
  <1>3. \A a, b : /\ Head(<<a, b>>) = a /\ Tail(<<a, b>>) = <<b>> /\ Len(<<a, b>>) = 2
                 /\ <<a, b>>[1] = a /\ <<a, b>>[2] = b
    OBVIOUS
  <1>4. \A a, b, c : /\ Head(<<a, b, c>>) = a /\ Tail(<<a, b, c>>) = <<b, c>>
                    /\ Len(<<a, b, c>>) = 3
                    /\ <<a, b, c>>[1] = a /\ <<a, b, c>>[2] = b /\ <<a, b, c>>[3] = c
    OBVIOUS
  <1>5. \A a, b, c, d : /\ Head(<<a, b, c, d>>) = a /\ Tail(<<a, b, c, d>>) = <<b, c, d>>
                       /\ Len(<<a, b, c, d>>) = 4
    OBVIOUS
  <1> QED
    BY <1>1, <1>2, <1>3, <1>4, <1>5

(* The variables of a body that a step does not give a value are kept.     *)
LEMMA LocalsKept ==
    ASSUME NEW m, DOMAIN m = Fields
    PROVE  /\ \A v : LET n == [m EXCEPT !.seg = v] IN
               /\ DOMAIN n = Fields /\ n.seg = v /\ n.prev = m.prev /\ n.count = m.count
               /\ n.segment_count = m.segment_count /\ n.sent = m.sent
               /\ n.send_ptr = m.send_ptr /\ n.recv_ptr = m.recv_ptr
           /\ \A v : LET n == [m EXCEPT !.sum = v] IN
               /\ DOMAIN n = Fields /\ n.seg = m.seg /\ n.count = m.count
               /\ n.segment_count = m.segment_count
           /\ \A v : LET n == [m EXCEPT !.parity = v] IN
               /\ DOMAIN n = Fields /\ n.seg = m.seg /\ n.prev = m.prev /\ n.count = m.count
               /\ n.segment_count = m.segment_count
           /\ \A v : LET n == [m EXCEPT !.sent = v] IN
               /\ DOMAIN n = Fields /\ n.seg = m.seg /\ n.count = m.count /\ n.sent = v
               /\ n.send_ptr = m.send_ptr /\ n.recv_ptr = m.recv_ptr
           /\ \A v, c : LET n == [m EXCEPT !.segment_count = v, !.count = c] IN
               /\ DOMAIN n = Fields /\ n.seg = m.seg /\ n.prev = m.prev /\ n.count = c
               /\ n.segment_count = v
           /\ \A p, v : LET n == [m EXCEPT !.prev = p, !.seg = v] IN
               /\ DOMAIN n = Fields /\ n.seg = v /\ n.prev = p /\ n.count = m.count
               /\ n.segment_count = m.segment_count
           /\ \A p, r : LET n == [m EXCEPT !.send_ptr = p, !.recv_ptr = r] IN
               /\ DOMAIN n = Fields /\ n.seg = m.seg /\ n.count = m.count /\ n.sent = m.sent
               /\ n.send_ptr = p /\ n.recv_ptr = r
  <1> DEFINE F == {"seg", "prev", "count", "segment_count", "sum", "parity", "send_ptr",
                   "recv_ptr", "sent"}
  <1>1. DOMAIN m = F /\ Fields = F
    BY DEF Fields, Locals
  <1> QED
    BY <1>1
----------------------------------------------------------------------------
(* What a read returns: the header of a segment as the chain has it.       *)
Returns(s, C, c, v) ==
    /\ c.off = NEXT => v = C[c.seg][NEXT]
    /\ c.off = COUNT /\ s.phase = "run" => v \in Counts(s)

LEMMA ReadsOffsets ==
    ASSUME NEW s, s.nbaccounts \in Nat \ {0}
    PROVE  /\ COUNT \in Offsets(s) /\ NEXT \in Offsets(s) /\ PARITY \in Offsets(s)
           /\ Account(0) \in Offsets(s)
           /\ Account(0) # COUNT /\ Account(0) # NEXT /\ Account(0) # PARITY
           /\ COUNT # NEXT /\ COUNT # PARITY /\ NEXT # PARITY
           /\ \A i \in 0 .. s.nbaccounts - 1 :
                  /\ Account(i) \in Offsets(s) \ {COUNT, NEXT, PARITY}
                  /\ Account(i) >= Account(0)
           /\ \A off \in Offsets(s) :
                  off \notin {COUNT, NEXT, PARITY} <=>
                      off - Account(0) \in 0 .. s.nbaccounts - 1
           /\ \A off \in Offsets(s) : off \notin {COUNT, NEXT, PARITY} <=> off >= Account(0)
  BY DEF COUNT, NEXT, PARITY, Account, Offsets, SegmentSize

(* long_tx goes from the header of a segment to its accounts, as many as   *)
(* it counts, and on to the next segment.                                  *)
LEMMA LongReturns ==
    ASSUME NEW w \in Workers, NEW v, long_tx(w, v), Calls(w, "read"), Sound(my[w]),
           LongAt(setting, content, my[w], todo[w]), Whole(setting, content),
           setting.nbaccounts \in Nat \ {0}, setting.phase = "run",
           Returns(setting, content, Pending(w), v)
    PROVE  \E m, q : Goes(w, m, q) /\ LongAt(setting, content, m, q) /\ Sound(m)
  <1> DEFINE m == my[w]
             n == setting.nbaccounts
             Good(x, q) == Goes(w, x, q) /\ LongAt(setting, content, x, q) /\ Sound(x)
  <1>1. ~LastCall(todo[w])
    BY FewCalls DEF LastCall, Calls
  <1>2. PICK off \in Offsets(setting) : todo[w] = <<Read(m.seg, off)>>
    BY <1>1 DEF LongAt
  <1>3. /\ Pending(w).off = off /\ Pending(w).seg = m.seg
        /\ m.seg \in DOMAIN content /\ m.segment_count \in 0 .. n
    BY <1>1, <1>2, FewCalls, CallFields DEF LongAt, Pending
  <1>4. DOMAIN m = Fields /\ m.count \in Nat
    BY DEF Sound
  <1>5. \A b : LastCall(<<End(b)>>)
    BY FewCalls, CallFields DEF LastCall
  <1> DEFINE next(i) == IF i < m.segment_count THEN <<Read(m.seg, Account(i))>>
                        ELSE <<Read(m.seg, NEXT)>>
  <1>6. ASSUME NEW x, DOMAIN x = Fields, x.seg = m.seg, x.segment_count = m.segment_count,
               x.count = m.count, NEW i \in Nat, Goes(w, x, next(i))
        PROVE  Good(x, next(i))
    <2>1. i < m.segment_count => i \in 0 .. n - 1
      BY <1>3
    <2>2. \E o \in Offsets(setting) : next(i) = <<Read(m.seg, o)>>
      BY <2>1, ReadsOffsets
    <2> QED
      BY <1>3, <1>4, <1>6, <2>2 DEF LongAt, Sound
  <1>7. CASE off = COUNT /\ Goes(w, [m EXCEPT !.segment_count = v, !.count = @ + v],
                                 <<Read(m.seg, PARITY)>>)
    <2> DEFINE x == [m EXCEPT !.segment_count = v, !.count = m.count + v]
    <2>1. v \in Counts(setting)
      BY <1>3, <1>7 DEF Returns
    <2>2. DOMAIN x = Fields /\ x.seg = m.seg /\ x.count = m.count + v /\ x.segment_count = v
      BY <1>4, LocalsKept
    <2>3. Goes(w, x, <<Read(m.seg, PARITY)>>)
      BY <1>7
    <2> HIDE DEF x
    <2>4. v \in 0 .. n /\ m.count + v \in Nat
      BY <1>4, <2>1 DEF Counts
    <2> QED
      BY <1>3, <2>2, <2>3, <2>4, ReadsOffsets DEF LongAt, Sound
  <1>8. CASE \E i \in Nat : Goes(w, [m EXCEPT !.sum = @ + v], next(i))
    <2>1. PICK i \in Nat : Goes(w, [m EXCEPT !.sum = m.sum + v], next(i))
      BY <1>8
    <2> DEFINE x == [m EXCEPT !.sum = m.sum + v]
    <2>2. /\ DOMAIN x = Fields /\ x.seg = m.seg /\ x.segment_count = m.segment_count
          /\ x.count = m.count
      BY <1>4, LocalsKept
    <2>3. Goes(w, x, next(i))
      BY <2>1
    <2> HIDE DEF x, next
    <2> QED
      BY <1>6, <2>2, <2>3
  <1>9. CASE \E b : Goes(w, m, <<End(b)>>)
    BY <1>4, <1>5, <1>9 DEF LongAt, Sound
  <1>10. CASE off = NEXT /\ v # Null /\ Goes(w, [m EXCEPT !.seg = v], <<Read(v, COUNT)>>)
    <2> DEFINE x == [m EXCEPT !.seg = v]
    <2>1. v \in DOMAIN content
      BY <1>3, <1>10 DEF Returns, Whole, Chain
    <2>2. /\ DOMAIN x = Fields /\ x.seg = v /\ x.segment_count = m.segment_count
          /\ x.count = m.count
      BY <1>4, LocalsKept
    <2> QED
      BY <1>3, <1>4, <1>10, <2>1, <2>2, ReadsOffsets DEF LongAt, Sound
  <1>11. 0 \in Nat /\ (off >= Account(0) => off - Account(0) + 1 \in Nat)
    BY DEF Account, Offsets
  <1> QED
    BY <1>3, <1>7, <1>8, <1>9, <1>10, <1>11 DEF long_tx

(* A body that finishes has harmless calls only, the end being the last.   *)
LEMMA FinishesWith ==
    ASSUME NEW s, NEW C, NEW e, e.do = "end"
    PROVE  /\ Finishes(s, C, <<e>>)
           /\ \A a : Harmless(s, C, a) => Finishes(s, C, <<a, e>>)
           /\ \A a, b : Harmless(s, C, a) /\ Harmless(s, C, b) => Finishes(s, C, <<a, b, e>>)
  <1>0. Harmless(s, C, e)
    BY DEF Harmless
  <1>1. Finishes(s, C, <<e>>)
    <2>1. Len(<<e>>) = 1 /\ <<e>>[1] = e
      OBVIOUS
    <2>2. \A i \in 1 .. Len(<<e>>) : i = 1
      BY <2>1
    <2> QED
      BY <1>0, <2>1, <2>2 DEF Finishes
  <1>2. ASSUME NEW a, Harmless(s, C, a) PROVE Finishes(s, C, <<a, e>>)
    <2> DEFINE q == <<a, e>>
    <2>1. Len(q) = 2 /\ q[1] = a /\ q[2] = e
      OBVIOUS
    <2>2. \A i \in 1 .. Len(q) : i = 1 \/ i = 2
      BY <2>1
    <2> HIDE DEF q
    <2>3. Finishes(s, C, q)
      BY <1>0, <1>2, <2>1, <2>2 DEF Finishes
    <2> QED
      BY <2>3 DEF q
  <1>3. ASSUME NEW a, NEW b, Harmless(s, C, a), Harmless(s, C, b)
        PROVE  Finishes(s, C, <<a, b, e>>)
    <2> DEFINE q == <<a, b, e>>
    <2>1. Len(q) = 3 /\ q[1] = a /\ q[2] = b /\ q[3] = e
      OBVIOUS
    <2>2. \A i \in 1 .. Len(q) : i = 1 \/ i = 2 \/ i = 3
      BY <2>1
    <2> HIDE DEF q
    <2>3. Finishes(s, C, q)
      BY <1>0, <1>3, <2>1, <2>2 DEF Finishes
    <2> QED
      BY <2>3 DEF q
  <1> QED
    BY <1>1, <1>2, <1>3

LEMMA FirstHarmless ==
    ASSUME NEW s, NEW C, NEW q, Queue(q), Len(q) \in Nat \ {0}, Finishes(s, C, q)
    PROVE  /\ Harmless(s, C, Head(q))
           /\ Len(q) > 1 => Finishes(s, C, Tail(q))
           /\ Len(q) = 1 => Head(q).do = "end"
  <1> DEFINE S == {q[i] : i \in DOMAIN q}
  <1>1. q \in Seq(S)
    BY DEF Queue
  <1> HIDE DEF S
  <1>2. Harmless(s, C, Head(q)) /\ (Len(q) = 1 => Head(q).do = "end")
    <2>1. Head(q) = q[1]
      BY <1>1
    <2> QED
      BY <2>1 DEF Finishes
  <1>3. ASSUME Len(q) > 1 PROVE Finishes(s, C, Tail(q))
    <2>1. Len(Tail(q)) = Len(q) - 1 /\ \A i \in 1 .. Len(q) - 1 : Tail(q)[i] = q[i + 1]
      BY <1>1, <1>3
    <2>2. \A i \in 1 .. Len(q) - 1 : i + 1 \in 1 .. Len(q)
      OBVIOUS
    <2>3. \A i \in 1 .. Len(Tail(q)) : Harmless(s, C, Tail(q)[i])
      BY <2>1, <2>2 DEF Finishes
    <2>4. Tail(q)[Len(Tail(q))] = q[Len(q)]
      BY <1>3, <2>1
    <2> QED
      BY <2>3, <2>4 DEF Finishes
  <1> QED
    BY <1>2, <1>3

(* short_tx looks for its two accounts, segment by segment, and then reads *)
(* and writes the one after the other.                                     *)
LEMMA ShortReturns ==
    ASSUME NEW w \in Workers, NEW v, short_tx(w, v), Calls(w, "read"), Sound(my[w]),
           ShortAt(setting, content, my[w], todo[w]), Queue(todo[w]), Len(todo[w]) = 1,
           Whole(setting, content),
           setting.nbaccounts \in Nat \ {0}, setting.phase = "run",
           Returns(setting, content, Pending(w), v),
           arg[w].send_id \in Nat, arg[w].recv_id \in Nat
    PROVE  \E m, q : Goes(w, m, q) /\ ShortAt(setting, content, m, q) /\ Sound(m)
  <1> DEFINE m == my[w]
             n == setting.nbaccounts
             c == Pending(w)
             Good(x, q) == Goes(w, x, q) /\ ShortAt(setting, content, x, q) /\ Sound(x)
             P(p) == Pointer(setting, content, p)
  <1>1. ~Finishes(setting, content, todo[w])
    <2>1. Len(todo[w]) \in Nat \ {0} /\ Head(todo[w]).do = "read"
      BY DEF Calls
    <2> QED
      BY <2>1, FirstHarmless DEF Harmless
  <1>2. DOMAIN m = Fields /\ m.count \in Nat
    BY DEF Sound
  <1>3. P(m.send_ptr) /\ P(m.recv_ptr) /\ P(<<>>)
    BY <1>1 DEF ShortAt, Pointer
  <1>4. \/ /\ ~m.sent /\ m.seg \in DOMAIN content
           /\ todo[w] = <<Read(m.seg, COUNT)>> \/ todo[w] = <<Read(m.seg, NEXT)>>
        \/ /\ m.send_ptr # <<>> /\ m.recv_ptr # <<>>
           /\ \/ ~m.sent /\ todo[w] = <<ReadAt(m.send_ptr)>>
              \/ m.sent /\ todo[w] = <<ReadAt(m.recv_ptr)>>
    BY <1>1 DEF ShortAt
  <1>5. \A b : Finishes(setting, content, <<End(b)>>)
    BY CallFields, FinishesWith
  <1>6. ASSUME NEW p, P(p), p # <<>>
        PROVE  ReadAt(p).do = "read" /\ ReadAt(p).off >= Account(0)
               /\ ReadAt(p).off \notin {COUNT, NEXT}
    <2>1. PICK x \in DOMAIN content, off \in Offsets(setting) \ {COUNT, NEXT, PARITY} :
              p = <<x, off>>
      BY <1>6 DEF Pointer
    <2> QED
      BY <2>1, CallFields, ReadsOffsets DEF ReadAt
  <1>7. CASE c = Read(m.seg, COUNT) /\ m.seg \in DOMAIN content /\ ~m.sent
    <2> DEFINE a == arg[w]
               send == Found(m.send_ptr, a.send_id, v, m.seg)
               recv == Found(m.recv_ptr, a.recv_id, v, m.seg)
               x == [m EXCEPT !.send_ptr = send, !.recv_ptr = recv]
    <2>1. v \in Counts(setting)
      BY <1>7, CallFields DEF Returns
    <2>2. ASSUME NEW id \in Nat, NEW p, P(p)
          PROVE  P(Found(p, id, v, m.seg))
      <3>1. CASE p = <<>> /\ id < v
        <4>1. id \in 0 .. n - 1
          BY <2>1, <3>1 DEF Counts
        <4>2. Account(id) \in Offsets(setting) \ {COUNT, NEXT, PARITY}
          BY <4>1, ReadsOffsets
        <4> QED
          BY <1>7, <3>1, <4>2 DEF Found, Pointer
      <3> QED
        BY <2>2, <3>1 DEF Found
    <2>3. P(send) /\ P(recv)
      BY <1>3, <2>2
    <2>4. DOMAIN x = Fields /\ x.seg = m.seg /\ x.count = m.count /\ x.sent = m.sent
          /\ x.send_ptr = send /\ x.recv_ptr = recv
      BY <1>2, LocalsKept
    <2>5. Goes(w, x, IF <<>> \in {send, recv} THEN <<Read(m.seg, NEXT)>> ELSE <<ReadAt(send)>>)
      <3>1. c # Read(m.seg, NEXT) /\ ~(c.off >= Account(0))
        BY <1>7, CallFields, ReadsOffsets DEF COUNT, NEXT, Account
      <3> QED
        BY <3>1 DEF short_tx
    <2> HIDE DEF x, send, recv
    <2>6. CASE <<>> \in {send, recv}
      <3>1. ShortAt(setting, content, x, <<Read(m.seg, NEXT)>>)
        BY <1>7, <2>3, <2>4 DEF ShortAt
      <3> QED
        BY <1>2, <2>4, <2>5, <2>6, <3>1 DEF Sound
    <2>7. CASE <<>> \notin {send, recv}
      <3>1. ShortAt(setting, content, x, <<ReadAt(send)>>)
        BY <1>7, <2>3, <2>4, <2>7 DEF ShortAt
      <3> QED
        BY <1>2, <2>4, <2>5, <2>7, <3>1 DEF Sound
    <2> QED
      BY <2>6, <2>7
  <1>8. CASE c = Read(m.seg, NEXT) /\ m.seg \in DOMAIN content /\ ~m.sent
    <2>1. /\ c # Read(m.seg, COUNT) /\ ~(c.off >= Account(0))
          /\ c.seg = m.seg /\ c.off = NEXT
      BY <1>8, CallFields, ReadsOffsets DEF COUNT, NEXT, Account
    <2>2. IF v = Null THEN Goes(w, m, <<End(FALSE)>>)
          ELSE Goes(w, [m EXCEPT !.seg = v], <<Read(v, COUNT)>>)
      BY <2>1 DEF short_tx
    <2>3. CASE v = Null
      BY <1>2, <1>5, <2>2, <2>3 DEF ShortAt, Sound
    <2>4. CASE v # Null
      <3> DEFINE x == [m EXCEPT !.seg = v]
      <3>1. v \in DOMAIN content
        BY <1>8, <2>1, <2>4 DEF Returns, Whole, Chain
      <3>2. /\ DOMAIN x = Fields /\ x.seg = v /\ x.count = m.count /\ x.sent = m.sent
            /\ x.send_ptr = m.send_ptr /\ x.recv_ptr = m.recv_ptr
        BY <1>2, LocalsKept
      <3>3. Goes(w, x, <<Read(v, COUNT)>>)
        BY <2>2, <2>4
      <3> HIDE DEF x
      <3> QED
        BY <1>2, <1>3, <1>8, <3>1, <3>2, <3>3 DEF ShortAt, Sound
    <2> QED
      BY <2>3, <2>4
  <1>9. CASE m.send_ptr # <<>> /\ m.recv_ptr # <<>> /\ ~m.sent /\ c = ReadAt(m.send_ptr)
    <2> DEFINE x == [m EXCEPT !.sent = TRUE]
    <2>1. c.off \notin {COUNT, NEXT}
      BY <1>3, <1>6, <1>9
    <2>2. c # Read(m.seg, COUNT) /\ c # Read(m.seg, NEXT)
      BY <2>1, CallFields
    <2>3. Goes(w, x, IF v > 0 THEN <<WriteAt(m.send_ptr, v - 1), ReadAt(m.recv_ptr)>>
                     ELSE <<End(TRUE)>>)
      BY <1>9, <2>2 DEF short_tx
    <2>4. /\ DOMAIN x = Fields /\ x.seg = m.seg /\ x.count = m.count /\ x.sent
          /\ x.send_ptr = m.send_ptr /\ x.recv_ptr = m.recv_ptr
      BY <1>2, LocalsKept
    <2> HIDE DEF x
    <2>5. CASE v > 0
      <3> DEFINE q == <<WriteAt(m.send_ptr, v - 1), ReadAt(m.recv_ptr)>>
      <3>1. Len(q) = 2 /\ q[1].val = v - 1
        BY FewCalls, CallFields DEF WriteAt
      <3>2. ShortAt(setting, content, x, q)
        BY <1>3, <1>9, <2>4, <3>1 DEF ShortAt
      <3> QED
        BY <1>2, <2>3, <2>4, <2>5, <3>2 DEF Sound
    <2>6. CASE ~(v > 0)
      BY <1>2, <1>5, <2>3, <2>4, <2>6 DEF ShortAt, Sound
    <2> QED
      BY <2>5, <2>6
  <1>10. CASE m.sent /\ m.recv_ptr # <<>> /\ c = ReadAt(m.recv_ptr)
    <2> DEFINE q == <<WriteAt(m.recv_ptr, v + 1), End(TRUE)>>
    <2>1. c.off \notin {COUNT, NEXT}
      BY <1>3, <1>6, <1>10
    <2>2. c # Read(m.seg, COUNT) /\ c # Read(m.seg, NEXT)
      BY <2>1, CallFields
    <2>3. Goes(w, m, q)
      BY <1>10, <2>2 DEF short_tx
    <2>4. PICK x \in DOMAIN content, off \in Offsets(setting) \ {COUNT, NEXT, PARITY} :
              m.recv_ptr = <<x, off>>
      BY <1>3, <1>10 DEF Pointer
    <2>5. Harmless(setting, content, WriteAt(m.recv_ptr, v + 1))
      BY <2>4, CallFields DEF WriteAt, Harmless
    <2>6. Harmless(setting, content, End(TRUE)) /\ End(TRUE).do = "end"
      BY CallFields DEF Harmless
    <2>7. Finishes(setting, content, q)
      BY <2>5, <2>6, FinishesWith
    <2> QED
      BY <1>2, <2>3, <2>7 DEF ShortAt, Sound
  <1>11. \A a : todo[w] = <<a>> => c = a
    BY FewCalls DEF Pending
  <1> QED
    BY <1>4, <1>7, <1>8, <1>9, <1>10, <1>11

(* The other bodies read once.                                             *)
LEMMA OneReadReturns ==
    ASSUME NEW w \in Workers, NEW v, one_read(w, v), Calls(w, "read"), Sound(my[w]),
           OneReadAt(setting, content, doing[w], todo[w]), Start \in DOMAIN content,
           setting.nbaccounts \in Nat \ {0}, setting.phase # "run"
    PROVE  \E q : Goes(w, my[w], q) /\ OneReadAt(setting, content, doing[w], q)
  <1>1. \A b : LastCall(<<End(b)>>)
    BY FewCalls, CallFields DEF LastCall
  <1>2. CASE \E b : Goes(w, my[w], <<End(b)>>)
    BY <1>1, <1>2 DEF OneReadAt
  <1>3. CASE doing[w] = "dec" /\ Goes(w, my[w], <<Write(Start, COUNT, v - 1), End(TRUE)>>)
    <2> DEFINE c == Write(Start, COUNT, v - 1)
    <2>1. /\ c.do = "write" /\ c.seg = Start /\ c.off = COUNT
          /\ End(TRUE).do = "end"
      <3>1. c.do = "write" /\ c.seg = Start /\ c.off = COUNT
        BY CallFields
      <3>2. End(TRUE).do = "end"
        BY CallFields
      <3> QED
        BY <3>1, <3>2
    <2> HIDE DEF c
    <2>2. Harmless(setting, content, c)
      BY <2>1, ReadsOffsets DEF Harmless
    <2>3. Finishes(setting, content, <<c, End(TRUE)>>)
      BY <2>1, <2>2, FinishesWith
    <2> QED
      BY <1>3, <2>3 DEF OneReadAt, c
  <1> QED
    BY <1>2, <1>3 DEF one_read

(* alloc_tx goes to the last segment of the chain.  It removes an account  *)
(* there only if it has counted more than two, so that a segment with one  *)
(* account left is not the first and can be freed.                         *)
LEMMA AllocReturns ==
    ASSUME NEW w \in Workers, NEW v, alloc_tx(w, v), Calls(w, "read"), Sound(my[w]),
           AllocAt(setting, content, my[w], todo[w]), Queue(todo[w]), Len(todo[w]) = 1,
           Whole(setting, content), Null \notin DOMAIN content,
           setting.nbaccounts \in Nat \ {0}, setting.phase = "run",
           Returns(setting, content, Pending(w), v)
    PROVE  \E m, q : Goes(w, m, q) /\ AllocAt(setting, content, m, q) /\ Sound(m)
  <1> DEFINE m == my[w]
             n == setting.nbaccounts
             C == content
             c == Pending(w)
             Fine(x, q) == AllocAt(setting, C, x, q)
             Known(x) == /\ Placed(C, x) /\ x.segment_count \in Counts(setting)
                           /\ (x.prev = Null => x.count = x.segment_count)
             AtLast(x) == C[x.seg][NEXT] = Null
             R1 == Placed(C, m) /\ c = Read(m.seg, COUNT) /\ (m.prev = Null => m.count = 0)
             R2 == Known(m) /\ c = Read(m.seg, NEXT)
             R3 == Known(m) /\ AtLast(m) /\ m.count > 2 /\ c = Read(m.seg, PARITY)
             R4 == Known(m) /\ AtLast(m) /\ m.count > 2
                   /\ c = Read(m.seg, Account(m.segment_count - 1))
             R5 == Known(m) /\ AtLast(m) /\ m.prev # Null /\ c = Read(m.prev, NEXT)
             R6 == m.prev \in DOMAIN C /\ m.prev # m.seg /\ c = Read(m.prev, PARITY)
  <1>1. ~Finishes(setting, C, todo[w])
    <2>1. Len(todo[w]) \in Nat \ {0} /\ Head(todo[w]).do = "read"
      BY DEF Calls
    <2> QED
      BY <2>1, FirstHarmless DEF Harmless
  <1>2. DOMAIN m = Fields /\ m.count \in Nat
    BY DEF Sound
  <1>3. /\ \A a : todo[w] = <<a>> => c = a
        /\ \A a, b, d : todo[w] # <<a, b, d>>
        /\ c.do = "read"
    <2>1. \A a : todo[w] = <<a>> => c = a
      BY FewCalls DEF Pending
    <2>2. \A a, b, d : Len(<<a, b, d>>) = 3
      BY FewCalls
    <2>3. c.do = "read"
      BY DEF Pending, Calls
    <2> QED
      BY <2>1, <2>2, <2>3
  <1>4. R1 \/ R2 \/ R3 \/ R4 \/ R5 \/ R6
    <2>1. c # Alloc
      BY <1>3, CallFields
    <2> QED
      BY <1>1, <1>3, <2>1 DEF AllocAt
  <1>5. /\ m.segment_count \in Counts(setting) =>
               Account(m.segment_count - 1) \in Offsets(setting) \ {COUNT, NEXT, PARITY}
        /\ m.segment_count \in Nat => /\ Account(m.segment_count - 1) # COUNT
                                      /\ Account(m.segment_count - 1) # NEXT
    BY ReadsOffsets DEF Counts, Account, COUNT, NEXT
  <1>6. COUNT # NEXT /\ COUNT # PARITY /\ NEXT # PARITY
    BY ReadsOffsets
  <1>7. \A x, y, o, p : Read(x, o) = Read(y, p) => x = y /\ o = p
    BY CallFields
  <1>8. Placed(C, m) => /\ m.prev # m.seg /\ m.seg \in DOMAIN C /\ m.segment_count \in Nat
                        /\ m.prev # Null => m.seg # Region /\ m.prev \in DOMAIN C
                                            /\ C[m.prev][NEXT] = m.seg
    BY DEF Placed
  <1>9. \A e \in DOMAIN C : Harmless(setting, C, Write(e, PARITY, 0)) /\ \A x :
             /\ Harmless(setting, C, Write(e, PARITY, x))
             /\ x \in Counts(setting) => Harmless(setting, C, Write(e, COUNT, x))
    BY CallFields, ReadsOffsets DEF Harmless
  <1>10. End(TRUE).do = "end"
    BY CallFields
  <1>11. /\ c = Read(m.seg, COUNT) => R1
         /\ c = Read(m.seg, NEXT) => R2
         /\ c = Read(m.seg, PARITY) => R3 \/ R6
         /\ c = Read(m.prev, NEXT) => R2 \/ R5
    <2> DEFINE account == Account(m.segment_count - 1)
    <2>1. /\ R1 => c.off = COUNT
          /\ R2 \/ R5 => c.off = NEXT
          /\ R3 \/ R6 => c.off = PARITY
          /\ R4 => c.off = account
      BY CallFields
    <2>2. R4 => account \notin {COUNT, NEXT, PARITY}
      BY <1>5
    <2>3. R5 => Placed(C, m)
      OBVIOUS
    <2>4. R6 => m.prev # m.seg /\ c.seg = m.prev
      BY CallFields
    <2>5. R5 => m.prev # m.seg /\ c.seg = m.prev
      BY <1>8, <2>3, CallFields
    <2>6. \A x, off : c = Read(x, off) => c.seg = x /\ c.off = off
      BY CallFields
    <2> HIDE DEF account, R1, R2, R3, R4, R5, R6
    <2>7. c = Read(m.seg, COUNT) => R1
      BY <1>4, <1>6, <2>1, <2>2, <2>6
    <2>8. c = Read(m.seg, NEXT) => R2
      BY <1>4, <1>6, <2>1, <2>2, <2>5, <2>6
    <2>9. c = Read(m.seg, PARITY) => R3 \/ R6
      BY <1>4, <1>6, <2>1, <2>2, <2>6
    <2>10. c = Read(m.prev, NEXT) => R2 \/ R5
      BY <1>4, <1>6, <2>1, <2>2, <2>6
    <2> QED
      BY <2>7, <2>8, <2>9, <2>10
  <1>a. CASE /\ c = Read(m.seg, COUNT)
             /\ Goes(w, [m EXCEPT !.segment_count = v, !.count = @ + v], <<Read(m.seg, NEXT)>>)
    <2> DEFINE x == [m EXCEPT !.segment_count = v, !.count = m.count + v]
    <2>1. R1
      BY <1>a, <1>11
    <2>2. v \in Counts(setting)
      BY <1>a, CallFields DEF Returns
    <2>3. /\ DOMAIN x = Fields /\ x.seg = m.seg /\ x.prev = m.prev /\ x.count = m.count + v
          /\ x.segment_count = v
      BY <1>2, LocalsKept
    <2>4. Goes(w, x, <<Read(m.seg, NEXT)>>)
      BY <1>a
    <2> HIDE DEF x
    <2>5. v \in Nat /\ m.count + v \in Nat /\ (m.count = 0 => m.count + v = v)
      BY <1>2, <2>2 DEF Counts
    <2>6. Known(x)
      BY <2>1, <2>2, <2>3, <2>5 DEF Placed
    <2>7. Fine(x, <<Read(m.seg, NEXT)>>)
      BY <2>3, <2>6 DEF AllocAt
    <2> QED
      BY <2>3, <2>4, <2>5, <2>7 DEF Sound
  <1>b. CASE /\ c = Read(m.seg, NEXT) /\ v # Null
             /\ Goes(w, [m EXCEPT !.prev = m.seg, !.seg = v], <<Read(v, COUNT)>>)
    <2> DEFINE x == [m EXCEPT !.prev = m.seg, !.seg = v]
    <2>1. R2
      BY <1>b, <1>11
    <2>2. v = C[m.seg][NEXT]
      BY <1>b, CallFields DEF Returns
    <2>3. v \in DOMAIN C \ {Region} /\ v # m.seg
      BY <1>b, <2>1, <2>2, <1>8 DEF Whole, Chain
    <2>4. /\ DOMAIN x = Fields /\ x.seg = v /\ x.prev = m.seg /\ x.count = m.count
          /\ x.segment_count = m.segment_count
      BY <1>2, LocalsKept
    <2>5. Goes(w, x, <<Read(v, COUNT)>>)
      BY <1>b
    <2> HIDE DEF x
    <2>6. Placed(C, x) /\ x.prev # Null
      BY <1>8, <2>1, <2>2, <2>3, <2>4 DEF Placed
    <2>7. Fine(x, <<Read(v, COUNT)>>)
      BY <2>4, <2>6 DEF AllocAt
    <2> QED
      BY <1>2, <2>4, <2>5, <2>7 DEF Sound
  <1>c. CASE /\ c = Read(m.seg, NEXT) /\ v = Null /\ TooMany(w)
             /\ Goes(w, m, <<Read(m.seg, PARITY)>>)
    <2>1. R2
      BY <1>c, <1>11
    <2>2. AtLast(m) /\ m.count > 2
      BY <1>c, CallFields DEF Returns, TooMany
    <2>3. Fine(m, <<Read(m.seg, PARITY)>>)
      BY <2>1, <2>2 DEF AllocAt
    <2> QED
      BY <1>2, <1>c, <2>3 DEF Sound
  <1>d. CASE /\ c = Read(m.seg, PARITY)
             /\ Goes(w, [m EXCEPT !.parity = v], <<Read(m.seg, Account(m.segment_count - 1))>>)
    <2> DEFINE x == [m EXCEPT !.parity = v]
    <2>1. R3
      BY <1>8, <1>d, <1>11, CallFields
    <2>2. /\ DOMAIN x = Fields /\ x.seg = m.seg /\ x.prev = m.prev /\ x.count = m.count
          /\ x.segment_count = m.segment_count
      BY <1>2, LocalsKept
    <2>3. Goes(w, x, <<Read(m.seg, Account(m.segment_count - 1))>>)
      BY <1>d
    <2> HIDE DEF x
    <2>4. Known(x) /\ AtLast(x) /\ x.count > 2
      BY <2>1, <2>2 DEF Placed
    <2>5. Fine(x, <<Read(x.seg, Account(x.segment_count - 1))>>)
      BY <2>4 DEF AllocAt
    <2> QED
      BY <1>2, <2>2, <2>3, <2>5 DEF Sound
  <1>e. CASE c = Read(m.seg, Account(m.segment_count - 1)) /\ RemoveAccount(w, v)
    <2> DEFINE less == m.segment_count - 1
               parity == m.parity + v - setting.init_balance
               x == [m EXCEPT !.parity = parity]
               few == <<Write(m.seg, COUNT, less), Write(m.seg, PARITY, parity), End(TRUE)>>
    <2>1. R4
      <3>1. ~R1 /\ ~R2 /\ ~R5
        BY <1>5, <1>7, <1>8, <1>e
      <3>2. ~R3 /\ ~R6
        BY <1>5, <1>7, <1>8, <1>e
      <3> QED
        BY <1>4, <3>1, <3>2
    <2>2. IF less > 0 THEN Goes(w, m, few) ELSE Goes(w, x, <<Read(m.prev, NEXT)>>)
      BY <1>e DEF RemoveAccount
    <2>3. /\ DOMAIN x = Fields /\ x.seg = m.seg /\ x.prev = m.prev /\ x.count = m.count
          /\ x.segment_count = m.segment_count
      BY <1>2, LocalsKept
    <2>4. /\ less > 0 => less \in Counts(setting)
          /\ ~(less > 0) => m.segment_count = 1
      BY <2>1 DEF Counts
    <2> HIDE DEF x, parity, less
    <2>5. CASE less > 0
      <3>1. Harmless(setting, C, Write(m.seg, COUNT, less))
            /\ Harmless(setting, C, Write(m.seg, PARITY, parity))
        BY <1>8, <1>9, <2>1, <2>4, <2>5
      <3>2. Fine(m, few)
        BY <1>10, <3>1, FinishesWith DEF AllocAt
      <3> QED
        BY <1>2, <2>2, <2>5, <3>2 DEF Sound
    <2>6. CASE ~(less > 0)
      <3>1. m.prev # Null
        BY <2>1, <2>4, <2>6
      <3>2. Known(x) /\ AtLast(x) /\ x.prev # Null
        BY <2>1, <2>3, <3>1 DEF Placed
      <3>3. Fine(x, <<Read(x.prev, NEXT)>>)
        BY <3>2 DEF AllocAt
      <3> QED
        BY <1>2, <2>2, <2>3, <2>6, <3>3 DEF Sound
    <2> QED
      BY <2>5, <2>6
  <1>f. CASE c = Read(m.prev, NEXT) /\ UnlinkSegment(w, v)
    <2> DEFINE unlink(x) == <<Free(x), Write(m.prev, NEXT, Null), Read(m.prev, PARITY)>>
    <2>1. R5
      BY <1>8, <1>f, <1>11, CallFields
    <2>2. v = m.seg
      BY <1>8, <1>f, <2>1, CallFields DEF Returns
    <2>3. Goes(w, m, unlink(m.seg))
      BY <1>f, <2>2 DEF UnlinkSegment
    <2>4. Fine(m, unlink(m.seg))
      BY <2>1 DEF AllocAt
    <2> QED
      BY <1>2, <2>3, <2>4 DEF Sound
  <1>g. CASE /\ c = Read(m.prev, PARITY)
             /\ Goes(w, m, <<Write(m.prev, PARITY, v + m.parity), End(TRUE)>>)
    <2> DEFINE parity == v + m.parity
               few == <<Write(m.prev, PARITY, parity), End(TRUE)>>
    <2>1. R6
      <3>1. ~R1 /\ ~R2 /\ ~R5
        BY <1>5, <1>6, <1>7, <1>8, <1>g
      <3>2. ~R3 /\ ~R4
        BY <1>5, <1>7, <1>8, <1>g
      <3> QED
        BY <1>4, <3>1, <3>2
    <2> HIDE DEF parity
    <2>2. Harmless(setting, C, Write(m.prev, PARITY, parity))
      BY <1>9, <2>1
    <2>3. Fine(m, few)
      BY <1>10, <2>2, FinishesWith DEF AllocAt
    <2> QED
      BY <1>2, <1>g, <2>3 DEF Sound, parity
  <1>h. CASE c = Read(m.seg, NEXT) /\ v = Null /\ AddAccount(w)
    <2> DEFINE more == m.segment_count + 1
               few == <<Write(m.seg, Account(m.segment_count), setting.init_balance),
                        Write(m.seg, COUNT, more), End(TRUE)>>
    <2>1. R2
      BY <1>h, <1>11
    <2>2. AtLast(m)
      BY <1>h, CallFields DEF Returns
    <2>3. IF m.segment_count < n THEN Goes(w, m, few) ELSE Goes(w, m, <<Alloc>>)
      BY <1>h DEF AddAccount
    <2>4. CASE m.segment_count < n
      <3>1. m.segment_count \in 0 .. n - 1 /\ more \in Counts(setting)
        BY <2>1, <2>4 DEF Counts
      <3> HIDE DEF more
      <3>2. Harmless(setting, C, Write(m.seg, COUNT, more))
        BY <1>8, <1>9, <2>1, <3>1
      <3>3. Account(m.segment_count) \in Offsets(setting) \ {COUNT, NEXT, PARITY}
        BY <3>1, ReadsOffsets
      <3>4. Harmless(setting, C, Write(m.seg, Account(m.segment_count), setting.init_balance))
        BY <1>8, <2>1, <3>3, CallFields DEF Harmless
      <3>5. Fine(m, few)
        BY <1>10, <3>2, <3>4, FinishesWith DEF AllocAt
      <3> QED
        BY <1>2, <2>3, <2>4, <3>5 DEF Sound
    <2>5. CASE ~(m.segment_count < n)
      <3>1. Fine(m, <<Alloc>>)
        BY <2>1, <2>2 DEF AllocAt
      <3> QED
        BY <1>2, <2>3, <2>5, <3>1 DEF Sound
    <2> QED
      BY <2>4, <2>5
  <1>i. c # Alloc
    BY <1>3, CallFields
  <1> QED
    BY <1>a, <1>b, <1>c, <1>d, <1>e, <1>f, <1>g, <1>h, <1>i DEF alloc_tx

(* A call that reads is the last one its body is bound to make.            *)
LEMMA ReadsAreLast ==
    ASSUME NEW s, NEW C, NEW place \in Transactions, NEW m, NEW q, Queue(q),
           Len(q) \in Nat \ {0}, BodyAt(s, C, place, m, q), Head(q).do = "read"
    PROVE  Len(q) = 1 /\ ~InPieces(s, C, m, q) /\ ~Finishes(s, C, q)
  <1>1. ~Finishes(s, C, q)
    BY FirstHarmless DEF Harmless
  <1>2. ~InPieces(s, C, m, q)
    <2>1. \A x, off, v, b : q # <<Write(x, off, v), b>>
      BY CallFields, FewCalls
    <2>2. \A x, off, v, b, c : q # <<Write(x, off, v), b, c>>
      BY CallFields, FewCalls
    <2>3. \A x, off, v, b, c, d : q # <<Write(x, off, v), b, c, d>>
      BY CallFields, FewCalls
    <2> QED
      BY <2>1, <2>2, <2>3 DEF InPieces
  <1>3. \A a : q = <<a>> => Len(q) = 1
    BY FewCalls
  <1>4. CASE place \in {"long", "final"}
    BY <1>2, <1>1, <1>3, <1>4 DEF BodyAt, LongAt, LastCall
  <1>5. CASE place = "alloc"
    <2>1. AllocAt(s, C, m, q)
      BY <1>2, <1>5 DEF BodyAt
    <2>2. \A x, b, c : q # <<Free(x), b, c>>
      BY CallFields, FewCalls
    <2> QED
      BY <1>1, <1>2, <1>3, <2>1, <2>2 DEF AllocAt
  <1>6. CASE place = "short"
    <2>1. ShortAt(s, C, m, q)
      BY <1>6 DEF BodyAt
    <2>2. \A p, v, b : q # <<WriteAt(p, v), b>>
      BY CallFields, FewCalls DEF WriteAt
    <2> QED
      BY <1>1, <1>2, <1>3, <2>1, <2>2 DEF ShortAt
  <1>7. CASE place \in {"init", "set"}
    BY <1>1, <1>7 DEF BodyAt
  <1>8. CASE place \in {"first", "verify", "last", "dec", "zero"}
    BY <1>1, <1>2, <1>3, <1>8 DEF BodyAt, OneReadAt, LastCall
  <1> QED
    BY <1>4, <1>5, <1>6, <1>7, <1>8 DEF Transactions

(* The account a transfer looks for is counted down, never below zero.     *)
LEMMA ArgReturns ==
    ASSUME NEW w \in Workers, NEW v, short_tx(w, v) \/ one_read(w, v),
           DOMAIN arg = Workers, \A u \in Workers : SoundArg(arg[u]),
           doing[w] = "short" => setting.phase = "run", setting.nbaccounts \in Nat \ {0},
           Returns(setting, content, Pending(w), v)
    PROVE  DOMAIN arg' = Workers /\ \A u \in Workers : SoundArg(arg'[u])
  <1>1. CASE arg' = arg
    BY <1>1
  <1>2. ASSUME NEW a, SoundArg(a)
        PROVE  /\ \A x, y \in Nat : SoundArg([a EXCEPT !.send_id = x, !.recv_id = y])
               /\ \A x : SoundArg([a EXCEPT !.last = x])
    <2>1. DOMAIN NoArg = {"send_id", "recv_id", "trigger", "last"}
      BY DEF NoArg
    <2> QED
      BY <1>2, <2>1 DEF SoundArg
  <1>3. CASE arg' = [arg EXCEPT ![w].last = v]
    <2>1. arg' = [arg EXCEPT ![w] = [arg[w] EXCEPT !.last = v]]
      BY <1>3
    <2> QED
      BY <1>2, <2>1
  <1>4. CASE /\ Pending(w) = Read(my[w].seg, COUNT) /\ doing[w] = "short"
             /\ arg' = [arg EXCEPT ![w].send_id = Reduced(my[w].send_ptr, @, v),
                                   ![w].recv_id = Reduced(my[w].recv_ptr, @, v)]
    <2> DEFINE a == arg[w]
               x == Reduced(my[w].send_ptr, a.send_id, v)
               y == Reduced(my[w].recv_ptr, a.recv_id, v)
    <2>1. v \in Counts(setting)
      BY <1>4, CallFields DEF Returns
    <2>2. x \in Nat /\ y \in Nat
      <3>1. \A p : \A id \in Nat : Reduced(p, id, v) \in Nat
        BY <2>1 DEF Reduced, Counts
      <3> QED
        BY <3>1 DEF SoundArg
    <2>3. arg' = [arg EXCEPT ![w] = [a EXCEPT !.send_id = x, !.recv_id = y]]
      BY <1>4 DEF SoundArg, NoArg
    <2> HIDE DEF x, y
    <2> QED
      BY <1>2, <2>2, <2>3
  <1> QED
    BY <1>1, <1>3, <1>4 DEF short_tx, one_read

(* Whatever the body, when a read returns it goes on to a place where it   *)
(* may be.                                                                 *)
LEMMA ReadGoesOn ==
    ASSUME NEW w \in Workers, NEW v, Returned(w, v), Calls(w, "read"),
           doing[w] \in Transactions, Queue(todo[w]), Len(todo[w]) \in Nat \ {0},
           BodyAt(setting, content, doing[w], my[w], todo[w]),
           Whole(setting, content), Start \in DOMAIN content, Null \notin DOMAIN content,
           LocalsFit, setting.phase \in PhaseOf(doing[w]), setting.nbaccounts \in Nat \ {0},
           Returns(setting, content, Pending(w), v)
    PROVE  /\ DOMAIN arg' = Workers /\ \A u \in Workers : SoundArg(arg'[u])
           /\ \E m, q : /\ Goes(w, m, q) /\ Sound(m)
                        /\ BodyAt(setting, content, doing[w], m, q)
                        /\ ~InPieces(setting, content, my[w], todo[w])
  <1>1. Len(todo[w]) = 1 /\ ~InPieces(setting, content, my[w], todo[w])
    BY ReadsAreLast DEF Calls
  <1>2. long_tx(w, v) \/ alloc_tx(w, v) \/ short_tx(w, v) \/ one_read(w, v)
    BY <1>1 DEF Returned
  <1>3. Sound(my[w]) /\ SoundArg(arg[w])
    BY DEF LocalsFit
  <1>4. CASE long_tx(w, v)
    <2>1. doing[w] \in {"long", "final"} /\ setting.phase = "run" /\ arg' = arg
      BY <1>4 DEF long_tx, PhaseOf
    <2>2. LongAt(setting, content, my[w], todo[w])
      BY <2>1 DEF BodyAt
    <2>3. PICK m, q : Goes(w, m, q) /\ LongAt(setting, content, m, q) /\ Sound(m)
      BY <1>3, <1>4, <2>1, <2>2, LongReturns
    <2>4. BodyAt(setting, content, doing[w], m, q)
      BY <2>1, <2>3 DEF BodyAt
    <2> QED
      BY <1>1, <2>1, <2>3, <2>4 DEF LocalsFit
  <1>5. CASE alloc_tx(w, v)
    <2>1. doing[w] = "alloc" /\ setting.phase = "run" /\ arg' = arg
      BY <1>5 DEF alloc_tx, PhaseOf
    <2>2. AllocAt(setting, content, my[w], todo[w])
      BY <1>1, <2>1 DEF BodyAt
    <2>3. PICK m, q : Goes(w, m, q) /\ AllocAt(setting, content, m, q) /\ Sound(m)
      BY <1>1, <1>3, <1>5, <2>1, <2>2, AllocReturns
    <2>4. BodyAt(setting, content, doing[w], m, q)
      BY <2>1, <2>3 DEF BodyAt
    <2> QED
      BY <1>1, <2>1, <2>3, <2>4 DEF LocalsFit
  <1>6. CASE short_tx(w, v)
    <2>1. doing[w] = "short" /\ setting.phase = "run"
      BY <1>6 DEF short_tx, PhaseOf
    <2>2. ShortAt(setting, content, my[w], todo[w])
      BY <2>1 DEF BodyAt
    <2>3. PICK m, q : Goes(w, m, q) /\ ShortAt(setting, content, m, q) /\ Sound(m)
      BY <1>1, <1>3, <1>6, <2>1, <2>2, ShortReturns DEF SoundArg
    <2>4. BodyAt(setting, content, doing[w], m, q)
      BY <2>1, <2>3 DEF BodyAt
    <2>5. DOMAIN arg' = Workers /\ \A u \in Workers : SoundArg(arg'[u])
      BY <1>6, <2>1, ArgReturns DEF LocalsFit
    <2> QED
      BY <1>1, <2>3, <2>4, <2>5
  <1>7. CASE one_read(w, v)
    <2>1. doing[w] \in {"first", "verify", "last", "dec", "zero"} /\ setting.phase # "run"
      BY <1>7 DEF one_read, PhaseOf
    <2>2. OneReadAt(setting, content, doing[w], todo[w])
      BY <2>1 DEF BodyAt
    <2>3. PICK q : Goes(w, my[w], q) /\ OneReadAt(setting, content, doing[w], q)
      BY <1>3, <1>7, <2>1, <2>2, OneReadReturns
    <2>4. BodyAt(setting, content, doing[w], my[w], q)
      BY <2>1, <2>3 DEF BodyAt
    <2>5. DOMAIN arg' = Workers /\ \A u \in Workers : SoundArg(arg'[u])
      BY <1>7, <2>1, ArgReturns DEF LocalsFit
    <2> QED
      BY <1>1, <1>3, <2>3, <2>4, <2>5
  <1> QED
    BY <1>2, <1>4, <1>5, <1>6, <1>7
----------------------------------------------------------------------------
(* Between transactions: a worker starts the next one from the beginning,  *)
(* or has no calls to make.                                                *)
Handed(w) ==
    /\ \A u \in Workers \ {w} : doing'[u] = doing[u] /\ todo'[u] = todo[u] /\ my'[u] = my[u]
    /\ todo'[w] \in {<<>>, <<Begin>>}
    /\ LocalsFit' /\ setting.phase \in PhaseOf(doing'[w])

LEMMA SoundBeginnings ==
    /\ Sound(Locals) /\ SoundArg(NoArg)
    /\ \A t : SoundArg([NoArg EXCEPT !.trigger = t])
    /\ \A x, y \in Nat : SoundArg([NoArg EXCEPT !.send_id = x, !.recv_id = y])
  BY DEF Sound, SoundArg, Fields, Locals, NoArg

LEMMA HandsOver ==
    ASSUME Shapes, LocalsFit, NEW w \in Workers, NEW place, NEW q \in {<<>>, <<Begin>>}, NEW a,
           doing' = [doing EXCEPT ![w] = place], todo' = [todo EXCEPT ![w] = q],
           my' = [my EXCEPT ![w] = Locals], arg' = [arg EXCEPT ![w] = a], SoundArg(a),
           known' = known \/ known' = [known EXCEPT ![w] = my[w].count],
           setting.phase \in PhaseOf(place)
    PROVE  Handed(w)
  <1>1. /\ \A u \in Workers \ {w} : doing'[u] = doing[u] /\ todo'[u] = todo[u] /\ my'[u] = my[u]
        /\ todo'[w] = q /\ doing'[w] = place
    BY DEF Shapes, LocalsFit
  <1>2. DOMAIN my' = Workers /\ \A u \in Workers : Sound(my'[u])
    BY SoundBeginnings DEF LocalsFit
  <1>3. DOMAIN arg' = Workers /\ \A u \in Workers : SoundArg(arg'[u])
    BY DEF LocalsFit
  <1>4. DOMAIN known' = Workers /\ \A u \in Workers : known'[u] \in Int
    <2>1. my[w].count \in Int
      BY DEF LocalsFit, Sound
    <2> QED
      BY <2>1 DEF LocalsFit
  <1>5. LocalsFit'
    BY <1>2, <1>3, <1>4 DEF LocalsFit
  <1> QED
    BY <1>1, <1>5 DEF Handed

LEMMA RunHands ==
    ASSUME Shapes, LocalsFit, NEW w \in Workers, NEW t, NEW a, Run(w, t, a), SoundArg(a),
           known' = known \/ known' = [known EXCEPT ![w] = my[w].count],
           setting.phase \in PhaseOf(t)
    PROVE  Handed(w)
  BY HandsOver DEF Run

LEMMA LeavesHands ==
    ASSUME Shapes, LocalsFit, NEW w \in Workers, NEW place, Leaves(w, place),
           known' = known \/ known' = [known EXCEPT ![w] = my[w].count],
           setting.phase \in PhaseOf(place)
    PROVE  Handed(w)
  BY HandsOver, SoundBeginnings DEF Leaves

LEMMA DrawHands ==
    ASSUME Shapes, LocalsFit, NEW w \in Workers, NEW count \in Int, Draw(w, count),
           known' = known \/ known' = [known EXCEPT ![w] = my[w].count],
           setting.phase = "run"
    PROVE  Handed(w)
  <1>1. \A t \in {"long", "alloc", "short", "final"} : setting.phase \in PhaseOf(t)
    BY DEF PhaseOf
  <1>2. CASE Run(w, "long", NoArg)
    BY <1>1, <1>2, RunHands, SoundBeginnings
  <1>3. CASE \E t : Run(w, "alloc", [NoArg EXCEPT !.trigger = t])
    BY <1>1, <1>3, RunHands, SoundBeginnings
  <1>4. CASE \E x, y \in 0 .. count - 1 :
                 Run(w, "short", [NoArg EXCEPT !.send_id = x, !.recv_id = y])
    <2>1. PICK x \in 0 .. count - 1, y \in 0 .. count - 1 :
              Run(w, "short", [NoArg EXCEPT !.send_id = x, !.recv_id = y])
      BY <1>4
    <2>2. x \in Nat /\ y \in Nat
      OBVIOUS
    <2> QED
      BY <1>1, <2>1, <2>2, RunHands, SoundBeginnings
  <1> QED
    BY <1>2, <1>3, <1>4 DEF Draw

LEMMA Between ==
    ASSUME Shapes, LocalsFit, NEW w \in Workers, setting.phase \in PhaseOf(doing[w]),
           Ended(w) \/ Alone(w)
    PROVE  Handed(w) /\ setting' = setting
  <1>0. setting' = setting
    BY DEF Ended, Alone, StartPhase, Sync
  <1>1. setting.phase \in {"init", "run", "check"}
    BY SettingsAssumption DEF Shapes, SettingOK
  <1>2. setting.phase \in PhaseOf("done") /\ SoundArg(arg[w]) /\ known[w] \in Int
    BY <1>1 DEF PhaseOf, LocalsFit
  <1>3. ASSUME NEW ret, init(w, ret) PROVE Handed(w)
    <2>1. known' = known
      BY <1>3 DEF init
    <2>2. doing[w] \in {"init", "first"}
      BY <1>3 DEF init
    <2>3. setting.phase \in PhaseOf("first")
      BY <2>2 DEF PhaseOf
    <2> QED
      BY <1>2, <1>3, <2>1, <2>3, RunHands, LeavesHands, SoundBeginnings DEF init
  <1>4. ASSUME NEW ret, run(w, ret) PROVE Handed(w)
    <2>1. doing[w] \in {"long", "alloc", "short", "final"}
      BY <1>4 DEF run
    <2>2. setting.phase = "run" /\ setting.phase \in PhaseOf("final")
      BY <2>1 DEF PhaseOf
    <2>3. known' = known \/ known' = [known EXCEPT ![w] = my[w].count]
      BY <1>4 DEF run
    <2>4. known'[w] \in Int
      BY <2>3 DEF LocalsFit, Sound
    <2>5. CASE NextDraw(w)
      BY <2>2, <2>3, <2>4, <2>5, RunHands, DrawHands, SoundBeginnings DEF NextDraw
    <2>6. CASE \E x, y \in 0 .. known[w] - 1 :
                   Run(w, "short", [NoArg EXCEPT !.send_id = x, !.recv_id = y])
      <3>1. PICK x \in 0 .. known[w] - 1, y \in 0 .. known[w] - 1 :
                Run(w, "short", [NoArg EXCEPT !.send_id = x, !.recv_id = y])
        BY <2>6
      <3>2. x \in Nat /\ y \in Nat
        BY <1>2
      <3>3. setting.phase \in PhaseOf("short")
        BY <2>2 DEF PhaseOf
      <3> QED
        BY <2>3, <3>1, <3>2, <3>3, RunHands, SoundBeginnings
    <2>7. CASE Leaves(w, "done")
      BY <1>2, <2>3, <2>7, LeavesHands
    <2> QED
      BY <1>4, <2>5, <2>6, <2>7 DEF run
  <1>5. ASSUME NEW ret, check(w, ret) PROVE Handed(w)
    <2>1. doing[w] \in {"set", "verify", "last", "dec", "zero"} /\ known' = known
      BY <1>5 DEF check
    <2>2. \A t \in {"verify", "dec", "last", "sync"} : setting.phase \in PhaseOf(t)
      BY <2>1 DEF PhaseOf
    <2>3. \/ Run(w, "verify", NoArg) \/ Run(w, "dec", arg[w]) \/ Run(w, "last", NoArg)
          \/ Leaves(w, "sync") \/ Leaves(w, "done")
      BY <1>5 DEF check
    <2> QED
      BY <1>2, <2>1, <2>2, <2>3, RunHands, LeavesHands, SoundBeginnings
  <1> SUFFICES Handed(w)
    BY <1>0
  <1>6. CASE Ended(w)
    <2>1. CASE Leaves(w, "done") /\ known' = known
      BY <1>2, <2>1, LeavesHands
    <2> QED
      BY <1>3, <1>4, <1>5, <1>6, <2>1 DEF Ended
  <1>7. CASE StartPhase(w)
    <2>1. known' = known
      BY <1>7 DEF StartPhase
    <2>2. CASE setting.phase = "init" /\ Run(w, "init", NoArg)
      <3>1. setting.phase \in PhaseOf("init")
        BY <2>2 DEF PhaseOf
      <3> QED
        BY <2>1, <2>2, <3>1, RunHands, SoundBeginnings
    <2>3. CASE setting.phase = "run" /\ Draw(w, known[w])
      BY <1>2, <2>1, <2>3, DrawHands
    <2>4. CASE setting.phase = "check" /\ Leaves(w, "sync")
      <3>1. setting.phase \in PhaseOf("sync")
        BY <2>4 DEF PhaseOf
      <3> QED
        BY <2>1, <2>4, <3>1, LeavesHands
    <2> QED
      BY <1>7, <2>2, <2>3, <2>4 DEF StartPhase
  <1>8. CASE Sync(w)
    <2>1. known' = known /\ doing[w] = "sync"
      BY <1>8 DEF Sync
    <2>2. \A t \in {"set", "last", "zero", "sync"} : setting.phase \in PhaseOf(t)
      BY <2>1 DEF PhaseOf
    <2>3. \/ Run(w, "set", NoArg) \/ Run(w, "last", NoArg) \/ Run(w, "zero", NoArg)
          \/ Leaves(w, "sync") \/ Leaves(w, "done")
      BY <1>8 DEF Sync
    <2> QED
      BY <1>2, <2>1, <2>2, <2>3, RunHands, LeavesHands, SoundBeginnings
  <1> QED
    BY <1>6, <1>7, <1>8 DEF Alone
----------------------------------------------------------------------------
(* Whoever tm_begin lets in is at the beginning of its body.               *)
LEMMA InitCallsFinish ==
    ASSUME setting.nbaccounts \in Nat \ {0}, setting.phase # "run", Start \in DOMAIN content
    PROVE  Finishes(setting, content, InitCalls)
  <1> DEFINE n == setting.nbaccounts
             first == Write(Start, COUNT, n)
             account(i) == Write(Start, Account(i - 1), setting.init_balance)
             end == End(TRUE)
             S == {first, end} \cup {account(i) : i \in 1 .. n}
             each == [i \in 1 .. n |-> account(i)]
             some == <<first>> \o each
  <1>1. InitCalls = some \o <<end>> /\ n \in Nat
    BY DEF InitCalls
  <1>2. Harmless(setting, content, first)
    BY CallFields, ReadsOffsets DEF Harmless
  <1>3. end.do = "end" /\ Harmless(setting, content, end)
    <2>1. end.do = "end"
      BY CallFields
    <2> QED
      BY <2>1 DEF Harmless
  <1>4. ASSUME NEW i \in 1 .. n PROVE Harmless(setting, content, account(i))
    <2> DEFINE off == Account(i - 1)
    <2>1. i - 1 \in 0 .. n - 1
      OBVIOUS
    <2>2. off \in Offsets(setting) \ {COUNT, NEXT, PARITY}
      BY <2>1, ReadsOffsets
    <2> HIDE DEF off
    <2>3. \A v : Harmless(setting, content, Write(Start, off, v))
      BY <2>2, CallFields DEF Harmless
    <2> QED
      BY <2>3 DEF off
  <1>5. \A c \in S : Harmless(setting, content, c)
    BY <1>2, <1>3, <1>4
  <1> HIDE DEF n, first, account, end
  <1>6. each \in [1 .. n -> S] /\ first \in S /\ end \in S
    OBVIOUS
  <1> HIDE DEF S, each
  <1>7. /\ each \in Seq(S) /\ Len(each) = n
        /\ <<first>> \in Seq(S) /\ Len(<<first>>) = 1
        /\ <<end>> \in Seq(S) /\ Len(<<end>>) = 1 /\ <<end>>[1] = end
    BY <1>1, <1>6
  <1>8. some \in Seq(S) /\ Len(some) \in Nat
    <2>1. some \in Seq(S)
      BY ONLY <1>7, ConcatProperties
    <2> QED
      BY <2>1
  <1> HIDE DEF some
  <1> DEFINE k == Len(some)
             q == <<end>>
  <1>9. /\ InitCalls \in Seq(S) /\ Len(InitCalls) = k + 1 /\ InitCalls[k + 1] = end
    <2>1. q \in Seq(S) /\ Len(q) = 1 /\ q[1] = end
      BY <1>7
    <2> HIDE DEF q
    <2>2. /\ some \o q \in Seq(S) /\ Len(some \o q) = Len(some) + Len(q)
          /\ \A i \in 1 .. Len(some) + Len(q) :
                 (some \o q)[i] = IF i <= Len(some) THEN some[i] ELSE q[i - Len(some)]
      BY ONLY <1>8, <2>1, ConcatProperties
    <2>3. k + 1 \in 1 .. k + 1 /\ ~(k + 1 <= k) /\ k + 1 - k = 1
      BY <1>8
    <2>4. InitCalls = some \o q
      BY <1>1 DEF q
    <2> HIDE DEF k
    <2>5. (some \o q)[k + 1] = q[1]
      BY <2>1, <2>2, <2>3 DEF k
    <2> QED
      BY <2>1, <2>2, <2>4, <2>5 DEF k
  <1>10. \A i \in 1 .. Len(InitCalls) : InitCalls[i] \in S
    BY <1>9
  <1> QED
    BY <1>3, <1>5, <1>9, <1>10 DEF Finishes

LEMMA EntersAt ==
    ASSUME NEW w \in Workers, Enter(w), doing[w] \in Transactions,
           setting.phase \in PhaseOf(doing[w]), setting.nbaccounts \in Nat \ {0},
           Start \in DOMAIN content
    PROVE  \E q : Goes(w, Locals, q) /\ BodyAt(setting, content, doing[w], Locals, q)
  <1>1. /\ Locals.seg = Start /\ Locals.prev = Null /\ Locals.count = 0
        /\ Locals.segment_count = 0 /\ Locals.send_ptr = <<>> /\ Locals.recv_ptr = <<>>
        /\ ~Locals.sent
    BY DEF Locals
  <1>2. CASE doing[w] = "init"
    <2>1. setting.phase # "run"
      BY <1>2 DEF PhaseOf
    <2>2. Goes(w, Locals, InitCalls)
      BY <1>2 DEF Enter
    <2>3. BodyAt(setting, content, doing[w], Locals, InitCalls)
      BY <1>2, <2>1, InitCallsFinish DEF BodyAt
    <2> QED
      BY <2>2, <2>3
  <1>3. CASE doing[w] = "first"
    <2>1. Goes(w, Locals, <<Read(Start, Account(0))>>)
      BY <1>3 DEF Enter
    <2>2. BodyAt(setting, content, doing[w], Locals, <<Read(Start, Account(0))>>)
      BY <1>3, ReadsOffsets DEF BodyAt, OneReadAt
    <2> QED
      BY <2>1, <2>2
  <1>4. CASE doing[w] = "set"
    <2> DEFINE c == Write(Start, COUNT, InitCounter)
    <2>1. setting.phase # "run"
      BY <1>4 DEF PhaseOf
    <2>2. Goes(w, Locals, <<c, End(TRUE)>>)
      BY <1>4 DEF Enter
    <2>3. Harmless(setting, content, c)
      BY <2>1, CallFields, ReadsOffsets DEF Harmless
    <2>4. End(TRUE).do = "end"
      BY CallFields
    <2>5. Finishes(setting, content, <<c, End(TRUE)>>)
      BY <2>3, <2>4, FinishesWith
    <2> QED
      BY <1>4, <2>2, <2>5 DEF BodyAt
  <1>5. CASE doing[w] \notin {"init", "first", "set"}
    <2>1. Goes(w, Locals, <<Read(Start, COUNT)>>)
      BY <1>5 DEF Enter
    <2>2. BodyAt(setting, content, doing[w], Locals, <<Read(Start, COUNT)>>)
      <3>1. LongAt(setting, content, Locals, <<Read(Start, COUNT)>>)
        BY <1>1, ReadsOffsets DEF LongAt
      <3>2. AllocAt(setting, content, Locals, <<Read(Start, COUNT)>>)
        BY <1>1 DEF AllocAt, Placed
      <3>3. ShortAt(setting, content, Locals, <<Read(Start, COUNT)>>)
        BY <1>1 DEF ShortAt, Pointer
      <3>4. OneReadAt(setting, content, doing[w], <<Read(Start, COUNT)>>)
        BY ReadsOffsets DEF OneReadAt
      <3> QED
        BY <1>5, <3>1, <3>2, <3>3, <3>4 DEF BodyAt
    <2> QED
      BY <2>1, <2>2
  <1> QED
    BY <1>2, <1>3, <1>4, <1>5
----------------------------------------------------------------------------
(* A worker that is inside, or calls the library, is not done.             *)
LEMMA NotAllDone ==
    ASSUME NEW w \in Workers, doing[w] # "done"
    PROVE  ~AllDone
  BY DEF AllDone

(* A step of w that leaves the segments alone.                             *)
LEMMA QuietStep ==
    ASSUME LinksInv, NEW w \in Workers, UNCHANGED <<setting, content, node, allocs>>,
           \A u \in Workers \ {w} :
               doing'[u] = doing[u] /\ todo'[u] = todo[u] /\ my'[u] = my[u],
           setting.phase \in PhaseOf(doing'[w]),
           Inside(w)' => BodyAt(setting, content, doing'[w], my'[w], todo'[w]),
           ~Splits(w), doing[w] # "done"
    PROVE  BodiesFit' /\ PhasesFit' /\ AccountsFit' /\ ListFits'
  <1>1. BodiesFit'
    <2>1. ASSUME NEW u \in Workers, Inside(u)'
          PROVE  BodyAt(setting, content, doing'[u], my'[u], todo'[u])
      <3>1. CASE u = w
        BY <2>1, <3>1
      <3>2. CASE u # w
        <4>1. doing'[u] = doing[u] /\ todo'[u] = todo[u] /\ my'[u] = my[u]
          BY <3>2
        <4>2. Inside(u)
          BY <2>1, <4>1 DEF Inside
        <4> QED
          BY <4>1, <4>2 DEF LinksInv, BodiesFit
      <3> QED
        BY <3>1, <3>2
    <2> QED
      BY <2>1 DEF BodiesFit
  <1>2. PhasesFit'
    BY DEF LinksInv, PhasesFit
  <1>3. ~AllDone
    BY NotAllDone
  <1>4. AccountsFit'
    <2>1. Region \in DOMAIN content /\ (Whole(setting, content) \/ \E u \in Workers : Splits(u))
      BY <1>3 DEF LinksInv, AccountsFit
    <2>2. ASSUME NEW u \in Workers, Splits(u) PROVE Splits(u)'
      <3>1. u # w
        BY <2>2
      <3>2. doing'[u] = doing[u] /\ todo'[u] = todo[u] /\ my'[u] = my[u]
        BY <3>1
      <3> QED
        BY <2>2, <3>2 DEF Splits
    <2> QED
      BY <2>1, <2>2 DEF AccountsFit
  <1>5. ListFits'
    BY <1>3 DEF LinksInv, ListFits, WellLinked
  <1> QED
    BY <1>1, <1>2, <1>4, <1>5

(* On the dual-versioned memory there is one segment, and nothing to put   *)
(* together.                                                               *)
LEMMA DualWhole ==
    ASSUME LinksInv, OnDual, NEW u \in Workers
    PROVE  /\ ~Splits(u)
           /\ DOMAIN content = {Region} /\ DOMAIN content[Region] = Offsets(setting)
           /\ setting.phase = "run" => content[Region][NEXT] = Null
  <1>1. DOMAIN content = {Region} /\ DOMAIN content[Region] = Offsets(setting)
    BY DEF LinksInv, DualFit, FirstSegment, Offsets
  <1>2. ASSUME setting.phase = "run" PROVE content[Region][NEXT] = Null
    <2>1. setting.nbaccounts \in Nat \ {0}
      BY SettingIs DEF LinksInv, BankInv
    <2>2. NEXT \in Offsets(setting)
      BY <2>1, ReadsOffsets
    <2> QED
      BY <1>2, <2>2 DEF LinksInv, DualFit, FirstSegment, Offsets, Null
  <1>3. ASSUME Splits(u) PROVE FALSE
    <2>1. setting.phase = "run"
      BY <1>3 DEF Splits, LinksInv, PhasesFit, PhaseOf
    <2> QED
      BY <1>1, <1>2, <1>3, <2>1 DEF Splits, InPieces
  <1> QED
    BY <1>1, <1>2, <1>3

(* Only alloc_tx, with the lock held alone, has the chain in pieces: to    *)
(* everybody else who is inside it is whole.                               *)
LEMMA WholeToOthers ==
    ASSUME LinksInv, NEW w \in Workers, Inside(w), ~Splits(w)
    PROVE  Whole(setting, content)
  <1>1. ~AllDone
    BY NotAllDone DEF Inside, Transactions
  <1>2. ASSUME NEW u \in Workers, Splits(u) PROVE FALSE
    <2>1. u # w /\ doing[u] = "alloc"
      BY <1>2 DEF Splits
    <2>2. CASE OnReference
      <3>1. todo[u] # <<Begin>>
        <4>1. \A b, c : <<b, c>> # <<Begin>>
          BY FewCalls
        <4>2. \A b, c, d : <<b, c, d>> # <<Begin>>
          BY FewCalls
        <4>3. \A b, c, d, e : <<b, c, d, e>> # <<Begin>>
          BY FewCalls
        <4> QED
          BY <1>2, <4>1, <4>2, <4>3 DEF Splits, InPieces
      <3>2. Inside(u) /\ doing[u] \notin ReadOnly
        BY <2>1, <3>1 DEF Inside, Transactions, ReadOnly
      <3>3. writer = u
        BY <2>2, <3>2 DEF LinksInv, LockHeld
      <3>4. writer = w \/ readers # {}
        BY <2>2 DEF LinksInv, LockHeld
      <3> QED
        BY <2>1, <3>3, <3>4, NoWriterAssumption DEF LinksInv, BankInv, LockFits
    <2>3. CASE OnDual
      BY <1>2, <2>3, DualWhole
    <2> QED
      BY <2>2, <2>3, SettingIs DEF LinksInv, BankInv, OnReference, OnDual
  <1> QED
    BY <1>1, <1>2 DEF LinksInv, AccountsFit

(* Inside, a body is where it may be; its queue has a first call.          *)
LEMMA InsideIs ==
    ASSUME LinksInv, NEW w \in Workers, NEW what, what # "begin", Calls(w, what)
    PROVE  /\ Inside(w) /\ doing[w] \in Transactions /\ doing[w] # "done"
           /\ BodyAt(setting, content, doing[w], my[w], todo[w])
           /\ Queue(todo[w]) /\ Len(todo[w]) \in Nat \ {0}
           /\ setting.phase \in PhaseOf(doing[w]) /\ setting.nbaccounts \in Nat \ {0}
           /\ Start \in DOMAIN content /\ Null \notin DOMAIN content /\ Start = Region
           /\ ~AllDone
  <1>1. doing[w] \in Transactions
    BY CallsInTransaction DEF LinksInv, BankInv
  <1>2. todo[w] # <<Begin>>
    <2>1. Head(<<Begin>>).do = "begin"
      BY FewCalls, CallFields
    <2> QED
      BY <2>1 DEF Calls
  <1>3. Inside(w) /\ doing[w] # "done"
    BY <1>1, <1>2 DEF Inside, Transactions
  <1>4. ~AllDone /\ Start = Region
    BY <1>3, NotAllDone DEF Start, Region
  <1>5. setting.nbaccounts \in Nat \ {0}
    BY SettingIs DEF LinksInv, BankInv
  <1>6. Queue(todo[w]) /\ Len(todo[w]) \in Nat \ {0}
    BY <1>1, <1>5 DEF LinksInv, BankInv, WorkersFit, Fits
  <1>7. Start \in DOMAIN content
    BY <1>4 DEF LinksInv, AccountsFit
  <1>8. Null \notin DOMAIN content
    BY DEF LinksInv, BankInv, LockFits, Null
  <1> QED
    BY <1>1, <1>3, <1>4, <1>5, <1>6, <1>7, <1>8 DEF LinksInv, BodiesFit, PhasesFit
----------------------------------------------------------------------------
(* A call leads into a segment of the chain; only where there may be other *)
(* segments is the next one asked for, and never is the first one freed.   *)
Leads(s, C, c) ==
    /\ c.do \in {"read", "write", "free"} => c.seg \in DOMAIN C
    /\ c.do \in {"read", "write"} => c.off \in Offsets(s)
    /\ c.do = "free" => c.seg # Region
    /\ c.do = "read" /\ c.off = NEXT => s.phase = "run"

LEMMA CallsLead ==
    ASSUME NEW s, NEW C, NEW place \in Transactions, NEW m, NEW q, Queue(q),
           Len(q) \in Nat \ {0}, BodyAt(s, C, place, m, q), s.nbaccounts \in Nat \ {0},
           Start \in DOMAIN C, s.phase \in PhaseOf(place)
    PROVE  Leads(s, C, Head(q))
  <1> DEFINE c == Head(q)
  <1>1. CASE Finishes(s, C, q)
    BY <1>1, FirstHarmless DEF Harmless, Leads
  <1>2. CASE LastCall(q)
    <2>1. c = q[1]
      BY <1>2, FewCalls DEF LastCall
    <2> QED
      BY <1>2, <2>1 DEF LastCall, Leads
  <1>3. ASSUME NEW x \in DOMAIN C, NEW off \in Offsets(s), NEW a, a = Read(x, off),
               off = NEXT => s.phase = "run"
        PROVE  Leads(s, C, a)
    BY <1>3, CallFields DEF Leads
  <1>4. ASSUME NEW x \in DOMAIN C, NEW off \in Offsets(s), NEW v PROVE Leads(s, C, Write(x, off, v))
    BY CallFields DEF Leads
  <1>5. /\ COUNT \in Offsets(s) /\ NEXT \in Offsets(s) /\ PARITY \in Offsets(s)
        /\ COUNT # NEXT /\ PARITY # NEXT
    BY ReadsOffsets
  <1>6. place \in {"long", "final", "alloc", "short"} => s.phase = "run"
    BY DEF PhaseOf
  <1>7. CASE place \in {"long", "final"}
    <2>1. CASE m.seg \in DOMAIN C /\ \E off \in Offsets(s) : q = <<Read(m.seg, off)>>
      <3>1. PICK off \in Offsets(s) : q = <<Read(m.seg, off)>>
        BY <2>1
      <3>2. c = Read(m.seg, off)
        BY <3>1, FewCalls
      <3> QED
        BY <1>3, <1>6, <1>7, <2>1, <3>2
    <2> QED
      BY <1>2, <1>7, <2>1 DEF BodyAt, LongAt
  <1>8. CASE place = "alloc"
    <2>1. CASE AllocAt(s, C, m, q)
      <3>0. /\ Placed(C, m) => m.seg \in DOMAIN C /\ (m.prev # Null => m.prev \in DOMAIN C /\ m.seg # Region)
            /\ \A a : q = <<a>> => c = a
            /\ \A a, b, d : q = <<a, b, d>> => c = a
        BY FewCalls DEF Placed
      <3>1. CASE Placed(C, m) /\ (q = <<Read(m.seg, COUNT)>> \/ q = <<Read(m.seg, NEXT)>>
                                  \/ q = <<Read(m.seg, PARITY)>>)
        BY <1>3, <1>5, <1>6, <1>8, <3>0, <3>1
      <3>2. CASE /\ Placed(C, m) /\ m.segment_count \in Counts(s)
                 /\ q = <<Read(m.seg, Account(m.segment_count - 1))>>
        <4>1. m.segment_count - 1 \in 0 .. s.nbaccounts - 1
          BY <3>2 DEF Counts
        <4> DEFINE off == Account(m.segment_count - 1)
        <4>2. off \in Offsets(s)
          BY <4>1, ReadsOffsets
        <4> HIDE DEF off
        <4>3. c = Read(m.seg, off)
          BY <3>0, <3>2 DEF off
        <4> QED
          BY <1>3, <1>6, <1>8, <3>0, <3>2, <4>2, <4>3
      <3>3. CASE m.prev \in DOMAIN C /\ (q = <<Read(m.prev, NEXT)>> \/ q = <<Read(m.prev, PARITY)>>)
        BY <1>3, <1>5, <1>6, <1>8, <3>0, <3>3
      <3>4. CASE /\ Placed(C, m) /\ m.prev # Null
                 /\ q = <<Free(m.seg), Write(m.prev, NEXT, Null), Read(m.prev, PARITY)>>
        <4>1. c = Free(m.seg)
          BY <3>0, <3>4
        <4> QED
          BY <3>0, <3>4, <4>1, CallFields DEF Leads
      <3>5. CASE q = <<Alloc>>
        BY <3>0, <3>5, CallFields DEF Leads
      <3> QED
        BY <1>1, <2>1, <3>0, <3>1, <3>2, <3>3, <3>4, <3>5 DEF AllocAt
    <2>2. CASE InPieces(s, C, m, q)
      <3>1. /\ \A a, b : q = <<a, b>> => c = a
            /\ \A a, b, d : q = <<a, b, d>> => c = a
            /\ \A a, b, d, e : q = <<a, b, d, e>> => c = a
        BY FewCalls
      <3>2. \E x \in DOMAIN C, off \in Offsets(s) : \E v : c = Write(x, off, v)
        BY <1>5, <2>2, <3>1 DEF InPieces
      <3> QED
        BY <1>4, <3>2
    <2> QED
      BY <1>8, <2>1, <2>2 DEF BodyAt
  <1>9. CASE place = "short"
    <2>0. /\ \A a : q = <<a>> => c = a
          /\ \A a, b : q = <<a, b>> => c = a
      BY FewCalls
    <2>1. ASSUME NEW p, Pointer(s, C, p), p # <<>>
          PROVE  Leads(s, C, ReadAt(p)) /\ \A v : Leads(s, C, WriteAt(p, v))
      <3>1. PICK x \in DOMAIN C, off \in Offsets(s) \ {COUNT, NEXT, PARITY} : p = <<x, off>>
        BY <2>1 DEF Pointer
      <3>2. ReadAt(p) = Read(x, off) /\ \A v : WriteAt(p, v) = Write(x, off, v)
        BY <3>1 DEF ReadAt, WriteAt
      <3> QED
        BY <1>3, <1>4, <3>1, <3>2
    <2>2. CASE m.seg \in DOMAIN C /\ (q = <<Read(m.seg, COUNT)>> \/ q = <<Read(m.seg, NEXT)>>)
      BY <1>3, <1>5, <1>6, <1>9, <2>0, <2>2
    <2>3. CASE \/ /\ Pointer(s, C, m.send_ptr) /\ m.send_ptr # <<>>
                  /\ q = <<ReadAt(m.send_ptr)>>
                     \/ q = <<WriteAt(m.send_ptr, q[1].val), ReadAt(m.recv_ptr)>>
               \/ /\ Pointer(s, C, m.recv_ptr) /\ m.recv_ptr # <<>>
                  /\ q = <<ReadAt(m.recv_ptr)>>
      BY <2>0, <2>1, <2>3
    <2> QED
      BY <1>1, <1>9, <2>2, <2>3 DEF BodyAt, ShortAt
  <1>10. CASE place \in {"init", "set"}
    BY <1>1, <1>10 DEF BodyAt
  <1>11. CASE place \in {"first", "verify", "last", "dec", "zero"}
    <2>1. CASE \E off \in Offsets(s) \ {NEXT} : q = <<Read(Start, off)>>
      <3>1. PICK off \in Offsets(s) \ {NEXT} : c = Read(Start, off)
        BY <2>1, FewCalls
      <3> QED
        BY <1>3, <3>1
    <2> QED
      BY <1>1, <1>2, <1>11, <2>1 DEF BodyAt, OneReadAt
  <1> QED
    BY <1>7, <1>8, <1>9, <1>10, <1>11 DEF Transactions

(* What is left for the others when w goes on.                             *)
LEMMA GoesOnly ==
    ASSUME Shapes, LocalsFit, NEW w \in Workers, NEW m, NEW q, Goes(w, m, q), Sound(m),
           DOMAIN arg' = Workers, \A u \in Workers : SoundArg(arg'[u])
    PROVE  /\ setting' = setting /\ doing' = doing
           /\ my'[w] = m /\ todo'[w] = q
           /\ \A u \in Workers \ {w} : todo'[u] = todo[u] /\ my'[u] = my[u]
           /\ LocalsFit'
  <1>1. /\ my' = [my EXCEPT ![w] = m] /\ todo' = [todo EXCEPT ![w] = q]
        /\ setting' = setting /\ doing' = doing /\ known' = known
    BY DEF Goes
  <1>2. DOMAIN my = Workers /\ DOMAIN todo = Workers
    BY DEF LocalsFit, Shapes
  <1>3. my'[w] = m /\ todo'[w] = q
    BY <1>1, <1>2
  <1>4. \A u \in Workers \ {w} : todo'[u] = todo[u] /\ my'[u] = my[u]
    BY <1>1, <1>2
  <1>5. LocalsFit'
    BY <1>1, <1>2, <1>3, <1>4 DEF LocalsFit
  <1> QED
    BY <1>1, <1>3, <1>4, <1>5

(* The lock goes on being held by those inside.                            *)
LEMMA LockKept ==
    ASSUME LinksInv, setting' = setting, doing' = doing, writer' = writer, readers' = readers,
           \A u \in Workers : Inside(u)' => Inside(u)
    PROVE  LockHeld'
  BY DEF LinksInv, LockHeld, OnReference

(* A read returns, on either memory.                                       *)
LEMMA ReadReturns ==
    ASSUME LinksInv, NEW w \in Workers, NEW v, Returned(w, v), Calls(w, "read"),
           Returns(setting, content, Pending(w), v), UNCHANGED <<content, node, allocs>>
    PROVE  /\ setting' = setting /\ doing' = doing
           /\ \A u \in Workers \ {w} : todo'[u] = todo[u]
           /\ \A u \in Workers : Inside(u)' => Inside(u)
           /\ BodiesFit' /\ LocalsFit' /\ PhasesFit' /\ AccountsFit' /\ ListFits'
  <1>1. /\ Inside(w) /\ doing[w] \in Transactions /\ doing[w] # "done"
        /\ BodyAt(setting, content, doing[w], my[w], todo[w])
        /\ Queue(todo[w]) /\ Len(todo[w]) \in Nat \ {0}
        /\ setting.phase \in PhaseOf(doing[w]) /\ setting.nbaccounts \in Nat \ {0}
        /\ Start \in DOMAIN content /\ Null \notin DOMAIN content
    <2>1. "read" # "begin"
      OBVIOUS
    <2> QED
      BY <2>1, InsideIs
  <1>2. ~Splits(w)
    <2>1. ~InPieces(setting, content, my[w], todo[w])
      BY <1>1, ReadsAreLast DEF Calls
    <2> QED
      BY <2>1 DEF Splits
  <1>3. Whole(setting, content)
    BY <1>1, <1>2, WholeToOthers
  <1>4. Shapes /\ LocalsFit
    BY DEF LinksInv, BankInv
  <1>5. /\ DOMAIN arg' = Workers /\ \A u \in Workers : SoundArg(arg'[u])
        /\ \E m, q : /\ Goes(w, m, q) /\ Sound(m)
                     /\ BodyAt(setting, content, doing[w], m, q)
    BY <1>1, <1>3, <1>4, ReadGoesOn
  <1>6. PICK m, q : Goes(w, m, q) /\ Sound(m) /\ BodyAt(setting, content, doing[w], m, q)
    BY <1>5
  <1>7. /\ setting' = setting /\ doing' = doing /\ my'[w] = m /\ todo'[w] = q
        /\ \A u \in Workers \ {w} : todo'[u] = todo[u] /\ my'[u] = my[u]
        /\ LocalsFit'
    BY <1>4, <1>5, <1>6, GoesOnly
  <1>8. BodiesFit' /\ PhasesFit' /\ AccountsFit' /\ ListFits'
    BY <1>1, <1>2, <1>6, <1>7, QuietStep
  <1>9. ASSUME NEW u \in Workers, Inside(u)' PROVE Inside(u)
    BY <1>1, <1>7, <1>9 DEF Inside
  <1> QED
    BY <1>7, <1>8, <1>9
----------------------------------------------------------------------------
(* At the beginning of a phase all accounts are in the first segment.      *)
LEMMA InitLinks == Init => LinksInv
  <1> SUFFICES ASSUME Init PROVE LinksInv
    OBVIOUS
  <1>1. BankInv
    BY InitFits
  <1>2. /\ setting \in Settings /\ setting.nbaccounts \in Nat \ {0}
        /\ setting.phase \in {"init", "run", "check"}
    BY <1>1, SettingIs, SettingsAssumption DEF BankInv, Shapes, SettingOK
  <1>3. \A w \in Workers : doing[w] \in {"start", "done"} /\ ~Inside(w)
    BY DEF Init, BankInit, Inside, Transactions
  <1>4. BodiesFit /\ LockHeld
    BY <1>3 DEF BodiesFit, LockHeld
  <1>5. LocalsFit
    <2>1. /\ DOMAIN my = Workers /\ DOMAIN arg = Workers /\ DOMAIN known = Workers
          /\ \A w \in Workers : my[w] = Locals /\ arg[w] = NoArg /\ known[w] = setting.nbaccounts
      BY DEF Init, BankInit
    <2>2. Sound(Locals) /\ SoundArg(NoArg)
      BY SoundBeginnings
    <2>3. setting.nbaccounts \in Int
      BY <1>2
    <2> QED
      BY <2>1, <2>2, <2>3 DEF LocalsFit
  <1>6. PhasesFit
    BY <1>2, <1>3 DEF PhasesFit, PhaseOf
  <1>7. /\ DOMAIN content = {Region} /\ content[Region] = FirstSegment /\ node = <<>>
        /\ allocs = NULL /\ content = [x \in {Region} |-> FirstSegment]
    BY DEF Init, ReferenceInit
  <1>8. /\ DOMAIN FirstSegment = Offsets(setting)
        /\ FirstSegment[NEXT] = Null
        /\ setting.phase = "run" => FirstSegment[COUNT] \in Counts(setting)
    <2>1. NEXT \in Offsets(setting) /\ COUNT \in Offsets(setting) /\ COUNT \notin {NEXT, PARITY}
      BY <1>2, ReadsOffsets
    <2>2. DOMAIN FirstSegment = Offsets(setting) /\ FirstSegment[NEXT] = Null
      BY <2>1 DEF FirstSegment, Offsets, Null
    <2>3. ASSUME setting.phase = "run" PROVE FirstSegment[COUNT] = setting.nbaccounts
      BY <2>1, <2>3 DEF FirstSegment, Offsets
    <2> QED
      BY <1>2, <2>2, <2>3 DEF Counts
  <1>9. AccountsFit
    <2>1. Null # Region
      BY DEF Null, Region
    <2> QED
      BY <1>7, <1>8, <2>1 DEF AccountsFit, Whole, Chain
  <1>10. ListFits
    BY <1>7 DEF ListFits, WellLinked
  <1>11. DualFit
    <2>1. ASSUME OnDual
          PROVE  /\ words_array_A = FirstSegment /\ words_array_B = FirstSegment
                 /\ Offsets(setting) = Words
      BY <1>2, <2>1, OneSegmentAssumption DEF Init, DualInit, OnDual, Offsets, Words
    <2>2. \A w \in Workers : op[w].at = "not running"
      BY SameThreadsAssumption DEF Init, DualInit, NotRunning
    <2>3. \A w \in Workers : CallIs(w, op[w].at)
      BY <2>2 DEF CallIs
    <2>4. DOMAIN target = Workers
      BY SameThreadsAssumption DEF Init, DualInit
    <2> QED
      BY <1>7, <1>8, <2>1, <2>3, <2>4 DEF DualFit, HeaderFits
  <1> QED
    BY <1>1, <1>4, <1>5, <1>6, <1>9, <1>10, <1>11 DEF LinksInv
----------------------------------------------------------------------------
(* The chain is in pieces only where the next call writes.                 *)
LEMMA PiecesWrite ==
    ASSUME NEW w \in Workers, Splits(w)
    PROVE  Calls(w, "write")
  <1>1. \A x, off, v, b : Head(<<Write(x, off, v), b>>).do = "write"
    BY FewCalls, CallFields
  <1>2. \A x, off, v, b, c : Head(<<Write(x, off, v), b, c>>).do = "write"
    BY FewCalls, CallFields
  <1>3. \A x, off, v, b, c, d : Head(<<Write(x, off, v), b, c, d>>).do = "write"
    BY FewCalls, CallFields
  <1>4. \A b, c : <<b, c>> # <<>>
    BY FewCalls
  <1>5. \A b, c, d : <<b, c, d>> # <<>>
    BY FewCalls
  <1>6. \A b, c, d, e : <<b, c, d, e>> # <<>>
    BY FewCalls
  <1>7. todo[w] # <<>> /\ Head(todo[w]).do = "write"
    <2>1. \/ \E x, off, v, b : todo[w] = <<Write(x, off, v), b>>
          \/ \E x, off, v, b, c : todo[w] = <<Write(x, off, v), b, c>>
          \/ \E x, off, v, b, c, d : todo[w] = <<Write(x, off, v), b, c, d>>
      BY DEF Splits, InPieces
    <2> QED
      BY <1>1, <1>2, <1>3, <1>4, <1>5, <1>6, <2>1
  <1> QED
    BY <1>7 DEF Calls

(* A worker that leaves its transaction behind is not inside.              *)
LEMMA HandedOutside ==
    ASSUME BankInv', NEW w \in Workers, Handed(w)
    PROVE  /\ ~Inside(w)'
           /\ \A u \in Workers : Inside(u)' => u # w /\ Inside(u)
  <1>1. ~Inside(w)'
    <2>1. CASE todo'[w] = <<Begin>>
      BY <2>1 DEF Inside
    <2>2. CASE todo'[w] = <<>>
      <3>1. Fits(setting', doing'[w], todo'[w], cntr'[w], passed'[w])
        BY DEF BankInv, WorkersFit
      <3>2. setting'.nbaccounts \in Nat
        BY SettingsAssumption DEF BankInv, Shapes, SettingOK
      <3> QED
        BY <2>2, <3>1, <3>2, FewCalls DEF Fits, Inside
    <2> QED
      BY <2>1, <2>2 DEF Handed
  <1> QED
    BY <1>1 DEF Handed, Inside

LEMMA HandsQuietly ==
    ASSUME LinksInv, BankInv', NEW w \in Workers, Handed(w), setting' = setting,
           UNCHANGED <<content, node, allocs>>, ~Splits(w), doing[w] # "done"
    PROVE  BodiesFit' /\ LocalsFit' /\ PhasesFit' /\ AccountsFit' /\ ListFits'
  <1>1. /\ \A u \in Workers \ {w} :
               doing'[u] = doing[u] /\ todo'[u] = todo[u] /\ my'[u] = my[u]
        /\ LocalsFit' /\ setting.phase \in PhaseOf(doing'[w])
    BY DEF Handed
  <1>2. ~Inside(w)'
    BY HandedOutside
  <1> QED
    BY <1>1, <1>2, QuietStep

(* The words of the dual-versioned memory do not matter to the other one.  *)
LEMMA NotDual ==
    ASSUME OnReference, setting' = setting
    PROVE  DualFit'
  BY DEF OnReference, DualFit, OnDual

LEMMA ReferenceBeginLinks ==
    ASSUME LinksInv, BankInv', NEW w \in Workers, ReferenceBegin(w)
    PROVE  LinksInv'
  <1>1. /\ OnReference /\ Calls(w, "begin") /\ Enter(w) /\ RefBegin(w, doing[w] \in ReadOnly)
        /\ arg' = arg
    BY DEF ReferenceBegin, ReferenceCalls, Enter
  <1>2. Shapes /\ WorkersFit /\ LocalsFit /\ LockFits
    BY DEF LinksInv, BankInv
  <1>3. doing[w] \in Transactions /\ doing[w] # "done"
    <2>1. doing[w] \in Transactions
      BY <1>1, <1>2, CallsInTransaction
    <2> QED
      BY <2>1 DEF Transactions
  <1>4. setting.phase \in PhaseOf(doing[w]) /\ setting.nbaccounts \in Nat \ {0}
    BY <1>2, SettingIs DEF LinksInv, PhasesFit
  <1>5. Start \in DOMAIN content
    BY <1>3, NotAllDone DEF LinksInv, AccountsFit, Start, Region
  <1>6. PICK q : Goes(w, Locals, q) /\ BodyAt(setting, content, doing[w], Locals, q)
    BY <1>1, <1>3, <1>4, <1>5, EntersAt
  <1>7. /\ setting' = setting /\ doing' = doing /\ my'[w] = Locals /\ todo'[w] = q
        /\ \A u \in Workers \ {w} : todo'[u] = todo[u] /\ my'[u] = my[u]
        /\ LocalsFit'
    <2>1. DOMAIN arg' = Workers /\ \A u \in Workers : SoundArg(arg'[u])
      BY <1>1, <1>2 DEF LocalsFit
    <2>2. Sound(Locals)
      BY SoundBeginnings
    <2> QED
      BY <1>2, <1>6, <2>1, <2>2, GoesOnly
  <1>8. ~Splits(w)
    BY <1>1, PiecesWrite DEF Calls
  <1>9. UNCHANGED <<content, node, allocs>>
    BY <1>1 DEF RefBegin
  <1>10. BodiesFit' /\ PhasesFit' /\ AccountsFit' /\ ListFits'
    BY <1>3, <1>4, <1>6, <1>7, <1>8, <1>9, QuietStep
  <1>11. LockHeld'
    <2>1. ASSUME NEW u \in Workers \ {w}, Inside(u)'
          PROVE  IF doing[u] \in ReadOnly THEN u \in readers ELSE writer = u
      BY <1>1, <1>7, <2>1 DEF Inside, LinksInv, LockHeld
    <2>2. CASE doing[w] \in ReadOnly
      BY <1>1, <1>7, <2>1, <2>2 DEF RefBegin, shared_lock_acquire_shared, LockHeld
    <2>3. CASE doing[w] \notin ReadOnly
      <3>1. writer = NoWriter /\ readers = {} /\ writer' = w /\ readers' = readers
        BY <1>1, <2>3 DEF RefBegin, shared_lock_acquire
      <3> QED
        BY <1>7, <2>1, <2>3, <3>1, NoWriterAssumption DEF LockHeld
    <2> QED
      BY <2>2, <2>3
  <1> QED
    BY <1>1, <1>7, <1>10, <1>11, NotDual DEF LinksInv

LEMMA ReferenceReadLinks ==
    ASSUME LinksInv, BankInv', NEW w \in Workers, ReferenceRead(w)
    PROVE  LinksInv'
  <1> DEFINE c == Pending(w)
             v == RefReads(c.seg, c.off)
  <1>1. /\ OnReference /\ Calls(w, "read") /\ Returned(w, v) /\ UNCHANGED referenceVars
    BY DEF ReferenceRead, ReferenceCalls
  <1>2. /\ Inside(w) /\ doing[w] \in Transactions /\ doing[w] # "done"
        /\ BodyAt(setting, content, doing[w], my[w], todo[w])
        /\ Queue(todo[w]) /\ Len(todo[w]) \in Nat \ {0}
        /\ setting.phase \in PhaseOf(doing[w]) /\ setting.nbaccounts \in Nat \ {0}
        /\ Start \in DOMAIN content
    <2>1. "read" # "begin"
      OBVIOUS
    <2> QED
      BY <1>1, <2>1, InsideIs
  <1>3. c.seg \in DOMAIN content
    <2>1. Leads(setting, content, c)
      BY <1>2, CallsLead DEF Pending
    <2> QED
      BY <1>1, <2>1 DEF Leads, Calls, Pending
  <1>4. Whole(setting, content)
    <2>1. ~Splits(w)
      BY <1>1, PiecesWrite DEF Calls
    <2> QED
      BY <1>2, <2>1, WholeToOthers
  <1>5. Returns(setting, content, c, v)
    BY <1>3, <1>4 DEF Returns, RefReads, Whole, Chain
  <1>6. UNCHANGED <<content, node, allocs, writer, readers>>
    BY <1>1 DEF referenceVars
  <1> HIDE DEF v
  <1>7. /\ setting' = setting /\ doing' = doing
        /\ \A u \in Workers : Inside(u)' => Inside(u)
        /\ BodiesFit' /\ LocalsFit' /\ PhasesFit' /\ AccountsFit' /\ ListFits'
    BY <1>1, <1>5, <1>6, ReadReturns
  <1>8. LockHeld'
    BY <1>6, <1>7, LockKept
  <1> QED
    BY <1>1, <1>7, <1>8, NotDual DEF LinksInv

LEMMA ReferenceAllocFailsLinks ==
    ASSUME LinksInv, BankInv', NEW w \in Workers, ReferenceAllocFails(w)
    PROVE  LinksInv'
  <1> DEFINE q == <<EndThrowing>>
  <1>1. /\ OnReference /\ Calls(w, "alloc") /\ Goes(w, my[w], q) /\ arg' = arg
        /\ UNCHANGED <<content, node, allocs, writer, readers>>
    BY DEF ReferenceAllocFails, ReferenceCalls, Unwound, RefAllocFails, referenceVars
  <1>2. /\ Inside(w) /\ doing[w] \in Transactions /\ doing[w] # "done"
        /\ setting.phase \in PhaseOf(doing[w])
    <2>1. "alloc" # "begin"
      OBVIOUS
    <2> QED
      BY <1>1, <2>1, InsideIs
  <1>3. BodyAt(setting, content, doing[w], my[w], q)
    <2>1. LastCall(q)
      BY FewCalls, CallFields DEF LastCall
    <2>2. Finishes(setting, content, q)
      BY CallFields, FinishesWith
    <2> HIDE DEF q
    <2> QED
      BY <2>1, <2>2 DEF BodyAt, LongAt, AllocAt, ShortAt, OneReadAt
  <1> HIDE DEF q
  <1>4. /\ setting' = setting /\ doing' = doing /\ my'[w] = my[w] /\ todo'[w] = q
        /\ \A u \in Workers \ {w} : todo'[u] = todo[u] /\ my'[u] = my[u]
        /\ LocalsFit'
    <2>1. Shapes /\ LocalsFit /\ Sound(my[w])
      BY DEF LinksInv, BankInv, LocalsFit
    <2>2. DOMAIN arg' = Workers /\ \A u \in Workers : SoundArg(arg'[u])
      BY <1>1, <2>1 DEF LocalsFit
    <2> QED
      BY <1>1, <2>1, <2>2, GoesOnly
  <1>5. ~Splits(w)
    BY <1>1, PiecesWrite DEF Calls
  <1>6. BodiesFit' /\ PhasesFit' /\ AccountsFit' /\ ListFits'
    BY <1>1, <1>2, <1>3, <1>4, <1>5, QuietStep
  <1>7. LockHeld'
    <2>1. \A u \in Workers : Inside(u)' => Inside(u)
      BY <1>2, <1>4 DEF Inside
    <2> QED
      BY <1>1, <1>4, <2>1, LockKept
  <1> QED
    BY <1>1, <1>4, <1>6, <1>7, NotDual DEF LinksInv

LEMMA ReferenceEndLinks ==
    ASSUME LinksInv, BankInv', NEW w \in Workers, ReferenceEnd(w)
    PROVE  LinksInv'
  <1>1. /\ OnReference /\ Calls(w, "end") /\ Ended(w) /\ shared_lock_release(w)
        /\ UNCHANGED <<content, node, allocs>>
    BY DEF ReferenceEnd, ReferenceCalls, RefEnd
  <1>2. doing[w] # "done" /\ setting.phase \in PhaseOf(doing[w])
    <2>1. "end" # "begin"
      OBVIOUS
    <2> QED
      BY <1>1, <2>1, InsideIs
  <1>3. Handed(w) /\ setting' = setting
    BY <1>1, <1>2, Between DEF LinksInv, BankInv
  <1>4. ~Splits(w)
    BY <1>1, PiecesWrite DEF Calls
  <1>5. BodiesFit' /\ LocalsFit' /\ PhasesFit' /\ AccountsFit' /\ ListFits'
    BY <1>1, <1>2, <1>3, <1>4, HandsQuietly
  <1>6. LockHeld'
    <2>1. ASSUME NEW u \in Workers, Inside(u)'
          PROVE  IF doing'[u] \in ReadOnly THEN u \in readers' ELSE writer' = u
      <3>1. u # w /\ Inside(u) /\ doing'[u] = doing[u]
        BY <1>3, <2>1, HandedOutside DEF Handed
      <3>2. IF doing[u] \in ReadOnly THEN u \in readers ELSE writer = u
        BY <1>1, <3>1 DEF LinksInv, LockHeld
      <3> QED
        BY <1>1, <3>1, <3>2 DEF shared_lock_release
    <2> QED
      BY <2>1 DEF LockHeld
  <1> QED
    BY <1>1, <1>3, <1>5, <1>6, NotDual DEF LinksInv
----------------------------------------------------------------------------
(* One word is written.                                                    *)
Written(C, c) == [C EXCEPT ![c.seg][c.off] = c.val]

LEMMA WrittenWord ==
    ASSUME NEW C, NEW c, c.seg \in DOMAIN C, c.off \in DOMAIN C[c.seg], NEW D, D = Written(C, c)
    PROVE  /\ DOMAIN D = DOMAIN C
           /\ \A x \in DOMAIN C :
                  /\ DOMAIN D[x] = DOMAIN C[x]
                  /\ \A off \in DOMAIN C[x] :
                         D[x][off] = IF x = c.seg /\ off = c.off THEN c.val ELSE C[x][off]
  BY DEF Written

(* A harmless write leaves the chain as it is.                             *)
LEMMA HarmlessKeeps ==
    ASSUME NEW s, s.nbaccounts \in Nat \ {0}, NEW C, Whole(s, C),
           NEW c, Harmless(s, C, c), c.do = "write", NEW D, D = Written(C, c)
    PROVE  Whole(s, D)
  <1>1. /\ c.seg \in DOMAIN C /\ c.off \in Offsets(s) \ {NEXT}
        /\ s.phase = "run" /\ c.off = COUNT => c.val \in Counts(s)
    BY DEF Harmless
  <1>2. NEXT \in Offsets(s) /\ COUNT \in Offsets(s) /\ COUNT # NEXT
    BY ReadsOffsets
  <1>3. \A x \in DOMAIN C : DOMAIN C[x] = Offsets(s)
    BY DEF Whole, Chain
  <1>4. /\ DOMAIN D = DOMAIN C
        /\ \A x \in DOMAIN C :
               /\ DOMAIN D[x] = Offsets(s)
               /\ \A off \in Offsets(s) :
                      D[x][off] = IF x = c.seg /\ off = c.off THEN c.val ELSE C[x][off]
    BY <1>1, <1>3, WrittenWord
  <1>5. \A x \in DOMAIN C : D[x][NEXT] = C[x][NEXT]
    BY <1>1, <1>2, <1>4
  <1>6. ASSUME s.phase = "run", NEW x \in DOMAIN C PROVE D[x][COUNT] \in Counts(s)
    <2>1. C[x][COUNT] \in Counts(s)
      BY <1>6 DEF Whole, Chain
    <2> QED
      BY <1>1, <1>2, <1>4, <1>6, <2>1
  <1> QED
    BY <1>4, <1>5, <1>6 DEF Whole, Chain

(* The writes of alloc_tx by which it puts the chain together.             *)
LEMMA PiecesJoin ==
    ASSUME NEW s, s.nbaccounts \in Nat \ {0}, NEW C, NEW m, NEW q, InPieces(s, C, m, q),
           Null \notin DOMAIN C, NEW D, D = Written(C, Head(q))
    PROVE  /\ Len(q) > 1 /\ DOMAIN D = DOMAIN C
           /\ \/ Whole(s, D) /\ AllocAt(s, D, m, Tail(q))
              \/ InPieces(s, D, m, Tail(q))
  <1> DEFINE c == Head(q)
  <1>a. /\ NEXT \in Offsets(s) /\ COUNT \in Offsets(s) /\ COUNT # NEXT
        /\ Account(0) \in Offsets(s) \ {COUNT, NEXT}
    BY ReadsOffsets
  <1>b. ASSUME \A x \in DOMAIN C : DOMAIN C[x] = Offsets(s),
               c.seg \in DOMAIN C, c.off \in Offsets(s)
        PROVE  /\ DOMAIN D = DOMAIN C
               /\ \A x \in DOMAIN C :
                      /\ DOMAIN D[x] = Offsets(s)
                      /\ \A off \in Offsets(s) :
                             D[x][off] = IF x = c.seg /\ off = c.off THEN c.val ELSE C[x][off]
    BY <1>b, WrittenWord
  <1>c. \A x, off, v : LET a == Write(x, off, v) IN a.seg = x /\ a.off = off /\ a.val = v
    BY CallFields
  <1>1. CASE /\ m.seg \notin DOMAIN C /\ m.seg \notin {Null, Region}
             /\ m.prev \in DOMAIN C /\ C[m.prev][NEXT] = m.seg
             /\ q = <<Write(m.prev, NEXT, Null), Read(m.prev, PARITY)>>
             /\ Chain(s, C, {}, {m.seg}, {})
    <2>1. c = Write(m.prev, NEXT, Null) /\ Tail(q) = <<Read(m.prev, PARITY)>> /\ Len(q) = 2
      BY <1>1, FewCalls
    <2>2. c.seg = m.prev /\ c.off = NEXT /\ c.val = Null
      BY <1>c, <2>1
    <2>3. /\ DOMAIN D = DOMAIN C
          /\ \A x \in DOMAIN C :
                 /\ DOMAIN D[x] = Offsets(s)
                 /\ D[x][COUNT] = C[x][COUNT]
                 /\ D[x][NEXT] = IF x = m.prev THEN Null ELSE C[x][NEXT]
      BY <1>1, <1>a, <1>b, <2>2 DEF Chain
    <2>4. \A x \in DOMAIN C \ {m.prev} : C[x][NEXT] # m.seg
      BY <1>1 DEF Chain
    <2>5. ASSUME NEW x \in DOMAIN D
          PROVE  /\ DOMAIN D[x] = Offsets(s)
                 /\ D[x][NEXT] \in {Null} \cup (DOMAIN D \ {Region})
                 /\ D[x][NEXT] # x
                 /\ s.phase = "run" => D[x][COUNT] \in Counts(s)
      BY <1>1, <2>3, <2>4 DEF Chain
    <2>6. ASSUME NEW y \in DOMAIN D \ {Region} PROVE \E x \in DOMAIN D : D[x][NEXT] = y
      <3>1. PICK x \in DOMAIN C : C[x][NEXT] = y
        BY <1>1, <2>3 DEF Chain
      <3>2. x # m.prev
        BY <1>1, <2>3, <3>1
      <3> QED
        BY <2>3, <3>1, <3>2
    <2>7. \A x, y \in DOMAIN D : D[x][NEXT] = D[y][NEXT] /\ x # y => D[x][NEXT] = Null
      BY <1>1, <2>3 DEF Chain
    <2>8. Whole(s, D)
      BY <2>5, <2>6, <2>7 DEF Whole, Chain
    <2>9. AllocAt(s, D, m, Tail(q))
      BY <1>1, <2>1, <2>3 DEF AllocAt
    <2> QED
      BY <2>1, <2>3, <2>8, <2>9
  <1>2. ASSUME NEW x \in DOMAIN C \ {Region},
               m.seg \in DOMAIN C \ {x}, C[m.seg][NEXT] = Null, C[x][NEXT] = Null,
               q = <<Write(m.seg, NEXT, x), Write(x, COUNT, 1),
                     Write(x, Account(0), s.init_balance), End(TRUE)>>,
               Chain(s, C, {x}, {}, {x})
        PROVE  Len(q) > 1 /\ DOMAIN D = DOMAIN C /\ InPieces(s, D, m, Tail(q))
    <2> DEFINE r == <<Write(x, COUNT, 1), Write(x, Account(0), s.init_balance), End(TRUE)>>
    <2>1. c = Write(m.seg, NEXT, x) /\ Tail(q) = r /\ Len(q) = 4
      <3> DEFINE a == Write(m.seg, NEXT, x)
                 b == Write(x, COUNT, 1)
                 d == Write(x, Account(0), s.init_balance)
                 e == End(TRUE)
      <3>1. q = <<a, b, d, e>> /\ r = <<b, d, e>>
        BY <1>2
      <3> HIDE DEF a, b, d, e, r
      <3>2. c = a /\ Tail(q) = r /\ Len(q) = 4
        BY <3>1, FewCalls
      <3> QED
        BY <3>2 DEF a
    <2>2. c.seg = m.seg /\ c.off = NEXT /\ c.val = x
      BY <1>c, <2>1
    <2>3. /\ DOMAIN D = DOMAIN C
          /\ \A y \in DOMAIN C :
                 /\ DOMAIN D[y] = Offsets(s)
                 /\ D[y][COUNT] = C[y][COUNT]
                 /\ D[y][NEXT] = IF y = m.seg THEN x ELSE C[y][NEXT]
      BY <1>2, <1>a, <1>b, <2>2 DEF Chain
    <2> HIDE DEF r
    <2>4. ASSUME NEW y \in DOMAIN D
          PROVE  /\ DOMAIN D[y] = Offsets(s)
                 /\ D[y][NEXT] \in {Null} \cup (DOMAIN D \ {Region})
                 /\ D[y][NEXT] # y
                 /\ s.phase = "run" /\ y # x => D[y][COUNT] \in Counts(s)
      BY <1>2, <2>3 DEF Chain
    <2>5. ASSUME NEW y \in DOMAIN D \ {Region} PROVE \E z \in DOMAIN D : D[z][NEXT] = y
      <3>1. CASE y = x
        BY <1>2, <2>3, <3>1
      <3>2. CASE y # x
        <4>1. PICK z \in DOMAIN C : C[z][NEXT] = y
          BY <1>2, <2>3, <3>2 DEF Chain
        <4>2. z # m.seg
          BY <1>2, <2>3, <4>1
        <4> QED
          BY <2>3, <4>1, <4>2
      <3> QED
        BY <3>1, <3>2
    <2>6. \A y \in DOMAIN C : C[y][NEXT] # x
      BY <1>2 DEF Chain
    <2>7. \A y, z \in DOMAIN D : D[y][NEXT] = D[z][NEXT] /\ y # z => D[y][NEXT] = Null
      BY <1>2, <2>3, <2>6 DEF Chain
    <2>8. Chain(s, D, {}, {}, {x})
      BY <2>4, <2>5, <2>7 DEF Chain
    <2>9. \E y \in DOMAIN D \ {Region} :
              /\ Tail(q) = <<Write(y, COUNT, 1), Write(y, Account(0), s.init_balance), End(TRUE)>>
              /\ Chain(s, D, {}, {}, {y})
      BY <2>1, <2>3, <2>8, Zenon DEF r
    <2>10. InPieces(s, D, m, Tail(q))
      BY <2>9, Zenon DEF InPieces
    <2> QED
      BY <2>1, <2>3, <2>10
  <1>3. ASSUME NEW x \in DOMAIN C \ {Region},
               q = <<Write(x, COUNT, 1), Write(x, Account(0), s.init_balance), End(TRUE)>>,
               Chain(s, C, {}, {}, {x})
        PROVE  /\ Len(q) > 1 /\ DOMAIN D = DOMAIN C
               /\ Whole(s, D) /\ AllocAt(s, D, m, Tail(q))
    <2> DEFINE a == Write(x, Account(0), s.init_balance)
               e == End(TRUE)
    <2>1. c = Write(x, COUNT, 1) /\ Tail(q) = <<a, e>> /\ Len(q) = 3
      <3> DEFINE b == Write(x, COUNT, 1)
      <3>1. q = <<b, a, e>>
        BY <1>3
      <3> HIDE DEF a, b, e
      <3>2. c = b /\ Tail(q) = <<a, e>> /\ Len(q) = 3
        BY <3>1, FewCalls
      <3> QED
        BY <3>2 DEF b
    <2>2. c.seg = x /\ c.off = COUNT /\ c.val = 1
      BY <1>c, <2>1
    <2>3. /\ DOMAIN D = DOMAIN C
          /\ \A y \in DOMAIN C :
                 /\ DOMAIN D[y] = Offsets(s)
                 /\ D[y][COUNT] = IF y = x THEN 1 ELSE C[y][COUNT]
                 /\ D[y][NEXT] = C[y][NEXT]
      BY <1>3, <1>a, <1>b, <2>2 DEF Chain
    <2>4. 1 \in Counts(s)
      BY DEF Counts
    <2>5. Whole(s, D)
      BY <1>3, <2>3, <2>4 DEF Whole, Chain
    <2>6. Harmless(s, D, a)
      <3>1. a.do = "write" /\ a.seg = x /\ a.off = Account(0)
        BY CallFields
      <3> HIDE DEF a
      <3> QED
        BY <1>a, <2>3, <3>1 DEF Harmless
    <2>7. e.do = "end"
      BY CallFields
    <2> HIDE DEF a, e
    <2>8. Finishes(s, D, <<a, e>>)
      BY <2>6, <2>7, FinishesWith
    <2>9. Finishes(s, D, Tail(q))
      BY <2>1, <2>8
    <2>10. AllocAt(s, D, m, Tail(q))
      BY <2>9 DEF AllocAt
    <2> QED
      BY <2>1, <2>3, <2>5, <2>10
  <1> QED
    BY <1>1, <1>2, <1>3 DEF InPieces

(* Whatever the body, a write to a whole chain leaves it where it may be;  *)
(* the write is not the last call, and not one of a read-only transaction. *)
LEMMA HarmlessGoesOn ==
    ASSUME NEW s, NEW C, NEW place \in Transactions, NEW m, NEW q, Queue(q),
           Len(q) \in Nat \ {0}, BodyAt(s, C, place, m, q), Head(q).do = "write",
           ~(place = "alloc" /\ InPieces(s, C, m, q))
    PROVE  /\ Len(q) > 1 /\ place \notin ReadOnly /\ Harmless(s, C, Head(q))
           /\ \A E : DOMAIN E = DOMAIN C => BodyAt(s, E, place, m, Tail(q))
  <1> DEFINE c == Head(q)
  <1>a. \A x, off : \A a : q = <<a>> => a # Read(x, off) /\ a.do # "end"
    <2>1. \A a : q = <<a>> => a.do = "write"
      BY FewCalls
    <2> QED
      BY <2>1, CallFields
  <1>b. ~LastCall(q)
    BY <1>a DEF LastCall
  <1>1. CASE Finishes(s, C, q)
    <2>1. Harmless(s, C, c) /\ Len(q) > 1 /\ Finishes(s, C, Tail(q))
      <3>1. Harmless(s, C, c) /\ (Len(q) = 1 => c.do = "end")
            /\ (Len(q) > 1 => Finishes(s, C, Tail(q)))
        BY <1>1, FirstHarmless
      <3>2. Len(q) # 1
        BY <3>1
      <3>3. Len(q) > 1
        <4> DEFINE n == Len(q)
        <4>1. n \in Nat \ {0} /\ n # 1
          BY <3>2
        <4> HIDE DEF n
        <4>2. n > 1
          BY <4>1
        <4> QED
          BY <4>2 DEF n
      <3> QED
        BY <3>1, <3>3
    <2>2. place \in {"alloc", "short", "init", "set", "dec"} \/ place \in ReadOnly
      BY DEF Transactions, ReadOnly
    <2>3. place \notin ReadOnly
      <3>1. \A x, off : q # <<Read(x, off)>>
        BY <1>a
      <3> QED
        BY <1>b, <3>1 DEF BodyAt, LongAt, OneReadAt, ReadOnly
    <2>4. ASSUME NEW E, DOMAIN E = DOMAIN C PROVE BodyAt(s, E, place, m, Tail(q))
      <3>1. Finishes(s, E, Tail(q))
        BY <2>1, <2>4 DEF Finishes, Harmless
      <3> QED
        BY <2>2, <2>3, <3>1 DEF BodyAt, AllocAt, ShortAt, OneReadAt, ReadOnly
    <2> QED
      BY <2>1, <2>3, <2>4
  <1>2. CASE /\ place = "short" /\ m.sent
             /\ Pointer(s, C, m.send_ptr) /\ Pointer(s, C, m.recv_ptr)
             /\ m.send_ptr # <<>> /\ m.recv_ptr # <<>>
             /\ q = <<WriteAt(m.send_ptr, q[1].val), ReadAt(m.recv_ptr)>>
    <2>1. c = WriteAt(m.send_ptr, q[1].val) /\ Tail(q) = <<ReadAt(m.recv_ptr)>> /\ Len(q) = 2
      <3> DEFINE a == WriteAt(m.send_ptr, q[1].val)
                 b == ReadAt(m.recv_ptr)
      <3>1. q = <<a, b>>
        BY <1>2
      <3> HIDE DEF a, b
      <3>2. c = a /\ Tail(q) = <<b>> /\ Len(q) = 2
        BY <3>1, FewCalls
      <3> QED
        BY <3>2 DEF a, b
    <2>2. PICK x \in DOMAIN C, off \in Offsets(s) \ {COUNT, NEXT, PARITY} :
              m.send_ptr = <<x, off>>
      BY <1>2 DEF Pointer
    <2>3. c.seg = x /\ c.off = off
      BY <2>1, <2>2, CallFields DEF WriteAt
    <2>4. Harmless(s, C, c)
      BY <2>2, <2>3 DEF Harmless
    <2>5. ASSUME NEW E, DOMAIN E = DOMAIN C PROVE BodyAt(s, E, place, m, Tail(q))
      <3>1. Pointer(s, E, m.send_ptr) /\ Pointer(s, E, m.recv_ptr)
        BY <1>2, <2>5 DEF Pointer
      <3> QED
        BY <1>2, <2>1, <3>1 DEF BodyAt, ShortAt
    <2> QED
      BY <1>2, <2>1, <2>4, <2>5 DEF ReadOnly
  <1>3. CASE place = "short"
    <2>1. ShortAt(s, C, m, q)
      BY <1>3 DEF BodyAt
    <2>2. q # <<Read(m.seg, COUNT)>> /\ q # <<Read(m.seg, NEXT)>>
          /\ q # <<ReadAt(m.send_ptr)>> /\ q # <<ReadAt(m.recv_ptr)>>
      BY <1>a DEF ReadAt
    <2> QED
      BY <1>1, <1>2, <1>3, <2>1, <2>2 DEF ShortAt
  <1>4. CASE place = "alloc"
    <2>1. AllocAt(s, C, m, q)
      BY <1>4 DEF BodyAt
    <2>2. \A x, off : q # <<Read(x, off)>>
      BY <1>a
    <2>3. q # <<Alloc>>
      BY FewCalls, CallFields
    <2>4. \A x, b, d : q # <<Free(x), b, d>>
      BY FewCalls, CallFields
    <2> QED
      BY <1>1, <2>1, <2>2, <2>3, <2>4 DEF AllocAt
  <1>5. CASE place \in {"long", "final"}
    BY <1>a, <1>b, <1>5 DEF BodyAt, LongAt
  <1>6. CASE place \in {"first", "verify", "last", "dec", "zero"}
    BY <1>1, <1>a, <1>b, <1>6 DEF BodyAt, OneReadAt
  <1>7. CASE place \in {"init", "set"}
    BY <1>1, <1>7 DEF BodyAt
  <1> QED
    BY <1>3, <1>4, <1>5, <1>6, <1>7 DEF Transactions

LEMMA WriteGoesOn ==
    ASSUME NEW s, NEW C, NEW place \in Transactions, NEW m, NEW q, Queue(q),
           Len(q) \in Nat \ {0}, BodyAt(s, C, place, m, q), Head(q).do = "write",
           s.nbaccounts \in Nat \ {0}, Null \notin DOMAIN C,
           Whole(s, C) \/ (place = "alloc" /\ InPieces(s, C, m, q)),
           NEW D, D = Written(C, Head(q))
    PROVE  /\ Len(q) > 1 /\ place \notin ReadOnly /\ DOMAIN D = DOMAIN C
           /\ BodyAt(s, D, place, m, Tail(q))
           /\ Whole(s, D) \/ (place = "alloc" /\ InPieces(s, D, m, Tail(q)))
  <1>1. CASE place = "alloc" /\ InPieces(s, C, m, q)
    <2>1. /\ Len(q) > 1 /\ DOMAIN D = DOMAIN C
          /\ \/ Whole(s, D) /\ AllocAt(s, D, m, Tail(q))
             \/ InPieces(s, D, m, Tail(q))
      BY <1>1, PiecesJoin
    <2>2. BodyAt(s, D, place, m, Tail(q)) /\ place \notin ReadOnly
      BY <1>1, <2>1 DEF BodyAt, ReadOnly
    <2> QED
      BY <1>1, <2>1, <2>2
  <1>2. CASE Whole(s, C) /\ ~(place = "alloc" /\ InPieces(s, C, m, q))
    <2>1. /\ Len(q) > 1 /\ place \notin ReadOnly /\ Harmless(s, C, Head(q))
          /\ \A E : DOMAIN E = DOMAIN C => BodyAt(s, E, place, m, Tail(q))
      BY <1>2, HarmlessGoesOn
    <2>2. DOMAIN D = DOMAIN C
      BY DEF Written
    <2>3. Whole(s, D)
      BY <1>2, <2>1, HarmlessKeeps
    <2> QED
      BY <2>1, <2>2, <2>3
  <1> QED
    BY <1>1, <1>2

----------------------------------------------------------------------------
(* The library's list when a segment is put in front of it.                *)
LEMMA ListGrows ==
    ASSUME ListFits, ~AllDone, NULL \notin DOMAIN content, Region \in DOMAIN content,
           NEW x, NEW size, RefAlloc(x, size)
    PROVE  ListFits'
  <1> DEFINE D == DOMAIN node
             prev(n) == IF n = x THEN NULL ELSE IF n = allocs THEN x ELSE node[n].prev
             next(n) == IF n = x THEN allocs ELSE node[n].next
  <1>1. /\ D = DOMAIN content \ {Region} /\ NULL \notin D /\ x \notin D
        /\ x # NULL /\ x # Region
        /\ allocs \in {NULL} \cup D
        /\ \A n \in D : node[n] \in [prev : {NULL} \cup D, next : {NULL} \cup D]
        /\ \A n \in D : node[n].prev # NULL => node[node[n].prev].next = n
        /\ \A n \in D : node[n].next # NULL => node[node[n].next].prev = n
        /\ \A n \in D : node[n].prev = NULL <=> n = allocs
        /\ \A S \in SUBSET D : S # {} => \E n \in S : node[n].prev \notin S
    <2>1. x \in 1 .. MaxSegments \ DOMAIN content
      BY DEF RefAlloc
    <2>2. x # NULL /\ x # Region /\ x \notin DOMAIN content
      BY <2>1, MaxSegmentsAssumption DEF NULL, Region
    <2> QED
      BY <2>2 DEF ListFits, WellLinked
  <1>2. /\ DOMAIN node' = D \cup {x} /\ DOMAIN content' = DOMAIN content \cup {x}
        /\ allocs' = x
        /\ \A n \in D \cup {x} :
               node'[n] = IF n = x THEN [prev |-> NULL, next |-> allocs]
                          ELSE IF n = allocs THEN [node[n] EXCEPT !.prev = x] ELSE node[n]
    BY DEF RefAlloc
  <1>3. ASSUME NEW n \in D \cup {x}
        PROVE  /\ node'[n].prev = prev(n) /\ node'[n].next = next(n)
               /\ node'[n] \in [prev : {NULL} \cup D \cup {x}, next : {NULL} \cup D \cup {x}]
    <2>1. CASE n = x
      <3>1. /\ node'[n] = [prev |-> NULL, next |-> allocs] /\ allocs \in {NULL} \cup D
            /\ prev(n) = NULL /\ next(n) = allocs
        BY <1>1, <1>2, <2>1
      <3> HIDE DEF prev, next
      <3> QED
        BY <3>1
    <2>2. CASE n # x /\ n = allocs
      <3>1. /\ node'[n] = [node[n] EXCEPT !.prev = x]
            /\ node[n] \in [prev : {NULL} \cup D, next : {NULL} \cup D]
        BY <1>1, <1>2, <2>2
      <3> QED
        BY <2>2, <3>1
    <2>3. CASE n # x /\ n # allocs
      <3>1. node'[n] = node[n] /\ node[n] \in [prev : {NULL} \cup D, next : {NULL} \cup D]
        BY <1>1, <1>2, <2>3
      <3> QED
        BY <2>3, <3>1
    <2> QED
      BY <2>1, <2>2, <2>3
  <1> HIDE DEF prev, next
  <1>a. \A n \in D : node[n].prev \in {NULL} \cup D /\ node[n].next \in {NULL} \cup D
    BY <1>1
  <1>4. ASSUME NEW n \in D \cup {x}, prev(n) # NULL
        PROVE  next(prev(n)) = n
    BY <1>1, <1>a, <1>4 DEF prev, next
  <1>5. ASSUME NEW n \in D \cup {x}, next(n) # NULL
        PROVE  prev(next(n)) = n
    BY <1>1, <1>a, <1>5 DEF prev, next
  <1>6. ASSUME NEW n \in D \cup {x}
        PROVE  prev(n) = NULL <=> n = x
    BY <1>1 DEF prev
  <1>7. ASSUME NEW S \in SUBSET (D \cup {x}), S # {}
        PROVE  \E n \in S : prev(n) \notin S
    <2>1. CASE x \in S
      BY <1>1, <2>1 DEF prev
    <2>2. CASE x \notin S
      <3>1. PICK n \in S : node[n].prev \notin S
        BY <1>1, <1>7, <2>2
      <3> QED
        BY <2>2, <3>1 DEF prev
    <2> QED
      BY <2>1, <2>2
  <1>8. \A n \in D \cup {x} : prev(n) \in {NULL} \cup D \cup {x} /\ next(n) \in {NULL} \cup D \cup {x}
    BY <1>1, <1>a DEF prev, next
  <1>9. DOMAIN node' = DOMAIN content' \ {Region}
    BY <1>1, <1>2
  <1>10. \A n \in DOMAIN node' :
             /\ node'[n] \in [prev : {NULL} \cup DOMAIN node', next : {NULL} \cup DOMAIN node']
             /\ node'[n].prev # NULL => node'[node'[n].prev].next = n
    BY <1>2, <1>3, <1>4, <1>8
  <1>11. WellLinked'
    BY <1>2, <1>3, <1>5, <1>6, <1>8 DEF WellLinked
  <1>12. \A S \in SUBSET DOMAIN node' : S # {} => \E n \in S : node'[n].prev \notin S
    <2>1. ASSUME NEW S \in SUBSET (D \cup {x}), S # {} PROVE \E n \in S : node'[n].prev \notin S
      BY <1>3, <1>7, <2>1
    <2> QED
      BY <1>2, <2>1
  <1> QED
    BY <1>2, <1>9, <1>10, <1>11, <1>12 DEF ListFits

(* The library's list when a segment is taken out of it.                   *)
LEMMA ListShrinks ==
    ASSUME ListFits, ~AllDone, NULL \notin DOMAIN content,
           NEW x \in DOMAIN node, RefFree(x)
    PROVE  ListFits'
  <1> DEFINE D == DOMAIN node
             E == D \ {x}
             p == node[x].prev
             k == node[x].next
             prev(n) == IF n = k THEN p ELSE node[n].prev
             next(n) == IF n = p THEN k ELSE node[n].next
  <1>1. /\ D = DOMAIN content \ {Region} /\ NULL \notin D
        /\ allocs \in {NULL} \cup D
        /\ \A n \in D : node[n] \in [prev : {NULL} \cup D, next : {NULL} \cup D]
        /\ \A n \in D : node[n].prev # NULL => node[node[n].prev].next = n
        /\ \A n \in D : node[n].next # NULL => node[node[n].next].prev = n
        /\ \A n \in D : node[n].prev = NULL <=> n = allocs
        /\ \A S \in SUBSET D : S # {} => \E n \in S : node[n].prev \notin S
    BY DEF ListFits, WellLinked
  <1>2. /\ DOMAIN node' = E /\ DOMAIN content' = DOMAIN content \ {x}
        /\ allocs' = IF p = NULL THEN k ELSE allocs
        /\ \A n \in E : node'[n] = IF n = p THEN [node[n] EXCEPT !.next = k]
                                   ELSE IF n = k THEN [node[n] EXCEPT !.prev = p]
                                   ELSE node[n]
    BY DEF RefFree, Without
  <1>a. \A n \in D : node[n].prev \in {NULL} \cup D /\ node[n].next \in {NULL} \cup D
    BY <1>1
  <1>b. p # x /\ k # x /\ (p # NULL => p # k)
    <2>0. \A S \in SUBSET D : S # {} => \E n \in S : node[n].prev \notin S
      BY <1>1
    <2>1. \E n \in {x} : node[n].prev \notin {x}
      <3>1. {x} \in SUBSET D /\ {x} # {}
        OBVIOUS
      <3> QED
        BY <2>0, <3>1, Zenon
    <2>2. p # x
      BY <2>1
    <2>3. k # x
      BY <1>1, <2>2
    <2>4. ASSUME p # NULL, p = k PROVE FALSE
      <3>1. p \in D /\ node[p].prev = x
        BY <1>1, <1>a, <2>4
      <3>2. {x, p} \in SUBSET D /\ {x, p} # {}
        BY <3>1
      <3>3. \E n \in {x, p} : node[n].prev \notin {x, p}
        BY <2>0, <3>2, Zenon
      <3> QED
        BY <3>1, <3>3
    <2> QED
      BY <2>2, <2>3, <2>4
  <1>3. ASSUME NEW n \in E
        PROVE  /\ node'[n].prev = prev(n) /\ node'[n].next = next(n)
               /\ DOMAIN node'[n] = {"prev", "next"}
               /\ node'[n] = [prev |-> prev(n), next |-> next(n)]
    <2>0. node[n] \in [prev : {NULL} \cup D, next : {NULL} \cup D] /\ n # NULL
      BY <1>1
    <2> DEFINE r == node[n]
    <2>1. CASE n = p
      <3>1. node'[n] = [r EXCEPT !.next = k] /\ prev(n) = r.prev /\ next(n) = k
        BY <1>2, <1>b, <2>0, <2>1
      <3> HIDE DEF p, k, prev, next, r
      <3> QED
        BY <2>0, <3>1 DEF r
    <2>2. CASE n # p /\ n = k
      <3>1. node'[n] = [r EXCEPT !.prev = p] /\ prev(n) = p /\ next(n) = r.next
        BY <1>2, <1>b, <2>0, <2>2
      <3> HIDE DEF p, k, prev, next, r
      <3> QED
        BY <2>0, <3>1 DEF r
    <2>3. CASE n # p /\ n # k
      <3>1. node'[n] = r /\ prev(n) = r.prev /\ next(n) = r.next
        BY <1>2, <2>3
      <3> HIDE DEF p, k, prev, next, r
      <3> QED
        BY <2>0, <3>1 DEF r
    <2> QED
      BY <2>1, <2>2, <2>3
  <1>c. /\ p \in {NULL} \cup E /\ k \in {NULL} \cup E
        /\ p # NULL => node[p].next = x
        /\ k # NULL => node[k].prev = x
        /\ \A n \in E : node[n].prev = x => n = k
        /\ \A n \in E : node[n].next = x => n = p
    BY <1>1, <1>a, <1>b
  <1> HIDE DEF prev, next, p, k
  <1>8. \A n \in E : prev(n) \in {NULL} \cup E /\ next(n) \in {NULL} \cup E
    BY <1>a, <1>c DEF prev, next
  <1>4. ASSUME NEW n \in E, prev(n) # NULL
        PROVE  next(prev(n)) = n
    <2>1. CASE n = k
      BY <1>4, <2>1 DEF prev, next
    <2>2. CASE n # k
      <3>1. prev(n) = node[n].prev /\ node[node[n].prev].next = n
        BY <1>1, <1>4, <2>2 DEF prev
      <3>2. node[n].prev # p
        BY <1>4, <1>c, <3>1
      <3> QED
        BY <3>1, <3>2 DEF next
    <2> QED
      BY <2>1, <2>2
  <1>5. ASSUME NEW n \in E, next(n) # NULL
        PROVE  prev(next(n)) = n
    <2>1. CASE n = p
      BY <1>5, <2>1 DEF prev, next
    <2>2. CASE n # p
      <3>1. next(n) = node[n].next /\ node[node[n].next].prev = n
        BY <1>1, <1>5, <2>2 DEF next
      <3>2. node[n].next # k
        BY <1>5, <1>c, <3>1
      <3> QED
        BY <3>1, <3>2 DEF prev
    <2> QED
      BY <2>1, <2>2
  <1>6. ASSUME NEW n \in E
        PROVE  prev(n) = NULL <=> n = allocs'
    <2>1. p = NULL <=> x = allocs
      BY <1>1 DEF p
    <2>2. CASE n = k
      <3>1. n # allocs
        BY <1>1, <1>c, <2>2
      <3> QED
        BY <1>2, <2>1, <2>2, <3>1 DEF prev, p, k
    <2>3. CASE n # k
      BY <1>1, <1>2, <2>1, <2>3 DEF prev, p, k
    <2> QED
      BY <2>2, <2>3
  <1>7. ASSUME NEW S \in SUBSET E, S # {}
        PROVE  \E n \in S : prev(n) \notin S
    <2>1. CASE p \in S
      <3>1. S \cup {x} \in SUBSET D /\ S \cup {x} # {}
        OBVIOUS
      <3>2. PICK n \in S \cup {x} : node[n].prev \notin S \cup {x}
        BY <1>1, <3>1
      <3>3. n \in S
        BY <2>1, <3>2 DEF p
      <3>4. n # k
        BY <1>c, <1>1, <3>2, <3>3
      <3> QED
        BY <3>2, <3>3, <3>4 DEF prev
    <2>2. CASE p \notin S
      <3>1. PICK n \in S : node[n].prev \notin S
        BY <1>1, <1>7
      <3> QED
        BY <2>2, <3>1 DEF prev
    <2> QED
      BY <2>1, <2>2
  <1>9. DOMAIN node' = DOMAIN content' \ {Region}
    BY <1>1, <1>2
  <1>10. \A n \in DOMAIN node' :
             /\ node'[n] \in [prev : {NULL} \cup DOMAIN node', next : {NULL} \cup DOMAIN node']
             /\ node'[n].prev # NULL => node'[node'[n].prev].next = n
    BY <1>2, <1>3, <1>4, <1>8
  <1>11. WellLinked'
    BY <1>2, <1>3, <1>5, <1>6, <1>8 DEF WellLinked
  <1>12. \A S \in SUBSET DOMAIN node' : S # {} => \E n \in S : node'[n].prev \notin S
    <2>1. ASSUME NEW S \in SUBSET E, S # {} PROVE \E n \in S : node'[n].prev \notin S
      <3>1. PICK n \in S : prev(n) \notin S
        BY <1>7, <2>1
      <3>2. node'[n].prev = prev(n)
        BY <1>3
      <3> QED
        BY <3>1, <3>2
    <2> QED
      BY <1>2, <2>1
  <1>13. allocs' \in {NULL} \cup DOMAIN node'
    BY <1>1, <1>2, <1>c DEF p, k
  <1> QED
    BY <1>9, <1>10, <1>11, <1>12, <1>13 DEF ListFits
----------------------------------------------------------------------------
(* Who writes on the lock-based memory is alone there.                     *)
LEMMA WriterAlone ==
    ASSUME LinksInv, OnReference, NEW w \in Workers, Inside(w), doing[w] \notin ReadOnly,
           NEW u \in Workers \ {w}
    PROVE  ~Inside(u)
  <1>1. writer = w
    BY DEF LinksInv, LockHeld
  <1>2. readers = {}
    BY <1>1, NoWriterAssumption DEF LinksInv, BankInv, LockFits
  <1> QED
    BY <1>1, <1>2 DEF LinksInv, LockHeld

(* A call of a writer that has the lock and goes on.                       *)
LEMMA WriterGoesOn ==
    ASSUME LinksInv, BankInv', OnReference, NEW w \in Workers, Inside(w),
           doing[w] \notin ReadOnly, NEW q, Goes(w, my[w], q), arg' = arg,
           UNCHANGED <<writer, readers>>, BodyAt(setting, content', doing[w], my[w], q),
           Region \in DOMAIN content',
           \/ Whole(setting, content')
           \/ doing[w] = "alloc" /\ InPieces(setting, content', my[w], q),
           ListFits'
    PROVE  LinksInv'
  <1>1. Shapes /\ LocalsFit
    BY DEF LinksInv, BankInv
  <1>2. /\ setting' = setting /\ doing' = doing /\ my'[w] = my[w] /\ todo'[w] = q
        /\ \A u \in Workers \ {w} : todo'[u] = todo[u] /\ my'[u] = my[u]
        /\ LocalsFit'
    <2>1. Sound(my[w]) /\ DOMAIN arg' = Workers /\ \A u \in Workers : SoundArg(arg'[u])
      BY <1>1 DEF LocalsFit
    <2> QED
      BY <1>1, <2>1, GoesOnly
  <1>3. \A u \in Workers : Inside(u)' => u = w
    BY <1>2, WriterAlone DEF Inside
  <1>4. BodiesFit'
    BY <1>2, <1>3 DEF BodiesFit
  <1>5. PhasesFit'
    BY <1>2 DEF LinksInv, PhasesFit
  <1>6. LockHeld'
    <2>1. \A u \in Workers : Inside(u)' => Inside(u)
      BY <1>3
    <2> QED
      BY <1>2, <2>1, LockKept
  <1>7. AccountsFit'
    BY <1>2 DEF AccountsFit, Splits
  <1> QED
    BY <1>2, <1>4, <1>5, <1>6, <1>7, NotDual DEF LinksInv

LEMMA ReferenceWriteLinks ==
    ASSUME LinksInv, BankInv', NEW w \in Workers, ReferenceWrite(w)
    PROVE  LinksInv'
  <1> DEFINE c == Head(todo[w])
             q == Tail(todo[w])
  <1>1. /\ OnReference /\ Calls(w, "write") /\ Returned(w, Null)
        /\ content' = Written(content, c) /\ UNCHANGED <<writer, readers, allocs, node>>
    BY DEF ReferenceWrite, ReferenceCalls, RefWrite, Written, Pending
  <1>2. /\ Inside(w) /\ doing[w] \in Transactions /\ doing[w] # "done"
        /\ BodyAt(setting, content, doing[w], my[w], todo[w])
        /\ Queue(todo[w]) /\ Len(todo[w]) \in Nat \ {0}
        /\ setting.nbaccounts \in Nat \ {0}
        /\ Start \in DOMAIN content /\ Null \notin DOMAIN content /\ Start = Region
    <2>1. "write" # "begin"
      OBVIOUS
    <2> QED
      BY <1>1, <2>1, InsideIs
  <1>3. Whole(setting, content)
        \/ (doing[w] = "alloc" /\ InPieces(setting, content, my[w], todo[w]))
    BY <1>2, WholeToOthers DEF Splits
  <1>4. /\ Len(todo[w]) > 1 /\ doing[w] \notin ReadOnly /\ DOMAIN content' = DOMAIN content
        /\ BodyAt(setting, content', doing[w], my[w], q)
        /\ \/ Whole(setting, content')
           \/ doing[w] = "alloc" /\ InPieces(setting, content', my[w], q)
    <2>1. c.do = "write"
      BY <1>1 DEF Calls
    <2> QED
      BY <1>1, <1>2, <1>3, <2>1, WriteGoesOn
  <1>5. Goes(w, my[w], q) /\ arg' = arg
    BY <1>1, <1>4 DEF Returned
  <1>6. ListFits'
    BY <1>1, <1>2, <1>4, NotAllDone DEF LinksInv, ListFits, WellLinked
  <1> HIDE DEF q
  <1> QED
    BY <1>1, <1>2, <1>4, <1>5, <1>6, WriterGoesOn

(* Segments are asked for and given back in one place of alloc_tx each.    *)
LEMMA WhereAlloc ==
    ASSUME NEW s, NEW C, NEW place \in Transactions, NEW m, NEW q, Queue(q),
           Len(q) \in Nat \ {0}, BodyAt(s, C, place, m, q), Head(q).do \in {"alloc", "free"}
    PROVE  /\ place = "alloc" /\ ~InPieces(s, C, m, q)
           /\ Placed(C, m) /\ C[m.seg][NEXT] = Null
           /\ Head(q).do = "alloc" => q = <<Alloc>>
           /\ Head(q).do = "free" =>
                  /\ m.prev # Null
                  /\ q = <<Free(m.seg), Write(m.prev, NEXT, Null), Read(m.prev, PARITY)>>
  <1>1. ~Finishes(s, C, q)
    BY FirstHarmless DEF Harmless
  <1>2. \A x, off : q # <<Read(x, off)>>
    BY CallFields, FewCalls
  <1>3. ~LastCall(q)
    BY FewCalls DEF LastCall
  <1>4. \A x, off, v, b : q # <<Write(x, off, v), b>>
    BY CallFields, FewCalls
  <1>5. ~InPieces(s, C, m, q)
    <2>1. \A x, off, v, b, c : q # <<Write(x, off, v), b, c>>
      BY CallFields, FewCalls
    <2>2. \A x, off, v, b, c, d : q # <<Write(x, off, v), b, c, d>>
      BY CallFields, FewCalls
    <2> QED
      BY <1>4, <2>1, <2>2 DEF InPieces
  <1>6. place = "alloc"
    BY <1>1, <1>2, <1>3, <1>4 DEF BodyAt, LongAt, ShortAt, OneReadAt, ReadAt, WriteAt,
       Transactions
  <1>7. /\ Placed(C, m) /\ C[m.seg][NEXT] = Null
        /\ \/ q = <<Alloc>>
           \/ /\ m.prev # Null
              /\ q = <<Free(m.seg), Write(m.prev, NEXT, Null), Read(m.prev, PARITY)>>
    BY <1>1, <1>2, <1>5, <1>6 DEF BodyAt, AllocAt
  <1>8. q = <<Alloc>> => Head(q).do = "alloc"
    BY CallFields, FewCalls
  <1>9. \A x, b, c : q = <<Free(x), b, c>> => Head(q).do = "free"
    BY CallFields, FewCalls
  <1> QED
    BY <1>5, <1>6, <1>7, <1>8, <1>9

LEMMA ReferenceAllocLinks ==
    ASSUME LinksInv, BankInv', NEW w \in Workers, ReferenceAlloc(w)
    PROVE  LinksInv'
  <1> DEFINE m == my[w]
             size == SegmentSize(setting.nbaccounts)
             C == content
             n == setting.nbaccounts
  <1>1. PICK x \in 1 .. MaxSegments :
            OnReference /\ Calls(w, "alloc") /\ RefAlloc(x, size) /\ Returned(w, x)
    BY DEF ReferenceAlloc, ReferenceCalls
  <1> DEFINE q == <<Write(m.seg, NEXT, x), Write(x, COUNT, 1),
                    Write(x, Account(0), setting.init_balance), End(TRUE)>>
  <1>2. /\ Inside(w) /\ doing[w] \in Transactions /\ doing[w] # "done"
        /\ BodyAt(setting, content, doing[w], my[w], todo[w])
        /\ Queue(todo[w]) /\ Len(todo[w]) \in Nat \ {0}
        /\ n \in Nat \ {0} /\ ~AllDone
        /\ Start \in DOMAIN content /\ Null \notin DOMAIN content /\ Start = Region
    <2>1. "alloc" # "begin"
      OBVIOUS
    <2> QED
      BY <1>1, <2>1, InsideIs
  <1>3. /\ doing[w] = "alloc" /\ ~InPieces(setting, C, m, todo[w])
        /\ Placed(C, m) /\ C[m.seg][NEXT] = Null /\ todo[w] = <<Alloc>>
    <2>1. Head(todo[w]).do = "alloc"
      BY <1>1 DEF Calls
    <2> QED
      BY <1>2, <2>1, WhereAlloc
  <1>4. Goes(w, m, q) /\ arg' = arg
    <2>1. Len(todo[w]) = 1 /\ Pending(w) = Alloc
      BY <1>3, FewCalls DEF Pending
    <2>2. alloc_tx(w, x)
      BY <1>1, <1>3, <2>1 DEF Returned, long_tx, short_tx, one_read
    <2>3. \A y, off : Alloc # Read(y, off)
      BY CallFields
    <2>4. LinkSegment(w, x) /\ arg' = arg
      BY <2>1, <2>2, <2>3 DEF alloc_tx
    <2> QED
      BY <2>4 DEF LinkSegment
  <1>5. Whole(setting, C)
    BY <1>2, <1>3, WholeToOthers DEF Splits
  <1>6. ListFits'
    BY <1>1, <1>2, ListGrows DEF LinksInv, NULL, Null
  <1>7. /\ x \notin DOMAIN C /\ x # Null /\ x # Region
        /\ DOMAIN content' = DOMAIN C \cup {x}
        /\ \A y \in DOMAIN C : content'[y] = C[y]
        /\ content'[x] = [off \in Offsets(setting) |-> 0]
        /\ UNCHANGED <<writer, readers>>
    <2>1. x \notin DOMAIN C /\ x # Null
      BY <1>1 DEF RefAlloc, Null
    <2> QED
      BY <1>1, <1>2, <2>1 DEF RefAlloc, Offsets
  <1>8. content'[x][NEXT] = Null
    <2>1. NEXT \in Offsets(setting)
      BY <1>2, ReadsOffsets
    <2> QED
      BY <1>7, <2>1 DEF Null
  <1>9. Chain(setting, content', {x}, {}, {x})
    BY <1>2, <1>5, <1>7, <1>8 DEF Whole, Chain
  <1>10. m.seg \in DOMAIN content' \ {x} /\ content'[m.seg][NEXT] = Null
    BY <1>3, <1>7 DEF Placed
  <1>11. InPieces(setting, content', m, q)
    <2>1. x \in DOMAIN content' \ {Region}
      BY <1>7
    <2> QED
      BY <1>8, <1>9, <1>10, <2>1, Zenon DEF InPieces
  <1> HIDE DEF q
  <1>12. BodyAt(setting, content', doing[w], m, q) /\ doing[w] \notin ReadOnly
    BY <1>3, <1>11 DEF BodyAt, ReadOnly
  <1>13. Region \in DOMAIN content'
    BY <1>2, <1>7
  <1> QED
    BY <1>1, <1>2, <1>3, <1>4, <1>6, <1>7, <1>11, <1>12, <1>13, WriterGoesOn

LEMMA ReferenceFreeLinks ==
    ASSUME LinksInv, BankInv', NEW w \in Workers, ReferenceFree(w)
    PROVE  LinksInv'
  <1> DEFINE m == my[w]
             C == content
             x == m.seg
             q == <<Write(m.prev, NEXT, Null), Read(m.prev, PARITY)>>
  <1>1. /\ OnReference /\ Calls(w, "free") /\ RefFree(Pending(w).seg) /\ Returned(w, Null)
    BY DEF ReferenceFree, ReferenceCalls
  <1>2. /\ Inside(w) /\ doing[w] \in Transactions /\ doing[w] # "done"
        /\ BodyAt(setting, content, doing[w], my[w], todo[w])
        /\ Queue(todo[w]) /\ Len(todo[w]) \in Nat \ {0} /\ ~AllDone
        /\ Start \in DOMAIN content /\ Null \notin DOMAIN content /\ Start = Region
    <2>1. "free" # "begin"
      OBVIOUS
    <2> QED
      BY <1>1, <2>1, InsideIs
  <1>3. /\ doing[w] = "alloc" /\ ~InPieces(setting, C, m, todo[w])
        /\ Placed(C, m) /\ C[x][NEXT] = Null /\ m.prev # Null
        /\ todo[w] = <<Free(x), Write(m.prev, NEXT, Null), Read(m.prev, PARITY)>>
    <2>1. Head(todo[w]).do = "free"
      BY <1>1 DEF Calls
    <2> QED
      BY <1>2, <2>1, WhereAlloc
  <1>4. Pending(w).seg = x /\ Len(todo[w]) = 3 /\ Tail(todo[w]) = q
    BY <1>3, FewCalls, CallFields DEF Pending
  <1> HIDE DEF q
  <1>5. Goes(w, m, q) /\ arg' = arg
    <2>1. Len(todo[w]) > 1
      BY <1>4
    <2> QED
      BY <1>1, <1>4, <2>1, Zenon DEF Returned
  <1>6. /\ x \in DOMAIN C /\ x # Region /\ x # Null
        /\ m.prev \in DOMAIN C /\ m.prev # x /\ C[m.prev][NEXT] = x
    BY <1>2, <1>3 DEF Placed
  <1>7. ListFits'
    <2>1. x \in DOMAIN node
      BY <1>6 DEF LinksInv, ListFits
    <2> QED
      BY <1>1, <1>2, <1>4, <2>1, ListShrinks DEF LinksInv, NULL, Null
  <1>8. Whole(setting, C)
    BY <1>2, <1>3, WholeToOthers DEF Splits
  <1>9. /\ DOMAIN content' = DOMAIN C \ {x}
        /\ \A y \in DOMAIN C \ {x} : content'[y] = C[y]
        /\ UNCHANGED <<writer, readers>>
    BY <1>1, <1>4 DEF RefFree, Without
  <1>10. Chain(setting, content', {}, {x}, {})
    <2>1. ASSUME NEW y \in DOMAIN content'
          PROVE  /\ DOMAIN content'[y] = Offsets(setting)
                 /\ content'[y][NEXT] \in {Null} \cup {x} \cup (DOMAIN content' \ {Region})
                 /\ content'[y][NEXT] # y
                 /\ setting.phase = "run" => content'[y][COUNT] \in Counts(setting)
      BY <1>8, <1>9 DEF Whole, Chain
    <2>2. ASSUME NEW y \in DOMAIN content' \ {Region}
          PROVE  \E z \in DOMAIN content' : content'[z][NEXT] = y
      <3>1. PICK z \in DOMAIN C : C[z][NEXT] = y
        BY <1>8, <1>9 DEF Whole, Chain
      <3>2. z # x
        BY <1>2, <1>3, <1>9, <3>1
      <3> QED
        BY <1>9, <3>1, <3>2
    <2>3. \A y, z \in DOMAIN content' :
              content'[y][NEXT] = content'[z][NEXT] /\ y # z => content'[y][NEXT] = Null
      BY <1>8, <1>9 DEF Whole, Chain
    <2> QED
      BY <2>1, <2>2, <2>3 DEF Chain
  <1>11. InPieces(setting, content', m, q)
    BY <1>6, <1>9, <1>10 DEF InPieces, q
  <1>12. BodyAt(setting, content', doing[w], m, q) /\ doing[w] \notin ReadOnly
    BY <1>3, <1>11 DEF BodyAt, ReadOnly
  <1>13. Region \in DOMAIN content'
    BY <1>2, <1>6, <1>9
  <1> QED
    BY <1>1, <1>2, <1>3, <1>5, <1>7, <1>9, <1>11, <1>12, <1>13, WriterGoesOn
----------------------------------------------------------------------------
(* The lock of the other memory does not matter to the dual-versioned one. *)
LEMMA NotReference ==
    ASSUME OnDual, setting' = setting
    PROVE  LockHeld'
  BY DEF OnDual, OnReference, LockHeld

(* What a step on the dual-versioned memory leaves to the others.          *)
LEMMA DualOthers ==
    ASSUME LinksInv, NEW w \in Workers, DualStep(w)
    PROVE  DOMAIN target' = DOMAIN target /\ \A u \in Workers \ {w} : op'[u] = op[u]
  <1>1. \A u \in Workers \ {w} : op'[u] = op[u]
    BY DualMoves DEF LinksInv, BankInv
  <1>2. target' = target \/ (\E r : target' = [target EXCEPT ![w] = r])
    BY DEF DualStep, DualBegin, DualBeginBlocks, DualBeginFlag, DualCall, DualReturn, DualEnd,
       DualRefused, TmBeginBlocks, TmBeginFlag, ReadWord, WriteWord, WriteLocked, AbortWord,
       ReadCopy, WriteCopy, TmLeave, Consume, memoryVars
  <1> QED
    BY <1>1, <1>2

LEMMA DualKept ==
    ASSUME LinksInv, NEW w \in Workers, setting' = setting, content' = content,
           DOMAIN target' = DOMAIN target,
           \A u \in Workers \ {w} : op'[u] = op[u],
           \A u \in Workers \ {w} : todo'[u] = todo[u],
           HeaderFits(words_array_A)', HeaderFits(words_array_B)', CallIs(w, op[w].at)'
    PROVE  DualFit'
  <1>2. SUFFICES ASSUME OnDual PROVE DualFit'
    BY DEF DualFit, OnDual
  <1>3. ASSUME NEW u \in Workers PROVE CallIs(u, op[u].at)'
    <2>1. CASE u = w
      BY <2>1
    <2>2. CASE u # w
      <3>1. CallIs(u, op[u].at)
        BY <1>2 DEF LinksInv, DualFit
      <3>2. op'[u] = op[u] /\ todo'[u] = todo[u]
        BY <2>2
      <3> QED
        BY <3>1, <3>2 DEF CallIs, Calls, Pending
    <2> QED
      BY <2>1, <2>2
  <1>4. content' = [x \in {Region} |-> FirstSegment']
    BY <1>2 DEF LinksInv, DualFit, FirstSegment
  <1>5. DOMAIN target' = Workers
    BY <1>2 DEF LinksInv, DualFit
  <1> QED
    BY <1>3, <1>4, <1>5 DEF DualFit

LEMMA HeadersKept ==
    ASSUME LinksInv, OnDual, setting' = setting,
           UNCHANGED <<words_array_A, words_array_B>>
    PROVE  HeaderFits(words_array_A)' /\ HeaderFits(words_array_B)'
  BY DEF LinksInv, DualFit, HeaderFits

(* A step inside the memory, of which the body sees nothing.               *)
LEMMA BankStill ==
    ASSUME LinksInv, BankInv', UNCHANGED bankVars, UNCHANGED referenceVars, DualFit'
    PROVE  LinksInv'
  <1>1. /\ UNCHANGED <<setting, doing, todo, my, arg, known>>
        /\ UNCHANGED <<writer, readers, content, allocs, node>>
    BY DEF bankVars, referenceVars
  <1>2. BodiesFit'
    BY <1>1 DEF LinksInv, BodiesFit, Inside
  <1>3. LocalsFit' /\ PhasesFit'
    BY <1>1 DEF LinksInv, LocalsFit, PhasesFit
  <1>4. LockHeld'
    BY <1>1 DEF LinksInv, LockHeld, Inside, OnReference
  <1>5. AccountsFit'
    BY <1>1 DEF LinksInv, AccountsFit, AllDone, Splits
  <1>6. ListFits'
    BY <1>1 DEF LinksInv, ListFits, AllDone, WellLinked
  <1> QED
    BY <1>2, <1>3, <1>4, <1>5, <1>6 DEF LinksInv

(* Who is in an operation of the dual-versioned memory works on it.        *)
LEMMA InDual ==
    ASSUME LinksInv, NEW w \in Workers, op[w] # NotRunning \/ pc[w] # "outside"
    PROVE  OnDual /\ doing[w] \in Transactions /\ doing[w] # "done"
  <1>1. OnDual /\ doing[w] \in Transactions
    BY DEF LinksInv, BankInv, InTransactions
  <1> QED
    BY <1>1 DEF Transactions

LEMMA OpsDiffer ==
    /\ Idle # NotRunning /\ Begun # NotRunning
    /\ \A o : o.at \in {"abort", "read_ro_copy", "read_writable_copy", "write_lock",
                        "first_copy", "write_copy"} => o # NotRunning
    /\ \A o : o.at = "abort" => o # Idle
    /\ Idle.at = "idle" /\ Begun.at = "begun"
  <1>1. Idle.at = "idle" /\ Begun.at = "begun" /\ NotRunning.at = "not running"
    BY DEF Idle, Begun, NotRunning
  <1> QED
    BY <1>1

(* An operation in which no call is under way.                             *)
LEMMA NoCallUnderWay ==
    ASSUME NEW w, op'[w] \in {Idle, Begun, NotRunning} \/ op'[w].at = "abort"
    PROVE  CallIs(w, op[w].at)'
  <1>1. Idle.at = "idle" /\ Begun.at = "begun" /\ NotRunning.at = "not running"
    BY DEF Idle, Begun, NotRunning
  <1>2. op'[w].at \notin {"read_ro_copy", "read_writable_copy", "write_lock", "first_copy",
                          "write_copy"}
    BY <1>1
  <1> QED
    BY <1>2 DEF CallIs

LEMMA DualBeginsLinks ==
    ASSUME LinksInv, BankInv', NEW w \in Workers, DualBegin(w) \/ DualBeginBlocks(w)
    PROVE  LinksInv'
  <1>1. /\ UNCHANGED bankVars /\ UNCHANGED referenceVars
        /\ UNCHANGED <<words_array_A, words_array_B>>
        /\ setting' = setting /\ content' = content /\ todo' = todo
    BY DEF DualBegin, DualBeginBlocks, TmBeginBlocks, memoryVars, bankVars, referenceVars
  <1>2. OnDual
    <2>1. CASE \E what : DualCalls(w, what)
      BY <2>1 DEF DualCalls
    <2>2. CASE pc[w] = "woken"
      <3>1. pc[w] # "outside"
        BY <2>2
      <3> QED
        BY <3>1, InDual
    <2> QED
      BY <2>1, <2>2 DEF DualBegin, DualBeginBlocks, Resume
  <1>3. CallIs(w, op[w].at)'
    <2>1. CASE DualBegin(w)
      <3>1. op'[w] = Begun
        BY <2>1 DEF DualBegin, GoTo, LinksInv, BankInv, InTransactions
      <3> QED
        BY <3>1, NoCallUnderWay
    <2>2. CASE DualBeginBlocks(w)
      <3>1. op' = op
        BY <2>2 DEF DualBeginBlocks, TmBeginBlocks, memoryVars
      <3> QED
        BY <1>1, <1>2, <3>1 DEF LinksInv, DualFit, CallIs, Calls, Pending
    <2> QED
      BY <2>1, <2>2
  <1>4. DOMAIN target' = DOMAIN target /\ \A u \in Workers \ {w} : op'[u] = op[u]
    BY DualOthers DEF DualStep
  <1>5. DualFit'
    BY <1>1, <1>2, <1>3, <1>4, HeadersKept, DualKept
  <1> QED
    BY <1>1, <1>5, BankStill

LEMMA DualCallLinks ==
    ASSUME LinksInv, BankInv', NEW w \in Workers, DualCall(w)
    PROVE  LinksInv'
  <1>0. DOMAIN op = Workers
    BY DEF LinksInv, BankInv, InTransactions
  <1>1. /\ UNCHANGED bankVars /\ UNCHANGED referenceVars
        /\ UNCHANGED <<words_array_A, words_array_B>>
        /\ setting' = setting /\ content' = content /\ todo' = todo
    BY DEF DualCall, ReadWord, WriteWord, WriteLocked, AbortWord, bankVars, referenceVars
  <1>2. OnDual
    <2>1. CASE \E what : DualCalls(w, what)
      BY <2>1 DEF DualCalls
    <2>2. CASE op[w].at \in {"write_lock", "abort"}
      BY <2>2, InDual, OpsDiffer
    <2> QED
      BY <2>1, <2>2 DEF DualCall, WriteLocked, AbortWord
  <1>3. CallIs(w, op[w].at)'
    <2>a. \A word : op' = [op EXCEPT ![w] = [at |-> "abort", word |-> word]]
                        => op'[w].at = "abort"
      BY <1>0
    <2>b. (\E word : op' = [op EXCEPT ![w] = [at |-> "abort", word |-> word]])
              => CallIs(w, op[w].at)'
      BY <2>a, NoCallUnderWay
    <2>1. CASE DualCalls(w, "read") /\ ReadWord(w, Pending(w).off)
      <3>1. CASE \E what \in {"read_ro_copy", "read_writable_copy"} :
                     op' = [op EXCEPT ![w] = [at |-> what, word |-> Pending(w).off]]
        <4>1. PICK what \in {"read_ro_copy", "read_writable_copy"} :
                  op'[w] = [at |-> what, word |-> Pending(w).off]
          BY <1>0, <3>1
        <4>2. op'[w].at = what
          BY <4>1
        <4>3. (Calls(w, "read"))' /\ Pending(w)' = Pending(w)
          BY <1>1, <2>1 DEF DualCalls, Calls, Pending
        <4> QED
          BY <4>1, <4>2, <4>3 DEF CallIs
      <3> QED
        BY <2>1, <2>b, <3>1 DEF ReadWord, GoTo, ToAbort
    <2>2. CASE DualCalls(w, "write") /\ WriteWord(w, Pending(w).off, Pending(w).val)
      <3>1. CASE \E what \in {"write_lock", "write_copy"} :
                     op' = [op EXCEPT ![w] = [at |-> what, word |-> Pending(w).off,
                                              val |-> Pending(w).val]]
        <4>1. PICK what \in {"write_lock", "write_copy"} :
                  op'[w] = [at |-> what, word |-> Pending(w).off, val |-> Pending(w).val]
          BY <1>0, <3>1
        <4>2. op'[w].at = what
          BY <4>1
        <4>3. (Calls(w, "write"))' /\ Pending(w)' = Pending(w)
          BY <1>1, <2>2 DEF DualCalls, Calls, Pending
        <4> QED
          BY <4>1, <4>2, <4>3 DEF CallIs
      <3> QED
        BY <2>2, <2>b, <3>1 DEF WriteWord, GoTo, ToAbort
    <2>3. CASE WriteLocked(w)
      <3>1. op[w].at = "write_lock"
        BY <2>3 DEF WriteLocked
      <3>2. /\ Calls(w, "write")
            /\ op[w] = [at |-> "write_lock", word |-> Pending(w).off, val |-> Pending(w).val]
        <4>1. CallIs(w, "write_lock")
          BY <1>2, <3>1 DEF LinksInv, DualFit
        <4> QED
          BY <4>1 DEF CallIs
      <3>3. CASE op' = [op EXCEPT ![w] = [op[w] EXCEPT !.at = "first_copy"]]
        <4>1. op'[w] = [at |-> "first_copy", word |-> Pending(w).off, val |-> Pending(w).val]
          BY <1>0, <3>2, <3>3
        <4>2. op'[w].at = "first_copy"
          BY <4>1
        <4>3. (Calls(w, "write"))' /\ Pending(w)' = Pending(w)
          BY <1>1, <3>2 DEF Calls, Pending
        <4> QED
          BY <4>1, <4>2, <4>3 DEF CallIs
      <3> QED
        BY <2>3, <2>b, <3>3 DEF WriteLocked, GoTo, ToAbort
    <2>4. CASE AbortWord(w)
      BY <2>4, <2>b DEF AbortWord, GoTo
    <2> QED
      BY <2>1, <2>2, <2>3, <2>4 DEF DualCall
  <1>4. DOMAIN target' = DOMAIN target /\ \A u \in Workers \ {w} : op'[u] = op[u]
    BY DualOthers DEF DualStep
  <1>5. DualFit'
    BY <1>1, <1>2, <1>3, <1>4, HeadersKept, DualKept
  <1> QED
    BY <1>1, <1>5, BankStill

LEMMA DualBeginFlagLinks ==
    ASSUME LinksInv, BankInv', NEW w \in Workers, DualBeginFlag(w)
    PROVE  LinksInv'
  <1>1. /\ op[w] = Begun /\ op' = [op EXCEPT ![w] = Idle] /\ Enter(w) /\ arg' = arg
        /\ UNCHANGED <<words_array_A, words_array_B>>
        /\ UNCHANGED <<content, node, allocs>>
    BY DEF DualBeginFlag, TmBeginFlag, GoTo, Enter, referenceVars
  <1>2. OnDual /\ doing[w] \in Transactions /\ doing[w] # "done"
    BY <1>1, InDual, OpsDiffer
  <1>3. Shapes /\ LocalsFit /\ DOMAIN op = Workers
    BY DEF LinksInv, BankInv, InTransactions
  <1>4. setting.phase \in PhaseOf(doing[w]) /\ setting.nbaccounts \in Nat \ {0}
    BY <1>3, SettingIs DEF LinksInv, PhasesFit
  <1>5. Start \in DOMAIN content
    BY <1>2, NotAllDone DEF LinksInv, AccountsFit, Start, Region
  <1>6. PICK q : Goes(w, Locals, q) /\ BodyAt(setting, content, doing[w], Locals, q)
    BY <1>1, <1>2, <1>4, <1>5, EntersAt
  <1>7. /\ setting' = setting /\ doing' = doing /\ my'[w] = Locals /\ todo'[w] = q
        /\ \A u \in Workers \ {w} : todo'[u] = todo[u] /\ my'[u] = my[u]
        /\ LocalsFit'
    <2>1. DOMAIN arg' = Workers /\ \A u \in Workers : SoundArg(arg'[u])
      BY <1>1, <1>3 DEF LocalsFit
    <2>2. Sound(Locals)
      BY SoundBeginnings
    <2> QED
      BY <1>3, <1>6, <2>1, <2>2, GoesOnly
  <1>8. ~Splits(w)
    BY <1>2, DualWhole
  <1>9. BodiesFit' /\ PhasesFit' /\ AccountsFit' /\ ListFits'
    BY <1>1, <1>2, <1>4, <1>6, <1>7, <1>8, QuietStep
  <1>10. CallIs(w, op[w].at)'
    <2>1. op'[w] = Idle
      BY <1>1, <1>3
    <2> QED
      BY <2>1, NoCallUnderWay
  <1>11. DOMAIN target' = DOMAIN target /\ \A u \in Workers \ {w} : op'[u] = op[u]
    BY DualOthers DEF DualStep
  <1>12. DualFit'
    BY <1>1, <1>2, <1>7, <1>10, <1>11, HeadersKept, DualKept
  <1> QED
    BY <1>2, <1>7, <1>9, <1>12, NotReference DEF LinksInv

(* tm_read returns what one of the copies holds.                           *)
LEMMA DualReadLinks ==
    ASSUME LinksInv, BankInv', NEW w \in Workers, ReadCopy(w), Returned(w, target'[w][2]),
           UNCHANGED referenceVars
    PROVE  LinksInv'
  <1> DEFINE c == Pending(w)
             v == target'[w][2]
  <1>1. /\ op[w].at \in {"read_ro_copy", "read_writable_copy"} /\ op' = [op EXCEPT ![w] = Idle]
        /\ UNCHANGED <<words_array_A, words_array_B>>
        /\ UNCHANGED <<content, node, allocs>>
    BY DEF ReadCopy, GoTo, referenceVars
  <1>2. OnDual
    BY <1>1, InDual, OpsDiffer
  <1>3. Calls(w, "read") /\ op[w].word = c.off
    <2>1. CallIs(w, op[w].at)
      BY <1>2 DEF LinksInv, DualFit
    <2>2. Calls(w, "read") /\ op[w] = [at |-> op[w].at, word |-> Pending(w).off]
      BY <1>1, <2>1 DEF CallIs
    <2> QED
      BY <2>2
  <1>4. v = words_array_A[c.off] \/ v = words_array_B[c.off]
    <2>1. DOMAIN target = Workers
      BY <1>2 DEF LinksInv, DualFit
    <2>2. v = RoCopy(c.off) \/ v = WritableCopy(c.off)
      BY <1>3, <2>1 DEF ReadCopy
    <2> QED
      BY <2>2 DEF RoCopy, WritableCopy
  <1>5. Leads(setting, content, c) /\ c.do = "read"
    <2>1. "read" # "begin"
      OBVIOUS
    <2>2. /\ doing[w] \in Transactions
          /\ BodyAt(setting, content, doing[w], my[w], todo[w])
          /\ Queue(todo[w]) /\ Len(todo[w]) \in Nat \ {0}
          /\ setting.phase \in PhaseOf(doing[w]) /\ setting.nbaccounts \in Nat \ {0}
          /\ Start \in DOMAIN content
      BY <1>3, <2>1, InsideIs
    <2> QED
      BY <1>3, <2>2, CallsLead DEF Pending, Calls
  <1>6. Returns(setting, content, c, v)
    <2>1. /\ DOMAIN content = {Region}
          /\ setting.phase = "run" => content[Region][NEXT] = Null
      BY <1>2, DualWhole
    <2>2. setting.phase = "run" =>
              /\ words_array_A[NEXT] = Null /\ words_array_A[COUNT] \in Counts(setting)
              /\ words_array_B[NEXT] = Null /\ words_array_B[COUNT] \in Counts(setting)
      BY <1>2 DEF LinksInv, DualFit, HeaderFits
    <2> HIDE DEF v
    <2> QED
      BY <1>4, <1>5, <2>1, <2>2 DEF Leads, Returns
  <1> HIDE DEF v
  <1>7. /\ setting' = setting
        /\ \A u \in Workers \ {w} : todo'[u] = todo[u]
        /\ BodiesFit' /\ LocalsFit' /\ PhasesFit' /\ AccountsFit' /\ ListFits'
    <2>1. Returned(w, v)
      BY DEF v
    <2> QED
      BY <1>1, <1>3, <1>6, <2>1, ReadReturns
  <1>8. CallIs(w, op[w].at)'
    <2>1. op'[w] = Idle
      BY <1>1 DEF LinksInv, BankInv, InTransactions
    <2> QED
      BY <2>1, NoCallUnderWay
  <1>9. DOMAIN target' = DOMAIN target /\ \A u \in Workers \ {w} : op'[u] = op[u]
    <2>1. DualStep(w)
      BY DEF DualStep, DualReturn
    <2> QED
      BY <2>1, DualOthers
  <1>10. DualFit'
    BY <1>1, <1>2, <1>7, <1>8, <1>9, HeadersKept, DualKept
  <1> QED
    BY <1>2, <1>7, <1>10, NotReference DEF LinksInv

(* tm_write returns: one of the copies has the value.                      *)
LEMMA DualWriteLinks ==
    ASSUME LinksInv, BankInv', NEW w \in Workers, WriteCopy(w), Returned(w, Null),
           UNCHANGED referenceVars
    PROVE  LinksInv'
  <1> DEFINE c == Head(todo[w])
             q == Tail(todo[w])
  <1>1. /\ op[w].at \in {"first_copy", "write_copy"} /\ op' = [op EXCEPT ![w] = Idle]
        /\ UNCHANGED <<content, node, allocs>>
    BY DEF WriteCopy, GoTo, referenceVars
  <1>2. OnDual
    BY <1>1, InDual, OpsDiffer
  <1>3. Calls(w, "write") /\ op[w].word = c.off /\ op[w].val = c.val
    <2>1. CallIs(w, op[w].at)
      BY <1>2 DEF LinksInv, DualFit
    <2>2. /\ Calls(w, "write")
          /\ op[w] = [at |-> op[w].at, word |-> Pending(w).off, val |-> Pending(w).val]
      BY <1>1, <2>1 DEF CallIs
    <2> QED
      BY <2>2 DEF Pending
  <1>4. /\ Inside(w) /\ doing[w] \in Transactions /\ doing[w] # "done"
        /\ BodyAt(setting, content, doing[w], my[w], todo[w])
        /\ Queue(todo[w]) /\ Len(todo[w]) \in Nat \ {0}
        /\ setting.phase \in PhaseOf(doing[w]) /\ setting.nbaccounts \in Nat \ {0}
    <2>1. "write" # "begin"
      OBVIOUS
    <2> QED
      BY <1>3, <2>1, InsideIs
  <1>5. ~Splits(w)
    BY <1>2, DualWhole
  <1>6. /\ Len(todo[w]) > 1 /\ Harmless(setting, content, c)
        /\ BodyAt(setting, content, doing[w], my[w], q)
    <2>1. c.do = "write"
      BY <1>3 DEF Calls
    <2> QED
      BY <1>4, <1>5, <2>1, HarmlessGoesOn DEF Splits
  <1>7. Goes(w, my[w], q) /\ arg' = arg
    BY <1>6 DEF Returned
  <1> HIDE DEF q
  <1>8. /\ setting' = setting /\ doing' = doing /\ my'[w] = my[w] /\ todo'[w] = q
        /\ \A u \in Workers \ {w} : todo'[u] = todo[u] /\ my'[u] = my[u]
        /\ LocalsFit'
    <2>1. /\ Shapes /\ LocalsFit /\ Sound(my[w])
          /\ DOMAIN arg' = Workers /\ \A u \in Workers : SoundArg(arg'[u])
      BY <1>7 DEF LinksInv, BankInv, LocalsFit
    <2> QED
      BY <1>7, <2>1, GoesOnly
  <1>9. BodiesFit' /\ PhasesFit' /\ AccountsFit' /\ ListFits'
    BY <1>1, <1>4, <1>5, <1>6, <1>8, QuietStep
  <1>10. HeaderFits(words_array_A)' /\ HeaderFits(words_array_B)'
    <2>1. /\ c.off # NEXT
          /\ setting.phase = "run" /\ c.off = COUNT => c.val \in Counts(setting)
      <3>1. c.do = "write"
        BY <1>3 DEF Calls
      <3> QED
        BY <1>6, <3>1 DEF Harmless
    <2>2. ASSUME NEW words, HeaderFits(words)
          PROVE  HeaderFits([words EXCEPT ![c.off] = c.val])
      <3>1. COUNT # NEXT
        BY DEF COUNT, NEXT
      <3> HIDE DEF c
      <3>2. DOMAIN [words EXCEPT ![c.off] = c.val] = DOMAIN words
        OBVIOUS
      <3>3. ASSUME NEW off \in DOMAIN words
            PROVE  [words EXCEPT ![c.off] = c.val][off] = IF off = c.off THEN c.val ELSE words[off]
        OBVIOUS
      <3>4. COUNT \in DOMAIN words /\ NEXT \in DOMAIN words
        <4>1. NEXT \in Offsets(setting) /\ COUNT \in Offsets(setting)
          BY <1>4, ReadsOffsets
        <4>2. DOMAIN words = Offsets(setting)
          BY <1>2, <2>2, OneSegmentAssumption DEF HeaderFits, Offsets, Words, OnDual, LinksInv,
             BankInv, Shapes
        <4> QED
          BY <4>1, <4>2
      <3>5. /\ [words EXCEPT ![c.off] = c.val][NEXT] = words[NEXT]
            /\ [words EXCEPT ![c.off] = c.val][COUNT]
                   = IF COUNT = c.off THEN c.val ELSE words[COUNT]
        BY <2>1, <3>3, <3>4
      <3> QED
        BY <2>1, <2>2, <3>2, <3>5 DEF HeaderFits
    <2>3. HeaderFits(words_array_A) /\ HeaderFits(words_array_B)
      BY <1>2 DEF LinksInv, DualFit
    <2>4. \/ /\ words_array_A' = [words_array_A EXCEPT ![c.off] = c.val]
             /\ words_array_B' = words_array_B
          \/ /\ words_array_B' = [words_array_B EXCEPT ![c.off] = c.val]
             /\ words_array_A' = words_array_A
      BY <1>3 DEF WriteCopy
    <2>5. HeaderFits(words_array_A') /\ HeaderFits(words_array_B')
      BY <2>2, <2>3, <2>4
    <2> QED
      BY <1>8, <2>5 DEF HeaderFits
  <1>11. CallIs(w, op[w].at)'
    <2>1. op'[w] = Idle
      BY <1>1 DEF LinksInv, BankInv, InTransactions
    <2> QED
      BY <2>1, NoCallUnderWay
  <1>12. DOMAIN target' = DOMAIN target /\ \A u \in Workers \ {w} : op'[u] = op[u]
    <2>1. DualStep(w)
      BY DEF DualStep, DualReturn
    <2> QED
      BY <2>1, DualOthers
  <1>13. DualFit'
    BY <1>1, <1>8, <1>10, <1>11, <1>12, DualKept
  <1> QED
    BY <1>2, <1>8, <1>9, <1>13, NotReference DEF LinksInv

(* A transaction leaves the memory, committed or refused.                  *)
LEMMA DualLeaveLinks ==
    ASSUME LinksInv, BankInv', NEW w \in Workers, DualEnd(w) \/ DualRefused(w)
    PROVE  LinksInv'
  <1>0. Shapes /\ LocalsFit /\ DOMAIN op = Workers
    BY DEF LinksInv, BankInv, InTransactions
  <1>1. /\ op[w] # NotRunning /\ op'[w] = NotRunning
        /\ UNCHANGED <<words_array_A, words_array_B>>
        /\ UNCHANGED <<content, node, allocs>>
    <2>1. op[w] # NotRunning
      BY OpsDiffer DEF DualEnd, DualRefused
    <2>2. op'[w] = NotRunning
      BY <1>0 DEF DualEnd, DualRefused, TmLeave, GoTo
    <2> QED
      BY <2>1, <2>2 DEF DualEnd, DualRefused, TmLeave, referenceVars
  <1>2. OnDual /\ doing[w] \in Transactions /\ doing[w] # "done" /\ ~Splits(w)
    BY <1>1, InDual, DualWhole
  <1>3. setting.phase \in PhaseOf(doing[w])
    BY DEF LinksInv, PhasesFit
  <1>4. /\ setting' = setting
        /\ \A u \in Workers \ {w} : todo'[u] = todo[u]
        /\ BodiesFit' /\ LocalsFit' /\ PhasesFit' /\ AccountsFit' /\ ListFits'
    <2>1. CASE DualEnd(w)
      <3>1. Handed(w) /\ setting' = setting
        BY <1>0, <1>3, <2>1, Between DEF DualEnd
      <3> QED
        BY <1>1, <1>2, <3>1, HandsQuietly DEF Handed
    <2>2. CASE DualRefused(w)
      <3>1. Goes(w, Locals, <<Begin>>) /\ arg' = arg
        BY <2>2 DEF DualRefused, Retry, Goes
      <3>2. /\ setting' = setting /\ doing' = doing /\ my'[w] = Locals /\ todo'[w] = <<Begin>>
            /\ \A u \in Workers \ {w} : todo'[u] = todo[u] /\ my'[u] = my[u]
            /\ LocalsFit'
        <4>1. DOMAIN arg' = Workers /\ \A u \in Workers : SoundArg(arg'[u])
          BY <1>0, <3>1 DEF LocalsFit
        <4>2. Sound(Locals)
          BY SoundBeginnings
        <4> QED
          BY <1>0, <3>1, <4>1, <4>2, GoesOnly
      <3>3. ~Inside(w)'
        BY <3>2 DEF Inside
      <3> QED
        BY <1>1, <1>2, <1>3, <3>2, <3>3, QuietStep
    <2> QED
      BY <2>1, <2>2
  <1>5. CallIs(w, op[w].at)'
    BY <1>1, NoCallUnderWay
  <1>6. DOMAIN target' = DOMAIN target /\ \A u \in Workers \ {w} : op'[u] = op[u]
    BY DualOthers DEF DualStep
  <1>7. DualFit'
    BY <1>1, <1>2, <1>4, <1>5, <1>6, HeadersKept, DualKept
  <1> QED
    BY <1>2, <1>4, <1>7, NotReference DEF LinksInv
----------------------------------------------------------------------------
(* A worker goes into the phase, or past the barrier.                      *)
LEMMA WorkerAloneLinks ==
    ASSUME LinksInv, BankInv', NEW w \in Workers, WorkerAlone(w)
    PROVE  LinksInv'
  <1>1. /\ Alone(w) /\ UNCHANGED <<writer, readers, content, node, allocs>>
        /\ UNCHANGED <<words_array_A, words_array_B, op, target>>
    BY DEF WorkerAlone, referenceVars, dualVars, vars, memoryVars
  <1>2. doing[w] \in {"start", "sync"}
    BY <1>1 DEF Alone, StartPhase, Sync
  <1>3. doing[w] # "done" /\ ~Splits(w) /\ setting.phase \in PhaseOf(doing[w])
    BY <1>2 DEF Splits, LinksInv, PhasesFit
  <1>4. Handed(w) /\ setting' = setting
    BY <1>1, <1>3, Between DEF LinksInv, BankInv
  <1>5. BodiesFit' /\ LocalsFit' /\ PhasesFit' /\ AccountsFit' /\ ListFits'
    BY <1>1, <1>3, <1>4, HandsQuietly
  <1>6. LockHeld'
    <2>1. ASSUME OnReference, NEW u \in Workers, Inside(u)'
          PROVE  IF doing'[u] \in ReadOnly THEN u \in readers' ELSE writer' = u
      <3>1. u # w /\ Inside(u) /\ doing'[u] = doing[u]
        BY <1>4, <2>1, HandedOutside DEF Handed
      <3> QED
        BY <1>1, <2>1, <3>1 DEF LinksInv, LockHeld
    <2> QED
      BY <1>4, <2>1 DEF LockHeld, OnReference
  <1>7. DualFit'
    <2>1. CASE OnDual
      <3>1. op'[w] = NotRunning
        <4>1. doing[w] \notin Transactions
          BY <1>2 DEF Transactions
        <4> QED
          BY <1>1, <4>1, InDual
      <3>2. CallIs(w, op[w].at)'
        BY <3>1, NoCallUnderWay
      <3>3. \A u \in Workers \ {w} : todo'[u] = todo[u]
        BY <1>4 DEF Handed
      <3> QED
        BY <1>1, <1>4, <2>1, <3>2, <3>3, HeadersKept, DualKept
    <2>2. CASE ~OnDual
      BY <1>4, <2>2 DEF DualFit, OnDual
    <2> QED
      BY <2>1, <2>2
  <1> QED
    BY <1>5, <1>6, <1>7 DEF LinksInv

(* The memory is destroyed when nobody is inside any more.                 *)
LEMMA DestroyLinks ==
    ASSUME LinksInv, BankInv', Destroy
    PROVE  LinksInv'
  <1>1. /\ OnReference /\ AllDone /\ UNCHANGED <<setting, doing, todo, my, arg, known>>
        /\ RefDestroyNode \/ RefDestroyRegion
    BY DEF Destroy, bankVars
  <1>2. AllDone' /\ \A w \in Workers : ~Inside(w)'
    BY <1>1 DEF AllDone, Inside, Transactions
  <1>3. BodiesFit' /\ LockHeld' /\ AccountsFit'
    BY <1>2 DEF BodiesFit, LockHeld, AccountsFit
  <1>4. LocalsFit' /\ PhasesFit'
    BY <1>1 DEF LinksInv, LocalsFit, PhasesFit
  <1>5. DOMAIN node' = DOMAIN content' \ {Region}
    <2>1. DOMAIN node = DOMAIN content \ {Region}
      BY DEF LinksInv, ListFits
    <2>2. CASE RefDestroyNode
      BY <2>1, <2>2 DEF RefDestroyNode, Without
    <2>3. CASE RefDestroyRegion
      BY <2>1, <2>3 DEF RefDestroyRegion, Without
    <2> QED
      BY <1>1, <2>2, <2>3
  <1>6. ListFits'
    BY <1>2, <1>5 DEF ListFits
  <1> QED
    BY <1>1, <1>3, <1>4, <1>6, NotDual DEF LinksInv

LEMMA LinksInvariance == Spec => []LinksInv
  <1>1. LinksInv /\ [Next]_allVars => LinksInv'
    <2> SUFFICES ASSUME LinksInv, [Next]_allVars PROVE LinksInv'
      OBVIOUS
    <2>0. BankInv
      BY DEF LinksInv
    <2>1. CASE UNCHANGED allVars
      <3>1. /\ UNCHANGED bankVars /\ UNCHANGED referenceVars
            /\ UNCHANGED <<words_array_A, words_array_B, op, target, pc>>
        BY <2>1 DEF allVars, dualVars, vars, memoryVars, batcherVars
      <3>2. UNCHANGED <<setting, doing, todo, cntr, passed, pc, op, writer, readers, content>>
        BY <3>1 DEF bankVars, referenceVars
      <3>3. BankInv'
        BY <2>0, <3>2 DEF BankInv, Shapes, WorkersFit, Fits, LockFits, InTransactions, OnDual
      <3>4. DualFit'
        BY <3>1, <3>2 DEF LinksInv, DualFit, OnDual, HeaderFits, CallIs, Calls, Pending,
           FirstSegment
      <3> QED
        BY <3>1, <3>3, <3>4, BankStill
    <2>2. CASE Destroy
      BY <2>0, <2>2, DestroyFits, DestroyLinks
    <2>3. ASSUME NEW w \in Workers, WorkerAlone(w) PROVE LinksInv'
      BY <2>0, <2>3, WorkerAloneFits, WorkerAloneLinks
    <2>4. ASSUME NEW w \in Workers, ReferenceStep(w) PROVE LinksInv'
      <3>1. BankInv'
        BY <2>0, <2>4, ReferenceFits
      <3> QED
        BY <2>4, <3>1, ReferenceBeginLinks, ReferenceReadLinks, ReferenceWriteLinks,
           ReferenceAllocLinks, ReferenceAllocFailsLinks, ReferenceFreeLinks, ReferenceEndLinks
           DEF ReferenceStep
    <2>5. ASSUME NEW w \in Workers, DualStep(w) PROVE LinksInv'
      <3>1. BankInv'
        BY <2>0, <2>5, DualFits
      <3>2. DualReturn(w) => LinksInv'
        BY <3>1, DualReadLinks, DualWriteLinks DEF DualReturn
      <3> QED
        BY <2>5, <3>1, <3>2, DualBeginsLinks, DualBeginFlagLinks, DualCallLinks, DualLeaveLinks
           DEF DualStep
    <2> QED
      BY <2>1, <2>2, <2>3, <2>4, <2>5 DEF Next, WorkerStep
  <1> QED
    BY <1>1, InitLinks, PTL DEF Spec
----------------------------------------------------------------------------
(* What the pending call of a body asks for is there.                      *)
LEMMA LinksReach ==
    ASSUME LinksInv
    PROVE  AccessesAllocated
  <1>1. SUFFICES ASSUME NEW w \in Workers,
                        Calls(w, "read") \/ Calls(w, "write") \/ Calls(w, "free")
                 PROVE  /\ Pending(w).seg \in DOMAIN content
                        /\ Pending(w).do = "free" => Pending(w).seg \in DOMAIN node
                        /\ Pending(w).do # "free" => Pending(w).off \in DOMAIN FirstSegment
    BY DEF AccessesAllocated
  <1>2. PICK what \in {"read", "write", "free"} : Calls(w, what)
    BY <1>1
  <1>3. Pending(w).do = what
    BY <1>2 DEF Calls, Pending
  <1>4. what # "begin"
    BY <1>2
  <1>5. /\ doing[w] \in Transactions /\ BodyAt(setting, content, doing[w], my[w], todo[w])
        /\ Queue(todo[w]) /\ Len(todo[w]) \in Nat \ {0}
        /\ setting.phase \in PhaseOf(doing[w]) /\ setting.nbaccounts \in Nat \ {0}
        /\ Start \in DOMAIN content
    BY <1>2, <1>4, InsideIs
  <1>6. Leads(setting, content, Pending(w))
    BY <1>5, CallsLead DEF Pending
  <1>7. DOMAIN FirstSegment = Offsets(setting)
    BY DEF FirstSegment, Offsets
  <1>8. DOMAIN node = DOMAIN content \ {Region}
    BY DEF LinksInv, ListFits
  <1> QED
    BY <1>2, <1>3, <1>6, <1>7, <1>8 DEF Leads

(* No transaction is about to read, write or free a segment that another   *)
(* one has freed, or memory beyond the end of a segment: every call of a   *)
(* body of workload.hpp goes to a segment that tm_create or tm_alloc has   *)
(* allocated and tm_free has not taken back, whatever the accounts, the    *)
(* workers and the other parameters of the grader are.                     *)
THEOREM BankAccessesAllocated == Spec => []AccessesAllocated
  BY LinksInvariance, LinksReach, PTL

(* Nobody has the lock: nobody has the chain in pieces.                    *)
LEMMA UnlockedWhole ==
    ASSUME LinksInv, OnReference, writer = NoWriter, ~AllDone
    PROVE  Whole(setting, content) /\ Region \in DOMAIN content
  <1>1. ASSUME NEW u \in Workers, Splits(u)
        PROVE  FALSE
    <2>1. Calls(u, "write") /\ doing[u] = "alloc"
      BY <1>1, PiecesWrite DEF Splits
    <2>2. "write" # "begin" /\ "alloc" \notin ReadOnly
      BY DEF ReadOnly
    <2>3. Inside(u)
      BY <2>1, <2>2, InsideIs
    <2>4. writer = u
      BY <2>1, <2>2, <2>3 DEF LinksInv, LockHeld
    <2> QED
      BY <2>4, NoWriterAssumption
  <1> QED
    BY <1>1 DEF LinksInv, AccountsFit

(* A chain that is whole has the segments of the list.                     *)
LEMMA LinksLinked ==
    ASSUME LinksInv
    PROVE  SegmentsLinked
  <1>1. DOMAIN node = DOMAIN content \ {Region}
    BY DEF LinksInv, ListFits
  <1>2. ASSUME OnReference, writer = NoWriter, ~AllDone
        PROVE  /\ WellLinked
               /\ NextSegments(content) = DOMAIN node
               /\ \A s, r \in DOMAIN content :
                      content[s][NEXT] = content[r][NEXT] /\ s # r => content[s][NEXT] = Null
    <2>1. Whole(setting, content)
      BY <1>2, UnlockedWhole
    <2>2. Null \notin DOMAIN content
      BY DEF LinksInv, BankInv, LockFits, Null
    <2>3. WellLinked
      BY <1>2 DEF LinksInv, ListFits
    <2>4. NextSegments(content) \subseteq DOMAIN content \ {Region}
      BY <2>1 DEF Whole, Chain, NextSegments
    <2>5. \A y \in DOMAIN content \ {Region} : \E x \in DOMAIN content : content[x][NEXT] = y
      BY <2>1 DEF Whole, Chain
    <2>6. DOMAIN content \ {Region} \subseteq NextSegments(content)
      BY <2>2, <2>5 DEF NextSegments
    <2>7. \A s, r \in DOMAIN content :
              content[s][NEXT] = content[r][NEXT] /\ s # r => content[s][NEXT] = Null
      BY <2>1 DEF Whole, Chain
    <2> QED
      BY <1>1, <2>3, <2>4, <2>6, <2>7
  <1> QED
    BY <1>1, <1>2 DEF SegmentsLinked

(* Whenever nobody holds the lock for writing, the segments the accounts   *)
(* are linked in by workload.hpp's segment.next, those in the library's    *)
(* list `allocs' and those allocated are the same, each linked once: what  *)
(* alloc_tx appends and removes leaves neither a leak nor a second free    *)
(* for tm_destroy, which follows the list (reference/tm.c:87).             *)
THEOREM BankSegmentsLinked == Spec => []SegmentsLinked
  BY LinksInvariance, LinksLinked, PTL
----------------------------------------------------------------------------
(* What the phases init and check report.  In init each worker stores the  *)
(* same balances before it reads one back; in check the workers decrease a *)
(* counter together, which one of them sets before and reads after.        *)
Asks(w, off) == todo[w] = <<Begin>> \/ todo[w] = <<Read(Start, off)>>
Agrees(w) == todo[w] = <<End(TRUE)>>

Stores(c) == c.do = "write" /\ c.seg = Region /\ c.off = Account(0)

(* What is left of InitCalls stores the balance b in the memory C, or it   *)
(* is there already.                                                       *)
StoresSame(q, C, b) ==
    /\ \A i \in 1 .. Len(q) : /\ Stores(q[i]) => q[i].val = b
                              /\ q[i].do = "end" => i = Len(q)
    /\ (\E i \in 1 .. Len(q) : Stores(q[i])) \/ C[Region][Account(0)] = b

InitAgrees(w) ==
    /\ doing[w] = "init" /\ todo[w] # <<Begin>> =>
           StoresSame(todo[w], content, setting.init_balance)
    /\ doing[w] = "first" =>
           /\ content[Region][Account(0)] = setting.init_balance
           /\ Asks(w, Account(0)) \/ Agrees(w)

InitHonest == violated = {} /\ \A w \in Workers : InitAgrees(w)

Counter == content[Region][COUNT]

(* Nobody is more than one barrier ahead, and only of those who wait there. *)
BarrierFits ==
    \A u, v \in Running :
        passed[u] < passed[v] => doing[u] = "sync" /\ passed[v] = passed[u] + 1

(* Who is where in check, and how many rounds it has behind it.            *)
StageFits(w) ==
    /\ w \notin Running => doing[w] = "done" /\ cntr[w] = 0
    /\ w \in Running /\ doing[w] = "done" => passed[w] = 3
    /\ doing[w] \in {"set", "verify", "zero"} => w = First
    /\ doing[w] = "zero" => passed[w] = 3
    /\ passed[w] = 3 \/ (passed[w] = 2 /\ doing[w] = "sync") => cntr[w] = setting.nbtxperwrk

(* What the transactions of check are about to call.                       *)
CallAgrees(w) ==
    /\ doing[w] \in {"verify", "last", "zero"} => Asks(w, COUNT) \/ Agrees(w)
    /\ doing[w] = "set" =>
           \/ todo[w] = <<Begin>> \/ Agrees(w)
           \/ todo[w] = <<Write(Start, COUNT, InitCounter), End(TRUE)>>
    /\ doing[w] = "dec" =>
           \/ Asks(w, COUNT) \/ Agrees(w)
           \/ todo[w] = <<Write(Start, COUNT, Counter - 1), End(TRUE)>>

(* A worker that is going to decrease the counter has seen it as large.    *)
SeenFits(w) ==
    \/ doing[w] = "last" /\ Agrees(w)
    \/ doing[w] = "dec" /\ Asks(w, COUNT)
    => arg[w].last \in Int /\ arg[w].last >= Counter

(* The decreases by worker and round, with one that has been written and   *)
(* not yet committed among them.                                           *)
Decreased(w) == IF doing[w] = "dec" /\ Agrees(w) THEN cntr[w] + 1 ELSE cntr[w]

Decreases == {d \in Running \X (1 .. setting.nbtxperwrk) : d[2] <= Decreased(d[1])}

IsSet ==
    \/ doing[First] = "set" /\ Agrees(First)
    \/ doing[First] = "verify"
    \/ doing[First] = "sync" /\ passed[First] = 1
    \/ passed[First] >= 2

CounterFits ==
    IsSet /\ ~AllDone => Counter = InitCounter - Cardinality(Decreases)

CheckHonest ==
    /\ violated = {}
    /\ BarrierFits /\ CounterFits
    /\ \A w \in Workers : StageFits(w) /\ CallAgrees(w) /\ SeenFits(w)

HonestInv ==
    /\ LinksInv
    /\ OnReference /\ setting.phase = "init" => InitHonest
    /\ OnReference /\ setting.phase = "check" => CheckHonest
----------------------------------------------------------------------------
(* The bodies of one read.                                                 *)
LEMMA OneReadCalls ==
    ASSUME NEW w, NEW off, Asks(w, off) \/ Agrees(w)
    PROVE  /\ Calls(w, "begin") => todo[w] = <<Begin>>
           /\ Calls(w, "read") => todo[w] = <<Read(Start, off)>>
           /\ Calls(w, "end") => Agrees(w)
           /\ ~Calls(w, "write") /\ ~Calls(w, "alloc") /\ ~Calls(w, "free")
  <1> DEFINE b == Begin
             r == Read(Start, off)
             e == End(TRUE)
  <1>0. e.do = "end"
    BY CallFields
  <1>1. b.do = "begin" /\ r.do = "read"
    BY CallFields
  <1>2. todo[w] \in {<<b>>, <<r>>, <<e>>}
    BY DEF Asks, Agrees
  <1> HIDE DEF b, r, e
  <1>3. Head(<<b>>) = b /\ Head(<<r>>) = r /\ Head(<<e>>) = e
    BY FewCalls
  <1>4. /\ Calls(w, "begin") => todo[w] = <<b>>
        /\ Calls(w, "read") => todo[w] = <<r>>
        /\ Calls(w, "end") => todo[w] = <<e>>
        /\ ~Calls(w, "write") /\ ~Calls(w, "alloc") /\ ~Calls(w, "free")
    BY <1>0, <1>1, <1>2, <1>3 DEF Calls
  <1> QED
    BY <1>4 DEF Agrees, b, r, e

(* What a worker is about to call is no other call.                        *)
LEMMA CallsDiffer ==
    /\ \A off : <<Read(Start, off)>> # <<End(TRUE)>>
    /\ <<Begin>> # <<End(TRUE)>>
    /\ \A c : <<c, End(TRUE)>> # <<End(TRUE)>> /\ <<c, End(TRUE)>> # <<Begin>>
    /\ \A c, off : <<c, End(TRUE)>> # <<Read(Start, off)>>
  <1> DEFINE e == End(TRUE)
  <1>1. e.do = "end" /\ Begin.do = "begin" /\ \A off : Read(Start, off).do = "read"
    BY CallFields
  <1> HIDE DEF e
  <1>2. \A a : Head(<<a>>) = a /\ Len(<<a>>) = 1
    BY FewCalls
  <1>3. \A a, b : Len(<<a, b>>) = 2
    BY FewCalls
  <1>4. /\ \A off : <<Read(Start, off)>> # <<e>>
        /\ <<Begin>> # <<e>>
    BY <1>1, <1>2
  <1>5. /\ \A c : <<c, e>> # <<e>> /\ <<c, e>> # <<Begin>>
        /\ \A c, off : <<c, e>> # <<Read(Start, off)>>
    <2>1. \A c, a : <<c, e>> # <<a>>
      BY <1>2, <1>3
    <2> QED
      BY <2>1
  <1> QED
    BY <1>4, <1>5 DEF e
----------------------------------------------------------------------------
(* The writes of init.                                                     *)
LEMMA InitCallsStore ==
    ASSUME setting.nbaccounts \in Nat \ {0}, NEW C
    PROVE  StoresSame(InitCalls, C, setting.init_balance)
  <1> DEFINE n == setting.nbaccounts
             v == setting.init_balance
             first == Write(Start, COUNT, n)
             account(i) == Write(Start, Account(i - 1), v)
             end == End(TRUE)
             S == {first, end} \cup {account(i) : i \in 1 .. n}
             each == [i \in 1 .. n |-> account(i)]
             some == <<first>> \o each
             q == <<end>>
  <1>1. InitCalls = some \o q /\ n \in Nat /\ n >= 1
    BY DEF InitCalls
  <1>2. /\ first.do = "write" /\ first.off = COUNT
        /\ \A i \in 1 .. n : /\ account(i).do = "write" /\ account(i).seg = Start
                             /\ account(i).off = Account(i - 1) /\ account(i).val = v
    BY CallFields
  <1>3. end.do = "end"
    BY CallFields
  <1>4. Account(0) # COUNT /\ Account(1 - 1) = Account(0) /\ 1 \in 1 .. n
    BY <1>1 DEF Account, COUNT
  <1> HIDE DEF n, first, account, end
  <1>5. /\ each \in [1 .. n -> S] /\ first \in S /\ end \in S
        /\ \A i \in 1 .. n : each[i] = account(i)
    OBVIOUS
  <1> HIDE DEF S, each
  <1>6. /\ each \in Seq(S) /\ Len(each) = n
        /\ <<first>> \in Seq(S) /\ Len(<<first>>) = 1 /\ <<first>>[1] = first
        /\ <<end>> \in Seq(S) /\ Len(<<end>>) = 1 /\ <<end>>[1] = end
    BY <1>1, <1>5
  <1>7. /\ some \in Seq(S) /\ Len(some) = n + 1
        /\ \A i \in 1 .. n + 1 : some[i] = IF i = 1 THEN first ELSE account(i - 1)
    <2> DEFINE f == <<first>>
    <2>1. f \in Seq(S) /\ Len(f) = 1 /\ f[1] = first
      BY <1>6
    <2> HIDE DEF f
    <2>a. f \in Seq(S) /\ each \in Seq(S)
      BY <1>6, <2>1
    <2>2. /\ f \o each \in Seq(S) /\ Len(f \o each) = Len(f) + Len(each)
          /\ \A i \in 1 .. Len(f) + Len(each) :
                 (f \o each)[i] = IF i <= Len(f) THEN f[i] ELSE each[i - Len(f)]
      BY ONLY <2>a, ConcatProperties
    <2>3. Len(f \o each) = n + 1
      BY <1>1, <1>6, <2>1, <2>2
    <2>4. ASSUME NEW i \in 1 .. n + 1
          PROVE  (f \o each)[i] = IF i = 1 THEN first ELSE account(i - 1)
      <3>1. CASE i = 1
        BY <1>1, <1>6, <2>1, <2>2, <3>1
      <3>2. CASE i # 1
        <4>1. i - 1 \in 1 .. n /\ ~(i <= 1) /\ i \in 1 .. 1 + n
          BY <1>1, <3>2
        <4>2. (f \o each)[i] = each[i - 1]
          BY <1>6, <2>1, <2>2, <4>1
        <4> QED
          BY <1>5, <3>2, <4>1, <4>2
      <3> QED
        BY <3>1, <3>2
    <2> QED
      BY <2>2, <2>3, <2>4 DEF f
  <1> HIDE DEF some
  <1>8. /\ Len(InitCalls) = n + 2
        /\ \A i \in 1 .. n + 2 : InitCalls[i] = IF i = 1 THEN first
                                                ELSE IF i = n + 2 THEN end ELSE account(i - 1)
    <2>1. q \in Seq(S) /\ Len(q) = 1 /\ q[1] = end
      BY <1>6
    <2> HIDE DEF q
    <2>2. /\ some \o q \in Seq(S) /\ Len(some \o q) = Len(some) + Len(q)
          /\ \A i \in 1 .. Len(some) + Len(q) :
                 (some \o q)[i] = IF i <= Len(some) THEN some[i] ELSE q[i - Len(some)]
      BY ONLY <1>7, <2>1, ConcatProperties
    <2>3. Len(some \o q) = n + 2
      BY <1>1, <1>7, <2>1, <2>2
    <2>4. ASSUME NEW i \in 1 .. n + 2
          PROVE  (some \o q)[i] = IF i = 1 THEN first
                                  ELSE IF i = n + 2 THEN end ELSE account(i - 1)
      <3>1. CASE i = n + 2
        <4>1. ~(i <= n + 1) /\ i - (n + 1) = 1 /\ i # 1 /\ i \in 1 .. (n + 1) + 1
          BY <1>1, <3>1
        <4> QED
          BY <1>7, <2>1, <2>2, <3>1, <4>1
      <3>2. CASE i # n + 2
        <4>1. i <= n + 1 /\ i \in 1 .. n + 1 /\ i \in 1 .. (n + 1) + 1
          BY <1>1, <3>2
        <4>2. (some \o q)[i] = some[i]
          BY <1>7, <2>1, <2>2, <4>1
        <4> QED
          BY <1>7, <3>2, <4>1, <4>2
      <3> QED
        BY <3>1, <3>2
    <2> QED
      BY <1>1, <2>3, <2>4
  <1>9. ASSUME NEW i \in 1 .. Len(InitCalls)
        PROVE  /\ Stores(InitCalls[i]) => InitCalls[i].val = v
               /\ InitCalls[i].do = "end" => i = Len(InitCalls)
    <2>1. CASE i = 1
      BY <1>1, <1>2, <1>4, <1>8, <2>1 DEF Stores
    <2>2. CASE i = n + 2
      BY <1>1, <1>3, <1>8, <2>2 DEF Stores
    <2>3. CASE i # 1 /\ i # n + 2
      <3>1. i - 1 \in 1 .. n /\ i \in 1 .. n + 2
        BY <1>1, <1>8, <2>3
      <3>2. InitCalls[i] = account(i - 1)
        BY <1>8, <2>3, <3>1
      <3> QED
        BY <1>2, <3>1, <3>2
    <2> QED
      BY <2>1, <2>2, <2>3
  <1>10. \E i \in 1 .. Len(InitCalls) : Stores(InitCalls[i])
    <2>1. 2 \in 1 .. n + 2 /\ 2 # 1 /\ 2 # n + 2 /\ 2 - 1 = 1
      BY <1>1
    <2>2. InitCalls[2] = account(1)
      BY <1>8, <2>1
    <2>3. Stores(InitCalls[2])
      BY <1>2, <1>4, <2>2 DEF Stores, Start, Region
    <2> QED
      BY <1>8, <2>1, <2>3
  <1> QED
    BY <1>9, <1>10 DEF StoresSame

(* ... each of which leaves the balance to those after it.                 *)
LEMMA StoresGoOn ==
    ASSUME NEW C, NEW b, NEW q, Queue(q), Len(q) > 1, StoresSame(q, C, b),
           Head(q).seg \in DOMAIN C, Head(q).off \in DOMAIN C[Head(q).seg],
           Head(q).do = "write", Region \in DOMAIN C, Account(0) \in DOMAIN C[Region],
           NEW D, D = Written(C, Head(q))
    PROVE  /\ StoresSame(Tail(q), D, b)
           /\ C[Region][Account(0)] = b => D[Region][Account(0)] = b
  <1> DEFINE S == {q[i] : i \in DOMAIN q}
  <1>1. q \in Seq(S)
    BY DEF Queue
  <1> HIDE DEF S
  <1>2. /\ Head(q) = q[1] /\ Len(q) \in Nat /\ Len(Tail(q)) = Len(q) - 1
        /\ \A i \in 1 .. Len(q) - 1 : Tail(q)[i] = q[i + 1]
    BY <1>1
  <1>3. \A i \in 1 .. Len(q) - 1 : i + 1 \in 1 .. Len(q)
    BY <1>2
  <1>4. /\ Stores(q[1]) => D[Region][Account(0)] = b
        /\ ~Stores(q[1]) => D[Region][Account(0)] = C[Region][Account(0)]
    <2>1. D[Region][Account(0)] = IF Region = q[1].seg /\ Account(0) = q[1].off
                                  THEN q[1].val ELSE C[Region][Account(0)]
      BY <1>2, WrittenWord
    <2>2. Stores(q[1]) => q[1].val = b
      BY <1>2 DEF StoresSame
    <2> QED
      BY <1>2, <2>1, <2>2 DEF Stores
  <1>5. \A i \in 1 .. Len(Tail(q)) : /\ Stores(Tail(q)[i]) => Tail(q)[i].val = b
                                     /\ Tail(q)[i].do = "end" => i = Len(Tail(q))
    <2> SUFFICES ASSUME NEW i \in 1 .. Len(q) - 1
                 PROVE  /\ Stores(q[i + 1]) => q[i + 1].val = b
                        /\ q[i + 1].do = "end" => i = Len(q) - 1
      BY <1>2
    <2>1. /\ Stores(q[i + 1]) => q[i + 1].val = b
          /\ q[i + 1].do = "end" => i + 1 = Len(q)
      BY <1>3 DEF StoresSame
    <2> QED
      BY <1>2, <2>1
  <1>6. (\E i \in 1 .. Len(Tail(q)) : Stores(Tail(q)[i])) \/ D[Region][Account(0)] = b
    <2>1. CASE C[Region][Account(0)] = b
      BY <1>4, <2>1
    <2>2. CASE \E i \in 1 .. Len(q) : Stores(q[i])
      <3>1. PICK i \in 1 .. Len(q) : Stores(q[i])
        BY <2>2
      <3>2. CASE i = 1
        BY <1>4, <3>1, <3>2
      <3>3. CASE i # 1
        <4>1. i - 1 \in 1 .. Len(q) - 1 /\ (i - 1) + 1 = i
          BY <1>2, <3>3
        <4> QED
          BY <1>2, <3>1, <4>1
      <3> QED
        BY <3>2, <3>3
    <2> QED
      BY <2>1, <2>2 DEF StoresSame
  <1> QED
    BY <1>4, <1>5, <1>6 DEF StoresSame
----------------------------------------------------------------------------
(* Nothing is allocated or freed but in run.                               *)
LEMMA NoneAllocates ==
    ASSUME LinksInv, setting.phase # "run", NEW w \in Workers, NEW what \in {"alloc", "free"},
           Calls(w, what)
    PROVE  FALSE
  <1> DEFINE q == todo[w]
  <1>1. /\ doing[w] \in Transactions /\ BodyAt(setting, content, doing[w], my[w], q)
        /\ Queue(q) /\ Len(q) \in Nat \ {0} /\ setting.phase \in PhaseOf(doing[w])
    <2>1. what # "begin"
      OBVIOUS
    <2> QED
      BY <2>1, InsideIs
  <1>2. Head(q).do = what
    BY DEF Calls
  <1>3. CASE Finishes(setting, content, q)
    <2>1. Harmless(setting, content, Head(q))
      BY <1>1, <1>3, FirstHarmless
    <2> QED
      BY <1>2, <2>1 DEF Harmless
  <1>4. CASE LastCall(q)
    <2>1. Head(q) = q[1]
      BY <1>4, FewCalls DEF LastCall
    <2> QED
      BY <1>2, <1>4, <2>1 DEF LastCall
  <1>5. CASE \E off \in Offsets(setting) \ {NEXT} : q = <<Read(Start, off)>>
    <2>1. PICK off : q = <<Read(Start, off)>>
      BY <1>5
    <2> DEFINE c == Read(Start, off)
    <2>2. c.do = "read"
      BY CallFields
    <2> HIDE DEF c
    <2>3. q = <<c>> /\ Head(<<c>>) = c
      BY <2>1, FewCalls DEF c
    <2> QED
      BY <1>2, <2>2, <2>3
  <1>6. doing[w] \notin {"long", "alloc", "short", "final"}
    BY <1>1 DEF PhaseOf
  <1> QED
    BY <1>1, <1>3, <1>4, <1>5, <1>6 DEF BodyAt, OneReadAt, Transactions

(* What a step of w in init leaves to the others.                          *)
LEMMA InitKept ==
    ASSUME InitHonest, NEW w \in Workers, setting' = setting, violated' = violated,
           \A u \in Workers \ {w} : doing'[u] = doing[u] /\ todo'[u] = todo[u],
           content[Region][Account(0)] = setting.init_balance =>
               content'[Region][Account(0)] = setting.init_balance,
           InitAgrees(w)'
    PROVE  InitHonest'
  <1>1. ASSUME NEW u \in Workers \ {w} PROVE InitAgrees(u)'
    <2>1. InitAgrees(u) /\ doing'[u] = doing[u] /\ todo'[u] = todo[u]
      BY DEF InitHonest
    <2> QED
      BY <2>1 DEF InitAgrees, StoresSame, Asks, Agrees
  <1> QED
    BY <1>1 DEF InitHonest

LEMMA InitIs ==
    ASSUME HonestInv, OnReference, setting.phase = "init", NEW w \in Workers
    PROVE  /\ LinksInv /\ BankInv /\ InitHonest /\ InitAgrees(w)
           /\ doing[w] \in {"init", "first", "start", "done"}
           /\ DOMAIN doing = Workers /\ DOMAIN todo = Workers
  <1>1. LinksInv /\ BankInv /\ InitHonest
    BY DEF HonestInv, LinksInv
  <1>2. setting.phase \in PhaseOf(doing[w]) /\ doing[w] \in Transactions \cup Places
    BY <1>1 DEF LinksInv, BankInv, Shapes, PhasesFit
  <1>3. doing[w] \in {"init", "first", "start", "done"}
    BY <1>2 DEF PhaseOf, Transactions, Places
  <1> QED
    BY <1>1, <1>3 DEF InitHonest, BankInv, Shapes

(* A transaction of init begins.                                           *)
LEMMA InitBegins ==
    ASSUME HonestInv, OnReference, setting.phase = "init", NEW w \in Workers, ReferenceBegin(w)
    PROVE  InitHonest'
  <1>1. /\ Calls(w, "begin") /\ Enter(w) /\ content' = content
    BY DEF ReferenceBegin, ReferenceCalls, RefBegin
  <1>2. /\ LinksInv /\ BankInv /\ InitHonest /\ InitAgrees(w)
        /\ DOMAIN doing = Workers /\ DOMAIN todo = Workers
        /\ doing[w] \in {"init", "first", "start", "done"}
    BY InitIs
  <1>3. doing[w] \in {"init", "first"}
    <2>1. doing[w] \in Transactions
      BY <1>1, <1>2, CallsInTransaction DEF BankInv
    <2> QED
      BY <1>2, <2>1 DEF Transactions
  <1>4. /\ setting' = setting /\ doing' = doing /\ violated' = violated
        /\ \A u \in Workers \ {w} : todo'[u] = todo[u]
        /\ doing[w] = "init" => todo'[w] = InitCalls
        /\ doing[w] = "first" => todo'[w] = <<Read(Start, Account(0))>>
    BY <1>1, <1>2 DEF Enter, Goes
  <1>5. InitAgrees(w)'
    <2>1. CASE doing[w] = "init"
      <3>1. StoresSame(InitCalls, content, setting.init_balance)
        BY <1>2, SettingIs, InitCallsStore DEF BankInv
      <3> QED
        BY <1>1, <1>4, <2>1, <3>1 DEF InitAgrees
    <2>2. CASE doing[w] = "first"
      BY <1>1, <1>2, <1>4, <2>2 DEF InitAgrees, Asks
    <2> QED
      BY <1>3, <2>1, <2>2
  <1> QED
    BY <1>1, <1>2, <1>4, <1>5, InitKept

(* A worker reads the balance back.                                        *)
LEMMA InitReads ==
    ASSUME HonestInv, OnReference, setting.phase = "init", NEW w \in Workers, ReferenceRead(w)
    PROVE  InitHonest'
  <1> DEFINE c == Pending(w)
             v == RefReads(c.seg, c.off)
             b == setting.init_balance
  <1>1. Calls(w, "read") /\ Returned(w, v) /\ content' = content
    BY DEF ReferenceRead, ReferenceCalls, referenceVars
  <1>2. /\ LinksInv /\ BankInv /\ InitHonest /\ InitAgrees(w)
        /\ DOMAIN doing = Workers /\ DOMAIN todo = Workers
        /\ doing[w] \in {"init", "first", "start", "done"}
    BY InitIs
  <1>3. /\ doing[w] \in Transactions /\ BodyAt(setting, content, doing[w], my[w], todo[w])
        /\ Queue(todo[w]) /\ Len(todo[w]) \in Nat \ {0}
    <2>1. "read" # "begin"
      OBVIOUS
    <2> QED
      BY <1>1, <1>2, <2>1, InsideIs
  <1>4. doing[w] = "first"
    <2>1. CASE doing[w] = "init"
      <3>1. Harmless(setting, content, Head(todo[w]))
        BY <1>3, <2>1, FirstHarmless DEF BodyAt
      <3> QED
        BY <1>1, <3>1 DEF Harmless, Calls
    <2> QED
      BY <1>2, <1>3, <2>1 DEF Transactions
  <1>5. todo[w] = <<Read(Start, Account(0))>> /\ content[Region][Account(0)] = b
    BY <1>1, <1>2, <1>4, OneReadCalls DEF InitAgrees
  <1>6. Len(todo[w]) = 1 /\ v = b
    <2>1. Len(todo[w]) = 1 /\ Head(todo[w]) = Read(Start, Account(0))
      BY <1>5, FewCalls
    <2>2. c.seg = Region /\ c.off = Account(0)
      BY <2>1, CallFields DEF Pending, Start, Region
    <2> QED
      BY <1>5, <2>1, <2>2 DEF RefReads
  <1> HIDE DEF v
  <1>7. one_read(w, v)
    <2>1. long_tx(w, v) \/ alloc_tx(w, v) \/ short_tx(w, v) \/ one_read(w, v)
      BY <1>1, <1>6 DEF Returned
    <2> QED
      BY <1>4, <2>1 DEF long_tx, alloc_tx, short_tx
  <1>8. Goes(w, my[w], <<End(v = b)>>)
    BY <1>4, <1>7 DEF one_read
  <1>9. /\ setting' = setting /\ doing' = doing /\ violated' = violated
        /\ \A u \in Workers \ {w} : todo'[u] = todo[u]
        /\ todo'[w] = <<End(v = b)>>
    BY <1>2, <1>8, Zenon DEF Goes
  <1>10. Agrees(w)'
    <2>1. (v = b) = TRUE
      BY <1>6
    <2> QED
      BY <1>9, <2>1, Zenon DEF Agrees
  <1>11. InitAgrees(w)'
    BY <1>1, <1>4, <1>5, <1>9, <1>10 DEF InitAgrees
  <1> QED
    BY <1>1, <1>2, <1>9, <1>11, InitKept

(* A worker stores the balances.                                           *)
LEMMA InitWrites ==
    ASSUME HonestInv, OnReference, setting.phase = "init", NEW w \in Workers, ReferenceWrite(w)
    PROVE  InitHonest'
  <1> DEFINE c == Pending(w)
             b == setting.init_balance
  <1>1. /\ Calls(w, "write") /\ Returned(w, Null)
        /\ content' = Written(content, c)
    BY DEF ReferenceWrite, ReferenceCalls, RefWrite, Written
  <1>2. /\ LinksInv /\ BankInv /\ InitHonest /\ InitAgrees(w)
        /\ DOMAIN doing = Workers /\ DOMAIN todo = Workers
        /\ doing[w] \in {"init", "first", "start", "done"}
    BY InitIs
  <1>3. /\ Inside(w) /\ doing[w] \in Transactions
        /\ BodyAt(setting, content, doing[w], my[w], todo[w])
        /\ Queue(todo[w]) /\ Len(todo[w]) \in Nat \ {0}
        /\ Start \in DOMAIN content /\ Start = Region /\ ~AllDone
    <2>1. "write" # "begin"
      OBVIOUS
    <2> QED
      BY <1>1, <1>2, <2>1, InsideIs
  <1>4. doing[w] = "init"
    <2>1. CASE doing[w] = "first"
      <3>1. Asks(w, Account(0)) \/ Agrees(w)
        BY <1>2, <2>1 DEF InitAgrees
      <3> QED
        BY <1>1, <3>1, OneReadCalls
    <2> QED
      BY <1>2, <1>3, <2>1 DEF Transactions
  <1>5. /\ Harmless(setting, content, c) /\ Len(todo[w]) > 1 /\ c.do = "write"
    <2>1. /\ Harmless(setting, content, Head(todo[w]))
          /\ Len(todo[w]) = 1 => Head(todo[w]).do = "end"
      BY <1>3, <1>4, FirstHarmless DEF BodyAt
    <2>2. Head(todo[w]).do = "write"
      BY <1>1 DEF Calls
    <2>3. Len(todo[w]) # 1
      BY <2>1, <2>2
    <2>4. Len(todo[w]) > 1
      <3>1. \A n \in Nat \ {0} : n # 1 => n > 1
        OBVIOUS
      <3> QED
        BY <1>3, <2>3, <3>1, Zenon
    <2> QED
      BY <2>1, <2>2, <2>4 DEF Pending
  <1>6. c.seg \in DOMAIN content /\ c.off \in Offsets(setting)
    BY <1>5 DEF Harmless
  <1>7. \A x \in DOMAIN content : DOMAIN content[x] = Offsets(setting)
    <2>1. ~Splits(w)
      BY <1>4 DEF Splits
    <2> QED
      BY <1>2, <1>3, <2>1, WholeToOthers DEF Whole, Chain
  <1>8. Account(0) \in Offsets(setting)
    BY <1>2, SettingIs, ReadsOffsets DEF BankInv
  <1>9. StoresSame(todo[w], content, b)
    BY <1>2, <1>3, <1>4 DEF InitAgrees, Inside
  <1>10. /\ StoresSame(Tail(todo[w]), content', b)
         /\ content[Region][Account(0)] = b => content'[Region][Account(0)] = b
    BY <1>1, <1>3, <1>5, <1>6, <1>7, <1>8, <1>9, StoresGoOn DEF Pending
  <1>11. Goes(w, my[w], Tail(todo[w]))
    BY <1>1, <1>5 DEF Returned
  <1>12. /\ setting' = setting /\ doing' = doing /\ violated' = violated
         /\ \A u \in Workers \ {w} : todo'[u] = todo[u]
         /\ todo'[w] = Tail(todo[w])
    BY <1>2, <1>11, Zenon DEF Goes
  <1>13. InitAgrees(w)'
    BY <1>4, <1>10, <1>12 DEF InitAgrees
  <1> QED
    BY <1>2, <1>10, <1>12, <1>13, InitKept

(* A transaction of init has committed.                                    *)
LEMMA InitEnds ==
    ASSUME HonestInv, OnReference, setting.phase = "init", NEW w \in Workers, ReferenceEnd(w)
    PROVE  InitHonest'
  <1>1. Calls(w, "end") /\ Ended(w) /\ content' = content
    BY DEF ReferenceEnd, ReferenceCalls, RefEnd
  <1>2. /\ LinksInv /\ BankInv /\ InitHonest /\ InitAgrees(w)
        /\ DOMAIN doing = Workers /\ DOMAIN todo = Workers
        /\ doing[w] \in {"init", "first", "start", "done"}
    BY InitIs
  <1>3. /\ Inside(w) /\ doing[w] \in {"init", "first"}
        /\ Queue(todo[w]) /\ Len(todo[w]) \in Nat \ {0}
    <2>1. "end" # "begin"
      OBVIOUS
    <2>2. /\ Inside(w) /\ doing[w] \in Transactions
          /\ Queue(todo[w]) /\ Len(todo[w]) \in Nat \ {0}
      BY <1>1, <1>2, <2>1, InsideIs
    <2> QED
      BY <1>2, <2>2 DEF Transactions
  <1>4. content[Region][Account(0)] = setting.init_balance
    <2>1. CASE doing[w] = "init"
      <3> DEFINE q == todo[w]
                 S == {q[i] : i \in DOMAIN q}
      <3>1. StoresSame(q, content, setting.init_balance)
        BY <1>2, <1>3, <2>1 DEF InitAgrees, Inside
      <3>2. q \in Seq(S)
        BY <1>3 DEF Queue
      <3> HIDE DEF S
      <3>3. Head(q) = q[1] /\ 1 \in 1 .. Len(q)
        BY <1>3, <3>2
      <3>4. q[1].do = "end"
        BY <1>1, <3>3 DEF Calls
      <3>5. Len(q) = 1
        BY <3>1, <3>3, <3>4 DEF StoresSame
      <3>6. \A i \in 1 .. Len(q) : ~Stores(q[i])
        BY <3>4, <3>5 DEF Stores
      <3> QED
        BY <3>1, <3>6 DEF StoresSame
    <2>2. CASE doing[w] = "first"
      BY <1>2, <2>2 DEF InitAgrees
    <2> QED
      BY <1>3, <2>1, <2>2
  <1>5. setting' = setting /\ violated' = violated /\ (Run(w, "first", NoArg) \/ Leaves(w, "done"))
    <2>1. \/ init(w, Pending(w).ret)
          \/ Leaves(w, "done") /\ UNCHANGED violated
      BY <1>1, <1>3 DEF Ended, run, check
    <2>2. CASE doing[w] = "init"
      BY <1>1, <2>1, <2>2 DEF Ended, init
    <2>3. CASE doing[w] = "first"
      <3>1. Agrees(w)
        BY <1>1, <1>2, <2>3, OneReadCalls DEF InitAgrees
      <3> DEFINE c == End(TRUE)
      <3>2. c.ret = TRUE
        BY DEF End
      <3> HIDE DEF c
      <3>3. Pending(w).ret = TRUE
        BY <3>1, <3>2, FewCalls DEF Agrees, Pending, c
      <3>4. init(w, Pending(w).ret) => Reports(w, Pending(w).ret) /\ Leaves(w, "done")
        BY <2>3 DEF init
      <3>5. Reports(w, Pending(w).ret) => violated' = violated
        BY <3>3, Zenon DEF Reports
      <3> QED
        BY <1>1, <2>1, <3>4, <3>5 DEF Ended
    <2> QED
      BY <1>3, <2>2, <2>3
  <1>6. /\ \A u \in Workers \ {w} : doing'[u] = doing[u] /\ todo'[u] = todo[u]
        /\ doing'[w] = "done" \/ (doing'[w] = "first" /\ todo'[w] = <<Begin>>)
    BY <1>2, <1>5 DEF Run, Leaves
  <1>7. InitAgrees(w)'
    BY <1>1, <1>4, <1>5, <1>6 DEF InitAgrees, Asks
  <1> QED
    BY <1>1, <1>2, <1>5, <1>6, <1>7, InitKept

(* A worker starts.                                                        *)
LEMMA InitStarts ==
    ASSUME HonestInv, OnReference, setting.phase = "init", NEW w \in Workers, WorkerAlone(w)
    PROVE  InitHonest'
  <1>1. Alone(w) /\ content' = content
    BY DEF WorkerAlone, referenceVars
  <1>2. /\ LinksInv /\ BankInv /\ InitHonest /\ InitAgrees(w)
        /\ DOMAIN doing = Workers /\ DOMAIN todo = Workers
        /\ doing[w] \in {"init", "first", "start", "done"}
    BY InitIs
  <1>3. Run(w, "init", NoArg) /\ setting' = setting /\ violated' = violated
    BY <1>1, <1>2 DEF Alone, StartPhase, Sync
  <1>4. /\ \A u \in Workers \ {w} : doing'[u] = doing[u] /\ todo'[u] = todo[u]
        /\ doing'[w] = "init" /\ todo'[w] = <<Begin>>
    BY <1>2, <1>3 DEF Run
  <1>5. InitAgrees(w)'
    BY <1>4 DEF InitAgrees
  <1> QED
    BY <1>1, <1>2, <1>3, <1>4, <1>5, InitKept
----------------------------------------------------------------------------
(* The phase check.                                                        *)
LEMMA CheckIs ==
    ASSUME HonestInv, OnReference, setting.phase = "check"
    PROVE  /\ LinksInv /\ BankInv /\ CheckHonest
           /\ First \in Running /\ Running \subseteq Workers /\ IsFiniteSet(Running)
           /\ setting.nbtxperwrk \in Nat \ {0} /\ nbworkers \in Nat /\ InitCounter \in Nat
           /\ DOMAIN doing = Workers /\ DOMAIN todo = Workers /\ DOMAIN cntr = Workers
           /\ DOMAIN passed = Workers /\ DOMAIN arg = Workers
           /\ \A w \in Workers : DOMAIN arg[w] = DOMAIN NoArg
           /\ \A w \in Workers :
                  doing[w] \in {"set", "verify", "last", "dec", "zero"} \cup Places
           /\ \A w \in Workers : cntr[w] \in 0 .. setting.nbtxperwrk /\ passed[w] \in 0 .. 3
           /\ \A w \in Workers :
                  /\ doing[w] \in {"last", "dec"} =>
                         passed[w] = 2 /\ cntr[w] < setting.nbtxperwrk
                  /\ doing[w] \in {"set", "verify"} => passed[w] = 1 /\ cntr[w] = 0
                  /\ doing[w] = "sync" => passed[w] < 3 /\ (passed[w] < 2 => cntr[w] = 0)
                  /\ doing[w] = "start" => passed[w] = 0 /\ cntr[w] = 0
  <1>1. LinksInv /\ BankInv /\ CheckHonest /\ Shapes /\ LocalsFit
    BY DEF HonestInv, LinksInv, BankInv
  <1>2. /\ First \in Running /\ Running \subseteq Workers
        /\ setting.nbtxperwrk \in Nat \ {0}
    BY <1>1, SettingsAssumption DEF Shapes, SettingOK, Running
  <1>3. IsFiniteSet(Running) /\ nbworkers \in Nat
    BY <1>2, WorkersAssumption, FS_Subset, FS_CardinalityType DEF nbworkers
  <1>4. InitCounter \in Nat
    BY <1>2, <1>3 DEF InitCounter
  <1>5. ASSUME NEW w \in Workers
        PROVE  /\ doing[w] \in {"set", "verify", "last", "dec", "zero"} \cup Places
               /\ Fits(setting, doing[w], todo[w], cntr[w], passed[w])
    <2>1. doing[w] \in Transactions \cup Places /\ setting.phase \in PhaseOf(doing[w])
      BY <1>1 DEF LinksInv, Shapes, PhasesFit
    <2>2. doing[w] \notin {"init", "first", "long", "alloc", "short", "final"}
      BY <2>1 DEF PhaseOf
    <2>3. doing[w] \in {"set", "verify", "last", "dec", "zero"} \cup Places
      BY <2>1, <2>2 DEF Transactions
    <2> QED
      BY <1>1, <2>3 DEF BankInv, WorkersFit
  <1>6. DOMAIN arg = Workers /\ \A w \in Workers : DOMAIN arg[w] = DOMAIN NoArg
    BY <1>1 DEF LocalsFit, SoundArg
  <1>7. ASSUME NEW w \in Workers
        PROVE  /\ cntr[w] \in 0 .. setting.nbtxperwrk /\ passed[w] \in 0 .. 3
               /\ doing[w] \in {"last", "dec"} =>
                      passed[w] = 2 /\ cntr[w] < setting.nbtxperwrk
               /\ doing[w] \in {"set", "verify"} => passed[w] = 1 /\ cntr[w] = 0
               /\ doing[w] = "sync" => passed[w] < 3 /\ (passed[w] < 2 => cntr[w] = 0)
               /\ doing[w] = "start" => passed[w] = 0 /\ cntr[w] = 0
    BY <1>5 DEF Fits
  <1> QED
    BY <1>1, <1>2, <1>3, <1>4, <1>5, <1>6, <1>7 DEF Shapes

(* How many decreases there are.                                           *)
LEMMA AllDecreases ==
    ASSUME HonestInv, OnReference, setting.phase = "check"
    PROVE  /\ IsFiniteSet(Running \X (1 .. setting.nbtxperwrk))
           /\ Cardinality(Running \X (1 .. setting.nbtxperwrk)) = InitCounter
           /\ IsFiniteSet(Decreases) /\ Cardinality(Decreases) \in Nat
  <1> DEFINE n == setting.nbtxperwrk
  <1>1. IsFiniteSet(Running) /\ nbworkers \in Nat /\ n \in Nat \ {0}
    BY CheckIs
  <1>2. IsFiniteSet(1 .. n) /\ Cardinality(1 .. n) = n
    <2>1. n \in Int /\ 1 \in Int
      BY <1>1
    <2>2. IsFiniteSet(1 .. n) /\ Cardinality(1 .. n) = IF 1 > n THEN 0 ELSE n - 1 + 1
      BY <2>1, FS_Interval
    <2> QED
      BY <1>1, <2>2
  <1> HIDE DEF n
  <1>3. IsFiniteSet(Running \X (1 .. n)) /\ Cardinality(Running \X (1 .. n)) = nbworkers * n
    BY <1>1, <1>2, FS_Product DEF nbworkers
  <1>4. nbworkers * n = n * nbworkers
    BY <1>1
  <1>5. Decreases \subseteq Running \X (1 .. n)
    BY DEF Decreases, n
  <1>6. IsFiniteSet(Decreases) /\ Cardinality(Decreases) \in Nat
    BY <1>3, <1>5, FS_Subset, FS_CardinalityType
  <1> QED
    BY <1>3, <1>4, <1>6 DEF InitCounter, n

LEMMA NoDecreases ==
    ASSUME \A u \in Running : Decreased(u) = 0
    PROVE  Cardinality(Decreases) = 0
  <1>1. ASSUME NEW d \in Decreases PROVE FALSE
    <2>1. d \in Running \X (1 .. setting.nbtxperwrk) /\ d[2] <= Decreased(d[1])
      BY <1>1 DEF Decreases
    <2>2. d[1] \in Running /\ d[2] \in 1 .. setting.nbtxperwrk
      BY <2>1
    <2> QED
      BY <2>1, <2>2
  <1>2. Decreases = {}
    BY <1>1
  <1> QED
    BY <1>2, FS_EmptySet

LEMMA EveryDecrease ==
    ASSUME HonestInv, OnReference, setting.phase = "check",
           \A u \in Running : Decreased(u) = setting.nbtxperwrk
    PROVE  Cardinality(Decreases) = InitCounter
  <1>1. ASSUME NEW d \in Running \X (1 .. setting.nbtxperwrk) PROVE d \in Decreases
    <2>1. d[1] \in Running /\ d[2] \in 1 .. setting.nbtxperwrk
      BY <1>1
    <2>2. d[2] <= setting.nbtxperwrk
      BY <2>1, CheckIs
    <2> QED
      BY <1>1, <2>1, <2>2 DEF Decreases
  <1>2. Decreases = Running \X (1 .. setting.nbtxperwrk)
    BY <1>1 DEF Decreases
  <1> QED
    BY <1>2, AllDecreases

LEMMA OneDecrease ==
    ASSUME HonestInv, OnReference, setting.phase = "check", NEW w \in Running,
           setting' = setting, \A u \in Running \ {w} : Decreased(u)' = Decreased(u),
           Decreased(w) \in 0 .. setting.nbtxperwrk - 1, Decreased(w)' = Decreased(w) + 1
    PROVE  Cardinality(Decreases)' = Cardinality(Decreases) + 1
  <1> DEFINE n == setting.nbtxperwrk
             k == Decreased(w) + 1
             e == <<w, k>>
  <1>1. n \in Nat \ {0} /\ k \in 1 .. n /\ Decreased(w)' = k /\ Decreased(w) = k - 1
    BY CheckIs
  <1> HIDE DEF n
  <1>2. Running' = Running /\ setting'.nbtxperwrk = n
    BY DEF Running, n
  <1> HIDE DEF k
  <1>3. e \in Running \X (1 .. n) /\ e[1] = w /\ e[2] = k
    BY <1>1
  <1>4. ASSUME NEW d \in Running \X (1 .. n)
        PROVE  d \in Decreases' <=> d \in Decreases \/ d = e
    <2>1. d[1] \in Running /\ d[2] \in 1 .. n /\ d = <<d[1], d[2]>>
      BY <1>4
    <2>2. d \in Decreases' <=> d[2] <= Decreased(d[1])'
      BY <1>2, <1>4 DEF Decreases
    <2>3. d \in Decreases <=> d[2] <= Decreased(d[1])
      BY <1>4 DEF Decreases, n
    <2>4. CASE d[1] # w
      <3>1. Decreased(d[1])' = Decreased(d[1])
        BY <2>1, <2>4
      <3> QED
        BY <1>3, <2>2, <2>3, <2>4, <3>1
    <2>5. CASE d[1] = w
      <3>1. d = e <=> d[2] = k
        BY <2>1, <2>5, <1>3
      <3>2. /\ d \in Decreases' <=> d[2] <= k
            /\ d \in Decreases <=> d[2] <= k - 1
        BY <1>1, <2>2, <2>3, <2>5
      <3>3. \A i, j \in 1 .. n : i <= j <=> i <= j - 1 \/ i = j
        BY <1>1
      <3> HIDE DEF e
      <3> QED
        BY <1>1, <2>1, <3>1, <3>2, <3>3
    <2> QED
      BY <2>4, <2>5
  <1>5. Decreases' = Decreases \cup {e} /\ e \notin Decreases
    <2>1. Decreases' \subseteq Running \X (1 .. n) /\ Decreases \subseteq Running \X (1 .. n)
      BY <1>2 DEF Decreases, n
    <2>2. e \notin Decreases
      BY <1>1, <1>3 DEF Decreases
    <2> HIDE DEF e
    <2> QED
      BY <1>3, <1>4, <2>1, <2>2
  <1>6. Cardinality(Decreases \cup {e}) = Cardinality(Decreases) + 1
    BY <1>5, AllDecreases, FS_AddElement
  <1> QED
    BY <1>5, <1>6

(* Only the calls of check.                                                *)
LEMMA SomeCalls ==
    ASSUME NEW w, NEW what, Calls(w, what)
    PROVE  /\ todo[w] = <<Begin>> => what = "begin"
           /\ Agrees(w) => what = "end"
           /\ \A off : todo[w] = <<Read(Start, off)>> => what = "read"
           /\ \A v : todo[w] = <<Write(Start, COUNT, v), End(TRUE)>> => what = "write"
  <1> DEFINE e == End(TRUE)
  <1>1. e.do = "end"
    BY CallFields
  <1>2. /\ Begin.do = "begin" /\ \A off : Read(Start, off).do = "read"
        /\ \A off, v : Write(Start, off, v).do = "write"
    BY CallFields
  <1> HIDE DEF e
  <1>3. \A a : Head(<<a>>) = a
    BY FewCalls
  <1>4. \A a, b : Head(<<a, b>>) = a
    BY FewCalls
  <1>5. Agrees(w) => what = "end"
    BY <1>1, <1>3 DEF Agrees, Calls, e
  <1>6. /\ todo[w] = <<Begin>> => what = "begin"
        /\ \A off : todo[w] = <<Read(Start, off)>> => what = "read"
    BY <1>2, <1>3 DEF Calls
  <1>7. \A v : todo[w] = <<Write(Start, COUNT, v), e>> => what = "write"
    BY <1>2, <1>4 DEF Calls
  <1> QED
    BY <1>5, <1>6, <1>7 DEF e

(* Passing no barrier keeps it.                                            *)
LEMMA BarrierStays ==
    ASSUME BarrierFits, Running \subseteq Workers, setting' = setting, passed' = passed,
           NEW w, doing[w] # "sync", \A u \in Workers \ {w} : doing'[u] = doing[u]
    PROVE  BarrierFits'
  <1>1. Running' = Running
    BY DEF Running
  <1> QED
    BY <1>1 DEF BarrierFits

(* A step of w that leaves the counter and the decreases alone.            *)
LEMMA CheckGoesOn ==
    ASSUME HonestInv, OnReference, setting.phase = "check", NEW w \in Workers, ~AllDone,
           setting' = setting, violated' = violated, content' = content,
           \A u \in Workers \ {w} : /\ doing'[u] = doing[u] /\ todo'[u] = todo[u]
                                    /\ arg'[u] = arg[u] /\ cntr'[u] = cntr[u]
                                    /\ passed'[u] = passed[u],
           BarrierFits', StageFits(w)', CallAgrees(w)', SeenFits(w)',
           Decreased(w)' = Decreased(w), IsSet' => IsSet
    PROVE  CheckHonest'
  <1>1. CheckHonest /\ Running \subseteq Workers
    BY CheckIs
  <1>2. Running' = Running /\ InitCounter' = InitCounter /\ Counter' = Counter
    BY DEF Running, InitCounter, nbworkers, Counter
  <1>3. ASSUME NEW u \in Workers \ {w}
        PROVE  /\ StageFits(u)' /\ CallAgrees(u)' /\ SeenFits(u)'
               /\ Decreased(u)' = Decreased(u)
    <2>1. StageFits(u) /\ CallAgrees(u) /\ SeenFits(u)
      BY <1>1 DEF CheckHonest
    <2>2. Agrees(u)' = Agrees(u) /\ \A off : Asks(u, off)' = Asks(u, off)
      BY DEF Agrees, Asks
    <2>3. Decreased(u)' = Decreased(u)
      BY <2>2 DEF Decreased
    <2>4. StageFits(u)' /\ CallAgrees(u)'
      BY <1>2, <2>1, <2>2 DEF StageFits, CallAgrees
    <2>5. SeenFits(u)'
      BY <1>2, <2>1, <2>2 DEF SeenFits
    <2> QED
      BY <2>3, <2>4, <2>5
  <1>4. Decreases' = Decreases
    <2>1. \A u \in Running : Decreased(u)' = Decreased(u)
      BY <1>1, <1>3
    <2>2. \A d \in Running \X (1 .. setting.nbtxperwrk) : Decreased(d[1])' = Decreased(d[1])
      BY <2>1
    <2> QED
      BY <1>2, <2>2 DEF Decreases
  <1>5. CounterFits'
    BY <1>1, <1>2, <1>4 DEF CheckHonest, CounterFits
  <1> QED
    BY <1>1, <1>3, <1>5 DEF CheckHonest

(* Nobody decreases the counter before it is set ...                       *)
LEMMA NoneYet ==
    ASSUME HonestInv, OnReference, setting.phase = "check",
           doing[First] \in {"set", "verify"}
    PROVE  \A u \in Running : /\ Decreased(u) = 0 /\ cntr[u] = 0
                              /\ doing[u] \notin {"last", "dec", "zero"}
  <1> SUFFICES ASSUME NEW u \in Running
               PROVE  Decreased(u) = 0 /\ cntr[u] = 0 /\ doing[u] \notin {"last", "dec", "zero"}
    OBVIOUS
  <1>1. /\ u \in Workers /\ First \in Workers /\ First \in Running
        /\ StageFits(u) /\ BarrierFits
    BY CheckIs DEF CheckHonest
  <1>2. passed[First] = 1 /\ passed[u] \in 0 .. 3 /\ doing[First] # "sync"
    BY <1>1, CheckIs
  <1>3. passed[u] <= 1
    <2>1. ~(passed[First] < passed[u])
      BY <1>1, <1>2 DEF BarrierFits
    <2> QED
      BY <1>2, <2>1
  <1>4. doing[u] \notin {"last", "dec", "zero", "done"}
    <2>1. doing[u] \in {"last", "dec"} => passed[u] = 2
      BY <1>1, CheckIs
    <2>2. doing[u] \in {"zero", "done"} => passed[u] = 3
      BY <1>1 DEF StageFits
    <2> QED
      BY <1>3, <2>1, <2>2
  <1>5. cntr[u] = 0
    <2>1. doing[u] \in {"set", "verify", "sync", "start"}
      BY <1>1, <1>4, CheckIs DEF Places
    <2> QED
      BY <1>1, <1>3, <2>1, CheckIs
  <1> QED
    BY <1>4, <1>5 DEF Decreased

(* ... everybody does before it is read at the end ...                     *)
LEMMA EveryoneDid ==
    ASSUME HonestInv, OnReference, setting.phase = "check", doing[First] = "zero"
    PROVE  \A u \in Running : Decreased(u) = setting.nbtxperwrk
  <1> SUFFICES ASSUME NEW u \in Running PROVE Decreased(u) = setting.nbtxperwrk
    OBVIOUS
  <1>1. /\ u \in Workers /\ First \in Workers /\ First \in Running
        /\ StageFits(u) /\ StageFits(First) /\ BarrierFits
    BY CheckIs DEF CheckHonest
  <1>2. passed[First] = 3 /\ passed[u] \in 0 .. 3
    BY <1>1, CheckIs DEF StageFits
  <1>3. passed[u] = 3 \/ (passed[u] = 2 /\ doing[u] = "sync")
    <2>1. passed[u] < passed[First] => doing[u] = "sync" /\ passed[First] = passed[u] + 1
      BY <1>1 DEF BarrierFits
    <2> QED
      BY <1>2, <2>1
  <1>4. cntr[u] = setting.nbtxperwrk
    BY <1>1, <1>3 DEF StageFits
  <1>5. doing[u] # "dec"
    <2>1. doing[u] = "dec" => passed[u] = 2
      BY <1>1, CheckIs
    <2> QED
      BY <1>3, <2>1
  <1> QED
    BY <1>4, <1>5 DEF Decreased

(* ... and in between the counter is what it has been set to, less the     *)
(* decreases.                                                              *)
LEMMA CounterIs ==
    ASSUME HonestInv, OnReference, setting.phase = "check", NEW w \in Workers,
           doing[w] \in {"verify", "last", "dec", "zero"}
    PROVE  /\ w \in Running /\ IsSet /\ ~AllDone /\ Counter \in Int
           /\ Counter = InitCounter - Cardinality(Decreases)
  <1>1. /\ First \in Workers /\ First \in Running /\ StageFits(w) /\ BarrierFits /\ CounterFits
    BY CheckIs DEF CheckHonest
  <1>2. w \in Running /\ ~AllDone
    BY <1>1 DEF StageFits, AllDone
  <1>3. IsSet
    <2>1. CASE doing[w] = "verify"
      BY <1>1, <2>1 DEF StageFits, IsSet
    <2>2. CASE doing[w] # "verify"
      <3>1. passed[w] >= 2 /\ passed[w] \in 0 .. 3 /\ passed[First] \in 0 .. 3
        <4>1. doing[w] \in {"last", "dec"} => passed[w] = 2
          BY CheckIs
        <4>2. doing[w] = "zero" => passed[w] = 3
          BY <1>1 DEF StageFits
        <4>3. passed[w] \in 0 .. 3 /\ passed[First] \in 0 .. 3
          BY <1>1, CheckIs
        <4> QED
          BY <2>2, <4>1, <4>2, <4>3
      <3>2. passed[First] < passed[w] =>
                doing[First] = "sync" /\ passed[w] = passed[First] + 1
        BY <1>1, <1>2 DEF BarrierFits
      <3>3. passed[First] >= 2 \/ (doing[First] = "sync" /\ passed[First] = 1)
        BY <3>1, <3>2
      <3> QED
        BY <3>3 DEF IsSet
    <2> QED
      BY <2>1, <2>2
  <1>4. Counter = InitCounter - Cardinality(Decreases)
    BY <1>1, <1>2, <1>3 DEF CounterFits
  <1>5. Counter \in Int
    BY <1>4, CheckIs, AllDecreases
  <1> QED
    BY <1>2, <1>3, <1>4, <1>5

(* A transaction of check begins.                                          *)
LEMMA CheckBegins ==
    ASSUME HonestInv, OnReference, setting.phase = "check", NEW w \in Workers,
           ReferenceBegin(w)
    PROVE  CheckHonest'
  <1>1. Calls(w, "begin") /\ Enter(w) /\ content' = content
    BY DEF ReferenceBegin, ReferenceCalls, RefBegin
  <1>2. /\ CheckHonest /\ StageFits(w) /\ CallAgrees(w) /\ SeenFits(w) /\ BarrierFits
        /\ Running \subseteq Workers /\ DOMAIN todo = Workers
    BY CheckIs DEF CheckHonest
  <1>3. doing[w] \in {"set", "verify", "last", "dec", "zero"}
    <2>1. doing[w] \in Transactions
      BY <1>1, CheckIs, CallsInTransaction DEF BankInv
    <2> QED
      BY <2>1, CheckIs DEF Places, Transactions
  <1>4. todo[w] = <<Begin>>
    <2>0. "begin" # "end" /\ "begin" # "read" /\ "begin" # "write"
      OBVIOUS
    <2>1. ~Agrees(w)
      BY <1>1, <2>0, SomeCalls, Zenon
    <2>2. todo[w] # <<Read(Start, COUNT)>>
      BY <1>1, <2>0, SomeCalls, Zenon
    <2>3. \A v : todo[w] # <<Write(Start, COUNT, v), End(TRUE)>>
      BY <1>1, <2>0, SomeCalls, Zenon
    <2> QED
      BY <1>2, <1>3, <2>1, <2>2, <2>3 DEF CallAgrees, Asks
  <1>5. /\ setting' = setting /\ doing' = doing /\ violated' = violated
        /\ arg' = arg /\ cntr' = cntr /\ passed' = passed
        /\ \A u \in Workers \ {w} : todo'[u] = todo[u]
        /\ doing[w] = "set" => todo'[w] = <<Write(Start, COUNT, InitCounter), End(TRUE)>>
        /\ doing[w] # "set" => todo'[w] = <<Read(Start, COUNT)>>
    <2> DEFINE q == <<Write(Start, COUNT, InitCounter), End(TRUE)>>
               r == <<Read(Start, COUNT)>>
    <2>1. /\ doing[w] = "set" => Goes(w, Locals, q)
          /\ doing[w] # "set" => Goes(w, Locals, r)
          /\ arg' = arg
      BY <1>1, <1>3 DEF Enter
    <2> HIDE DEF q, r
    <2>2. /\ setting' = setting /\ doing' = doing /\ violated' = violated
          /\ arg' = arg /\ cntr' = cntr /\ passed' = passed
          /\ \A u \in Workers \ {w} : todo'[u] = todo[u]
          /\ doing[w] = "set" => todo'[w] = q
          /\ doing[w] # "set" => todo'[w] = r
      BY <1>2, <2>1 DEF Goes
    <2> QED
      BY <2>2 DEF q, r
  <1>6. ~Agrees(w) /\ ~Agrees(w)'
    BY <1>4, <1>5, CallsDiffer DEF Agrees
  <1>7. Running' = Running /\ InitCounter' = InitCounter /\ Counter' = Counter
    BY <1>1, <1>5 DEF Running, InitCounter, nbworkers, Counter
  <1>8. StageFits(w)'
    BY <1>2, <1>5, <1>7 DEF StageFits
  <1>9. CallAgrees(w)'
    BY <1>5, <1>7 DEF CallAgrees, Asks
  <1>10. SeenFits(w)'
    <2>1. doing[w] = "dec" => Asks(w, COUNT)
      BY <1>4 DEF Asks
    <2> QED
      BY <1>2, <1>5, <1>6, <1>7, <2>1 DEF SeenFits
  <1>11. Decreased(w)' = Decreased(w) /\ (IsSet' => IsSet)
    <2>1. Agrees(First)' => Agrees(First)
      <3>1. First \in Workers
        BY CheckIs
      <3> QED
        BY <1>5, <1>6, <3>1 DEF Agrees
    <2> QED
      BY <1>5, <1>6, <2>1 DEF Decreased, IsSet
  <1>12. BarrierFits'
    <2>1. doing[w] # "sync"
      BY <1>3
    <2> QED
      BY <1>2, <1>5, <2>1, BarrierStays
  <1>13. ~AllDone
    BY <1>3 DEF AllDone
  <1> QED
    BY <1>1, <1>5, <1>8, <1>9, <1>10, <1>11, <1>12, <1>13, CheckGoesOn

(* The counter is read: as InitCounter by the worker that has set it, no   *)
(* larger than before by one about to decrease it, and as zero at the end. *)
LEMMA CheckReads ==
    ASSUME HonestInv, OnReference, setting.phase = "check", NEW w \in Workers,
           ReferenceRead(w)
    PROVE  CheckHonest'
  <1> DEFINE c == Pending(w)
             v == RefReads(c.seg, c.off)
  <1>1. Calls(w, "read") /\ Returned(w, v) /\ content' = content
    BY DEF ReferenceRead, ReferenceCalls, referenceVars
  <1>2. /\ CheckHonest /\ StageFits(w) /\ CallAgrees(w) /\ SeenFits(w) /\ BarrierFits
        /\ Running \subseteq Workers /\ DOMAIN todo = Workers /\ DOMAIN arg = Workers
        /\ DOMAIN arg[w] = DOMAIN NoArg /\ InitCounter \in Nat
    BY CheckIs DEF CheckHonest
  <1>3. doing[w] \in {"verify", "last", "dec", "zero"} /\ todo[w] = <<Read(Start, COUNT)>>
    <2>1. doing[w] \in Transactions
      BY <1>1, CheckIs, CallsInTransaction DEF BankInv
    <2>2. doing[w] \in {"set", "verify", "last", "dec", "zero"}
      BY <2>1, CheckIs DEF Places, Transactions
    <2>0. "read" # "end" /\ "read" # "begin" /\ "read" # "write"
      OBVIOUS
    <2>3. ~Agrees(w)
      BY <1>1, <2>0, SomeCalls, Zenon
    <2>4. todo[w] # <<Begin>>
      BY <1>1, <2>0, SomeCalls, Zenon
    <2>5. \A x : todo[w] # <<Write(Start, COUNT, x), End(TRUE)>>
      BY <1>1, <2>0, SomeCalls, Zenon
    <2> QED
      BY <1>2, <2>2, <2>3, <2>4, <2>5 DEF CallAgrees, Asks
  <1>4. Len(todo[w]) = 1 /\ v = Counter
    <2>1. Len(todo[w]) = 1 /\ Head(todo[w]) = Read(Start, COUNT)
      BY <1>3, FewCalls
    <2>2. c.seg = Region /\ c.off = COUNT
      BY <2>1, CallFields DEF Pending, Start, Region
    <2> QED
      BY <2>1, <2>2 DEF RefReads, Counter
  <1> HIDE DEF v
  <1>5. one_read(w, v)
    <2>1. long_tx(w, v) \/ alloc_tx(w, v) \/ short_tx(w, v) \/ one_read(w, v)
      BY <1>1, <1>4 DEF Returned
    <2> QED
      BY <1>3, <2>1 DEF long_tx, alloc_tx, short_tx
  <1>6. /\ w \in Running /\ IsSet /\ ~AllDone /\ v \in Int
        /\ v = InitCounter - Cardinality(Decreases)
    BY <1>3, <1>4, CounterIs
  <1> DEFINE write == <<Write(Start, COUNT, v - 1), End(TRUE)>>
             agree == <<End(TRUE)>>
  <1>7. \E q : /\ Goes(w, my[w], q)
               /\ doing[w] = "dec" => q = write /\ arg' = arg
               /\ doing[w] # "dec" => q = agree
               /\ doing[w] = "last" => arg' = [arg EXCEPT ![w].last = v]
               /\ doing[w] # "last" => arg' = arg
    <2>1. CASE doing[w] = "verify"
      <3>1. w = First
        BY <1>2, <2>1 DEF StageFits
      <3>2. Cardinality(Decreases) = 0
        BY <2>1, <3>1, NoneYet, NoDecreases
      <3>3. (v = InitCounter) = TRUE
        BY <1>2, <1>6, <3>2
      <3>4. Goes(w, my[w], <<End(v = InitCounter)>>) /\ arg' = arg
        BY <1>5, <2>1 DEF one_read
      <3>5. Goes(w, my[w], agree)
        BY <3>3, <3>4, Zenon
      <3> HIDE DEF agree
      <3> QED
        BY <2>1, <3>4, <3>5
    <2>2. CASE doing[w] = "zero"
      <3>1. w = First
        BY <1>2, <2>2 DEF StageFits
      <3>2. Cardinality(Decreases) = InitCounter
        BY <2>2, <3>1, EveryoneDid, EveryDecrease
      <3>3. (v = 0) = TRUE
        BY <1>2, <1>6, <3>2
      <3>4. Goes(w, my[w], <<End(v = 0)>>) /\ arg' = arg
        BY <1>5, <2>2 DEF one_read
      <3>5. Goes(w, my[w], agree)
        BY <3>3, <3>4, Zenon
      <3> HIDE DEF agree
      <3> QED
        BY <2>2, <3>4, <3>5
    <2>3. CASE doing[w] = "last"
      <3>1. Goes(w, my[w], agree) /\ arg' = [arg EXCEPT ![w].last = v]
        BY <1>5, <2>3 DEF one_read
      <3> HIDE DEF agree
      <3> QED
        BY <2>3, <3>1
    <2>4. CASE doing[w] = "dec"
      <3>1. arg[w].last \in Int /\ arg[w].last >= v
        BY <1>2, <1>3, <1>4, <2>4 DEF SeenFits, Asks
      <3>2. ~(v > arg[w].last)
        BY <1>6, <3>1
      <3>3. Goes(w, my[w], write) /\ arg' = arg
        BY <1>5, <2>4, <3>2 DEF one_read
      <3> HIDE DEF write
      <3> QED
        BY <2>4, <3>3
    <2> QED
      BY <1>3, <2>1, <2>2, <2>3, <2>4
  <1>8. /\ setting' = setting /\ doing' = doing /\ violated' = violated
        /\ cntr' = cntr /\ passed' = passed
        /\ \A u \in Workers \ {w} : todo'[u] = todo[u] /\ arg'[u] = arg[u]
        /\ doing[w] = "dec" => todo'[w] = write
        /\ doing[w] # "dec" => todo'[w] = agree
        /\ doing[w] = "last" => arg'[w].last = v
    <2> HIDE DEF write, agree
    <2>1. PICK q : /\ Goes(w, my[w], q)
                   /\ doing[w] = "dec" => q = write /\ arg' = arg
                   /\ doing[w] # "dec" => q = agree
                   /\ doing[w] = "last" => arg' = [arg EXCEPT ![w].last = v]
                   /\ doing[w] # "last" => arg' = arg
      BY <1>7
    <2>2. /\ setting' = setting /\ doing' = doing /\ violated' = violated
          /\ cntr' = cntr /\ passed' = passed /\ todo'[w] = q
          /\ \A u \in Workers \ {w} : todo'[u] = todo[u]
      BY <1>2, <2>1 DEF Goes
    <2>3. doing[w] = "last" => arg'[w].last = v /\ \A u \in Workers \ {w} : arg'[u] = arg[u]
      BY <1>2, <2>1 DEF NoArg
    <2> QED
      BY <2>1, <2>2, <2>3
  <1>9. /\ Running' = Running /\ InitCounter' = InitCounter /\ Counter' = Counter
        /\ Agrees(w)' <=> doing[w] # "dec"
        /\ ~Agrees(w)
        /\ ~Asks(w, COUNT)' \/ doing[w] # "dec"
    <2>1. Running' = Running /\ InitCounter' = InitCounter /\ Counter' = Counter
      BY <1>1, <1>8 DEF Running, InitCounter, nbworkers, Counter
    <2>2. ~Agrees(w)
      BY <1>3, CallsDiffer DEF Agrees
    <2>3. Agrees(w)' <=> doing[w] # "dec"
      BY <1>8, CallsDiffer DEF Agrees
    <2>4. ~Asks(w, COUNT)' \/ doing[w] # "dec"
      BY <1>8, CallsDiffer DEF Asks
    <2> QED
      BY <2>1, <2>2, <2>3, <2>4
  <1>10. StageFits(w)'
    BY <1>2, <1>8, <1>9 DEF StageFits
  <1>11. CallAgrees(w)'
    <2>1. doing[w] = "dec" => todo'[w] = <<Write(Start, COUNT, Counter' - 1), End(TRUE)>>
      BY <1>4, <1>8, <1>9
    <2> QED
      BY <1>3, <1>8, <1>9, <2>1 DEF CallAgrees
  <1>12. SeenFits(w)'
    <2> HIDE DEF agree, write
    <2>1. (doing[w] = "last" => arg'[w].last = v) /\ v = Counter'
      BY <1>4, <1>8, <1>9
    <2>3. v >= v
      BY <1>6
    <2>2. doing'[w] = doing[w] /\ (doing[w] = "dec" => ~Asks(w, COUNT)')
      BY <1>8, <1>9
    <2> QED
      BY <1>6, <2>1, <2>2, <2>3 DEF SeenFits
  <1>13. Decreased(w)' = Decreased(w)
    BY <1>8, <1>9 DEF Decreased
  <1>14. BarrierFits'
    <2>1. doing[w] # "sync"
      BY <1>3
    <2> QED
      BY <1>2, <1>8, <2>1, BarrierStays
  <1> QED
    BY <1>1, <1>6, <1>8, <1>10, <1>11, <1>12, <1>13, <1>14, CheckGoesOn

(* A write of check, the only one of its body, is to the counter.          *)
LEMMA WritesCounter ==
    ASSUME HonestInv, OnReference, setting.phase = "check", NEW w \in Workers,
           ReferenceWrite(w)
    PROVE  /\ Inside(w) /\ ~AllDone /\ w \in Running
           /\ doing[w] = "set" \/ doing[w] = "dec"
           /\ ~Agrees(w) /\ ~Asks(w, COUNT) /\ Agrees(w)'
           /\ Counter' = IF doing[w] = "set" THEN InitCounter ELSE Counter - 1
           /\ setting' = setting /\ doing' = doing /\ violated' = violated
           /\ arg' = arg /\ cntr' = cntr /\ passed' = passed
           /\ \A u \in Workers \ {w} : todo'[u] = todo[u]
           /\ Running' = Running /\ InitCounter' = InitCounter
  <1> DEFINE c == Pending(w)
             v == IF doing[w] = "set" THEN InitCounter ELSE Counter - 1
             e == End(TRUE)
             x == Write(Start, COUNT, v)
  <1>1. /\ Calls(w, "write") /\ Returned(w, Null)
        /\ content' = Written(content, c)
    BY DEF ReferenceWrite, ReferenceCalls, RefWrite, Written
  <1>2. /\ LinksInv /\ BankInv /\ StageFits(w) /\ CallAgrees(w) /\ DOMAIN todo = Workers
    BY CheckIs DEF CheckHonest
  <1>3. /\ Inside(w) /\ doing[w] \in Transactions /\ ~AllDone
        /\ Start \in DOMAIN content /\ Start = Region
    <2>1. "write" # "begin"
      OBVIOUS
    <2> QED
      BY <1>1, <1>2, <2>1, InsideIs
  <1>4. doing[w] \in {"set", "verify", "last", "dec", "zero"}
    BY <1>3, CheckIs DEF Places, Transactions
  <1>5. ~Agrees(w) /\ ~Asks(w, COUNT)
    <2>1. "write" # "end" /\ "write" # "begin" /\ "write" # "read"
      OBVIOUS
    <2>2. ~Agrees(w)
      BY <1>1, <2>1, SomeCalls, Zenon
    <2>3. todo[w] # <<Begin>>
      BY <1>1, <2>1, SomeCalls, Zenon
    <2>4. todo[w] # <<Read(Start, COUNT)>>
      BY <1>1, <2>1, SomeCalls, Zenon
    <2> QED
      BY <2>2, <2>3, <2>4 DEF Asks
  <1>6. /\ doing[w] = "set" \/ doing[w] = "dec"
        /\ todo[w] = <<x, e>>
    <2>1. doing[w] = "set" \/ doing[w] = "dec"
      BY <1>2, <1>4, <1>5 DEF CallAgrees
    <2>2. CASE doing[w] = "set"
      <3>1. todo[w] = <<Write(Start, COUNT, InitCounter), e>>
        BY <1>2, <1>5, <2>2 DEF CallAgrees, Asks
      <3>2. v = InitCounter
        BY <2>2
      <3> HIDE DEF v, e
      <3> QED
        BY <2>2, <3>1, <3>2
    <2>3. CASE doing[w] = "dec"
      <3>1. todo[w] = <<Write(Start, COUNT, Counter - 1), e>>
        BY <1>2, <1>5, <2>3 DEF CallAgrees
      <3>2. v = Counter - 1
        BY <2>3
      <3> HIDE DEF v, e
      <3> QED
        BY <2>3, <3>1, <3>2
    <2> QED
      BY <2>1, <2>2, <2>3
  <1> HIDE DEF v
  <1>7. x.seg = Region /\ x.off = COUNT /\ x.val = v
    BY CallFields DEF Start, Region
  <1> HIDE DEF e, x
  <1>8. c = x /\ Len(todo[w]) = 2 /\ Tail(todo[w]) = <<e>>
    <2>1. Head(<<x, e>>) = x /\ Len(<<x, e>>) = 2 /\ Tail(<<x, e>>) = <<e>>
      BY FewCalls
    <2> QED
      BY <1>6, <2>1 DEF Pending
  <1>9. Counter' = v
    <2>1. COUNT \in DOMAIN content[Region]
      <3>1. ~Splits(w)
        BY <1>6 DEF Splits
      <3>2. DOMAIN content[Region] = Offsets(setting)
        BY <1>2, <1>3, <3>1, WholeToOthers DEF Whole, Chain
      <3> QED
        BY <1>2, <3>2, SettingIs, ReadsOffsets DEF BankInv
    <2>2. /\ c.seg \in DOMAIN content /\ c.off \in DOMAIN content[c.seg]
      BY <1>3, <1>7, <1>8, <2>1
    <2>3. content'[Region][COUNT] = IF Region = c.seg /\ COUNT = c.off THEN c.val
                                    ELSE content[Region][COUNT]
      BY <1>1, <1>3, <2>1, <2>2, WrittenWord
    <2> QED
      BY <1>7, <1>8, <2>3 DEF Counter
  <1>10. Goes(w, my[w], <<e>>) /\ arg' = arg
    <2>1. Len(todo[w]) > 1
      BY <1>8
    <2> QED
      BY <1>1, <1>8, <2>1, Zenon DEF Returned
  <1>11. /\ setting' = setting /\ doing' = doing /\ violated' = violated
         /\ arg' = arg /\ cntr' = cntr /\ passed' = passed
         /\ \A u \in Workers \ {w} : todo'[u] = todo[u]
         /\ todo'[w] = <<e>>
    BY <1>2, <1>10 DEF Goes
  <1>12. Agrees(w)'
    BY <1>11 DEF Agrees, e
  <1>13. Running' = Running /\ InitCounter' = InitCounter
    BY <1>11 DEF Running, InitCounter, nbworkers
  <1>14. w \in Running
    BY <1>2, <1>4 DEF StageFits
  <1> QED
    BY <1>3, <1>5, <1>6, <1>9, <1>11, <1>12, <1>13, <1>14 DEF v

(* The counter is set, or decreased by one.                                *)
LEMMA CheckWrites ==
    ASSUME HonestInv, OnReference, setting.phase = "check", NEW w \in Workers,
           ReferenceWrite(w)
    PROVE  CheckHonest'
  <1>1. /\ Inside(w) /\ ~AllDone /\ w \in Running
        /\ doing[w] = "set" \/ doing[w] = "dec"
        /\ ~Agrees(w) /\ ~Asks(w, COUNT) /\ Agrees(w)'
        /\ Counter' = IF doing[w] = "set" THEN InitCounter ELSE Counter - 1
        /\ setting' = setting /\ doing' = doing /\ violated' = violated
        /\ arg' = arg /\ cntr' = cntr /\ passed' = passed
        /\ \A u \in Workers \ {w} : todo'[u] = todo[u]
        /\ Running' = Running /\ InitCounter' = InitCounter
    BY WritesCounter
  <1>2. /\ LinksInv /\ CheckHonest /\ BarrierFits /\ Running \subseteq Workers /\ First \in Running
        /\ \A u \in Workers : StageFits(u) /\ CallAgrees(u) /\ SeenFits(u)
        /\ InitCounter \in Nat /\ DOMAIN todo = Workers
        /\ \A u \in Workers :
               doing[u] \in {"set", "verify", "last", "dec", "zero"} \cup Places
    BY CheckIs DEF CheckHonest
  <1>3. BarrierFits'
    <2>1. doing[w] # "sync"
      BY <1>1
    <2> QED
      BY <1>1, <1>2, <2>1, BarrierStays
  <1>4. \A u \in Workers : StageFits(u)'
    BY <1>1, <1>2 DEF StageFits
  <1>5. ASSUME NEW u \in Workers \ {w}
        PROVE  CallAgrees(u)' /\ SeenFits(u)'
    <2>1. CASE doing[w] = "set"
      <3>1. w = First
        BY <1>2, <2>1 DEF StageFits
      <3>2. doing[u] \notin {"set", "verify", "zero"}
        BY <1>2, <3>1 DEF StageFits
      <3>3. doing[u] \notin {"last", "dec"}
        <4>1. CASE u \in Running
          BY <2>1, <3>1, <4>1, NoneYet
        <4>2. CASE u \notin Running
          BY <1>2, <4>2 DEF StageFits
        <4> QED
          BY <4>1, <4>2
      <3> QED
        BY <1>1, <3>2, <3>3 DEF CallAgrees, SeenFits
    <2>2. CASE doing[w] = "dec"
      <3>1. ~Inside(u)
        BY <1>1, <1>2, <2>2, WriterAlone DEF ReadOnly
      <3>2. doing[u] \in Transactions => todo'[u] = <<Begin>> /\ todo[u] = <<Begin>>
        BY <1>1, <3>1 DEF Inside
      <3>3. CallAgrees(u)'
        BY <1>1, <3>2 DEF CallAgrees, Asks, Transactions
      <3>4. SeenFits(u)'
        <4>1. ~Agrees(u)' \/ doing[u] # "last"
          <5>1. doing[u] = "last" => todo'[u] = <<Begin>>
            BY <3>2 DEF Transactions
          <5> QED
            BY <5>1, CallsDiffer DEF Agrees
        <4>2. doing[u] = "dec" => arg[u].last \in Int /\ arg[u].last >= Counter
          <5>1. doing[u] = "dec" => Asks(u, COUNT)
            BY <3>2 DEF Asks, Transactions
          <5> QED
            BY <1>2, <5>1 DEF SeenFits
        <4>3. Counter \in Int /\ Counter' = Counter - 1
          BY <1>1, <2>2, CounterIs
        <4>4. doing[u] = "dec" => arg'[u].last \in Int /\ arg'[u].last >= Counter'
          BY <1>1, <4>2, <4>3
        <4> QED
          BY <1>1, <4>1, <4>4 DEF SeenFits
      <3> QED
        BY <3>3, <3>4
    <2> QED
      BY <1>1, <2>1, <2>2
  <1>6. CallAgrees(w)' /\ SeenFits(w)'
    <2>1. ~Asks(w, COUNT)' /\ ~(doing[w] = "last")
      <3>1. todo'[w] = <<End(TRUE)>>
        BY <1>1 DEF Agrees
      <3>2. <<Begin>> # <<End(TRUE)>> /\ <<Read(Start, COUNT)>> # <<End(TRUE)>>
        BY CallsDiffer
      <3> QED
        BY <1>1, <3>1, <3>2 DEF Asks
    <2> QED
      BY <1>1, <2>1 DEF CallAgrees, SeenFits
  <1>7. \A u \in Running \ {w} : Decreased(u)' = Decreased(u)
    <2>1. \A u \in Running \ {w} : Agrees(u)' = Agrees(u)
      BY <1>1, <1>2 DEF Agrees
    <2> QED
      BY <1>1, <2>1 DEF Decreased
  <1>8. CounterFits'
    <2>1. CASE doing[w] = "set"
      <3>1. w = First
        BY <1>2, <2>1 DEF StageFits
      <3>2. \A u \in Running : Decreased(u) = 0
        BY <2>1, <3>1, NoneYet
      <3>3. Decreased(w)' = Decreased(w)
        BY <1>1, <2>1 DEF Decreased
      <3>4. \A u \in Running : Decreased(u)' = Decreased(u)
        BY <1>7, <3>3
      <3>5. Decreases' = Decreases
        <4>1. \A d \in Running \X (1 .. setting.nbtxperwrk) :
                  Decreased(d[1])' = Decreased(d[1])
          BY <3>4
        <4> QED
          BY <1>1, <4>1 DEF Decreases
      <3>6. Cardinality(Decreases') = 0
        BY <3>2, <3>5, NoDecreases
      <3> QED
        BY <1>1, <1>2, <2>1, <3>6 DEF CounterFits
    <2>2. CASE doing[w] = "dec"
      <3>1. /\ Counter = InitCounter - Cardinality(Decreases) /\ Counter \in Int
            /\ Cardinality(Decreases) \in Nat
        BY <2>2, CounterIs, AllDecreases
      <3>2. /\ cntr[w] \in 0 .. setting.nbtxperwrk /\ cntr[w] < setting.nbtxperwrk
            /\ setting.nbtxperwrk \in Nat
        BY <1>1, <2>2, CheckIs
      <3>3. Decreased(w) = cntr[w] /\ Decreased(w)' = cntr[w] + 1
        BY <1>1, <2>2 DEF Decreased
      <3>4. Decreased(w) \in 0 .. setting.nbtxperwrk - 1 /\ Decreased(w)' = Decreased(w) + 1
        BY <3>2, <3>3
      <3>5. Cardinality(Decreases)' = Cardinality(Decreases) + 1
        BY <1>1, <1>7, <3>4, OneDecrease
      <3>6. Counter' = InitCounter' - Cardinality(Decreases)'
        BY <1>1, <1>2, <2>2, <3>1, <3>5
      <3> QED
        BY <3>6 DEF CounterFits
    <2> QED
      BY <1>1, <2>1, <2>2
  <1>9. violated' = {}
    BY <1>1, <1>2 DEF CheckHonest
  <1> QED
    BY <1>3, <1>4, <1>5, <1>6, <1>8, <1>9 DEF CheckHonest

(* A transaction of check has committed: none of them reports a violation. *)
LEMMA CheckEnds ==
    ASSUME HonestInv, OnReference, setting.phase = "check", NEW w \in Workers,
           ReferenceEnd(w)
    PROVE  CheckHonest'
  <1> DEFINE n == setting.nbtxperwrk
  <1>1. Calls(w, "end") /\ Ended(w) /\ content' = content
    BY DEF ReferenceEnd, ReferenceCalls, RefEnd
  <1>2. /\ LinksInv /\ CheckHonest /\ BarrierFits /\ Running \subseteq Workers /\ First \in Running
        /\ StageFits(w) /\ CallAgrees(w) /\ SeenFits(w)
        /\ DOMAIN doing = Workers /\ DOMAIN todo = Workers /\ DOMAIN arg = Workers
        /\ DOMAIN cntr = Workers /\ n \in Nat
        /\ cntr[w] \in 0 .. n
        /\ doing[w] \in {"last", "dec"} => passed[w] = 2 /\ cntr[w] < n
        /\ doing[w] \in {"set", "verify"} => passed[w] = 1
    BY CheckIs DEF CheckHonest
  <1>3. doing[w] \in {"set", "verify", "last", "dec", "zero"}
    <2>1. doing[w] \in Transactions
      BY <1>1, CheckIs, CallsInTransaction DEF BankInv
    <2> QED
      BY <2>1, CheckIs DEF Places, Transactions
  <1>4. Agrees(w)
    <2>1. "end" # "begin" /\ "end" # "read" /\ "end" # "write"
      OBVIOUS
    <2>2. todo[w] # <<Begin>>
      BY <1>1, <2>1, SomeCalls, Zenon
    <2>3. todo[w] # <<Read(Start, COUNT)>>
      BY <1>1, <2>1, SomeCalls, Zenon
    <2>4. \A v : todo[w] # <<Write(Start, COUNT, v), End(TRUE)>>
      BY <1>1, <2>1, SomeCalls, Zenon
    <2> QED
      BY <1>2, <1>3, <2>2, <2>3, <2>4 DEF CallAgrees, Asks
  <1> DEFINE ret == Pending(w).ret
  <1>5. ret = TRUE /\ ~Pending(w).throws
    <2> DEFINE c == End(TRUE)
    <2>1. c.ret = TRUE
      BY DEF End
    <2>2. ~c.throws
      BY DEF End
    <2> HIDE DEF c
    <2>3. Pending(w) = c
      BY <1>4, FewCalls DEF Agrees, Pending, c
    <2> QED
      BY <2>1, <2>2, <2>3, Zenon
  <1>6. check(w, ret) /\ setting' = setting
    <2>1. init(w, ret) \/ run(w, ret) \/ check(w, ret)
      BY <1>1, <1>5 DEF Ended
    <2>2. ~init(w, ret) /\ ~run(w, ret)
      BY <1>3 DEF init, run
    <2> QED
      BY <1>1, <2>1, <2>2 DEF Ended
  <1>7. Reports(w, ret) => violated' = violated
    BY <1>5, Zenon DEF Reports
  <1>8. ret
    BY <1>5
  <1> HIDE DEF ret
  <1>9. /\ violated' = violated /\ passed' = passed
        /\ doing[w] = "set" => Run(w, "verify", NoArg) /\ cntr' = cntr
        /\ doing[w] = "verify" => Leaves(w, "sync") /\ cntr' = cntr
        /\ doing[w] = "last" => Run(w, "dec", arg[w]) /\ cntr' = cntr
        /\ doing[w] = "dec" =>
               /\ cntr' = [cntr EXCEPT ![w] = @ + 1]
               /\ IF cntr'[w] < n THEN Run(w, "last", NoArg) ELSE Leaves(w, "sync")
        /\ doing[w] = "zero" => Leaves(w, "done") /\ cntr' = cntr
    BY <1>3, <1>6, <1>7, <1>8 DEF check
  <1>10. /\ \A u \in Workers \ {w} : /\ doing'[u] = doing[u] /\ todo'[u] = todo[u]
                                     /\ arg'[u] = arg[u] /\ cntr'[u] = cntr[u]
                                     /\ passed'[u] = passed[u]
         /\ doing'[w] \in {"verify", "last", "dec"} => todo'[w] = <<Begin>>
         /\ doing[w] = "set" => doing'[w] = "verify" /\ cntr'[w] = cntr[w]
         /\ doing[w] = "verify" => doing'[w] = "sync" /\ cntr'[w] = cntr[w]
         /\ doing[w] = "last" => doing'[w] = "dec" /\ cntr'[w] = cntr[w] /\ arg'[w] = arg[w]
         /\ doing[w] = "dec" =>
                /\ cntr'[w] = cntr[w] + 1
                /\ doing'[w] = "last" \/ (doing'[w] = "sync" /\ cntr'[w] = n)
         /\ doing[w] = "zero" => doing'[w] = "done" /\ cntr'[w] = cntr[w]
    <2> HIDE DEF n
    <2>1. \/ \E t, a : Run(w, t, a)
          \/ \E p : Leaves(w, p)
      BY <1>3, <1>9
    <2>2. \A u \in Workers \ {w} : /\ doing'[u] = doing[u] /\ todo'[u] = todo[u]
                                   /\ arg'[u] = arg[u] /\ cntr'[u] = cntr[u]
                                   /\ passed'[u] = passed[u]
      <3>1. \A u \in Workers \ {w} : cntr'[u] = cntr[u]
        BY <1>2, <1>3, <1>9
      <3> QED
        BY <1>2, <1>9, <2>1, <3>1 DEF Run, Leaves
    <2>3. \A t, a : Run(w, t, a) => doing'[w] = t /\ todo'[w] = <<Begin>> /\ arg'[w] = a
      BY <1>2 DEF Run
    <2>4. \A p : Leaves(w, p) => doing'[w] = p
      BY <1>2 DEF Leaves
    <2>5. doing[w] = "dec" =>
              /\ cntr'[w] = cntr[w] + 1
              /\ Run(w, "last", NoArg) \/ (Leaves(w, "sync") /\ cntr'[w] = n)
      BY <1>2, <1>9
    <2>6. /\ doing[w] = "set" => doing'[w] = "verify" /\ cntr'[w] = cntr[w]
          /\ doing[w] = "verify" => doing'[w] = "sync" /\ cntr'[w] = cntr[w]
          /\ doing[w] = "last" => doing'[w] = "dec" /\ cntr'[w] = cntr[w] /\ arg'[w] = arg[w]
          /\ doing[w] = "zero" => doing'[w] = "done" /\ cntr'[w] = cntr[w]
      BY <1>9, <2>3, <2>4
    <2>7. doing'[w] \in {"verify", "last", "dec"} => todo'[w] = <<Begin>>
      BY <1>3, <1>9, <2>3, <2>4, <2>5
    <2> QED
      BY <2>2, <2>3, <2>4, <2>5, <2>6, <2>7
  <1>11. /\ Running' = Running /\ Counter' = Counter /\ passed'[w] = passed[w]
         /\ setting'.nbtxperwrk = n /\ n' = n
    BY <1>1, <1>6, <1>9 DEF Running, Counter
  <1>12. StageFits(w)'
    <2> HIDE DEF n
    <2>1. w \in Running /\ passed[w] = 3 => doing[w] = "zero" /\ cntr[w] = n
      BY <1>2, <1>3 DEF StageFits, n
    <2>2. doing'[w] \in {"set", "verify", "zero"} => w = First
      BY <1>2, <1>3, <1>10 DEF StageFits
    <2>3. doing'[w] = "done" => doing[w] = "zero" /\ passed[w] = 3
      BY <1>2, <1>3, <1>10 DEF StageFits
    <2>4. doing'[w] # "zero" /\ w \in Running
      BY <1>2, <1>3, <1>10 DEF StageFits
    <2>5. passed[w] = 3 \/ (passed[w] = 2 /\ doing'[w] = "sync") => cntr'[w] = n
      BY <1>2, <1>3, <1>10, <2>1, <2>4
    <2> QED
      BY <1>11, <2>2, <2>3, <2>4, <2>5 DEF StageFits
  <1>13. CallAgrees(w)'
    <2>1. doing'[w] \in {"verify", "last", "dec", "sync", "done"}
      BY <1>3, <1>10
    <2> QED
      BY <1>10, <2>1 DEF CallAgrees, Asks
  <1>14. doing'[w] \in {"last", "dec"} => ~Agrees(w)'
    BY <1>10, CallsDiffer DEF Agrees
  <1>15. SeenFits(w)'
    <2>1. doing'[w] = "dec" => doing[w] = "last" /\ arg'[w] = arg[w]
      BY <1>3, <1>10
    <2> QED
      BY <1>2, <1>4, <1>11, <1>14, <2>1 DEF SeenFits
  <1>16. Decreased(w)' = Decreased(w)
    BY <1>3, <1>4, <1>10, <1>14 DEF Decreased
  <1>17. IsSet' => IsSet
    <2>1. First = w => IsSet
      BY <1>2, <1>3, <1>4, CounterIs DEF IsSet
    <2>2. doing[w] # "set" => IsSet
      BY <1>3, CounterIs
    <2>3. doing[w] = "set" => w = First
      BY <1>2 DEF StageFits
    <2> QED
      BY <2>1, <2>2, <2>3
  <1>18. BarrierFits'
    <2>1. doing[w] # "sync"
      BY <1>3
    <2> QED
      BY <1>2, <1>6, <1>9, <1>10, <2>1, BarrierStays
  <1>19. ~AllDone
    BY <1>3 DEF AllDone
  <1> QED
    BY <1>1, <1>6, <1>9, <1>10, <1>12, <1>13, <1>15, <1>16, <1>17, <1>18, <1>19, CheckGoesOn

(* A worker of check starts, or passes the barrier.                        *)
LEMMA CheckSyncs ==
    ASSUME HonestInv, OnReference, setting.phase = "check", NEW w \in Workers, WorkerAlone(w)
    PROVE  CheckHonest'
  <1> DEFINE n == setting.nbtxperwrk
  <1>1. Alone(w) /\ content' = content
    BY DEF WorkerAlone, referenceVars
  <1>2. /\ CheckHonest /\ BarrierFits /\ Running \subseteq Workers /\ First \in Running
        /\ StageFits(w)
        /\ DOMAIN doing = Workers /\ DOMAIN todo = Workers /\ DOMAIN arg = Workers
        /\ DOMAIN passed = Workers /\ \A u \in Workers : passed[u] \in 0 .. 3
        /\ violated = {}
    BY CheckIs DEF CheckHonest
  <1>3. /\ setting' = setting /\ violated' = violated /\ cntr' = cntr
        /\ doing[w] = "start" \/ doing[w] = "sync"
        /\ doing[w] = "start" =>
               passed[w] = 0 /\ cntr[w] = 0 /\ passed' = passed /\ Leaves(w, "sync")
        /\ doing[w] = "sync" => Sync(w)
    <2>1. setting.phase # "init" /\ setting.phase # "run"
      OBVIOUS
    <2>2. doing[w] = "start" => passed[w] = 0 /\ cntr[w] = 0
      BY CheckIs
    <2> QED
      BY <1>1, <2>1, <2>2 DEF Alone, StartPhase, Sync
  <1>4. doing[w] = "sync" =>
            /\ passed' = [passed EXCEPT ![w] = @ + 1]
            /\ \A u \in Running : \/ passed[u] > passed[w]
                                  \/ (passed[u] = passed[w] /\ doing[u] = "sync")
            /\ \/ passed'[w] = 1 /\ w = First /\ Run(w, "set", NoArg)
               \/ passed'[w] = 1 /\ w # First /\ Leaves(w, "sync")
               \/ passed'[w] = 2 /\ Run(w, "last", NoArg)
               \/ passed'[w] = 3 /\ w = First /\ Run(w, "zero", NoArg)
               \/ passed'[w] = 3 /\ Leaves(w, "done")
    BY <1>2, <1>3 DEF Sync
  <1>5. /\ \A t, a : Run(w, t, a) =>
               /\ doing'[w] = t /\ todo'[w] = <<Begin>>
               /\ \A u \in Workers \ {w} :
                      doing'[u] = doing[u] /\ todo'[u] = todo[u] /\ arg'[u] = arg[u]
        /\ \A p : Leaves(w, p) =>
               /\ doing'[w] = p /\ todo'[w] = <<>>
               /\ \A u \in Workers \ {w} :
                      doing'[u] = doing[u] /\ todo'[u] = todo[u] /\ arg'[u] = arg[u]
    BY <1>2 DEF Run, Leaves
  <1>6. /\ \A u \in Workers \ {w} : /\ doing'[u] = doing[u] /\ todo'[u] = todo[u]
                                    /\ arg'[u] = arg[u] /\ cntr'[u] = cntr[u]
                                    /\ passed'[u] = passed[u]
        /\ doing[w] = "start" => doing'[w] = "sync" /\ passed'[w] = 0
        /\ doing[w] = "sync" =>
               /\ passed'[w] = passed[w] + 1
               /\ \/ passed'[w] = 1 /\ w = First /\ doing'[w] = "set"
                  \/ passed'[w] = 1 /\ w # First /\ doing'[w] = "sync"
                  \/ passed'[w] = 2 /\ doing'[w] = "last"
                  \/ passed'[w] = 3 /\ w = First /\ doing'[w] = "zero"
                  \/ passed'[w] = 3 /\ doing'[w] = "done"
        /\ doing'[w] \notin {"sync", "done"} => todo'[w] = <<Begin>>
    <2>1. CASE doing[w] = "start"
      BY <1>3, <1>5, <2>1
    <2>2. CASE doing[w] = "sync"
      <3>1. passed'[w] = passed[w] + 1 /\ \A u \in Workers \ {w} : passed'[u] = passed[u]
        BY <1>2, <1>4, <2>2
      <3> QED
        BY <1>3, <1>4, <1>5, <2>2, <3>1
    <2> QED
      BY <1>3, <2>1, <2>2
  <1>7. Running' = Running /\ n' = n /\ Counter' = Counter /\ w \in Running
    <2>1. w \in Running
      BY <1>2, <1>3 DEF StageFits
    <2> QED
      BY <1>1, <1>3, <2>1 DEF Running, Counter
  <1>8. BarrierFits'
    <2>1. CASE doing[w] = "start"
      BY <1>2, <1>3, <1>6, <2>1, BarrierStays
    <2>2. CASE doing[w] = "sync"
      <3>1. \A u \in Running : \/ passed[u] > passed[w]
                               \/ (passed[u] = passed[w] /\ doing[u] = "sync")
        BY <1>4, <2>2
      <3>2. \A u \in Running : passed[u] \in 0 .. 3
        BY <1>2
      <3>3. ASSUME NEW u \in Running \ {w}
            PROVE  passed[u] = passed[w] + 1 \/ (passed[u] = passed[w] /\ doing[u] = "sync")
        <4>1. passed[w] < passed[u] => passed[u] = passed[w] + 1
          BY <1>2, <1>7 DEF BarrierFits
        <4> QED
          BY <1>7, <3>1, <3>2, <4>1
      <3>4. passed'[w] = passed[w] + 1
        BY <1>6, <2>2
      <3>5. ASSUME NEW u \in Running \ {w}
            PROVE  /\ ~(passed'[w] < passed'[u])
                   /\ passed'[u] < passed'[w] =>
                          doing'[u] = "sync" /\ passed'[w] = passed'[u] + 1
        <4>1. passed'[u] = passed[u] /\ doing'[u] = doing[u] /\ u \in Running
          BY <1>2, <1>6
        <4>2. passed[u] \in 0 .. 3 /\ passed[w] \in 0 .. 3
          BY <1>7, <3>2, <4>1
        <4> QED
          BY <3>3, <3>4, <4>1, <4>2
      <3>6. ASSUME NEW u \in Running \ {w}, NEW v \in Running \ {w}
            PROVE  passed'[u] < passed'[v] => doing'[u] = "sync" /\ passed'[v] = passed'[u] + 1
        <4>1. /\ passed'[u] = passed[u] /\ doing'[u] = doing[u]
              /\ passed'[v] = passed[v]
          BY <1>2, <1>6
        <4> QED
          BY <1>2, <4>1 DEF BarrierFits
      <3>7. ~(passed'[w] < passed'[w])
        BY <1>7, <3>2, <3>4
      <3>8. \A u, v \in Running :
                passed'[u] < passed'[v] => doing'[u] = "sync" /\ passed'[v] = passed'[u] + 1
        BY <3>5, <3>6, <3>7
      <3> QED
        BY <1>7, <3>8 DEF BarrierFits
    <2> QED
      BY <1>3, <2>1, <2>2
  <1>9. StageFits(w)'
    <2> HIDE DEF n
    <2>1. passed'[w] = 3 => doing[w] = "sync" /\ passed[w] = 2
      BY <1>2, <1>3, <1>6
    <2>2. passed[w] = 2 /\ doing[w] = "sync" => cntr[w] = n
      BY <1>2 DEF StageFits, n
    <2>3. passed'[w] = 3 => cntr'[w] = n
      BY <1>3, <2>1, <2>2
    <2>4. ~(passed'[w] = 2 /\ doing'[w] = "sync")
      BY <1>3, <1>6
    <2>5. /\ doing'[w] = "done" => passed'[w] = 3
          /\ doing'[w] \in {"set", "verify", "zero"} => w = First
          /\ doing'[w] = "zero" => passed'[w] = 3
      BY <1>3, <1>6
    <2>6. setting'.nbtxperwrk = n
      BY <1>3 DEF n
    <2> QED
      BY <1>7, <2>3, <2>4, <2>5, <2>6 DEF StageFits
  <1>10. doing'[w] \notin {"verify", "dec"} /\ doing[w] \notin {"last", "dec"}
    BY <1>3, <1>6
  <1>11. CallAgrees(w)'
    BY <1>6, <1>10 DEF CallAgrees, Asks
  <1>12. doing'[w] \in {"set", "last"} => ~Agrees(w)'
    BY <1>6, CallsDiffer DEF Agrees
  <1>13. SeenFits(w)'
    BY <1>10, <1>12 DEF SeenFits
  <1>14. Decreased(w)' = Decreased(w)
    BY <1>3, <1>10 DEF Decreased
  <1>15. IsSet' => IsSet
    <2>1. First \in Workers
      BY <1>2
    <2>2. CASE First # w
      <3>1. doing'[First] = doing[First] /\ passed'[First] = passed[First]
            /\ Agrees(First)' = Agrees(First)
        BY <1>6, <2>1, <2>2 DEF Agrees
      <3> QED
        BY <3>1 DEF IsSet
    <2>3. CASE First = w
      <3>1. IsSet' => passed'[w] >= 2
        BY <1>3, <1>6, <1>10, <1>12, <2>3 DEF IsSet
      <3>2. passed'[w] >= 2 => doing[w] = "sync" /\ passed[w] \in {1, 2}
        BY <1>2, <1>3, <1>6
      <3> QED
        BY <2>3, <3>1, <3>2 DEF IsSet
    <2> QED
      BY <2>2, <2>3
  <1>16. ~AllDone
    BY <1>3 DEF AllDone
  <1> QED
    BY <1>1, <1>3, <1>6, <1>8, <1>9, <1>11, <1>13, <1>14, <1>15, <1>16, CheckGoesOn
----------------------------------------------------------------------------
(* The workers are released.                                               *)
LEMMA InitIsHonest == Init => HonestInv
  <1> SUFFICES ASSUME Init PROVE HonestInv
    OBVIOUS
  <1>1. LinksInv
    BY InitLinks
  <1>2. /\ violated = {} /\ setting \in Settings
        /\ doing = [w \in Workers |-> IF w \in Running THEN "start" ELSE "done"]
        /\ cntr = [w \in Workers |-> 0] /\ passed = [w \in Workers |-> 0]
    BY DEF Init, BankInit
  <1>3. \A w \in Workers : doing[w] \in {"start", "done"} /\ (w \in Running <=> doing[w] = "start")
    BY <1>2
  <1>4. InitHonest
    BY <1>2, <1>3 DEF InitHonest, InitAgrees
  <1>5. ASSUME setting.phase = "check" PROVE CheckHonest
    <2>1. First \in Workers /\ Running \subseteq Workers
      BY <1>2, WorkersAssumption, SettingsAssumption DEF SettingOK, Running
    <2>2. BarrierFits
      BY <1>2, <2>1 DEF BarrierFits
    <2>3. CounterFits
      <3>1. doing[First] \notin {"set", "verify", "sync"} /\ passed[First] = 0
        BY <1>2, <1>3, <2>1
      <3> QED
        BY <3>1 DEF CounterFits, IsSet
    <2>4. ASSUME NEW w \in Workers PROVE StageFits(w) /\ CallAgrees(w) /\ SeenFits(w)
      <3>1. passed[w] = 0 /\ cntr[w] = 0 /\ doing[w] \in {"start", "done"}
        BY <1>2, <1>3
      <3>2. CallAgrees(w) /\ SeenFits(w)
        BY <3>1 DEF CallAgrees, SeenFits
      <3>3. doing[w] = "done" => w \notin Running
        BY <1>3
      <3> QED
        BY <1>3, <3>1, <3>2, <3>3 DEF StageFits
    <2> QED
      BY <1>2, <2>2, <2>3, <2>4 DEF CheckHonest
  <1> QED
    BY <1>1, <1>4, <1>5 DEF HonestInv

(* When the memory is destroyed, nobody is in a transaction.               *)
LEMMA DestroysHonestly ==
    ASSUME HonestInv, OnReference, Destroy
    PROVE  /\ setting' = setting
           /\ setting.phase = "init" => InitHonest'
           /\ setting.phase = "check" => CheckHonest'
  <1>1. AllDone /\ UNCHANGED bankVars
    BY DEF Destroy
  <1>2. UNCHANGED <<setting, doing, todo, arg, cntr, passed, violated>>
    BY <1>1 DEF bankVars
  <1>3. AllDone' /\ \A w \in Workers : doing'[w] = "done"
    BY <1>1, <1>2 DEF AllDone
  <1>4. ASSUME setting.phase = "init" PROVE InitHonest'
    BY <1>2, <1>3, <1>4 DEF HonestInv, InitHonest, InitAgrees
  <1>5. ASSUME setting.phase = "check" PROVE CheckHonest'
    <2>1. CheckHonest
      BY <1>5 DEF HonestInv
    <2>2. BarrierFits'
      BY <1>2, <2>1 DEF CheckHonest, BarrierFits, Running
    <2>3. CounterFits'
      BY <1>3 DEF CounterFits
    <2>4. \A w \in Workers : StageFits(w)'
      BY <1>2, <2>1 DEF CheckHonest, StageFits, Running
    <2>5. \A w \in Workers : CallAgrees(w)' /\ SeenFits(w)'
      BY <1>3 DEF CallAgrees, SeenFits
    <2> QED
      BY <1>2, <2>1, <2>2, <2>3, <2>4, <2>5 DEF CheckHonest
  <1> QED
    BY <1>2, <1>4, <1>5

(* A phase is run in one setting.                                          *)
LEMMA StepKeepsSetting ==
    ASSUME NEW w \in Workers, WorkerStep(w)
    PROVE  setting' = setting
  <1>1. (\E m, q : Goes(w, m, q)) \/ Retry(w) => setting' = setting
    BY DEF Goes, Retry
  <1>2. ASSUME NEW v, Returned(w, v) PROVE setting' = setting
    <2>1. CASE Len(todo[w]) > 1
      BY <1>1, <1>2, <2>1 DEF Returned
    <2>2. CASE ~(Len(todo[w]) > 1)
      BY <1>1, <1>2, <2>2, BodyGoes DEF Returned
    <2> QED
      BY <2>1, <2>2
  <1>3. Ended(w) \/ Enter(w) \/ Unwound(w) => setting' = setting
    BY DEF Ended, Enter, Unwound, Goes
  <1>4. CASE WorkerAlone(w)
    BY <1>4 DEF WorkerAlone, Alone, StartPhase, Sync
  <1>5. CASE ReferenceStep(w)
    BY <1>2, <1>3, <1>5 DEF ReferenceStep, ReferenceBegin, ReferenceRead, ReferenceWrite,
       ReferenceAlloc, ReferenceAllocFails, ReferenceFree, ReferenceEnd
  <1>6. CASE DualStep(w)
    <2>1. UNCHANGED bankVars => setting' = setting
      BY DEF bankVars
    <2> QED
      BY <1>1, <1>2, <1>3, <1>6, <2>1 DEF DualStep, DualBegin, DualBeginBlocks, DualBeginFlag,
         DualCall, DualReturn, DualEnd, DualRefused
  <1> QED
    BY <1>4, <1>5, <1>6 DEF WorkerStep

(* A worker works on one memory.                                           *)
LEMMA NotBoth ==
    ASSUME LinksInv, OnReference, NEW w \in Workers, WorkerStep(w)
    PROVE  WorkerAlone(w) \/ ReferenceStep(w)
  <1>1. ~OnDual
    BY DEF OnReference, OnDual
  <1>2. op[w] = NotRunning /\ pc[w] = "outside"
    BY <1>1, InDual
  <1>3. ~DualBegin(w) /\ ~DualBeginBlocks(w)
    BY <1>1, <1>2 DEF DualBegin, DualBeginBlocks, DualCalls, Resume
  <1>4. op[w] # Idle /\ op[w] # Begun
        /\ op[w].at \notin {"abort", "read_ro_copy", "read_writable_copy", "write_lock",
                            "first_copy", "write_copy"}
    BY <1>2, OpsDiffer
  <1>5. ~DualBeginFlag(w) /\ ~DualEnd(w) /\ ~DualRefused(w)
    BY <1>4 DEF DualBeginFlag, TmBeginFlag, DualEnd, DualRefused
  <1>6. ~DualCall(w) /\ ~DualReturn(w)
    BY <1>1, <1>4 DEF DualCall, DualReturn, DualCalls, WriteLocked, AbortWord, ReadCopy, WriteCopy
  <1> QED
    BY <1>3, <1>5, <1>6 DEF WorkerStep, DualStep

LEMMA HonestInvariance == Spec => []HonestInv
  <1>1. HonestInv /\ LinksInv' /\ [Next]_allVars => HonestInv'
    <2> SUFFICES ASSUME HonestInv, LinksInv', [Next]_allVars PROVE HonestInv'
      OBVIOUS
    <2>1. CASE UNCHANGED allVars
      <3>1. UNCHANGED bankVars /\ UNCHANGED referenceVars
        BY <2>1 DEF allVars
      <3>2. UNCHANGED <<setting, doing, todo, arg, cntr, passed, violated, content>>
        BY <3>1 DEF bankVars, referenceVars
      <3>3. OnReference /\ setting.phase = "init" => InitHonest'
        BY <3>2 DEF HonestInv, InitHonest, InitAgrees, StoresSame, Asks, Agrees
      <3>4. ASSUME OnReference, setting.phase = "check" PROVE CheckHonest'
        <4>1. /\ Counter' = Counter /\ Running' = Running /\ InitCounter' = InitCounter
              /\ AllDone' = AllDone
          BY <3>2 DEF Counter, Running, InitCounter, nbworkers, AllDone
        <4>2. CheckHonest
          BY <3>4 DEF HonestInv
        <4>3. BarrierFits'
          BY <3>2, <4>1, <4>2 DEF CheckHonest, BarrierFits
        <4>4. CounterFits'
          BY <3>2, <4>1, <4>2 DEF CheckHonest, CounterFits, IsSet, Agrees, Decreases, Decreased
        <4>5. \A w \in Workers : StageFits(w)' /\ CallAgrees(w)' /\ SeenFits(w)'
          BY <3>2, <4>1, <4>2 DEF CheckHonest, StageFits, CallAgrees, SeenFits, Asks, Agrees
        <4> QED
          BY <3>2, <4>2, <4>3, <4>4, <4>5 DEF CheckHonest
      <3> QED
        BY <3>2, <3>3, <3>4 DEF HonestInv, OnReference
    <2>2. CASE Destroy
      BY <2>2, DestroysHonestly DEF HonestInv, OnReference, Destroy
    <2>3. ASSUME NEW w \in Workers, WorkerStep(w) PROVE HonestInv'
      <3>1. setting' = setting
        BY <2>3, StepKeepsSetting
      <3>a. LinksInv
        BY DEF HonestInv
      <3>2. CASE ~OnReference
        BY <3>1, <3>2 DEF HonestInv, OnReference
      <3>3. CASE OnReference
        <4>1. WorkerAlone(w) \/ ReferenceStep(w)
          BY <2>3, <3>3, <3>a, NotBoth
        <4>2. ASSUME setting.phase = "init" PROVE InitHonest'
          <5>1. WorkerAlone(w) => InitHonest'
            BY <3>3, <4>2, InitStarts
          <5>2. ReferenceStep(w) => InitHonest'
            <6>1. ~ReferenceAlloc(w) /\ ~ReferenceAllocFails(w) /\ ~ReferenceFree(w)
              BY <4>2, NoneAllocates DEF HonestInv, ReferenceAlloc, ReferenceAllocFails,
                 ReferenceFree, ReferenceCalls
            <6> QED
              BY <3>3, <4>2, <6>1, InitBegins, InitReads, InitWrites, InitEnds DEF ReferenceStep
          <5> QED
            BY <4>1, <5>1, <5>2
        <4>3. ASSUME setting.phase = "check" PROVE CheckHonest'
          <5>1. WorkerAlone(w) => CheckHonest'
            BY <3>3, <4>3, CheckSyncs
          <5>2. ReferenceStep(w) => CheckHonest'
            <6>1. ~ReferenceAlloc(w) /\ ~ReferenceAllocFails(w) /\ ~ReferenceFree(w)
              BY <4>3, NoneAllocates DEF HonestInv, ReferenceAlloc, ReferenceAllocFails,
                 ReferenceFree, ReferenceCalls
            <6> QED
              BY <3>3, <4>3, <6>1, CheckBegins, CheckReads, CheckWrites, CheckEnds
                 DEF ReferenceStep
          <5> QED
            BY <4>1, <5>1, <5>2
        <4> QED
          BY <3>1, <4>2, <4>3 DEF HonestInv
      <3> QED
        BY <3>2, <3>3
    <2> QED
      BY <2>1, <2>2, <2>3 DEF Next
  <1> QED
    BY <1>1, InitIsHonest, LinksInvariance, PTL DEF Spec

(* On the lock-based memory neither init nor check reports a violation,    *)
(* whatever the numbers of workers, accounts and rounds are: what a worker *)
(* reads back after init is what all of them store (workload.hpp:292), the *)
(* counter of check is read as it has been set, never larger than a moment *)
(* before, and as zero when every worker has decreased it in all of its    *)
(* rounds (workload.hpp:348, 373, 385).                                    *)
THEOREM BankCheckHonest ==
    Spec => [](OnReference /\ setting.phase \in {"init", "check"} => NoViolationReported)
  <1>1. HonestInv => (OnReference /\ setting.phase \in {"init", "check"} => NoViolationReported)
    BY DEF HonestInv, InitHonest, CheckHonest, NoViolationReported
  <1> QED
    BY <1>1, HonestInvariance, PTL
=============================================================================
