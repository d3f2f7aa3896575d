---------------------------- MODULE BankWorkload ----------------------------
(***************************************************************************)
(* The workload the grader runs on a transactional library                 *)
(* (grading/workload.hpp, WorkloadBank, over grading/transactional.hpp):   *)
(* what every worker does between two calls of the library.  A worker is   *)
(* in one transaction at a time; `todo' holds the calls its body is bound  *)
(* to make, the first of them pending.  When the last one returns, the     *)
(* body goes on from the value it returned and queues more.  A call that   *)
(* is refused makes the worker run the body again from its beginning       *)
(* (transactional), with what the body captured by reference as it is; a   *)
(* failed allocation takes the worker out of its phase.                    *)
(*                                                                         *)
(* The library is left open: modules that extend this one make the calls   *)
(* and conjoin Returned, Ended, Retry or Unwound to the step in which a    *)
(* call returns.                                                           *)
(* The barrier of check is what SpinBarrier shows it to be: nobody passes  *)
(* before everybody has come.  assert_mode is false, as the Makefile       *)
(* builds the grader.                                                      *)
(***************************************************************************)
EXTENDS Integers, Sequences, FiniteSets

CONSTANTS
    Workers,          \* the worker threads
    First,            \* the one whose unique id is 0
    Settings          \* the runs of the grader: see SettingOK

ASSUME WorkersAssumption == IsFiniteSet(Workers) /\ First \in Workers

Transactions == {"init", "first", "long", "alloc", "short", "final",
                 "set", "verify", "last", "dec", "zero"}
ReadOnly == {"first", "long", "final", "verify", "last", "zero"}

(* The library and what the constructor of WorkloadBank and the grader are *)
(* given, with the transactions a run may draw (kinds: a probability may   *)
(* be zero) and the trigger levels it may draw.  phase: the phase of the   *)
(* grader the behaviour is about.                                          *)
SettingOK(s) ==
    /\ s.library \in {"reference", "dual-versioned"}
    /\ s.phase \in {"init", "run", "check"}
    /\ s.workers \subseteq Workers /\ (s.phase = "check" => First \in s.workers)
    /\ s.nbtxperwrk \in Nat \ {0} /\ s.nbaccounts \in Nat \ {0} /\ s.init_balance \in Nat
    /\ s.kinds \subseteq {"long", "alloc", "short"} /\ s.kinds # {}
    /\ s.triggers \subseteq Nat

ASSUME SettingsAssumption == \A s \in Settings : SettingOK(s)

VARIABLES
    setting,
    doing,            \* the transaction each worker runs, or "sync", or "done"
    todo,             \* the calls its body is about to make
    my,               \* the body's variables
    arg,              \* what the body captured by reference
    cntr,             \* committed rounds of the loop of run or check
    known,            \* run's count of accounts
    passed,           \* how often each worker has passed the barrier of check
    violated,         \* workers whose phase reported a violation
    threw             \* workers that an exception took out of their phase

bankVars == <<setting, doing, todo, my, arg, cntr, known, passed, violated, threw>>

Running == setting.workers
nbworkers == Cardinality(Running)
----------------------------------------------------------------------------
(* A segment of accounts, and the calls of the library                     *)

Null == 0
Start == 1                         \* tm_start
COUNT == 0
NEXT == 1
PARITY == 2
Account(i) == 3 + i

SegmentSize(nbaccounts) == 3 + nbaccounts

Begin == [do |-> "begin"]
Read(s, off) == [do |-> "read", seg |-> s, off |-> off]
Write(s, off, v) == [do |-> "write", seg |-> s, off |-> off, val |-> v]
Alloc == [do |-> "alloc"]
Free(s) == [do |-> "free", seg |-> s]
End(ret) == [do |-> "end", ret |-> ret, throws |-> FALSE]
EndThrowing == [do |-> "end", ret |-> FALSE, throws |-> TRUE]

Locals == [seg |-> Start, prev |-> Null, count |-> 0, segment_count |-> 0, sum |-> 0,
           parity |-> 0, send_ptr |-> <<>>, recv_ptr |-> <<>>, sent |-> FALSE]
NoArg == [send_id |-> 0, recv_id |-> 0, trigger |-> 0, last |-> 0]

(* the call that w makes next is of this kind, or is pending               *)
Calls(w, what) == todo[w] # <<>> /\ Head(todo[w]).do = what
Pending(w) == Head(todo[w])

(* transactional(tm, mode, body)                                           *)
Run(w, t, a) ==
    /\ doing' = [doing EXCEPT ![w] = t]
    /\ todo' = [todo EXCEPT ![w] = <<Begin>>]
    /\ my' = [my EXCEPT ![w] = Locals]
    /\ arg' = [arg EXCEPT ![w] = a]

(* a call refused the transaction: TransactionRetry, caught around the body *)
Retry(w) ==
    /\ todo' = [todo EXCEPT ![w] = <<Begin>>]
    /\ my' = [my EXCEPT ![w] = Locals]
    /\ UNCHANGED <<setting, doing, arg, cntr, known, passed, violated, threw>>

Goes(w, locals, calls) ==
    /\ my' = [my EXCEPT ![w] = locals]
    /\ todo' = [todo EXCEPT ![w] = calls]
    /\ UNCHANGED <<setting, doing, cntr, known, passed, violated, threw>>
----------------------------------------------------------------------------
(* The bodies: from the value v the last call returned to the next calls   *)

InitCalls ==
    <<Write(Start, COUNT, setting.nbaccounts)>>
        \o [i \in 1 .. setting.nbaccounts |-> Write(Start, Account(i - 1), setting.init_balance)]
        \o <<End(TRUE)>>

InitCounter == setting.nbtxperwrk * nbworkers

(* what a body calls first                                                 *)
Enter(w) ==
    /\ Goes(w, Locals,
            CASE doing[w] = "init" -> InitCalls
              [] doing[w] = "first" -> <<Read(Start, Account(0))>>
              [] doing[w] = "set" -> <<Write(Start, COUNT, InitCounter), End(TRUE)>>
              [] OTHER -> <<Read(Start, COUNT)>>)
    /\ UNCHANGED arg

(* long_tx, after segment.count, segment.parity, each account, segment.next *)
long_tx(w, v) ==
    LET m == my[w]
        off == Pending(w).off
        next(i) == IF i < m.segment_count THEN <<Read(m.seg, Account(i))>>
                   ELSE <<Read(m.seg, NEXT)>>
    IN  /\ doing[w] \in {"long", "final"}
        /\ \/ /\ off = COUNT
              /\ Goes(w, [m EXCEPT !.segment_count = v, !.count = @ + v],
                      <<Read(m.seg, PARITY)>>)
           \/ /\ off = PARITY
              /\ Goes(w, [m EXCEPT !.sum = @ + v], next(0))
           \/ /\ off >= Account(0) /\ v < 0
              /\ Goes(w, m, <<End(FALSE)>>)
           \/ /\ off >= Account(0) /\ v >= 0
              /\ Goes(w, [m EXCEPT !.sum = @ + v], next(off - Account(0) + 1))
           \/ /\ off = NEXT /\ v # Null
              /\ Goes(w, [m EXCEPT !.seg = v], <<Read(v, COUNT)>>)
           \/ /\ off = NEXT /\ v = Null
              /\ Goes(w, m, <<End(m.sum = setting.init_balance * m.count)>>)
        /\ UNCHANGED arg

(* alloc_tx at the last segment, when there are accounts to spare          *)
TooMany(w) == my[w].count > arg[w].trigger /\ my[w].count > 2

\* mutant: the balance of a removed account is forgotten
RemoveAccountForgotten(w, v) ==
    LET m == my[w]
        n == m.segment_count - 1
    IN  IF n > 0
        THEN Goes(w, m, <<Write(m.seg, COUNT, n), End(TRUE)>>)
        ELSE Goes(w, m, <<Read(m.prev, NEXT)>>)

(* the balance v of the last account is known: new_parity, then fewer      *)
(* accounts or no segment                                                  *)
RemoveAccount(w, v) ==
    LET m == my[w]
        n == m.segment_count - 1
        new_parity == m.parity + v - setting.init_balance
    IN  IF n > 0
        THEN Goes(w, m, <<Write(m.seg, COUNT, n), Write(m.seg, PARITY, new_parity), End(TRUE)>>)
        ELSE Goes(w, [m EXCEPT !.parity = new_parity], <<Read(m.prev, NEXT)>>)

\* mutant: the freed segment stays linked
UnlinkSegmentForgotten(w, v) == Goes(w, my[w], <<Free(v), Read(my[w].prev, PARITY)>>)

(* Shared<T*>::free of prev_segment.next                                   *)
UnlinkSegment(w, v) ==
    LET prev == my[w].prev
    IN  Goes(w, my[w], <<Free(v), Write(prev, NEXT, Null), Read(prev, PARITY)>>)

AddAccount(w) ==
    LET m == my[w]
        n == m.segment_count
    IN  IF n < setting.nbaccounts
        THEN Goes(w, m, <<Write(m.seg, Account(n), setting.init_balance),
                          Write(m.seg, COUNT, n + 1), End(TRUE)>>)
        ELSE Goes(w, m, <<Alloc>>)

(* Shared<T*>::alloc of segment.next returned s                            *)
LinkSegment(w, s) ==
    Goes(w, my[w], <<Write(my[w].seg, NEXT, s), Write(s, COUNT, 1),
                     Write(s, Account(0), setting.init_balance), End(TRUE)>>)

alloc_tx(w, v) ==
    LET m == my[w]
        c == Pending(w)
    IN  /\ doing[w] = "alloc"
        /\ \/ /\ c = Read(m.seg, COUNT)
              /\ Goes(w, [m EXCEPT !.segment_count = v, !.count = @ + v], <<Read(m.seg, NEXT)>>)
           \/ /\ c = Read(m.seg, NEXT) /\ v # Null
              /\ Goes(w, [m EXCEPT !.prev = m.seg, !.seg = v], <<Read(v, COUNT)>>)
           \/ /\ c = Read(m.seg, NEXT) /\ v = Null /\ TooMany(w)
              /\ Goes(w, m, <<Read(m.seg, PARITY)>>)
           \/ /\ c = Read(m.seg, PARITY)
              /\ Goes(w, [m EXCEPT !.parity = v], <<Read(m.seg, Account(m.segment_count - 1))>>)
           \/ /\ c = Read(m.seg, Account(m.segment_count - 1))
              /\ RemoveAccount(w, v)
           \/ /\ c = Read(m.prev, NEXT)
              /\ UnlinkSegment(w, v)
           \/ /\ c = Read(m.prev, PARITY)
              /\ Goes(w, m, <<Write(m.prev, PARITY, v + m.parity), End(TRUE)>>)
           \/ /\ c = Read(m.seg, NEXT) /\ v = Null /\ ~TooMany(w)
              /\ AddAccount(w)
           \/ /\ c = Alloc
              /\ LinkSegment(w, v)
        /\ UNCHANGED arg

(* short_tx in a segment of n accounts: is the account in it?  An index    *)
(* that is not found is reduced, for good: it is captured by reference.    *)
Found(ptr, id, n, seg) == IF ptr = <<>> /\ id < n THEN <<seg, Account(id)>> ELSE ptr
Reduced(ptr, id, n) == IF ptr = <<>> /\ id >= n THEN id - n ELSE id

ReadAt(ptr) == Read(ptr[1], ptr[2])
WriteAt(ptr, v) == Write(ptr[1], ptr[2], v)

short_tx(w, v) ==
    LET m == my[w]
        a == arg[w]
        c == Pending(w)
        send == Found(m.send_ptr, a.send_id, v, m.seg)
        recv == Found(m.recv_ptr, a.recv_id, v, m.seg)
    IN  /\ doing[w] = "short"
        /\ \/ /\ c = Read(m.seg, COUNT)
              /\ arg' = [arg EXCEPT ![w].send_id = Reduced(m.send_ptr, @, v),
                                    ![w].recv_id = Reduced(m.recv_ptr, @, v)]
              /\ Goes(w, [m EXCEPT !.send_ptr = send, !.recv_ptr = recv],
                      IF <<>> \in {send, recv} THEN <<Read(m.seg, NEXT)>> ELSE <<ReadAt(send)>>)
           \/ /\ c = Read(m.seg, NEXT)
              /\ IF v = Null THEN Goes(w, m, <<End(FALSE)>>)
                 ELSE Goes(w, [m EXCEPT !.seg = v], <<Read(v, COUNT)>>)
              /\ UNCHANGED arg
           \/ /\ c.off >= Account(0) /\ ~m.sent
              /\ Goes(w, [m EXCEPT !.sent = TRUE],
                      IF v > 0 THEN <<WriteAt(m.send_ptr, v - 1), ReadAt(m.recv_ptr)>>
                      ELSE <<End(TRUE)>>)
              /\ UNCHANGED arg
           \/ /\ c.off >= Account(0) /\ m.sent
              /\ Goes(w, m, <<WriteAt(m.recv_ptr, v + 1), End(TRUE)>>)
              /\ UNCHANGED arg

(* the bodies of one read: init's and check's                              *)
one_read(w, v) ==
    \/ doing[w] = "first" /\ Goes(w, my[w], <<End(v = setting.init_balance)>>) /\ UNCHANGED arg
    \/ doing[w] = "verify" /\ Goes(w, my[w], <<End(v = InitCounter)>>) /\ UNCHANGED arg
    \/ doing[w] = "zero" /\ Goes(w, my[w], <<End(v = 0)>>) /\ UNCHANGED arg
    \/ /\ doing[w] = "last"
       /\ Goes(w, my[w], <<End(TRUE)>>)
       /\ arg' = [arg EXCEPT ![w].last = v]
    \/ /\ doing[w] = "dec"
       /\ Goes(w, my[w], IF v > arg[w].last THEN <<End(FALSE)>>
                         ELSE <<Write(Start, COUNT, v - 1), End(TRUE)>>)
       /\ UNCHANGED arg

(* TransactionAlloc leaves the body: the destructor of Transaction calls   *)
(* tm_end all the same                                                     *)
Unwound(w) == Goes(w, my[w], <<EndThrowing>>) /\ UNCHANGED arg

(* the pending call, not the last one, has returned v                      *)
Returned(w, v) ==
    IF Len(todo[w]) > 1
    THEN Goes(w, my[w], Tail(todo[w])) /\ UNCHANGED arg
    ELSE long_tx(w, v) \/ alloc_tx(w, v) \/ short_tx(w, v) \/ one_read(w, v)
----------------------------------------------------------------------------
(* The phases: what a worker does when a transaction has committed         *)

Leaves(w, place) ==
    /\ doing' = [doing EXCEPT ![w] = place]
    /\ todo' = [todo EXCEPT ![w] = <<>>]
    /\ my' = [my EXCEPT ![w] = Locals]
    /\ arg' = [arg EXCEPT ![w] = NoArg]

(* the phase reports a violation if ~ok, and is over                       *)
Reports(w, ok) == violated' = IF ok THEN violated ELSE violated \cup {w}

(* run draws a transaction and its parameters                              *)
Draw(w, count) ==
    \/ "long" \in setting.kinds /\ Run(w, "long", NoArg)
    \/ /\ "alloc" \in setting.kinds
       /\ \E t \in setting.triggers : Run(w, "alloc", [NoArg EXCEPT !.trigger = t])
    \/ /\ "short" \in setting.kinds
       /\ \E s, r \in 0 .. count - 1 :
              Run(w, "short", [NoArg EXCEPT !.send_id = s, !.recv_id = r])

(* ... nbtxperwrk times, and a long transaction at the end                 *)
NextDraw(w) ==
    /\ cntr' = [cntr EXCEPT ![w] = @ + 1]
    /\ IF cntr'[w] = setting.nbtxperwrk THEN Run(w, "final", NoArg) ELSE Draw(w, known'[w])
    /\ UNCHANGED violated

run(w, ret) ==
    /\ \/ /\ doing[w] = "long" /\ ret
          /\ known' = [known EXCEPT ![w] = my[w].count]
          /\ NextDraw(w)
       \/ /\ doing[w] = "alloc"
          /\ UNCHANGED known
          /\ NextDraw(w)
       \/ /\ doing[w] = "short" /\ ret
          /\ UNCHANGED known
          /\ NextDraw(w)
       \/ /\ doing[w] = "short" /\ ~ret
          /\ \E s, r \in 0 .. known[w] - 1 :
                 Run(w, "short", [NoArg EXCEPT !.send_id = s, !.recv_id = r])
          /\ UNCHANGED <<cntr, known, violated>>
       \/ /\ doing[w] = "final" \/ (doing[w] = "long" /\ ~ret)
          /\ Reports(w, ret)
          /\ Leaves(w, "done")
          /\ UNCHANGED <<cntr, known>>
    /\ UNCHANGED passed

init(w, ret) ==
    /\ \/ doing[w] = "init" /\ Run(w, "first", NoArg) /\ UNCHANGED violated
       \/ doing[w] = "first" /\ Reports(w, ret) /\ Leaves(w, "done")
    /\ UNCHANGED <<cntr, known, passed>>

(* `nbtxperwrk' is check's own there (100 in the code)                     *)
check(w, ret) ==
    /\ \/ /\ doing[w] = "set"
          /\ Run(w, "verify", NoArg)
          /\ UNCHANGED <<cntr, violated>>
       \/ /\ doing[w] = "verify"
          /\ Reports(w, ret)
          /\ Leaves(w, "sync")
          /\ UNCHANGED cntr
       \/ /\ doing[w] = "last"
          /\ Run(w, "dec", arg[w])
          /\ UNCHANGED <<cntr, violated>>
       \/ /\ doing[w] = "dec"
          /\ cntr' = [cntr EXCEPT ![w] = @ + 1]
          /\ Reports(w, ret)
          /\ IF ret /\ cntr'[w] < setting.nbtxperwrk THEN Run(w, "last", NoArg)
             ELSE Leaves(w, "sync")
       \/ /\ doing[w] = "zero"
          /\ Reports(w, ret)
          /\ Leaves(w, "done")
          /\ UNCHANGED cntr
    /\ UNCHANGED <<known, passed>>

(* tm_end, in the destructor of Transaction, accepted what there was of    *)
(* the transaction; an exception on its way goes on to the worker          *)
Ended(w) ==
    /\ Calls(w, "end")
    /\ \/ /\ ~Pending(w).throws
          /\ init(w, Pending(w).ret) \/ run(w, Pending(w).ret) \/ check(w, Pending(w).ret)
          /\ UNCHANGED threw
       \/ /\ Pending(w).throws
          /\ threw' = threw \cup {w}
          /\ Leaves(w, "done")
          /\ UNCHANGED <<cntr, known, passed, violated>>
    /\ UNCHANGED setting

(* The three times the barrier is passed in check: before the first worker *)
(* sets the counter, after it, and after the decreases.  A worker that has *)
(* found a violation only passes it.                                       *)
Sync(w) ==
    /\ doing[w] = "sync"
    /\ \A u \in Running : \/ passed[u] > passed[w]
                           \/ (passed[u] = passed[w] /\ doing[u] = "sync")
    /\ passed' = [passed EXCEPT ![w] = @ + 1]
    /\ \/ /\ passed'[w] = 1
          /\ IF w = First THEN Run(w, "set", NoArg) ELSE Leaves(w, "sync")
       \/ /\ passed'[w] = 2
          /\ IF w \in violated THEN Leaves(w, "sync") ELSE Run(w, "last", NoArg)
       \/ /\ passed'[w] = 3
          /\ IF w = First /\ w \notin violated THEN Run(w, "zero", NoArg) ELSE Leaves(w, "done")
    /\ UNCHANGED <<setting, cntr, known, violated, threw>>
----------------------------------------------------------------------------
(* The workers are released together into the phase                        *)
BankInit ==
    /\ setting \in Settings
    /\ doing = [w \in Workers |-> IF w \in Running THEN "start" ELSE "done"]
    /\ todo = [w \in Workers |-> <<>>]
    /\ my = [w \in Workers |-> Locals]
    /\ arg = [w \in Workers |-> NoArg]
    /\ cntr = [w \in Workers |-> 0]
    /\ known = [w \in Workers |-> setting.nbaccounts]
    /\ passed = [w \in Workers |-> 0]
    /\ violated = {}
    /\ threw = {}

StartPhase(w) ==
    /\ doing[w] = "start"
    /\ \/ setting.phase = "init" /\ Run(w, "init", NoArg)
       \/ setting.phase = "run" /\ Draw(w, known[w])
       \/ setting.phase = "check" /\ Leaves(w, "sync")
    /\ UNCHANGED <<setting, cntr, known, passed, violated, threw>>

(* a worker's own steps, which make no call of the library                 *)
Alone(w) == StartPhase(w) \/ Sync(w)

(* The first segment when a phase begins: zero after tm_create, and as     *)
(* init leaves it, no transfer being made yet, before the other phases.    *)
FirstSegment ==
    [off \in 0 .. SegmentSize(setting.nbaccounts) - 1 |->
        IF setting.phase = "init" \/ off \in {NEXT, PARITY} THEN 0
        ELSE IF off = COUNT THEN setting.nbaccounts ELSE setting.init_balance]
=============================================================================
