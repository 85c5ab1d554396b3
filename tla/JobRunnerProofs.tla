---------------------------- MODULE JobRunnerProofs ----------------------------
(***************************************************************************)
(* Proofs about JobRunner, for any number of runners, runs, usage events   *)
(* and faults.                                                             *)
(*                                                                         *)
(* The partial unique index and the lock of a running row leave at most    *)
(* one running row, and one transaction that is about to insert one; only  *)
(* a stale row is taken from its runner.  So the sum of a run that is not  *)
(* overdue is newer than the beginning of every run in the table.          *)
(***************************************************************************)
EXTENDS JobRunner, TLAPS

Label == {"idle", "check", "lock", "count", "insert", "publish", "sum", "upsert", "close",
          "fail", "end"}

\* What a transaction t whose runner is at l has done: none, one of inserting a row and
\* of having committed one.
Phase(l, t) ==
    /\ l \in {"idle", "check", "lock", "count", "insert"} => ~t.inserted /\ t.row = 0
    /\ l \in {"idle", "check", "lock"} => t.lock = 0 /\ ~t.reclaims
    /\ l = "lock" => t.seen \in DOMAIN runs
    /\ l = "publish" => t.inserted
    /\ l \in {"sum", "upsert", "close", "fail"} => t.inserted \/ (t.row # 0 /\ t.lock = 0)
    /\ t.verdict # "none" => l = "end" /\ (t.inserted \/ (t.row # 0 /\ t.lock = t.row))
    /\ l = "end" /\ t.verdict = "none" => ~t.inserted /\ t.row = 0
    /\ t.inserted => t.row = 0
    /\ t.row # 0 => ~t.reclaims
    /\ l = "insert" \/ t.inserted => t.attempt_number # 0
    /\ t.rolled => l = "close" \/ t.verdict = "completed"

\* The row that it takes over is stale and still running; its own row is running, unless
\* somebody has taken it over.
Holds(t) ==
    /\ t.reclaims => /\ t.lock \in DOMAIN runs
                     /\ runs[t.lock].status = "running" /\ runs[t.lock].stale
    /\ t.row # 0 => /\ t.row \in DOMAIN runs
                    /\ runs[t.row].status \in {"running", "failed"}
                    /\ ~runs[t.row].stale => runs[t.row].status = "running"
                    /\ runs[t.row].floor = t.floor /\ (runs[t.row].past <=> t.past)

\* Who has inserted a row leaves no other one running.
Indexed(t) == t.inserted => \A i \in Running : t.reclaims /\ t.lock = i

\* No other transaction has its row, its lock or a row inserted.
Apart(r, t) ==
    \A q \in Runner \ {r} : /\ t.lock # 0 => tx[q].lock # t.lock
                            /\ t.row # 0 => tx[q].row # t.row
                            /\ t.inserted => ~tx[q].inserted

Late(t) == t.row # 0 /\ runs[t.row].stale

Completed == {i \in DOMAIN runs : runs[i].status = "completed"}

\* What it has summed up, once it has, covers its own run and, unless it is late, every
\* other one.
Summed(l, t) ==
    l \in {"upsert", "close"} \/ t.verdict = "completed" =>
        /\ t.floor <= t.sum /\ t.sum <= usage
        /\ t.past => t.sum = usage
        /\ l # "upsert" => (t.rolled <=> t.sum > 0)
        /\ ~Late(t) => \A i \in DOMAIN runs :
              runs[i].floor <= t.sum /\ (runs[i].past => t.sum = usage)

\* When a run began.
Began(f, p) == f <= usage /\ (p => monthOver /\ pending = 0)

Good(r, l, t) ==
    /\ Phase(l, t) /\ Holds(t) /\ Indexed(t) /\ Apart(r, t) /\ Summed(l, t)
    /\ Began(t.floor, t.past)

OneRunning == \A i, j \in Running : i = j

Covered ==
    /\ rollup <= usage
    /\ \A i \in DOMAIN runs : Began(runs[i].floor, runs[i].past)
    /\ NoLateRun => \A i \in Completed : rollup >= runs[i].floor
    /\ LateRunsAreNew => \A i \in Completed : runs[i].past => rollup = usage

IInv ==
    /\ TypeOK /\ OneRunning /\ Covered
    /\ \A r \in Runner : Good(r, pc[r], tx[r])
-----------------------------------------------------------------------------
(* The lemmas.                                                             *)

LEMMA SharedTypes ==
    ASSUME TypeOK
    PROVE  /\ Len(runs) \in Nat /\ DOMAIN runs = 1 .. Len(runs)
           /\ usage \in Nat /\ pending \in Nat /\ rollup \in Nat /\ faults \in Nat
           /\ \A i \in 1 .. Len(runs) :
                 /\ runs[i] \in Run /\ runs[i].status \in {"running", "completed", "failed"}
                 /\ runs[i].stale \in BOOLEAN /\ runs[i].past \in BOOLEAN
                 /\ runs[i].floor \in Nat
<1>1. /\ Len(runs) \in Nat /\ DOMAIN runs = 1 .. Len(runs)
      /\ \A i \in 1 .. Len(runs) : runs[i] \in Run
  BY DEF TypeOK
<1> QED
  BY <1>1, BoundAssumption DEF TypeOK, Run

LEMMA TxTypes ==
    ASSUME NEW t \in Tx
    PROVE  /\ t.seen \in Nat /\ t.lock \in Nat /\ t.row \in Nat /\ t.attempt_number \in Nat
           /\ t.floor \in Nat /\ t.sum \in Nat
           /\ t.reclaims \in BOOLEAN /\ t.inserted \in BOOLEAN /\ t.past \in BOOLEAN
           /\ t.rolled \in BOOLEAN /\ t.verdict \in {"none", "completed", "failed"}
BY DEF Tx

LEMMA NoTxType == /\ NoTx \in Tx /\ NoTx.seen = 0 /\ NoTx.lock = 0 /\ NoTx.row = 0
                  /\ NoTx.attempt_number = 0 /\ NoTx.floor = 0 /\ NoTx.sum = 0
                  /\ ~NoTx.reclaims /\ ~NoTx.inserted /\ ~NoTx.past /\ ~NoTx.rolled
                  /\ NoTx.verdict = "none"
BY DEF NoTx, Tx

\* A transaction that has done nothing is good.
LEMMA NoTxGood ==
    ASSUME TypeOK, NEW r \in Runner
    PROVE  Good(r, "idle", NoTx)
BY NoTxType, SharedTypes DEF Good, Phase, Holds, Indexed, Apart, Summed, Began

\* A step of one transaction that writes no committed row keeps the invariant when it
\* leaves the transaction good.
LEMMA LocalStep ==
    ASSUME IInv, NEW r \in Runner, NEW l \in Label, NEW t \in Tx, Goto(r, l, t),
           UNCHANGED <<runs, rollup, world>>, faults' \in 0 .. MaxFaults,
           l = "idle" => t = NoTx, t.lock <= Len(runs), Good(r, l, t)
    PROVE  IInv'
<1>1. UNCHANGED <<runs, rollup, usage, pending, monthOver, caller>>
  BY DEF world
<1>2. /\ pc' \in [Runner -> Label] /\ tx' \in [Runner -> Tx]
      /\ \A q \in Runner : /\ pc'[q] = IF q = r THEN l ELSE pc[q]
                           /\ tx'[q] = IF q = r THEN t ELSE tx[q]
  BY DEF IInv, TypeOK, Goto, Label
<1>3. t.row <= Len(runs)
  BY SharedTypes, TxTypes DEF IInv, Good, Holds
<1>4. TypeOK'
  BY <1>1, <1>2, <1>3 DEF IInv, TypeOK, Label
<1>5. OneRunning' /\ Covered'
  BY <1>1 DEF IInv, OneRunning, Covered, Running, Completed, NoLateRun, LateRunsAreNew, Began
<1>6. \A q \in Runner : Good(q, pc'[q], tx'[q])
  <2>1. Good(r, pc'[r], tx'[r])
    BY <1>2
  <2>2. \A q \in Runner \ {r} : Good(q, pc'[q], tx'[q])
    BY <1>2 DEF IInv
  <2> QED
    BY <2>1, <2>2
<1>7. ASSUME NEW q \in Runner PROVE Good(q, pc[q], tx[q])'
  <2>1. Phase(pc[q], tx[q])' /\ Holds(tx[q])' /\ Indexed(tx[q])' /\ Summed(pc[q], tx[q])'
        /\ Began(tx[q].floor, tx[q].past)'
    BY <1>1, <1>6 DEF Good, Phase, Holds, Indexed, Summed, Began, Running, Late
  <2>2. Apart(q, tx[q])'
    <3>1. CASE q = r
      BY <1>2, <3>1 DEF Good, Apart
    <3>2. CASE q # r
      <4>1. /\ tx'[r] = t /\ tx'[q] = tx[q] /\ \A s \in Runner \ {q, r} : tx'[s] = tx[s]
        BY <1>2, <3>2
      <4>2. Apart(q, tx[q]) /\ Apart(r, t)
        BY <3>2 DEF IInv, Good
      <4> QED
        BY <3>2, <4>1, <4>2 DEF Apart
    <3> QED
      BY <3>1, <3>2
  <2> QED
    BY <2>1, <2>2 DEF Good
<1> QED
  BY <1>4, <1>5, <1>7 DEF IInv
-----------------------------------------------------------------------------
(* The steps of a transaction before it commits.                           *)

\* What the invariant says of one runner.
LEMMA RunnerGood ==
    ASSUME IInv, NEW r \in Runner
    PROVE  /\ TypeOK /\ tx[r] \in Tx /\ pc[r] \in Label /\ Good(r, pc[r], tx[r])
           /\ tx[r].lock <= Len(runs) /\ faults \in 0 .. MaxFaults
           /\ caller[r] \in {"commits", "closes", "stepwise"}
BY DEF IInv, TypeOK, Label

LEMMA BeginGood ==
    ASSUME IInv, NEW r \in Runner, Begin(r)
    PROVE  IInv'
<1> DEFINE t == [NoTx EXCEPT !.floor = usage, !.past = (monthOver /\ pending = 0)]
<1>1. Goto(r, "check", t) /\ UNCHANGED <<runs, rollup, world, faults>>
  BY DEF Begin
<1>2. t \in Tx /\ t.lock = 0 /\ t.row = 0 /\ ~t.reclaims /\ ~t.inserted /\ ~t.rolled
      /\ t.verdict = "none" /\ t.floor = usage
  BY RunnerGood, SharedTypes DEF NoTx, Tx
<1>3. t.past => monthOver /\ pending = 0
  BY DEF NoTx
<1> HIDE DEF t
<1>4. Good(r, "check", t)
  BY <1>2, <1>3, RunnerGood, SharedTypes DEF Good, Phase, Holds, Indexed, Apart, Summed, Began
<1> QED
  BY <1>1, <1>2, <1>4, LocalStep, RunnerGood, SharedTypes DEF Label

LEMMA CheckGood ==
    ASSUME IInv, NEW r \in Runner, Check(r)
    PROVE  IInv'
<1>1. pc[r] = "check" /\ UNCHANGED <<runs, rollup, world, faults>>
  BY DEF Check
<1>2. CASE Goto(r, "count", tx[r])
  <2>1. Good(r, "count", tx[r])
    BY <1>1, RunnerGood DEF Good, Phase, Summed
  <2> QED
    BY <1>1, <1>2, <2>1, LocalStep, RunnerGood DEF Label
<1>3. ASSUME NEW i \in Running, Goto(r, "lock", [tx[r] EXCEPT !.seen = i])
      PROVE  IInv'
  <2> DEFINE t == [tx[r] EXCEPT !.seen = i]
  <2>1. i \in DOMAIN runs /\ i \in Nat
    BY RunnerGood, SharedTypes DEF Running
  <2>2. t \in Tx /\ t.seen = i /\ t.lock = tx[r].lock
    BY <2>1, RunnerGood DEF Tx
  <2>3. Good(r, "lock", t)
    BY <1>1, <2>1, <2>2, RunnerGood
    DEF Tx, Good, Phase, Holds, Indexed, Apart, Summed, Began, Late
  <2> QED
    BY <1>1, <1>3, <2>2, <2>3, LocalStep, RunnerGood DEF Label
<1> QED
  BY <1>2, <1>3 DEF Check

\* A row that is taken over is locked, stale and running; it is nobody else's by then.
LEMMA LockGood ==
    ASSUME IInv, NEW r \in Runner, Lock(r)
    PROVE  IInv'
<1> DEFINE i == tx[r].seen
           t == [tx[r] EXCEPT !.seen = 0]
           t1 == [t EXCEPT !.lock = i, !.reclaims = TRUE]
           t2 == [t EXCEPT !.lock = i]
<1>1. /\ pc[r] = "lock" /\ ~Locked(r, i) /\ UNCHANGED <<runs, rollup, world, faults>>
      /\ \/ Goto(r, "count", t)
         \/ runs[i].status = "running" /\ runs[i].stale /\ Goto(r, "count", t1)
         \/ Goto(r, "end", t2)
  BY DEF Lock
<1>2. /\ i \in DOMAIN runs /\ i \in Nat \ {0} /\ i <= Len(runs)
      /\ tx[r].lock = 0 /\ ~tx[r].reclaims /\ ~tx[r].inserted /\ tx[r].row = 0
      /\ tx[r].verdict = "none" /\ ~tx[r].rolled /\ Began(tx[r].floor, tx[r].past)
  BY <1>1, RunnerGood, SharedTypes DEF Good, Phase
<1>3. \A q \in Runner \ {r} : tx[q].lock # i
  BY <1>1, <1>2 DEF Locked
<1>4. CASE Goto(r, "count", t)
  <2>1. /\ t \in Tx /\ t.lock = 0 /\ ~t.reclaims /\ ~t.inserted /\ t.row = 0
        /\ t.verdict = "none" /\ ~t.rolled /\ t.floor = tx[r].floor /\ t.past = tx[r].past
    BY <1>2, RunnerGood DEF Tx
  <2> HIDE DEF t
  <2>2. Good(r, "count", t)
    BY <1>2, <2>1, RunnerGood DEF Good, Phase, Holds, Indexed, Apart, Summed
  <2> QED
    BY <1>1, <1>4, <2>1, <2>2, LocalStep, RunnerGood, SharedTypes DEF Label
<1>5. CASE runs[i].status = "running" /\ runs[i].stale /\ Goto(r, "count", t1)
  <2>1. t1 \in Tx /\ t1.lock = i
    BY <1>2, RunnerGood DEF Tx
  <2>2. Good(r, "count", t1)
    BY <1>2, <1>3, <1>5, RunnerGood DEF Tx, Good, Phase, Holds, Indexed, Apart, Summed
  <2> QED
    BY <1>1, <1>2, <1>5, <2>1, <2>2, LocalStep, RunnerGood DEF Label
<1>6. CASE Goto(r, "end", t2)
  <2>1. t2 \in Tx /\ t2.lock = i
    BY <1>2, RunnerGood DEF Tx
  <2>2. Good(r, "end", t2)
    BY <1>2, <1>3, RunnerGood DEF Tx, Good, Phase, Holds, Indexed, Apart, Summed
  <2> QED
    BY <1>1, <1>2, <1>6, <2>1, <2>2, LocalStep, RunnerGood DEF Label
<1> QED
  BY <1>1, <1>4, <1>5, <1>6

LEMMA CountGood ==
    ASSUME IInv, NEW r \in Runner, Count(r)
    PROVE  IInv'
<1> DEFINE t == [tx[r] EXCEPT !.attempt_number = Len(runs) + 1]
<1>1. pc[r] = "count" /\ UNCHANGED <<runs, rollup, world, faults>> /\ Goto(r, "insert", t)
  BY DEF Count
<1>2. Len(runs) + 1 \in Nat \ {0}
  BY RunnerGood, SharedTypes
<1>3. /\ t \in Tx /\ t.attempt_number # 0 /\ t.lock = tx[r].lock /\ t.row = tx[r].row
      /\ t.reclaims = tx[r].reclaims /\ t.inserted = tx[r].inserted /\ t.rolled = tx[r].rolled
      /\ t.verdict = tx[r].verdict /\ t.floor = tx[r].floor /\ t.past = tx[r].past
  BY <1>2, RunnerGood DEF Tx
<1> HIDE DEF t
<1>4. Good(r, "insert", t)
  BY <1>1, <1>3, RunnerGood DEF Good, Phase, Holds, Indexed, Apart, Summed, Began
<1> QED
  BY <1>1, <1>3, <1>4, LocalStep, RunnerGood DEF Label

\* The partial unique index lets one transaction insert, when no row is left running.
LEMMA InsertGood ==
    ASSUME IInv, NEW r \in Runner, Insert(r)
    PROVE  IInv'
<1> DEFINE others == Running \ (IF tx[r].reclaims THEN {tx[r].lock} ELSE {})
           t == [tx[r] EXCEPT !.inserted = TRUE]
<1>1. /\ pc[r] = "insert" /\ UNCHANGED <<runs, rollup, world, faults>>
      /\ \A q \in Runner \ {r} : ~tx[q].inserted
      /\ (others = {} /\ Goto(r, AfterInsert(r), t)) \/ Goto(r, "end", tx[r])
  BY DEF Insert
<1>2. CASE others = {} /\ Goto(r, AfterInsert(r), t)
  <2>1. /\ t \in Tx /\ t.inserted /\ t.lock = tx[r].lock /\ t.row = tx[r].row
        /\ t.reclaims = tx[r].reclaims /\ t.attempt_number = tx[r].attempt_number
        /\ t.rolled = tx[r].rolled /\ t.verdict = tx[r].verdict
        /\ t.floor = tx[r].floor /\ t.past = tx[r].past
    BY RunnerGood DEF Tx
  <2>2. AfterInsert(r) \in {"publish", "sum"}
    BY DEF AfterInsert
  <2>3. others = {}
    BY <1>2
  <2> HIDE DEF t
  <2>4. Indexed(t)
    BY <2>1, <2>3 DEF Indexed
  <2>5. Phase(AfterInsert(r), t) /\ Holds(t) /\ Began(t.floor, t.past)
    BY <1>1, <2>1, <2>2, RunnerGood DEF Good, Phase, Holds, Began
  <2>6. Apart(r, t) /\ Summed(AfterInsert(r), t)
    BY <1>1, <2>1, <2>2, RunnerGood DEF Good, Phase, Apart, Summed
  <2> QED
    BY <1>1, <1>2, <2>1, <2>2, <2>4, <2>5, <2>6, LocalStep, RunnerGood DEF Good, Label
<1>3. CASE Goto(r, "end", tx[r])
  <2>1. Good(r, "end", tx[r])
    BY <1>1, RunnerGood DEF Good, Phase, Summed
  <2> QED
    BY <1>1, <1>3, <2>1, LocalStep, RunnerGood DEF Label
<1> QED
  BY <1>1, <1>2, <1>3

\* The sum is as new as every run.
LEMMA SumGood ==
    ASSUME IInv, NEW r \in Runner, Sum(r)
    PROVE  IInv'
<1> DEFINE t == [tx[r] EXCEPT !.sum = usage]
<1>1. pc[r] = "sum" /\ UNCHANGED <<runs, rollup, world, faults>> /\ Goto(r, "upsert", t)
  BY DEF Sum
<1>2. usage \in Nat /\ Good(r, "sum", tx[r])
  BY <1>1, RunnerGood, SharedTypes
<1>3. /\ t \in Tx /\ t.sum = usage /\ t.lock = tx[r].lock /\ t.row = tx[r].row
      /\ t.reclaims = tx[r].reclaims /\ t.inserted = tx[r].inserted /\ t.rolled = tx[r].rolled
      /\ t.verdict = tx[r].verdict /\ t.attempt_number = tx[r].attempt_number
      /\ t.floor = tx[r].floor /\ t.past = tx[r].past
  BY <1>2, RunnerGood DEF Tx
<1> HIDE DEF t
<1>4. Phase("upsert", t) /\ Holds(t) /\ Indexed(t) /\ Apart(r, t) /\ Began(t.floor, t.past)
  BY <1>2, <1>3 DEF Good, Phase, Holds, Indexed, Apart, Began
<1>5. Summed("upsert", t)
  <2>1. \A i \in DOMAIN runs : runs[i].floor <= usage
    BY DEF IInv, Covered, Began
  <2> QED
    BY <1>2, <1>3, <2>1 DEF Good, Summed, Began
<1> QED
  BY <1>1, <1>3, <1>4, <1>5, LocalStep, RunnerGood DEF Good, Label

LEMMA UpsertGood ==
    ASSUME IInv, NEW r \in Runner, Upsert(r)
    PROVE  IInv'
<1> DEFINE b == tx[r].sum > 0
           t == [tx[r] EXCEPT !.rolled = b]
<1>1. b \in BOOLEAN /\ (b <=> tx[r].sum > 0)
  OBVIOUS
<1>2. pc[r] = "upsert" /\ UNCHANGED <<runs, rollup, world, faults>> /\ Goto(r, "close", t)
  BY DEF Upsert
<1> HIDE DEF b
<1>3. Good(r, "upsert", tx[r])
  BY <1>2, RunnerGood
<1>4. /\ t \in Tx /\ t.rolled = b /\ t.sum = tx[r].sum /\ t.lock = tx[r].lock
      /\ t.row = tx[r].row /\ t.reclaims = tx[r].reclaims /\ t.inserted = tx[r].inserted
      /\ t.verdict = tx[r].verdict /\ t.attempt_number = tx[r].attempt_number
      /\ t.floor = tx[r].floor /\ t.past = tx[r].past
  BY <1>1, RunnerGood DEF Tx
<1> HIDE DEF t
<1>5. Phase("close", t) /\ Holds(t) /\ Indexed(t) /\ Apart(r, t) /\ Began(t.floor, t.past)
  BY <1>3, <1>4 DEF Good, Phase, Holds, Indexed, Apart, Began
<1>6. Summed("close", t)
  BY <1>1, <1>3, <1>4 DEF Good, Summed, Late
<1> QED
  BY <1>2, <1>4, <1>5, <1>6, LocalStep, RunnerGood DEF Good, Label

\* complete_job and fail_job write the run's row when nobody else has it.
LEMMA CloseGood ==
    ASSUME IInv, NEW r \in Runner, Complete(r) \/ Fail(r)
    PROVE  IInv'
<1> DEFINE v == IF pc[r] = "close" THEN "completed" ELSE "failed"
           l == IF tx[r].lock # 0 THEN tx[r].lock ELSE tx[r].row
           t == [tx[r] EXCEPT !.verdict = v, !.lock = l]
<1>1. /\ pc[r] \in {"close", "fail"} /\ ~Locked(r, tx[r].row)
      /\ UNCHANGED <<runs, rollup, world, faults>> /\ Goto(r, "end", t)
  BY DEF Complete, Fail
<1>2. Good(r, pc[r], tx[r]) /\ tx[r].row <= Len(runs)
  BY RunnerGood DEF IInv, TypeOK
<1>3. /\ t \in Tx /\ t.verdict = v /\ t.lock = l /\ t.sum = tx[r].sum /\ t.row = tx[r].row
      /\ t.reclaims = tx[r].reclaims /\ t.inserted = tx[r].inserted /\ t.rolled = tx[r].rolled
      /\ t.attempt_number = tx[r].attempt_number
      /\ t.floor = tx[r].floor /\ t.past = tx[r].past
  BY RunnerGood, TxTypes DEF Tx
<1>4. \/ tx[r].inserted /\ tx[r].row = 0 /\ l = tx[r].lock
      \/ ~tx[r].inserted /\ tx[r].row # 0 /\ tx[r].lock = 0 /\ l = tx[r].row /\ ~tx[r].reclaims
  BY <1>1, <1>2 DEF Good, Phase
<1> HIDE DEF t, l
<1>5. Phase("end", t)
  BY <1>1, <1>2, <1>3, <1>4 DEF Good, Phase
<1>6. Holds(t) /\ Indexed(t) /\ Began(t.floor, t.past)
  BY <1>2, <1>3, <1>4 DEF Good, Holds, Indexed, Began
<1>7. Apart(r, t)
  BY <1>1, <1>2, <1>3, <1>4 DEF Good, Apart, Locked
<1>8. Summed("end", t)
  BY <1>1, <1>2, <1>3 DEF Good, Summed, Late
<1> QED
  BY <1>1, <1>2, <1>3, <1>4, <1>5, <1>6, <1>7, <1>8, LocalStep, RunnerGood DEF Good, Label

LEMMA RaiseGood ==
    ASSUME IInv, NEW r \in Runner, Raise(r)
    PROVE  IInv'
<1> DEFINE t == [tx[r] EXCEPT !.rolled = FALSE]
<1>1. /\ pc[r] \in {"sum", "upsert"} /\ UNCHANGED <<runs, rollup, world>> /\ Goto(r, "fail", t)
      /\ faults' = faults + 1 /\ faults < MaxFaults
  BY DEF Raise
<1>2. Good(r, pc[r], tx[r]) /\ faults' \in 0 .. MaxFaults
  BY <1>1, RunnerGood, BoundAssumption
<1>3. /\ t \in Tx /\ ~t.rolled /\ t.lock = tx[r].lock /\ t.row = tx[r].row
      /\ t.reclaims = tx[r].reclaims /\ t.inserted = tx[r].inserted
      /\ t.verdict = tx[r].verdict /\ t.attempt_number = tx[r].attempt_number
      /\ t.floor = tx[r].floor /\ t.past = tx[r].past
  BY RunnerGood DEF Tx
<1> HIDE DEF t
<1>4. Good(r, "fail", t)
  BY <1>1, <1>2, <1>3 DEF Good, Phase, Holds, Indexed, Apart, Summed, Began
<1> QED
  BY <1>1, <1>2, <1>3, <1>4, LocalStep, RunnerGood DEF Label

\* A transaction that is rolled back leaves nothing.
LEMMA RolledBackGood ==
    ASSUME IInv, NEW r \in Runner, Goto(r, "idle", NoTx), UNCHANGED <<runs, rollup, world>>,
           faults' \in 0 .. MaxFaults
    PROVE  IInv'
BY RunnerGood, NoTxGood, NoTxType, SharedTypes, LocalStep DEF Label

LEMMA LossGood ==
    ASSUME IInv, NEW r \in Runner, BreakDeadlock(r) \/ Crash(r)
    PROVE  IInv'
<1>1. UNCHANGED <<runs, rollup, world>> /\ faults' \in 0 .. MaxFaults
  BY RunnerGood, BoundAssumption DEF BreakDeadlock, Crash
<1>2. CASE pc[r] = "upsert" /\ Goto(r, "fail", tx[r])
  <2>1. Good(r, "fail", tx[r])
    BY <1>2, RunnerGood DEF Good, Phase, Summed
  <2> QED
    BY <1>1, <1>2, <2>1, LocalStep, RunnerGood DEF Label
<1>3. CASE Goto(r, "idle", NoTx)
  BY <1>1, <1>3, RolledBackGood
<1> QED
  BY <1>2, <1>3 DEF BreakDeadlock, Crash
-----------------------------------------------------------------------------
(* The commits.                                                            *)

\* What a commit of r's transaction does to the rows of job_runs.
Commits(r) ==
    LET t == tx[r]  n == Len(runs) IN
    /\ runs' \in Seq(Run) /\ Len(runs') \in {n, n + 1}
    /\ \A i \in 1 .. n :
          /\ runs'[i].floor = runs[i].floor
          /\ (runs'[i].past <=> runs[i].past) /\ (runs'[i].stale <=> runs[i].stale)
          /\ runs'[i].status = IF t.reclaims /\ i = t.lock THEN "failed"
                               ELSE IF t.verdict # "none" /\ i = t.row THEN t.verdict
                               ELSE runs[i].status
    /\ \A i \in 1 .. Len(runs') : i > n =>
          /\ i = n + 1 /\ t.inserted
          /\ runs'[i].floor = t.floor
          /\ (runs'[i].past <=> t.past) /\ ~runs'[i].stale
          /\ runs'[i].status = IF t.verdict = "none" THEN "running" ELSE t.verdict

\* Setting the status of a row changes nothing else.
LEMMA StatusSet ==
    ASSUME TypeOK, NEW k \in 1 .. Len(runs), NEW v \in {"running", "completed", "failed"}
    PROVE  LET s == [runs EXCEPT ![k].status = v] IN
           /\ s \in Seq(Run) /\ Len(s) = Len(runs)
           /\ \A i \in 1 .. Len(runs) :
                 /\ s[i].floor = runs[i].floor /\ s[i].past = runs[i].past
                 /\ s[i].stale = runs[i].stale
                 /\ s[i].status = IF i = k THEN v ELSE runs[i].status
<1> DEFINE s == [runs EXCEPT ![k].status = v]
           row == [runs[k] EXCEPT !.status = v]
<1>1. runs \in Seq(Run) /\ runs[k] \in Run /\ Len(runs) \in Nat
  BY DEF TypeOK
<1>2. /\ row \in Run /\ row.status = v /\ row.floor = runs[k].floor
      /\ row.past = runs[k].past /\ row.stale = runs[k].stale
  BY <1>1 DEF Run
<1>3. s = [runs EXCEPT ![k] = row]
  OBVIOUS
<1> HIDE DEF s, row
<1>4. s \in Seq(Run) /\ Len(s) = Len(runs) /\ \A i \in 1 .. Len(runs) :
          s[i] = IF i = k THEN row ELSE runs[i]
  BY <1>1, <1>2, <1>3
<1> QED
  BY <1>2, <1>4 DEF s

LEMMA ReclaimedRows ==
    ASSUME IInv, NEW r \in Runner
    PROVE  LET s == Reclaimed(r) IN
           /\ s \in Seq(Run) /\ Len(s) = Len(runs)
           /\ \A i \in 1 .. Len(runs) :
                 /\ s[i].floor = runs[i].floor /\ s[i].past = runs[i].past
                 /\ s[i].stale = runs[i].stale
                 /\ s[i].status = IF tx[r].reclaims /\ i = tx[r].lock THEN "failed"
                                  ELSE runs[i].status
<1>1. CASE tx[r].reclaims
  <2>1. tx[r].lock \in 1 .. Len(runs)
    BY <1>1, RunnerGood, SharedTypes DEF Good, Holds
  <2>2. Reclaimed(r) = [runs EXCEPT ![tx[r].lock].status = "failed"]
    BY <1>1, <2>1 DEF Reclaimed, Failed
  <2> DEFINE k == tx[r].lock
             s == [runs EXCEPT ![k].status = "failed"]
  <2>3. /\ s \in Seq(Run) /\ Len(s) = Len(runs)
        /\ \A i \in 1 .. Len(runs) :
              /\ s[i].floor = runs[i].floor /\ s[i].past = runs[i].past
              /\ s[i].stale = runs[i].stale
              /\ s[i].status = IF i = k THEN "failed" ELSE runs[i].status
    <3>1. k \in 1 .. Len(runs) /\ TypeOK
      BY <2>1, RunnerGood
    <3> HIDE DEF k
    <3> QED
      BY <3>1, StatusSet
  <2> HIDE DEF s
  <2>4. Reclaimed(r) = s
    BY <2>2 DEF s
  <2> QED
    BY <1>1, <2>3, <2>4
<1>2. CASE ~tx[r].reclaims
  <2>1. Reclaimed(r) = runs
    BY <1>2 DEF Reclaimed, Failed
  <2> QED
    BY <1>2, <2>1, RunnerGood DEF TypeOK
<1> QED
  BY <1>1, <1>2

LEMMA NewRunType ==
    ASSUME IInv, NEW r \in Runner, tx[r].inserted,
           NEW v \in {"running", "completed", "failed"}
    PROVE  /\ NewRun(r, v) \in Run /\ NewRun(r, v).status = v
           /\ NewRun(r, v).floor = tx[r].floor /\ NewRun(r, v).past = tx[r].past
           /\ ~NewRun(r, v).stale
<1>1. tx[r].attempt_number \in Nat \ {0} /\ tx[r].floor \in Nat /\ tx[r].past \in BOOLEAN
  BY RunnerGood, TxTypes DEF Good, Phase
<1> QED
  BY <1>1 DEF NewRun, Run

LEMMA PublishCommits ==
    ASSUME IInv, NEW r \in Runner, Publish(r)
    PROVE  Commits(r) /\ tx[r].verdict = "none" /\ tx[r].inserted
<1>1. /\ pc[r] = "publish" /\ runs' = Append(Reclaimed(r), NewRun(r, "running"))
  BY DEF Publish
<1>2. tx[r].inserted /\ tx[r].verdict = "none"
  BY <1>1, RunnerGood DEF Good, Phase
<1>3. Len(runs) \in Nat
  BY RunnerGood, SharedTypes
<1> DEFINE s == Reclaimed(r)
           row == NewRun(r, "running")
<1>4. s \in Seq(Run) /\ Len(s) = Len(runs) /\ row \in Run
  BY <1>2, ReclaimedRows, NewRunType
<1>5. /\ runs' \in Seq(Run) /\ Len(runs') = Len(runs) + 1
      /\ \A i \in 1 .. Len(runs) : runs'[i] = s[i]
      /\ runs'[Len(runs) + 1] = row
  <2> HIDE DEF s, row
  <2>1. runs' = Append(s, row)
    BY <1>1 DEF s, row
  <2> QED
    BY <1>3, <1>4, <2>1
<1>6. /\ row.status = "running" /\ row.floor = tx[r].floor /\ row.past = tx[r].past /\ ~row.stale
  BY <1>2, NewRunType
<1> QED
  BY <1>2, <1>3, <1>5, <1>6, ReclaimedRows DEF Commits

LEMMA EndCommits ==
    ASSUME IInv, NEW r \in Runner, End(r), caller[r] # "closes"
    PROVE  Commits(r)
<1>1. pc[r] = "end"
  BY DEF End
<1>2. Phase("end", tx[r]) /\ Holds(tx[r]) /\ Len(runs) \in Nat
  BY <1>1, RunnerGood, SharedTypes DEF Good
<1> DEFINE s == Reclaimed(r)
           v == tx[r].verdict
           row == NewRun(r, v)
<1>3. CASE v = "none"
  <2>1. runs' = s /\ tx[r].row = 0
    BY <1>2, <1>3 DEF End, Phase
  <2> QED
    BY <1>2, <1>3, <2>1, ReclaimedRows DEF Commits
<1>4. CASE v # "none" /\ tx[r].inserted
  <2>1. runs' = Append(s, row) /\ tx[r].row = 0 /\ v \in {"completed", "failed"}
    BY <1>2, <1>4, RunnerGood, TxTypes DEF End, Phase
  <2>2. s \in Seq(Run) /\ Len(s) = Len(runs) /\ row \in Run
    BY <1>4, <2>1, ReclaimedRows, NewRunType
  <2>3. /\ runs' \in Seq(Run) /\ Len(runs') = Len(runs) + 1
        /\ \A i \in 1 .. Len(runs) : runs'[i] = s[i]
        /\ runs'[Len(runs) + 1] = row
    <3> HIDE DEF s, row
    <3> QED
      BY <1>2, <2>1, <2>2
  <2>4. row.status = v /\ row.floor = tx[r].floor /\ row.past = tx[r].past /\ ~row.stale
    BY <1>4, <2>1, NewRunType
  <2> QED
    BY <1>2, <1>4, <2>1, <2>3, <2>4, ReclaimedRows DEF Commits
<1>5. CASE v # "none" /\ ~tx[r].inserted
  <2>1. /\ runs' = [runs EXCEPT ![tx[r].row].status = v] /\ v \in {"completed", "failed"}
        /\ tx[r].row \in 1 .. Len(runs) /\ ~tx[r].reclaims
    BY <1>2, <1>5, RunnerGood, TxTypes, SharedTypes DEF End, Phase, Holds
  <2> DEFINE k == tx[r].row
             z == [runs EXCEPT ![k].status = v]
  <2>2. /\ z \in Seq(Run) /\ Len(z) = Len(runs)
        /\ \A i \in 1 .. Len(runs) :
              /\ z[i].floor = runs[i].floor /\ z[i].past = runs[i].past
              /\ z[i].stale = runs[i].stale
              /\ z[i].status = IF i = k THEN v ELSE runs[i].status
    <3>1. k \in 1 .. Len(runs) /\ v \in {"running", "completed", "failed"} /\ TypeOK
      BY <2>1, RunnerGood
    <3> HIDE DEF k, v
    <3> QED
      BY <3>1, StatusSet
  <2>3. runs' = z
    BY <2>1
  <2>4. \A i \in 1 .. Len(runs') : ~(i > Len(runs))
    BY <1>2, <2>2, <2>3
  <2>5. \A i \in 1 .. Len(runs) :
            /\ runs'[i].floor = runs[i].floor
            /\ (runs'[i].past <=> runs[i].past) /\ (runs'[i].stale <=> runs[i].stale)
            /\ runs'[i].status = IF v # "none" /\ i = k THEN v ELSE runs[i].status
    BY <1>5, <2>2, <2>3
  <2> HIDE DEF z, s, row
  <2> QED
    BY <1>2, <2>1, <2>2, <2>3, <2>4, <2>5 DEF Commits
<1> QED
  BY <1>3, <1>4, <1>5

LEMMA CommitsAt ==
    ASSUME IInv, NEW r \in Runner, Commits(r)
    PROVE  /\ \A i \in DOMAIN runs :
                 /\ i \in DOMAIN runs' /\ i # 0
                 /\ runs'[i].floor = runs[i].floor
                 /\ (runs'[i].past <=> runs[i].past) /\ (runs'[i].stale <=> runs[i].stale)
                 /\ runs'[i].status = IF tx[r].reclaims /\ i = tx[r].lock THEN "failed"
                                      ELSE IF tx[r].verdict # "none" /\ i = tx[r].row
                                           THEN tx[r].verdict
                                      ELSE runs[i].status
           /\ \A i \in DOMAIN runs' : i \notin DOMAIN runs =>
                 /\ i = Len(runs) + 1 /\ tx[r].inserted
                 /\ runs'[i].floor = tx[r].floor
                 /\ (runs'[i].past <=> tx[r].past) /\ ~runs'[i].stale
                 /\ runs'[i].status = IF tx[r].verdict = "none" THEN "running"
                                      ELSE tx[r].verdict
<1>1. Len(runs) \in Nat /\ DOMAIN runs = 1 .. Len(runs)
  BY RunnerGood, SharedTypes
<1>2. DOMAIN runs' = 1 .. Len(runs') /\ Len(runs') \in {Len(runs), Len(runs) + 1}
  BY DEF Commits
<1> DEFINE n == Len(runs)  m == Len(runs')  D == DOMAIN runs  E == DOMAIN runs'
<1>3. n \in Nat /\ m \in {n, n + 1} /\ D = 1 .. n /\ E = 1 .. m
  BY <1>1, <1>2
<1>4. /\ \A i \in D : i \in E /\ i # 0 /\ i \in 1 .. n
      /\ \A i \in E : i \notin D => i \in 1 .. m /\ i > n
  <2> HIDE DEF n, m, D, E
  <2> QED
    BY <1>3
<1> QED
  BY <1>4 DEF Commits

\* The running rows of two workers are the same, so one of the workers is overdue.
LEMMA OneAtATime == IInv => SingleWorker
<1> SUFFICES ASSUME IInv, NEW q \in Runner, NEW r \in Runner, q # r, Working(q), Working(r),
                    ~Overdue(q), ~Overdue(r)
             PROVE  FALSE
  BY DEF SingleWorker
<1>1. /\ Phase(pc[q], tx[q]) /\ Holds(tx[q]) /\ Indexed(tx[q]) /\ Apart(q, tx[q])
      /\ Phase(pc[r], tx[r]) /\ Holds(tx[r]) /\ Indexed(tx[r]) /\ Apart(r, tx[r])
  BY DEF IInv, Good
<1>2. tx[q].row # 0 => tx[q].row \in Running
  BY <1>1 DEF Holds, Running, Overdue
<1>3. tx[r].row # 0 => tx[r].row \in Running
  BY <1>1 DEF Holds, Running, Overdue
<1>4. CASE tx[q].inserted /\ tx[r].inserted
  BY <1>1, <1>4 DEF Apart
<1>5. CASE tx[q].inserted /\ tx[r].row # 0
  BY <1>1, <1>3, <1>5 DEF Indexed, Holds, Overdue
<1>6. CASE tx[r].inserted /\ tx[q].row # 0
  BY <1>1, <1>2, <1>6 DEF Indexed, Holds, Overdue
<1>7. CASE tx[q].row # 0 /\ tx[r].row # 0
  BY <1>1, <1>2, <1>3, <1>7 DEF IInv, OneRunning, Apart
<1> QED
  BY <1>4, <1>5, <1>6, <1>7 DEF Working

\* A commit ends one completed run, or none.
LEMMA CommitCompletes ==
    ASSUME IInv, NEW r \in Runner, Commits(r)
    PROVE  /\ NoLateRun' => NoLateRun
           /\ LateRunsAreNew' => LateRunsAreNew
           /\ \A i \in Completed :
                 /\ i \in Completed' /\ runs'[i].floor = runs[i].floor
                 /\ (runs'[i].past <=> runs[i].past)
           /\ \A i \in Completed' : i \notin Completed =>
                 /\ tx[r].verdict = "completed" /\ Working(r)
                 /\ runs'[i].floor = tx[r].floor /\ (runs'[i].past <=> tx[r].past)
                 /\ NoLateRun' => ~Late(tx[r])
                 /\ LateRunsAreNew' => ~Late(tx[r]) \/ tx[r].past
<1> DEFINE t == tx[r]
<1>1. Phase(pc[r], t) /\ Holds(t)
  BY RunnerGood DEF Good
<1>2. ASSUME NEW i \in Completed
      PROVE  /\ i \in Completed' /\ runs'[i].floor = runs[i].floor
             /\ (runs'[i].past <=> runs[i].past) /\ (runs'[i].stale <=> runs[i].stale)
  <2>1. i \in DOMAIN runs /\ i \in DOMAIN runs' /\ runs[i].status = "completed"
    BY CommitsAt DEF Completed
  <2>2. ~(t.reclaims /\ i = t.lock) /\ ~(t.row # 0 /\ i = t.row)
    BY <1>1, <2>1 DEF Holds
  <2>3. i # 0
    BY <2>1, CommitsAt
  <2> QED
    BY <2>1, <2>2, <2>3, CommitsAt DEF Completed
<1>3. (NoLateRun' => NoLateRun) /\ (LateRunsAreNew' => LateRunsAreNew)
  BY <1>2 DEF NoLateRun, LateRunsAreNew, Completed
<1>4. ASSUME NEW i \in Completed', i \notin Completed
      PROVE  /\ t.verdict = "completed" /\ Working(r)
             /\ runs'[i].floor = t.floor /\ (runs'[i].past <=> t.past)
             /\ NoLateRun' => ~Late(t)
             /\ LateRunsAreNew' => ~Late(t) \/ t.past
  <2>1. i \in DOMAIN runs' /\ runs'[i].status = "completed"
    BY CommitsAt DEF Completed
  <2>2. CASE i \in DOMAIN runs
    <3>1. runs[i].status # "completed"
      BY <1>4, <2>2, CommitsAt DEF Completed
    <3>2. t.verdict = "completed" /\ i = t.row /\ t.row # 0
      BY <2>1, <2>2, <3>1, CommitsAt
    <3>3. Late(t) => runs'[i].stale
      BY <2>2, <3>2, CommitsAt DEF Late
    <3>4. runs'[i].floor = t.floor /\ (runs'[i].past <=> t.past)
      BY <1>1, <2>2, <3>2, CommitsAt DEF Holds
    <3> QED
      BY <2>1, <3>2, <3>3, <3>4, CommitsAt DEF NoLateRun, LateRunsAreNew, Working
  <2>3. CASE i \notin DOMAIN runs
    <3>1. t.inserted /\ runs'[i].floor = t.floor /\ (runs'[i].past <=> t.past)
          /\ t.verdict = "completed"
      BY <2>1, <2>3, CommitsAt
    <3>2. t.row = 0
      BY <1>1, <3>1 DEF Phase
    <3> QED
      BY <3>1, <3>2 DEF Working, Late
  <2> QED
    BY <2>2, <2>3
<1> QED
  BY <1>2, <1>3, <1>4

\* A commit leaves at most one row running, and none more unless it has inserted it.
LEMMA CommitRunning ==
    ASSUME IInv, NEW r \in Runner, Commits(r)
    PROVE  OneRunning' /\ (~tx[r].inserted => \A i \in Running' : i \in Running)
<1> DEFINE t == tx[r]
<1>1. Phase(pc[r], t) /\ Holds(t) /\ Indexed(t) /\ t.verdict \in {"none", "completed", "failed"}
  BY RunnerGood, TxTypes DEF Good
<1>2. ASSUME NEW i \in Running', i \in DOMAIN runs
      PROVE  i \in Running /\ ~(t.reclaims /\ i = t.lock)
  <2>1. runs'[i].status = "running"
    BY DEF Running
  <2> QED
    BY <1>1, <1>2, <2>1, CommitsAt DEF Running
<1>3. ASSUME NEW i \in Running', i \notin DOMAIN runs
      PROVE  i = Len(runs) + 1 /\ t.inserted
  <2>1. i \in DOMAIN runs'
    BY CommitsAt DEF Running
  <2> QED
    BY <1>3, <2>1, CommitsAt
<1>4. ASSUME NEW i \in Running', NEW j \in Running' PROVE i = j
  <2>1. t.inserted => \A k \in Running' : k \notin DOMAIN runs
    BY <1>1, <1>2 DEF Indexed
  <2> QED
    BY <1>2, <1>3, <2>1 DEF IInv, OneRunning
<1> QED
  BY <1>2, <1>3, <1>4 DEF OneRunning

\* What a commit means for the transactions of the others: a row taken over was stale, and
\* no row is inserted beside a worker unless the worker is late.
LEMMA CommitOthers ==
    ASSUME IInv, NEW r \in Runner, Commits(r), UNCHANGED <<usage, pending, monthOver>>,
           NEW q \in Runner, q # r, pc'[q] = pc[q], tx'[q] = tx[q]
    PROVE  /\ Phase(pc[q], tx[q])' /\ Holds(tx[q])' /\ Indexed(tx[q])'
           /\ Summed(pc[q], tx[q])' /\ Began(tx[q].floor, tx[q].past)'
<1> DEFINE t == tx[q]
<1>1. /\ Phase(pc[q], t) /\ Holds(t) /\ Indexed(t) /\ Apart(q, t) /\ Summed(pc[q], t)
      /\ Began(t.floor, t.past)
      /\ Phase(pc[r], tx[r]) /\ Holds(tx[r]) /\ Apart(r, tx[r])
  BY RunnerGood DEF Good
<1>2. Phase(pc[q], tx[q])' /\ Began(tx[q].floor, tx[q].past)'
  BY <1>1, CommitsAt DEF Phase, Began
<1>3. ASSUME t.reclaims
      PROVE  t.lock \in DOMAIN runs' /\ runs'[t.lock].status = "running" /\ runs'[t.lock].stale
  <2>1. t.lock \in DOMAIN runs /\ t.lock # 0 /\ runs[t.lock].status = "running" /\ runs[t.lock].stale
    BY <1>1, <1>3, CommitsAt DEF Holds
  <2>2. ~(tx[r].reclaims /\ t.lock = tx[r].lock)
    BY <1>1, <2>1 DEF Apart
  <2>3. ~(tx[r].verdict # "none" /\ t.lock = tx[r].row)
    BY <1>1, <2>1 DEF Apart, Phase
  <2> QED
    BY <2>1, <2>2, <2>3, CommitsAt
<1>4. ASSUME t.row # 0
      PROVE  /\ t.row \in DOMAIN runs'
             /\ runs'[t.row].status \in {"running", "failed"}
             /\ ~runs'[t.row].stale => runs'[t.row].status = "running"
             /\ runs'[t.row].floor = t.floor /\ (runs'[t.row].past <=> t.past)
  <2>1. t.row \in DOMAIN runs /\ tx[r].row # t.row
    BY <1>1, <1>4, CommitsAt DEF Holds, Apart
  <2>2. tx[r].reclaims /\ t.row = tx[r].lock => runs[t.row].stale
    BY <1>1 DEF Holds
  <2> QED
    BY <1>1, <1>4, <2>1, <2>2, CommitsAt DEF Holds
<1>5. Holds(tx[q])'
  BY <1>3, <1>4 DEF Holds
<1>6. Indexed(tx[q])'
  <2> SUFFICES ASSUME t.inserted, NEW i \in Running' PROVE t.reclaims /\ t.lock = i
    BY DEF Indexed
  <2>1. ~tx[r].inserted
    BY <1>1 DEF Apart
  <2> QED
    BY <1>1, <2>1, CommitRunning DEF Indexed
<1>7. Summed(pc[q], tx[q])'
  <2>1. (Late(t) => Late(tx[q])')
    BY <1>1, CommitsAt DEF Late, Holds
  <2>2. ASSUME pc[q] \in {"upsert", "close"} \/ t.verdict = "completed", ~Late(t),
               NEW i \in DOMAIN runs'
        PROVE  runs'[i].floor <= t.sum /\ (runs'[i].past => t.sum = usage)
    <3>1. CASE i \in DOMAIN runs
      BY <1>1, <2>2, <3>1, CommitsAt DEF Summed
    <3>2. CASE i \notin DOMAIN runs
      <4>1. tx[r].inserted /\ tx[r].row = 0
        BY <1>1, <3>2, CommitsAt DEF Phase
      <4>2. Working(r) /\ ~Overdue(r)
        BY <4>1 DEF Working, Overdue
      <4>3. Working(q) /\ ~Overdue(q)
        BY <1>1, <2>2 DEF Phase, Working, Overdue, Late
      <4> QED
        BY <4>2, <4>3, OneAtATime DEF SingleWorker
    <3> QED
      BY <3>1, <3>2
  <2> QED
    BY <1>1, <2>1, <2>2 DEF Summed
<1> QED
  BY <1>2, <1>5, <1>6, <1>7

\* A commit keeps the invariant when its own transaction goes on well, or is over.
LEMMA CommitKeeps ==
    ASSUME IInv, NEW r \in Runner, Commits(r), NEW l \in Label, NEW t \in Tx, Goto(r, l, t),
           UNCHANGED <<world, faults>>, l = "idle" => t = NoTx,
           t.lock = 0, ~t.inserted, t.row # 0 => t.row = Len(runs) + 1,
           Phase(l, t)', Holds(t)', Summed(l, t)', Began(t.floor, t.past)',
           rollup' \in Nat, Covered'
    PROVE  IInv'
<1>1. UNCHANGED <<usage, pending, monthOver, caller, faults>>
  BY DEF world
<1>2. /\ pc' \in [Runner -> Label] /\ tx' \in [Runner -> Tx]
      /\ \A q \in Runner : /\ pc'[q] = IF q = r THEN l ELSE pc[q]
                           /\ tx'[q] = IF q = r THEN t ELSE tx[q]
  BY DEF IInv, TypeOK, Goto, Label
<1>3. /\ runs' \in Seq(Run) /\ Len(runs) \in Nat /\ Len(runs') \in Nat
      /\ Len(runs) <= Len(runs') /\ DOMAIN runs' = 1 .. Len(runs')
  BY RunnerGood, SharedTypes DEF Commits
<1>4. \A q \in Runner : tx'[q].lock <= Len(runs') /\ tx'[q].row <= Len(runs')
  <2>1. \A q \in Runner : /\ tx[q].lock \in Nat /\ tx[q].lock <= Len(runs)
                          /\ tx[q].row \in Nat /\ tx[q].row <= Len(runs)
    BY TxTypes DEF IInv, TypeOK
  <2>2. t.row <= Len(runs')
    BY <1>3, TxTypes DEF Holds
  <2> QED
    BY <1>2, <1>3, <2>1, <2>2
<1>5. rollup' \in 0 .. MaxUsage
  BY <1>1, BoundAssumption DEF IInv, TypeOK, Covered
<1>6. TypeOK'
  BY <1>1, <1>2, <1>3, <1>4, <1>5 DEF IInv, TypeOK, Label
<1>7. OneRunning'
  BY CommitRunning
<1>8. ASSUME NEW q \in Runner, q # r PROVE Good(q, pc[q], tx[q])'
  <2>1. pc'[q] = pc[q] /\ tx'[q] = tx[q] /\ tx'[r] = t
        /\ \A s \in Runner \ {q, r} : tx'[s] = tx[s]
    BY <1>2, <1>8
  <2>2. Apart(q, tx[q]) /\ tx[q].row <= Len(runs) /\ tx[q].row \in Nat
    BY <1>8, RunnerGood, TxTypes DEF IInv, TypeOK, Good
  <2>3. Apart(q, tx[q])'
    BY <1>3, <1>8, <2>1, <2>2 DEF Apart
  <2> QED
    BY <1>1, <1>8, <2>1, <2>3, CommitOthers DEF Good
<1>9. Good(r, pc[r], tx[r])'
  <2>1. pc'[r] = l /\ tx'[r] = t /\ \A q \in Runner \ {r} : tx'[q] = tx[q]
    BY <1>2
  <2>2. \A q \in Runner : tx[q].row <= Len(runs) /\ tx[q].row \in Nat
    BY RunnerGood, TxTypes DEF IInv, TypeOK
  <2>3. Apart(r, tx[r])' /\ Indexed(tx[r])'
    BY <1>3, <2>1, <2>2 DEF Apart, Indexed
  <2>4. Phase(pc[r], tx[r])' /\ Holds(tx[r])'
    BY <2>1 DEF Phase, Holds
  <2>5. Summed(pc[r], tx[r])' /\ Began(tx[r].floor, tx[r].past)'
    BY <2>1 DEF Summed, Began, Late
  <2> QED
    BY <2>3, <2>4, <2>5 DEF Good
<1> QED
  BY <1>6, <1>7, <1>8, <1>9 DEF IInv

\* The rollup covers the completed runs after a commit, when it covered those before it
\* and, if this one is completed, has the new sum.
LEMMA CommitCovers ==
    ASSUME IInv, NEW r \in Runner, Commits(r), UNCHANGED <<usage, pending, monthOver>>,
           pc[r] \in {"publish", "end"},
           rollup' = IF tx[r].rolled THEN tx[r].sum ELSE rollup
    PROVE  rollup' \in Nat /\ Covered'
<1> DEFINE t == tx[r]
<1>1. /\ Phase(pc[r], t) /\ Summed(pc[r], t) /\ Began(t.floor, t.past)
      /\ t.sum \in Nat /\ rollup \in Nat /\ usage \in Nat /\ t.floor \in Nat
  BY RunnerGood, TxTypes, SharedTypes DEF Good
<1>2. t.rolled => t.verdict = "completed"
  BY <1>1 DEF Phase
<1>3. rollup' \in Nat /\ rollup' <= usage
  <2>1. CASE t.rolled
    <3>1. t.sum <= usage
      BY <1>1, <1>2, <2>1 DEF Summed
    <3> QED
      BY <1>1, <2>1, <3>1
  <2>2. CASE ~t.rolled
    BY <1>1, <2>2 DEF IInv, Covered
  <2> QED
    BY <2>1, <2>2
<1>4. \A i \in DOMAIN runs' :
          runs'[i].floor <= usage /\ (runs'[i].past => monthOver /\ pending = 0)
  BY <1>1, CommitsAt DEF IInv, Covered, Began
<1>5. ASSUME NEW i \in Completed', i \in Completed, t.verdict # "completed"
      PROVE  /\ NoLateRun' => rollup' >= runs'[i].floor
             /\ LateRunsAreNew' => (runs'[i].past => rollup' = usage)
  BY <1>2, <1>5, CommitCompletes DEF IInv, Covered
<1>6. ASSUME t.verdict = "completed", ~Late(t), NEW i \in DOMAIN runs'
      PROVE  rollup' >= runs'[i].floor /\ (runs'[i].past => rollup' = usage)
  <2>1. runs'[i].floor <= t.sum /\ (runs'[i].past => t.sum = usage) /\ runs'[i].floor \in Nat
    BY <1>1, <1>6, CommitsAt, RunnerGood, SharedTypes DEF Summed
  <2>2. t.rolled <=> t.sum > 0
    BY <1>1, <1>6 DEF Summed, Phase
  <2>3. CASE t.rolled
    BY <1>1, <2>1, <2>3
  <2>4. CASE ~t.rolled
    BY <1>1, <1>3, <2>1, <2>2, <2>4
  <2> QED
    BY <2>3, <2>4
<1>7. ASSUME t.verdict = "completed", Late(t)
      PROVE  ~NoLateRun' /\ (LateRunsAreNew' => rollup' = usage)
  <2>1. /\ t.row \in DOMAIN runs /\ runs[t.row].stale /\ (runs[t.row].past <=> t.past)
        /\ ~t.reclaims
    BY <1>1, <1>7, RunnerGood DEF Good, Holds, Phase, Late
  <2>2. /\ t.row \in DOMAIN runs' /\ runs'[t.row].stale /\ runs'[t.row].status = "completed"
        /\ (runs'[t.row].past <=> t.past)
    BY <1>7, <2>1, CommitsAt
  <2>3. LateRunsAreNew' => t.past
    BY <2>2 DEF LateRunsAreNew
  <2>4. t.past => rollup' = usage
    <3>1. t.past => t.sum = usage
      BY <1>1, <1>7 DEF Summed
    <3>2. t.rolled <=> t.sum > 0
      BY <1>1, <1>7 DEF Summed, Phase
    <3> QED
      BY <1>1, <1>3, <3>1, <3>2
  <2> QED
    BY <2>2, <2>3, <2>4 DEF NoLateRun
<1>8. ASSUME NEW i \in Completed'
      PROVE  /\ NoLateRun' => rollup' >= runs'[i].floor
             /\ LateRunsAreNew' => (runs'[i].past => rollup' = usage)
  <2>1. i \in DOMAIN runs'
    BY <1>8 DEF Completed
  <2>2. i \notin Completed => t.verdict = "completed"
    BY <1>8, CommitCompletes
  <2> QED
    BY <1>5, <1>6, <1>7, <1>8, <2>1, <2>2
<1>9. (rollup <= usage)' /\ (\A i \in DOMAIN runs : Began(runs[i].floor, runs[i].past))'
  BY <1>3, <1>4 DEF Began
<1> QED
  BY <1>3, <1>8, <1>9 DEF Covered

LEMMA PublishedTx ==
    ASSUME NEW u \in Tx, NEW m \in Nat, NEW t,
           t = [NoTx EXCEPT !.row = m, !.floor = u.floor, !.past = u.past,
                            !.attempt_number = u.attempt_number]
    PROVE  /\ t \in Tx /\ t.row = m /\ t.lock = 0 /\ ~t.inserted /\ ~t.reclaims /\ ~t.rolled
           /\ t.verdict = "none" /\ t.floor = u.floor /\ (t.past <=> u.past)
BY DEF NoTx, Tx

LEMMA PublishGood ==
    ASSUME IInv, NEW r \in Runner, Publish(r)
    PROVE  IInv'
<1> DEFINE n == Len(runs)
<1> PICK t : t = [NoTx EXCEPT !.row = n + 1, !.floor = tx[r].floor, !.past = tx[r].past,
                              !.attempt_number = tx[r].attempt_number]
  OBVIOUS
<1>1. pc[r] = "publish" /\ Goto(r, "sum", t) /\ UNCHANGED <<rollup, world, faults>>
      /\ UNCHANGED <<usage, pending, monthOver>>
  BY DEF Publish, world
<1>2. Commits(r) /\ tx[r].verdict = "none" /\ tx[r].inserted
  BY PublishCommits
<1>3. n \in Nat /\ Len(runs') = n + 1 /\ DOMAIN runs' = 1 .. n + 1
  <2>1. runs' = Append(Reclaimed(r), NewRun(r, "running"))
    BY DEF Publish
  <2>2. Reclaimed(r) \in Seq(Run) /\ Len(Reclaimed(r)) = n /\ NewRun(r, "running") \in Run
    BY <1>2, ReclaimedRows, NewRunType
  <2>3. n \in Nat
    BY RunnerGood, SharedTypes
  <2> QED
    BY <2>1, <2>2, <2>3
<1>4. /\ Phase("publish", tx[r]) /\ Began(tx[r].floor, tx[r].past) /\ tx[r] \in Tx
      /\ tx[r].attempt_number \in Nat /\ tx[r].floor \in Nat /\ tx[r].past \in BOOLEAN
      /\ tx[r].row = 0
  BY <1>1, <1>2, RunnerGood, TxTypes DEF Good, Phase
<1>5. /\ t \in Tx /\ t.row = n + 1 /\ t.lock = 0 /\ ~t.inserted /\ ~t.reclaims /\ ~t.rolled
      /\ t.verdict = "none" /\ t.floor = tx[r].floor /\ (t.past <=> tx[r].past)
  <2> DEFINE m == n + 1
             u == tx[r]
  <2>1. m \in Nat /\ u \in Tx
    BY <1>3, <1>4
  <2>2. t = [NoTx EXCEPT !.row = m, !.floor = u.floor, !.past = u.past,
                         !.attempt_number = u.attempt_number]
    OBVIOUS
  <2> HIDE DEF m, u
  <2>3. /\ t \in Tx /\ t.row = m /\ t.lock = 0 /\ ~t.inserted /\ ~t.reclaims /\ ~t.rolled
        /\ t.verdict = "none" /\ t.floor = u.floor /\ (t.past <=> u.past)
    BY <2>1, <2>2, PublishedTx
  <2> QED
    BY <2>3 DEF m, u
<1>6. rollup' = IF tx[r].rolled THEN tx[r].sum ELSE rollup
  BY <1>1, <1>2, <1>4 DEF Phase
<1>7. rollup' \in Nat /\ Covered'
  BY <1>1, <1>2, <1>6, CommitCovers
<1>8. n + 1 \in DOMAIN runs' /\ n + 1 \notin DOMAIN runs /\ n + 1 # 0
  BY <1>3, RunnerGood, SharedTypes
<1>9. Phase("sum", t)'
  BY <1>5, <1>8 DEF Phase
<1>10. Summed("sum", t)'
  BY <1>5 DEF Summed
<1>11. Began(t.floor, t.past)'
  BY <1>1, <1>4, <1>5 DEF Began
<1>12. Holds(t)'
  <2>1. /\ runs'[n + 1].status = "running" /\ runs'[n + 1].floor = t.floor
        /\ (runs'[n + 1].past <=> t.past)
    BY <1>2, <1>5, <1>8, CommitsAt
  <2> QED
    BY <1>5, <1>8, <2>1 DEF Holds
<1>13. t.row # 0 => t.row = Len(runs) + 1
  BY <1>5
<1> QED
  BY <1>1, <1>2, <1>5, <1>7, <1>9, <1>10, <1>11, <1>12, <1>13, CommitKeeps DEF Label

LEMMA EndGood ==
    ASSUME IInv, NEW r \in Runner, End(r)
    PROVE  IInv'
<1>1. pc[r] = "end" /\ Goto(r, "idle", NoTx) /\ UNCHANGED <<world, faults>>
      /\ UNCHANGED <<usage, pending, monthOver>>
  BY DEF End, world
<1>2. CASE caller[r] = "closes"
  <2>1. UNCHANGED <<runs, rollup>>
    BY <1>2 DEF End
  <2> QED
    BY <1>1, <2>1, RolledBackGood, RunnerGood
<1>3. CASE caller[r] # "closes"
  <2>1. Commits(r)
    BY <1>3, EndCommits
  <2>2. rollup' = IF tx[r].rolled THEN tx[r].sum ELSE rollup
    BY <1>3 DEF End
  <2>3. rollup' \in Nat /\ Covered'
    BY <1>1, <2>1, <2>2, CommitCovers
  <2>4. /\ Phase("idle", NoTx)' /\ Holds(NoTx)' /\ Summed("idle", NoTx)'
        /\ Began(NoTx.floor, NoTx.past)'
    <3>1. usage' \in Nat
      BY <1>1, RunnerGood, SharedTypes
    <3> QED
      BY <3>1, NoTxType DEF Phase, Holds, Summed, Began
  <2> QED
    BY <1>1, <2>1, <2>3, <2>4, NoTxType, CommitKeeps DEF Label
<1> QED
  BY <1>2, <1>3
-----------------------------------------------------------------------------
(* The environment, and the invariant.                                     *)

\* A row that becomes stale does so while it is running: it changes nothing else, no run
\* was completed by it, and its own transaction is late from then on.
LEMMA GrowStaleGood ==
    ASSUME IInv, GrowStale
    PROVE  IInv'
<1>1. PICK i \in Running :
          /\ ~runs[i].stale /\ runs' = [runs EXCEPT ![i].stale = TRUE]
          /\ IF \E r \in Runner : tx[r].row = i
             THEN faults < MaxFaults /\ faults' = faults + 1
             ELSE UNCHANGED faults
  BY DEF GrowStale
<1>2. UNCHANGED <<rollup, usage, pending, monthOver, caller, pc, tx>>
  BY DEF GrowStale, world
<1>3. /\ runs \in Seq(Run) /\ i \in DOMAIN runs /\ DOMAIN runs = 1 .. Len(runs)
      /\ runs[i] \in Run /\ runs[i].status = "running"
  BY SharedTypes DEF IInv, TypeOK, Running
<1> DEFINE row == [runs[i] EXCEPT !.stale = TRUE]
<1>4. /\ row \in Run /\ row.status = "running" /\ row.floor = runs[i].floor
      /\ row.past = runs[i].past /\ row.stale
  BY <1>3 DEF Run
<1>5. runs' = [runs EXCEPT ![i] = row]
  BY <1>1
<1> HIDE DEF row
<1>6. /\ runs' \in Seq(Run) /\ Len(runs') = Len(runs) /\ DOMAIN runs' = DOMAIN runs
      /\ \A j \in DOMAIN runs : runs'[j] = IF j = i THEN row ELSE runs[j]
  BY <1>3, <1>4, <1>5
<1>7. \A j \in DOMAIN runs : /\ runs'[j].status = runs[j].status
                             /\ runs'[j].floor = runs[j].floor
                             /\ (runs'[j].past <=> runs[j].past)
                             /\ (runs[j].stale => runs'[j].stale)
  BY <1>3, <1>4, <1>6
<1>8. faults' \in 0 .. MaxFaults
  BY <1>1, BoundAssumption DEF IInv, TypeOK
<1>9. TypeOK'
  BY <1>2, <1>6, <1>8 DEF IInv, TypeOK
<1>10. /\ Running' = Running /\ Completed' = Completed
       /\ (NoLateRun' => NoLateRun) /\ (LateRunsAreNew' => LateRunsAreNew)
  BY <1>6, <1>7 DEF Running, Completed, NoLateRun, LateRunsAreNew
<1>11. OneRunning' /\ Covered'
  <2>1. OneRunning'
    BY <1>10 DEF IInv, OneRunning
  <2>2. (\A j \in DOMAIN runs : Began(runs[j].floor, runs[j].past))'
    BY <1>2, <1>6, <1>7 DEF IInv, Covered, Began
  <2>3. Completed \subseteq DOMAIN runs
    BY DEF Completed
  <2>4. /\ (NoLateRun => \A j \in Completed : rollup >= runs[j].floor)'
        /\ (LateRunsAreNew => \A j \in Completed : runs[j].past => rollup = usage)'
    BY <1>2, <1>7, <1>10, <2>3 DEF IInv, Covered
  <2> QED
    BY <1>2, <2>1, <2>2, <2>4 DEF IInv, Covered
<1>12. ASSUME NEW r \in Runner PROVE Good(r, pc[r], tx[r])'
  <2> DEFINE t == tx[r]
  <2>1. /\ Phase(pc[r], t) /\ Holds(t) /\ Indexed(t) /\ Apart(r, t) /\ Summed(pc[r], t)
        /\ Began(t.floor, t.past)
    BY RunnerGood DEF Good
  <2>2. (Phase(pc[r], t) /\ Indexed(t) /\ Apart(r, t) /\ Began(t.floor, t.past))'
    BY <1>2, <1>6, <1>10, <2>1 DEF Phase, Indexed, Apart, Began
  <2>3. Holds(t)'
    BY <1>2, <1>6, <1>7, <2>1 DEF Holds
  <2>4. Late(t) => Late(t)'
    BY <1>2, <1>7, <2>1 DEF Late, Holds
  <2>5. Summed(pc[r], t)'
    BY <1>2, <1>6, <1>7, <2>1, <2>4 DEF Summed
  <2> QED
    BY <2>2, <2>3, <2>5 DEF Good
<1> QED
  BY <1>9, <1>11, <1>12 DEF IInv

\* A step of the requests or of the calendar keeps what the runs have summed up: nothing is
\* committed to a month that is over with none of its requests under way.
LEMMA UsageStep ==
    ASSUME IInv, UNCHANGED <<runs, rollup, caller, pc, tx, faults>>,
           usage' \in Nat, pending' \in Nat, usage' + pending' <= MaxUsage,
           monthOver' \in BOOLEAN, usage <= usage',
           monthOver /\ pending = 0 => monthOver' /\ pending' = 0 /\ usage' = usage
    PROVE  IInv'
<1>1. /\ usage \in Nat /\ rollup \in Nat /\ \A i \in DOMAIN runs : runs[i].floor \in Nat
  BY SharedTypes DEF IInv
<1>2. TypeOK'
  BY DEF IInv, TypeOK
<1>3. /\ OneRunning' /\ Running' = Running /\ Completed' = Completed
      /\ (NoLateRun' <=> NoLateRun) /\ (LateRunsAreNew' <=> LateRunsAreNew)
  BY DEF IInv, OneRunning, Running, Completed, NoLateRun, LateRunsAreNew
<1>4. Completed \subseteq DOMAIN runs
  BY DEF Completed
<1>5. /\ rollup <= usage
      /\ \A i \in DOMAIN runs : Began(runs[i].floor, runs[i].past)
      /\ NoLateRun => \A i \in Completed : rollup >= runs[i].floor
      /\ LateRunsAreNew => \A i \in Completed : runs[i].past => rollup = usage
  BY DEF IInv, Covered
<1>6. Covered'
  <2>1. (rollup <= usage)'
    BY <1>1, <1>5
  <2>2. (\A i \in DOMAIN runs : Began(runs[i].floor, runs[i].past))'
    BY <1>1, <1>5 DEF Began
  <2>3. \A i \in Completed : runs[i].past => usage' = usage
    BY <1>4, <1>5 DEF Began
  <2>4. /\ (NoLateRun => \A i \in Completed : rollup >= runs[i].floor)'
        /\ (LateRunsAreNew => \A i \in Completed : runs[i].past => rollup = usage)'
    BY <1>3, <1>5, <2>3
  <2> QED
    BY <2>1, <2>2, <2>4 DEF Covered
<1>7. ASSUME NEW r \in Runner PROVE Good(r, pc[r], tx[r])'
  <2> DEFINE t == tx[r]
  <2>1. /\ Phase(pc[r], t) /\ Holds(t) /\ Indexed(t) /\ Apart(r, t) /\ Summed(pc[r], t)
        /\ Began(t.floor, t.past)
    BY RunnerGood DEF Good
  <2>2. t.floor \in Nat /\ t.sum \in Nat
    BY RunnerGood, TxTypes
  <2>3. (Phase(pc[r], t) /\ Holds(t) /\ Indexed(t) /\ Apart(r, t))'
    BY <1>3, <2>1 DEF Phase, Holds, Indexed, Apart
  <2>4. Began(t.floor, t.past)' /\ (t.past => usage' = usage)
    BY <1>1, <2>1, <2>2 DEF Began
  <2>5. \A i \in DOMAIN runs : runs[i].past => usage' = usage
    BY <1>5 DEF Began
  <2>6. Summed(pc[r], t)'
    BY <1>1, <1>3, <2>1, <2>2, <2>4, <2>5 DEF Summed, Late
  <2> QED
    BY <2>3, <2>4, <2>6 DEF Good
<1> QED
  BY <1>2, <1>3, <1>6, <1>7 DEF IInv

LEMMA EnvironmentGood ==
    ASSUME IInv, AcceptUsage \/ CommitUsage \/ NextMonth
    PROVE  IInv'
<1>1. /\ usage \in Nat /\ pending \in Nat /\ usage + pending <= MaxUsage
      /\ monthOver \in BOOLEAN /\ MaxUsage \in Nat
  BY BoundAssumption DEF IInv, TypeOK
<1>2. CASE AcceptUsage
  BY <1>1, <1>2, UsageStep DEF AcceptUsage
<1>3. CASE CommitUsage
  <2>1. pending' \in Nat /\ usage' \in Nat /\ usage' + pending' <= MaxUsage /\ usage <= usage'
    BY <1>1, <1>3 DEF CommitUsage
  <2> QED
    BY <1>1, <1>3, <2>1, UsageStep DEF CommitUsage
<1>4. CASE NextMonth
  BY <1>1, <1>4, UsageStep DEF NextMonth
<1> QED
  BY <1>2, <1>3, <1>4

LEMMA InitIInv == Init => IInv
<1> SUFFICES ASSUME Init PROVE IInv
  OBVIOUS
<1>1. runs = << >> /\ DOMAIN runs = {} /\ Len(runs) = 0 /\ runs \in Seq(Run)
  BY DEF Init
<1>2. TypeOK
  <2>1. pc \in [Runner -> Label] /\ tx \in [Runner -> Tx] /\ \A r \in Runner : tx[r] = NoTx
    BY NoTxType DEF Init, Label
  <2>2. rollup \in 0 .. MaxUsage /\ faults \in 0 .. MaxFaults /\ usage + pending <= MaxUsage
    BY BoundAssumption DEF Init
  <2>3. \A r \in Runner : tx[r].lock <= Len(runs) /\ tx[r].row <= Len(runs)
    BY <1>1, <2>1, NoTxType
  <2> QED
    BY <1>1, <2>1, <2>2, <2>3 DEF Init, TypeOK, Label
<1>3. OneRunning /\ Covered
  BY <1>1 DEF Init, OneRunning, Covered, Running, Completed
<1>4. ASSUME NEW r \in Runner PROVE Good(r, pc[r], tx[r])
  <2>1. pc[r] = "idle" /\ tx[r] = NoTx
    BY DEF Init
  <2> QED
    BY <1>2, <2>1, NoTxGood
<1> QED
  BY <1>2, <1>3, <1>4 DEF IInv

LEMMA IInvKept == IInv /\ [Next]_vars => IInv'
<1> SUFFICES ASSUME IInv, [Next]_vars PROVE IInv'
  OBVIOUS
<1>1. CASE UNCHANGED vars
  BY <1>1 DEF vars, world, IInv, TypeOK, OneRunning, Covered, Good, Phase, Holds, Indexed, Apart,
              Summed, Began, Running, Completed, NoLateRun, LateRunsAreNew, Late
<1>2. ASSUME NEW r \in Runner, Step(r) PROVE IInv'
  BY <1>2, CheckGood, LockGood, CountGood, InsertGood, PublishGood, SumGood, UpsertGood,
     CloseGood, LossGood, EndGood DEF Step
<1>3. ASSUME NEW r \in Runner, Begin(r) \/ Raise(r) \/ Crash(r) PROVE IInv'
  BY <1>3, BeginGood, RaiseGood, LossGood
<1> QED
  BY <1>1, <1>2, <1>3, GrowStaleGood, EnvironmentGood DEF Next

\* The rows of job_runs change by commits, and by growing stale.
LEMMA RowsChange ==
    ASSUME IInv, [Next]_vars
    PROVE  \/ \E r \in Runner : Commits(r) /\ pc[r] \in {"publish", "end"}
           \/ /\ DOMAIN runs' = DOMAIN runs
              /\ \A i \in DOMAIN runs : runs'[i].status = runs[i].status
<1>1. CASE UNCHANGED runs
  BY <1>1
<1>2. ASSUME NEW r \in Runner, Publish(r)
      PROVE  Commits(r) /\ pc[r] \in {"publish", "end"}
  BY <1>2, PublishCommits DEF Publish
<1>3. ASSUME NEW r \in Runner, End(r), caller[r] # "closes"
      PROVE  Commits(r) /\ pc[r] \in {"publish", "end"}
  BY <1>3, EndCommits DEF End
<1>4. ASSUME NEW r \in Runner, End(r), caller[r] = "closes" PROVE UNCHANGED runs
  BY <1>4 DEF End
<1>5. ASSUME NEW r \in Runner,
             \/ Check(r) \/ Lock(r) \/ Count(r) \/ Insert(r) \/ Sum(r) \/ Upsert(r)
             \/ Complete(r) \/ BreakDeadlock(r) \/ Fail(r) \/ Begin(r) \/ Raise(r) \/ Crash(r)
      PROVE  UNCHANGED runs
  BY <1>5 DEF Check, Lock, Count, Insert, Sum, Upsert, Complete, BreakDeadlock, Fail, Begin,
              Raise, Crash
<1>6. CASE GrowStale
  <2>1. PICK i \in Running : runs' = [runs EXCEPT ![i].stale = TRUE]
    BY <1>6 DEF GrowStale
  <2>2. \A j \in 1 .. Len(runs) : runs[j] \in Run
    BY SharedTypes DEF IInv
  <2> QED
    BY <2>1, <2>2, SharedTypes DEF Running, Run, IInv
<1>7. CASE AcceptUsage \/ CommitUsage \/ NextMonth
  BY <1>7 DEF AcceptUsage, CommitUsage, NextMonth
<1>8. CASE UNCHANGED vars
  BY <1>8 DEF vars
<1> QED
  BY <1>1, <1>2, <1>3, <1>4, <1>5, <1>6, <1>7, <1>8 DEF Next, Step

LEMMA YoungStep ==
    ASSUME IInv, [Next]_vars, NEW i \in Running, ~runs[i].stale, runs'[i].status # "running"
    PROVE  \E r \in Runner : tx[r].row = i /\ pc[r] = "end"
<1>1. i \in DOMAIN runs /\ runs[i].status = "running"
  BY DEF Running
<1>2. PICK r \in Runner : Commits(r)
  BY <1>1, RowsChange
<1>3. ~(tx[r].reclaims /\ i = tx[r].lock)
  BY RunnerGood DEF Good, Holds
<1>4. tx[r].verdict # "none" /\ i = tx[r].row
  BY <1>1, <1>2, <1>3, CommitsAt
<1> QED
  BY <1>4, RunnerGood DEF Good, Phase

LEMMA CompletedStep ==
    ASSUME IInv, [Next]_vars, NEW i \in DOMAIN runs, runs[i].status = "completed"
    PROVE  runs'[i].status = "completed"
<1>1. CASE \E r \in Runner : Commits(r)
  <2>1. PICK r \in Runner : Commits(r)
    BY <1>1
  <2>2. i \in Completed'
    BY <2>1, CommitCompletes DEF Completed
  <2> QED
    BY <2>2 DEF Completed
<1>2. CASE runs'[i].status = runs[i].status
  BY <1>2
<1> QED
  BY <1>1, <1>2, RowsChange

\* What the whole of JobRunner keeps, whatever way the callers commit, and whenever they
\* raise, crash or are late.
THEOREM Invariance == Spec => []IInv
BY InitIInv, IInvKept, PTL DEF Spec

\* The type invariant: among others, a transaction locks and owns rows that exist, and a
\* runner between two calls of the job has no transaction.
THEOREM TypeCorrect == Spec => []TypeOK
BY Invariance, PTL DEF IInv

\* start_job's FOR UPDATE, its 15 minutes and the partial unique index let one runner at a
\* time work on a period, however many processes call it and whether they commit after
\* start_job or at the end: two only if one is overdue.
THEOREM OneRunnerWorks == Spec => []SingleWorker
BY Invariance, OneAtATime, PTL

\* compute_monthly_rollups: while no overdue run came to its end, the rollup has at least
\* what was committed before any completed run began.
THEOREM RollupCovers == Spec => []RollupCoversCompleted
<1>1. IInv => RollupCoversCompleted
  BY DEF IInv, Covered, Completed, RollupCoversCompleted
<1> QED
  BY <1>1, Invariance, PTL

\* Once a run has completed that was started when its month was over and the last request
\* of it committed, the rollup is the final sum, whatever other runs overlap it or
\* follow - provided that no run completes late that began before: being taken over after
\* 15 minutes does not keep complete_job from storing its older sum.
THEOREM ClosedMonth == Spec => []ClosedMonthIsSummed
<1>1. IInv => ClosedMonthIsSummed
  BY DEF IInv, Covered, Completed, ClosedMonthIsSummed
<1> QED
  BY <1>1, Invariance, PTL

Closed == \E i \in Completed : runs[i].past

\* What the proviso of ClosedMonth comes to, step by step: the final sum is lost only when
\* a late run that began before the month was closed commits, and the next run that began
\* after it stores the final sum again.
FinalSumSurvives ==
    [][ /\ Closed /\ rollup = usage /\ rollup' # usage' =>
              \E r \in Runner : End(r) /\ Overdue(r) /\ ~tx[r].past
        /\ \A r \in Runner : tx[r].past /\ tx[r].verdict = "completed" /\ End(r)
              /\ caller[r] # "closes" => rollup' = usage' ]_vars

\* The rollup and the events change by commits only.
LEMMA SumsChange ==
    ASSUME [Next]_vars
    PROVE  UNCHANGED <<rollup, usage>> \/ CommitUsage \/ \E r \in Runner : End(r)
<1>1. CASE UNCHANGED vars
  BY <1>1 DEF vars, world
<1>2. ASSUME NEW r \in Runner, Step(r), ~End(r) PROVE UNCHANGED <<rollup, usage>>
  BY <1>2 DEF Step, Check, Lock, Count, Insert, Publish, Sum, Upsert, Complete, BreakDeadlock,
              Fail, world
<1>3. ASSUME NEW r \in Runner, Begin(r) \/ Raise(r) \/ Crash(r) PROVE UNCHANGED <<rollup, usage>>
  BY <1>3 DEF Begin, Raise, Crash, world
<1>4. ASSUME GrowStale \/ AcceptUsage \/ NextMonth PROVE UNCHANGED <<rollup, usage>>
  BY <1>4 DEF GrowStale, AcceptUsage, NextMonth, world
<1> QED
  BY <1>1, <1>2, <1>3, <1>4 DEF Next

\* A completed run's commit stores the final sum if the run began after the last event,
\* or is on time and some other run in the table did.
LEMMA EndStores ==
    ASSUME IInv, NEW r \in Runner, End(r), caller[r] # "closes", tx[r].verdict = "completed",
           tx[r].past \/ (Closed /\ ~Late(tx[r]))
    PROVE  rollup' = usage'
<1>1. /\ Summed("end", tx[r]) /\ tx[r].sum \in Nat /\ rollup \in Nat /\ usage \in Nat
      /\ rollup <= usage
  BY RunnerGood, TxTypes, SharedTypes DEF End, Good, IInv, Covered
<1>2. /\ rollup' = IF tx[r].rolled THEN tx[r].sum ELSE rollup
      /\ usage' = usage
  BY DEF End, world
<1>3. tx[r].sum = usage /\ (tx[r].rolled <=> tx[r].sum > 0)
  BY <1>1 DEF Summed, Closed, Completed
<1> QED
  BY <1>1, <1>2, <1>3

\* compute_monthly_rollups: a closed month's sum is exposed to nothing but such a late run.
THEOREM FinalSum == Spec => FinalSumSurvives
<1>1. ASSUME IInv, [Next]_vars, Closed, rollup = usage, rollup' # usage'
      PROVE  \E r \in Runner : End(r) /\ Overdue(r) /\ ~tx[r].past
  <2>1. ~CommitUsage
    BY <1>1 DEF Closed, Completed, IInv, Covered, Began, TypeOK, CommitUsage
  <2>2. PICK r \in Runner : End(r)
    BY <1>1, <2>1, SumsChange
  <2>3. caller[r] # "closes" /\ tx[r].rolled
    BY <1>1, <2>2 DEF End, world
  <2>4. tx[r].verdict = "completed"
    BY <1>1, <2>2, <2>3, RunnerGood DEF End, Good, Phase
  <2>5. Late(tx[r]) /\ ~tx[r].past
    BY <1>1, <2>2, <2>3, <2>4, EndStores
  <2> QED
    BY <2>2, <2>5 DEF Late, Overdue
<1>2. IInv /\ [Next]_vars =>
        [ /\ Closed /\ rollup = usage /\ rollup' # usage' =>
                \E r \in Runner : End(r) /\ Overdue(r) /\ ~tx[r].past
          /\ \A r \in Runner : tx[r].past /\ tx[r].verdict = "completed" /\ End(r)
                /\ caller[r] # "closes" => rollup' = usage' ]_vars
  BY <1>1, EndStores
<1> QED
  BY <1>2, Invariance, PTL DEF Spec, FinalSumSurvives

\* Only the runner that has a young run ends it: start_job sets a row to 'failed' that is
\* older than 15 minutes at that moment, and keeps it locked until it commits.
THEOREM YoungRuns == Spec => YoungRunsAreSafe
<1>1. IInv /\ [Next]_vars =>
        [\A i \in Running :
            ~runs[i].stale /\ runs'[i].status # "running"
              => \E r \in Runner : tx[r].row = i /\ pc[r] = "end"]_vars
  BY YoungStep
<1> QED
  BY <1>1, Invariance, PTL DEF Spec, YoungRunsAreSafe

\* A row of job_runs that is 'completed' stays so: neither a takeover, which waits for the
\* row and then looks at its status again, nor a late complete_job or fail_job changes it.
THEOREM CompletedRuns == Spec => CompletedIsFinal
<1>1. IInv /\ [Next]_vars =>
        [\A i \in DOMAIN runs :
            runs[i].status = "completed" => runs'[i].status = "completed"]_vars
  BY CompletedStep
<1> QED
  BY <1>1, Invariance, PTL DEF Spec, CompletedIsFinal

------------------------------------------------------------------------------
(* Waiting for rows.                                                        *)

\* The guards of Step: r can go on now, be it by losing its statement in a deadlock.
CanGoOn(r) ==
    \/ pc[r] \in {"check", "count", "publish", "sum", "end"}
    \/ pc[r] = "lock" /\ ~Locked(r, tx[r].seen)
    \/ /\ pc[r] = "insert"
       /\ LET others == Running \ (IF tx[r].reclaims THEN {tx[r].lock} ELSE {}) IN
          \A q \in Runner \ {r} :
              ~tx[q].inserted /\ (tx[q].reclaims \/ tx[q].verdict # "none"
                                     => tx[q].lock \notin others)
    \/ pc[r] = "upsert" /\ \A q \in Runner \ {r} : ~tx[q].rolled
    \/ pc[r] \in {"close", "fail"} /\ ~Locked(r, tx[r].row)
    \/ \E q \in Runner \ {r} : WaitsFor(r, q) /\ WaitsFor(q, r)

\* While a runner is at work, one of them can go on.
SomebodyGoesOn ==
    (\E r \in Runner : pc[r] # "idle") => \E r \in Runner : CanGoOn(r)

\* PostgreSQL has a deadlock to break only when a run is taken over that still works.
DeadlocksAreOverdue ==
    \A q, r \in Runner :
        q # r /\ WaitsFor(q, r) /\ WaitsFor(r, q) => Overdue(q) \/ Overdue(r)

\* Until a call ends, its transaction has no row locked but the one it takes over.
LocksAreTakeovers ==
    \A r \in Runner : tx[r].lock # 0 /\ pc[r] # "end" => tx[r].reclaims

LEMMA TakeoverStep == TypeOK /\ LocksAreTakeovers /\ [Next]_vars => LocksAreTakeovers'
<1> SUFFICES ASSUME TypeOK, LocksAreTakeovers, [Next]_vars PROVE LocksAreTakeovers'
  OBVIOUS
<1>1. ASSUME NEW r \in Runner, NEW l, NEW t, Goto(r, l, t),
             t.lock # 0 /\ l # "end" => t.reclaims
      PROVE  LocksAreTakeovers'
  BY <1>1 DEF Goto, TypeOK, LocksAreTakeovers
<1>2. ASSUME NEW r \in Runner, Begin(r) \/ Step(r) \/ Raise(r) \/ Crash(r)
      PROVE  LocksAreTakeovers'
  <2> USE DEF LocksAreTakeovers
  <2>0. tx[r] \in Tx
    BY DEF TypeOK
  <2>1. CASE Begin(r)
    BY <1>1, <2>1 DEF Begin, NoTx
  <2>2. CASE Check(r)
    BY <1>1, <2>0, <2>2 DEF Check, Tx
  <2>3. CASE Lock(r)
    BY <1>1, <2>0, <2>3 DEF Lock, Tx
  <2>4. CASE Count(r)
    BY <1>1, <2>0, <2>4 DEF Count, Tx
  <2>5. CASE Insert(r)
    BY <1>1, <2>0, <2>5 DEF Insert, Tx
  <2>6. CASE Publish(r)
    BY <1>1, <2>6 DEF Publish, NoTx
  <2>7. CASE Sum(r) \/ Upsert(r) \/ Raise(r)
    BY <1>1, <2>0, <2>7 DEF Sum, Upsert, Raise, Tx
  <2>8. CASE Complete(r) \/ Fail(r)
    BY <1>1, <2>8 DEF Complete, Fail
  <2>9. CASE BreakDeadlock(r)
    BY <1>1, <2>0, <2>9 DEF BreakDeadlock, NoTx
  <2>10. CASE End(r) \/ Crash(r)
    BY <1>1, <2>10 DEF End, Crash, NoTx
  <2> QED
    BY <1>2, <2>1, <2>2, <2>3, <2>4, <2>5, <2>6, <2>7, <2>8, <2>9, <2>10 DEF Step
<1>3. CASE UNCHANGED <<pc, tx>>
  BY <1>3 DEF LocksAreTakeovers
<1> QED
  BY <1>2, <1>3 DEF Next, GrowStale, AcceptUsage, CommitUsage, NextMonth, vars

LEMMA Takeovers == Spec => []LocksAreTakeovers
<1>1. Init => LocksAreTakeovers
  BY DEF Init, LocksAreTakeovers, NoTx
<1>2. Spec => []TypeOK
  BY TypeCorrect
<1> QED
  BY <1>1, <1>2, TakeoverStep, PTL DEF Spec

\* Who has a row locked can go on, or has inserted its own and waits for the rollup.
LEMMA LockersAt ==
    ASSUME IInv, LocksAreTakeovers, NEW p \in Runner, tx[p].lock # 0
    PROVE  CanGoOn(p) \/ (pc[p] = "upsert" /\ tx[p].inserted /\ tx[p].reclaims)
<1>1. /\ Phase(pc[p], tx[p]) /\ Holds(tx[p]) /\ Apart(p, tx[p]) /\ pc[p] \in Label
      /\ tx[p] \in Tx
  BY RunnerGood DEF Good
<1>2. pc[p] \notin {"idle", "check", "lock"}
  BY <1>1 DEF Phase
<1>3. CASE pc[p] = "insert"
  <2>1. tx[p].reclaims /\ tx[p].lock \in Running
    BY <1>1, <1>3 DEF LocksAreTakeovers, Holds, Running
  <2>2. Running \ {tx[p].lock} = {}
    BY <2>1 DEF IInv, OneRunning
  <2>3. ASSUME NEW q \in Runner \ {p} PROVE ~tx[q].inserted
    <3> SUFFICES ASSUME tx[q].inserted PROVE FALSE
      OBVIOUS
    <3>1. Indexed(tx[q])
      BY RunnerGood DEF Good
    <3>2. tx[q].lock = tx[p].lock
      BY <2>1, <3>1 DEF Indexed
    <3> QED
      BY <1>1, <3>2 DEF Apart
  <2> QED
    BY <1>3, <2>1, <2>2, <2>3 DEF CanGoOn
<1>4. CASE pc[p] \in {"upsert", "close", "fail"}
  <2>1. tx[p].inserted /\ tx[p].row = 0 /\ tx[p].reclaims
    BY <1>1, <1>4 DEF Phase, LocksAreTakeovers
  <2>2. ~Locked(p, tx[p].row)
    BY <2>1 DEF Locked
  <2> QED
    BY <1>4, <2>1, <2>2 DEF CanGoOn
<1> QED
  BY <1>1, <1>2, <1>3, <1>4 DEF CanGoOn, Label

\* Who has overwritten the rollup row can go on, or waits for its own row.
LEMMA RolledAt ==
    ASSUME IInv, NEW q \in Runner, tx[q].rolled
    PROVE  \/ CanGoOn(q)
           \/ /\ pc[q] = "close" /\ tx[q].row # 0
              /\ \E p \in Runner \ {q} : tx[p].lock = tx[q].row
<1>1. pc[q] \in {"close", "end"}
  BY RunnerGood DEF Good, Phase
<1> QED
  BY <1>1 DEF CanGoOn, Locked

\* A row that is locked is set free in the end: somebody can go on.
LEMMA LockersGoOn ==
    ASSUME IInv, LocksAreTakeovers, NEW p \in Runner, tx[p].lock # 0
    PROVE  \E s \in Runner : CanGoOn(s)
<1> SUFFICES ASSUME \A s \in Runner : ~CanGoOn(s) PROVE FALSE
  OBVIOUS
<1>1. pc[p] = "upsert" /\ tx[p].inserted
  BY LockersAt
<1>2. PICK q \in Runner \ {p} : tx[q].rolled
  BY <1>1 DEF CanGoOn
<1>3. PICK u \in Runner \ {q} : pc[q] = "close" /\ tx[q].row # 0 /\ tx[u].lock = tx[q].row
  BY <1>2, RolledAt
<1>4. tx[u].inserted
  BY <1>3, LockersAt
<1>5. u = p
  BY <1>1, <1>4, RunnerGood DEF Good, Apart
<1>6. WaitsFor(p, q) /\ WaitsFor(q, p)
  BY <1>1, <1>2, <1>3, <1>5 DEF WaitsFor
<1> QED
  BY <1>2, <1>6 DEF CanGoOn

LEMMA NoHalt == IInv /\ LocksAreTakeovers => SomebodyGoesOn
<1> SUFFICES ASSUME IInv, LocksAreTakeovers, NEW r \in Runner, pc[r] # "idle",
                    \A s \in Runner : ~CanGoOn(s)
             PROVE  FALSE
  BY DEF SomebodyGoesOn
<1>1. \A p \in Runner : tx[p].lock = 0
  BY LockersGoOn
<1>2. \A q \in Runner : pc[q] \notin {"lock", "close", "fail"}
  BY <1>1 DEF CanGoOn, Locked
<1>3. \A q \in Runner : pc[q] # "upsert"
  BY <1>2, RolledAt DEF CanGoOn
<1>4. \A q \in Runner : ~tx[q].inserted
  <2> SUFFICES ASSUME NEW q \in Runner, tx[q].inserted PROVE FALSE
    OBVIOUS
  <2>1. Phase(pc[q], tx[q]) /\ pc[q] \in Label
    BY RunnerGood DEF Good
  <2>2. pc[q] \notin {"idle", "check", "lock", "count", "insert"}
    BY <2>1 DEF Phase
  <2> QED
    BY <1>2, <1>3, <2>1, <2>2 DEF CanGoOn, Label
<1>5. 0 \notin Running
  BY SharedTypes DEF IInv, Running
<1>6. pc[r] # "insert"
  BY <1>1, <1>4, <1>5 DEF CanGoOn
<1> QED
  BY <1>2, <1>3, <1>6, RunnerGood DEF CanGoOn, Label

LEMMA CirclesAreOverdue == IInv /\ LocksAreTakeovers => DeadlocksAreOverdue
<1> SUFFICES ASSUME IInv, LocksAreTakeovers, NEW q \in Runner, NEW r \in Runner, q # r,
                    WaitsFor(q, r), WaitsFor(r, q)
             PROVE  Overdue(q) \/ Overdue(r)
  BY DEF DeadlocksAreOverdue
\* Of two that wait for each other one is at the rollup, the other at its own row.
<1>1. ASSUME NEW a \in Runner, NEW b \in Runner, pc[a] \in {"upsert", "close"},
             pc[b] = "close", tx[b].row # 0, tx[a].lock = tx[b].row
      PROVE  Overdue(b)
  <2>1. tx[a].reclaims
    BY <1>1 DEF LocksAreTakeovers
  <2> QED
    BY <1>1, <2>1, RunnerGood DEF Good, Holds, Overdue
<1>2. CASE pc[q] = "close"
  BY <1>1, <1>2 DEF WaitsFor
<1>3. CASE pc[q] = "upsert" /\ pc[r] = "close"
  BY <1>1, <1>3 DEF WaitsFor
<1>4. CASE pc[q] = "upsert" /\ pc[r] = "upsert"
  BY <1>4, RunnerGood DEF WaitsFor, Good, Phase
<1> QED
  BY <1>2, <1>3, <1>4 DEF WaitsFor

\* Runners that wait for a run's row, the rollup row or the partial unique index never
\* all wait for each other: whatever runs, faults and callers there are, one of them can go
\* on, or PostgreSQL finds two that wait for each other and fails one.
THEOREM NoOtherHalt == Spec => []SomebodyGoesOn
BY Invariance, Takeovers, NoHalt, PTL

\* Two statements of the job wait for each other only when start_job has taken a run over
\* that was still at work after 15 minutes.
THEOREM DeadlocksNeedTakeovers == Spec => []DeadlocksAreOverdue
BY Invariance, Takeovers, CirclesAreOverdue, PTL
====
