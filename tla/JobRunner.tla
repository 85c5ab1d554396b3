------------------------------ MODULE JobRunner ------------------------------
(***************************************************************************)
(* JobRunner and RollupService: the monthly rollup job of one billing      *)
(* period, run by several processes (Runner) against PostgreSQL at READ    *)
(* COMMITTED while usage events are still being committed.                 *)
(*                                                                         *)
(* The methods never commit; their caller does.  Each runner has its way   *)
(* (caller[r]): it calls run_monthly_rollup_job and commits ("commits"),   *)
(* calls it in `with get_db_context()' as the README shows ("closes"), or  *)
(* commits after start_job, so that others see the run, and again after    *)
(* the rollup and complete_job or fail_job ("stepwise").                   *)
(*                                                                         *)
(* `runs' and `rollup' are committed rows; tx[r] is what runner r's open   *)
(* transaction has read, locked and written.                               *)
(***************************************************************************)
EXTENDS Naturals, Sequences, FiniteSets

CONSTANTS
    Runner,
    MaxRuns,         \* bound: rows of job_runs
    MaxUsage,        \* bound: usage events of the period
    MaxFaults        \* bound: exceptions, crashes and runs of over 15 minutes

ASSUME BoundAssumption == MaxRuns \in Nat /\ MaxUsage \in Nat /\ MaxFaults \in Nat

\* A row of job_runs; stale once it is older than 15 minutes.  floor and past are
\* history: the usage committed before the run began, and whether the month was
\* over by then and its last request committed.
Run == [status : {"running", "completed", "failed"}, attempt_number : Nat \ {0},
        stale : BOOLEAN, floor : Nat, past : BOOLEAN]

Tx == [seen : Nat,              \* the running row its SELECT wants to lock, or 0
       lock : Nat,              \* the job_runs row it locked, or 0
       reclaims : BOOLEAN,      \* that row is set to 'failed'
       inserted : BOOLEAN,      \* it inserted a 'running' row
       row : Nat,               \* its own committed row, or 0
       attempt_number : Nat, floor : Nat, past : BOOLEAN,
       sum : Nat,               \* SUM(quantity) of its snapshot
       rolled : BOOLEAN,        \* it wrote the rollup row
       verdict : {"none", "completed", "failed"}]

NoTx == [seen |-> 0, lock |-> 0, reclaims |-> FALSE, inserted |-> FALSE, row |-> 0,
         attempt_number |-> 0, floor |-> 0, past |-> FALSE, sum |-> 0,
         rolled |-> FALSE, verdict |-> "none"]

VARIABLES
    runs,            \* rows of job_runs, in the order of their insertion
    rollup,          \* total_quantity of the rollup row, 0 without one
    usage,           \* quantity of the committed usage events of the period
    pending,         \* requests that were accepted in the period, not yet committed
    monthOver,       \* the period is past
    caller,          \* per runner, how its transaction ends
    pc, tx,          \* per runner, its next statement and its transaction
    faults

vars == <<runs, rollup, usage, pending, monthOver, caller, pc, tx, faults>>
world == <<usage, pending, monthOver, caller>>

Init ==
    /\ runs      = << >>
    /\ rollup    = 0
    /\ usage     = 0
    /\ pending   = 0
    /\ monthOver = FALSE
    /\ caller    \in [Runner -> {"commits", "closes", "stepwise"}]
    /\ pc        = [r \in Runner |-> "idle"]
    /\ tx        = [r \in Runner |-> NoTx]
    /\ faults    = 0

Running == {i \in DOMAIN runs : runs[i].status = "running"}

\* Another transaction has locked row i.
Locked(r, i) == \E q \in Runner \ {r} : tx[q].lock = i /\ i # 0

\* r goes on at l with transaction t.
Goto(r, l, t) ==
    /\ pc' = [pc EXCEPT ![r] = l]
    /\ tx' = [tx EXCEPT ![r] = t]
-----------------------------------------------------------------------------
(* start_job.                                                              *)

Begin(r) ==
    /\ pc[r] = "idle"
    /\ Len(runs) + Cardinality({q \in Runner : pc[q] # "idle" /\ tx[q].row = 0}) < MaxRuns
    /\ Goto(r, "check", [NoTx EXCEPT !.floor = usage, !.past = (monthOver /\ pending = 0)])
    /\ UNCHANGED <<runs, rollup, world, faults>>

\* Step 1: SELECT ... FOR UPDATE of the running rows its snapshot shows ...
Check(r) ==
    /\ pc[r] = "check"
    /\ \/ Running = {} /\ Goto(r, "count", tx[r])
       \/ \E i \in Running : Goto(r, "lock", [tx[r] EXCEPT !.seen = i])
    /\ UNCHANGED <<runs, rollup, world, faults>>

\* Mutant: any running row is taken over, however young.
LockReclaimsAll(r) ==
    LET i == tx[r].seen  t == [tx[r] EXCEPT !.seen = 0] IN
    /\ pc[r] = "lock"
    /\ ~Locked(r, i)
    /\ \/ runs[i].status # "running" /\ Goto(r, "count", t)
       \/ /\ runs[i].status = "running"
          /\ Goto(r, "count", [t EXCEPT !.lock = i, !.reclaims = TRUE])
    /\ UNCHANGED <<runs, rollup, world, faults>>

\* Mutant: a stale row is not taken over.
LockReclaimsNone(r) ==
    LET i == tx[r].seen  t == [tx[r] EXCEPT !.seen = 0] IN
    /\ pc[r] = "lock"
    /\ ~Locked(r, i)
    /\ \/ runs[i].status # "running" /\ Goto(r, "count", t)
       \/ runs[i].status = "running" /\ Goto(r, "end", [t EXCEPT !.lock = i])
    /\ UNCHANGED <<runs, rollup, world, faults>>

\* ... waits until the row is free, and skips it if it no longer is running.  A
\* stale one is set to 'failed', a young one ends the call with None.
Lock(r) ==
    LET i == tx[r].seen  t == [tx[r] EXCEPT !.seen = 0] IN
    /\ pc[r] = "lock"
    /\ ~Locked(r, i)
    /\ \/ runs[i].status # "running" /\ Goto(r, "count", t)
       \/ /\ runs[i].status = "running" /\ runs[i].stale
          /\ Goto(r, "count", [t EXCEPT !.lock = i, !.reclaims = TRUE])
       \/ /\ runs[i].status = "running" /\ ~runs[i].stale
          /\ Goto(r, "end", [t EXCEPT !.lock = i])
    /\ UNCHANGED <<runs, rollup, world, faults>>

\* Step 2: the attempt number counts the committed rows.
Count(r) ==
    /\ pc[r] = "count"
    /\ Goto(r, "insert", [tx[r] EXCEPT !.attempt_number = Len(runs) + 1])
    /\ UNCHANGED <<runs, rollup, world, faults>>

AfterInsert(r) == IF caller[r] = "stepwise" THEN "publish" ELSE "sum"

\* Mutant: job_runs has no partial unique index.
InsertUnindexed(r) ==
    /\ pc[r] = "insert"
    /\ Goto(r, AfterInsert(r), [tx[r] EXCEPT !.inserted = TRUE])
    /\ UNCHANGED <<runs, rollup, world, faults>>

\* Step 3: the INSERT under the partial unique index, which waits for another
\* transaction that inserted or is about to end a running row, and fails - the
\* call returns None - when one is left running.
Insert(r) ==
    LET others == Running \ (IF tx[r].reclaims THEN {tx[r].lock} ELSE {}) IN
    /\ pc[r] = "insert"
    /\ \A q \in Runner \ {r} :
          ~tx[q].inserted /\ (tx[q].reclaims \/ tx[q].verdict # "none"
                                 => tx[q].lock \notin others)
    /\ \/ /\ others = {}
          /\ Goto(r, AfterInsert(r), [tx[r] EXCEPT !.inserted = TRUE])
       \/ /\ others # {}
          /\ Goto(r, "end", tx[r])
    /\ UNCHANGED <<runs, rollup, world, faults>>
-----------------------------------------------------------------------------
(* Commits.                                                                *)

Failed(s, i) == IF i = 0 THEN s ELSE [s EXCEPT ![i].status = "failed"]

Reclaimed(r) == Failed(runs, IF tx[r].reclaims THEN tx[r].lock ELSE 0)

NewRun(r, s) == [status |-> s, attempt_number |-> tx[r].attempt_number,
                 stale |-> FALSE, floor |-> tx[r].floor, past |-> tx[r].past]

\* The stepwise caller commits after start_job.
Publish(r) ==
    /\ pc[r] = "publish"
    /\ runs' = Append(Reclaimed(r), NewRun(r, "running"))
    /\ Goto(r, "sum", [NoTx EXCEPT !.row = Len(runs) + 1, !.floor = tx[r].floor,
                                   !.past = tx[r].past, !.attempt_number = tx[r].attempt_number])
    /\ UNCHANGED <<rollup, world, faults>>

\* Mutant: the runner's session is used again with what the last run left in it.
EndUnclosed(r) ==
    /\ pc[r] = "end"
    /\ Goto(r, "idle", tx[r])
    /\ UNCHANGED <<runs, rollup, world, faults>>

\* The call returns its result, and the caller commits or just closes the session.
End(r) ==
    LET done == tx[r].verdict # "none" IN
    /\ pc[r] = "end"
    /\ IF caller[r] = "closes" THEN UNCHANGED <<runs, rollup>>
       ELSE /\ runs' = IF done /\ tx[r].inserted
                       THEN Append(Reclaimed(r), NewRun(r, tx[r].verdict))
                       ELSE IF done THEN [runs EXCEPT ![tx[r].row].status = tx[r].verdict]
                       ELSE Reclaimed(r)
            /\ rollup' = IF tx[r].rolled THEN tx[r].sum ELSE rollup
    /\ Goto(r, "idle", NoTx)
    /\ UNCHANGED <<world, faults>>
-----------------------------------------------------------------------------
(* The rollup, and how the run is closed.                                  *)

\* compute_monthly_rollups: the upsert first sums up the events it can see ...
Sum(r) ==
    /\ pc[r] = "sum"
    /\ Goto(r, "upsert", [tx[r] EXCEPT !.sum = usage])
    /\ UNCHANGED <<runs, rollup, world, faults>>

\* Mutant: ON CONFLICT DO NOTHING.
UpsertOnce(r) ==
    /\ pc[r] = "upsert"
    /\ \A q \in Runner \ {r} : ~tx[q].rolled
    /\ Goto(r, "close", [tx[r] EXCEPT !.rolled = (tx[r].sum > 0 /\ rollup = 0)])
    /\ UNCHANGED <<runs, rollup, world, faults>>

\* Mutant: the upsert adds to the rollup row.
UpsertAdds(r) ==
    /\ pc[r] = "upsert"
    /\ \A q \in Runner \ {r} : ~tx[q].rolled
    /\ Goto(r, "close", [tx[r] EXCEPT !.rolled = (tx[r].sum > 0), !.sum = @ + rollup])
    /\ UNCHANGED <<runs, rollup, world, faults>>

\* ... then waits for the rollup row and overwrites it.  Without events it
\* writes no row.
Upsert(r) ==
    /\ pc[r] = "upsert"
    /\ \A q \in Runner \ {r} : ~tx[q].rolled
    /\ Goto(r, "close", [tx[r] EXCEPT !.rolled = (tx[r].sum > 0)])
    /\ UNCHANGED <<runs, rollup, world, faults>>

\* Mutant: the run's row is written without waiting for its lock.
CompleteUnlocked(r) ==
    /\ pc[r] = "close"
    /\ Goto(r, "end", [tx[r] EXCEPT !.verdict = "completed"])
    /\ UNCHANGED <<runs, rollup, world, faults>>

\* complete_job: the UPDATE of the run's row, whatever its status is by now.
Complete(r) ==
    /\ pc[r] = "close"
    /\ ~Locked(r, tx[r].row)
    /\ Goto(r, "end", [tx[r] EXCEPT !.verdict = "completed",
                                    !.lock = IF @ # 0 THEN @ ELSE tx[r].row])
    /\ UNCHANGED <<runs, rollup, world, faults>>

\* The rollup raised; its savepoint is rolled back.
Raise(r) ==
    /\ pc[r] \in {"sum", "upsert"}
    /\ faults < MaxFaults
    /\ faults' = faults + 1
    /\ Goto(r, "fail", [tx[r] EXCEPT !.rolled = FALSE])
    /\ UNCHANGED <<runs, rollup, world>>

\* r's statement waits for a row that q has written or locked.
WaitsFor(r, q) ==
    \/ pc[r] = "upsert" /\ tx[q].rolled
    \/ pc[r] = "close" /\ tx[r].row # 0 /\ tx[q].lock = tx[r].row

\* PostgreSQL breaks a circular wait by failing one of the statements: the rollup's,
\* which rolls its savepoint back, or complete_job's, outside of it, which takes the
\* whole transaction with it.
BreakDeadlock(r) ==
    /\ \E q \in Runner \ {r} : WaitsFor(r, q) /\ WaitsFor(q, r)
    /\ \/ pc[r] = "upsert" /\ Goto(r, "fail", tx[r])
       \/ pc[r] = "close" /\ Goto(r, "idle", NoTx)
    /\ UNCHANGED <<runs, rollup, world, faults>>

\* fail_job.
Fail(r) ==
    /\ pc[r] = "fail"
    /\ ~Locked(r, tx[r].row)
    /\ Goto(r, "end", [tx[r] EXCEPT !.verdict = "failed",
                                    !.lock = IF @ # 0 THEN @ ELSE tx[r].row])
    /\ UNCHANGED <<runs, rollup, world, faults>>

\* The process or its connection is lost; what it committed stays.
Crash(r) ==
    /\ pc[r] # "idle"
    /\ faults < MaxFaults
    /\ faults' = faults + 1
    /\ Goto(r, "idle", NoTx)
    /\ UNCHANGED <<runs, rollup, world>>
-----------------------------------------------------------------------------
(* The environment.                                                        *)

\* 15 minutes pass since a run was started whose runner has crashed, or, which is
\* a fault, is still at work.
GrowStale ==
    /\ \E i \in Running :
          /\ ~runs[i].stale
          /\ runs' = [runs EXCEPT ![i].stale = TRUE]
          /\ IF \E r \in Runner : tx[r].row = i
             THEN faults < MaxFaults /\ faults' = faults + 1
             ELSE UNCHANGED faults
    /\ UNCHANGED <<rollup, world, pc, tx>>

\* A request is accepted, and charged to the current month.
AcceptUsage ==
    /\ ~monthOver
    /\ usage + pending < MaxUsage
    /\ pending' = pending + 1
    /\ UNCHANGED <<runs, rollup, usage, monthOver, caller, pc, tx, faults>>

CommitUsage ==
    /\ pending > 0
    /\ pending' = pending - 1
    /\ usage'   = usage + 1
    /\ UNCHANGED <<runs, rollup, monthOver, caller, pc, tx, faults>>

NextMonth ==
    /\ ~monthOver
    /\ monthOver' = TRUE
    /\ UNCHANGED <<runs, rollup, usage, pending, caller, pc, tx, faults>>

Step(r) ==
    \/ Check(r) \/ Lock(r) \/ Count(r) \/ Insert(r) \/ Publish(r) \/ Sum(r) \/ Upsert(r)
    \/ Complete(r) \/ BreakDeadlock(r) \/ Fail(r) \/ End(r)

Next ==
    \/ \E r \in Runner : Begin(r) \/ Step(r) \/ Raise(r) \/ Crash(r)
    \/ GrowStale \/ AcceptUsage \/ CommitUsage \/ NextMonth

Spec == Init /\ [][Next]_vars

\* A runner that can go on does, one that waits for a lock gets its turn, the
\* job is started again and again, and time passes.  Only MaxFaults faults happen.
Fairness ==
    /\ \A r \in Runner : SF_vars(Step(r)) /\ SF_vars(Begin(r))
    /\ WF_vars(GrowStale)

FairSpec == Spec /\ Fairness
-----------------------------------------------------------------------------
(* What must hold.                                                         *)

TypeOK ==
    /\ runs      \in Seq(Run)
    /\ rollup    \in 0 .. MaxUsage
    /\ usage     \in Nat /\ pending \in Nat /\ usage + pending <= MaxUsage
    /\ monthOver \in BOOLEAN
    /\ caller    \in [Runner -> {"commits", "closes", "stepwise"}]
    /\ pc        \in [Runner -> {"idle", "check", "lock", "count", "insert", "publish", "sum",
                                 "upsert", "close", "fail", "end"}]
    /\ tx        \in [Runner -> Tx]
    /\ faults    \in 0 .. MaxFaults
    /\ \A r \in Runner : /\ pc[r] = "idle" => tx[r] = NoTx
                         /\ tx[r].lock <= Len(runs) /\ tx[r].row <= Len(runs)

Working(r) == tx[r].inserted \/ tx[r].row # 0
Overdue(r) == tx[r].row # 0 /\ runs[tx[r].row].stale

\* One runner at a time works on the period, whatever way the callers commit; only
\* one that has worked for 15 minutes and has shown its row may get company.
SingleWorker ==
    \A q, r \in Runner : q # r /\ Working(q) /\ Working(r) => Overdue(q) \/ Overdue(r)

\* No run that was overdue came to its end after all.  Its sum is as old as it is
\* and overwrites what the run that took over has written.
NoLateRun == \A i \in DOMAIN runs : runs[i].stale => runs[i].status # "completed"

\* The rollup contains at least what was committed before any run that is
\* recorded as completed began.
RollupCoversCompleted ==
    NoLateRun => \A i \in DOMAIN runs : runs[i].status = "completed" => rollup >= runs[i].floor

\* A run that was overdue and came to its end after all began when the month was closed.
LateRunsAreNew ==
    \A i \in DOMAIN runs : runs[i].stale /\ runs[i].status = "completed" => runs[i].past

\* Once a run has completed that began when the month was over and none of its
\* requests was still under way, the rollup is the sum of the usage events for
\* good, whatever other runs overlap it or follow, unless an overdue run that began
\* earlier completes: its sum may be older, and it overwrites the final one.
ClosedMonthIsSummed ==
    LateRunsAreNew /\ (\E i \in DOMAIN runs : runs[i].status = "completed" /\ runs[i].past)
        => rollup = usage

\* A run younger than 15 minutes is ended by its own runner only.
YoungRunsAreSafe ==
    [][ \A i \in Running :
           ~runs[i].stale /\ runs'[i].status # "running"
             => \E r \in Runner : tx[r].row = i /\ pc[r] = "end" ]_vars

\* A completed run stays completed, also when another runner is taking it for
\* crashed at that moment.
CompletedIsFinal ==
    [][ \A i \in DOMAIN runs :
           runs[i].status = "completed" => runs'[i].status = "completed" ]_vars

\* If any of the callers commits, the job is done some day: neither a runner that
\* crashes with its row 'running' nor one that never commits keeps the others from it.
JobGetsDone ==
    (\E r \in Runner : caller[r] # "closes") => <>(\E i \in DOMAIN runs : runs[i].status = "completed")
===============================================================================
