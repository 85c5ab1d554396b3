------------------------------- MODULE Metering -------------------------------
(***************************************************************************)
(* POST /generate: MeterService.record_usage and QuotaEnforcer against     *)
(* PostgreSQL at READ COMMITTED, run by a pool of server threads.          *)
(*                                                                         *)
(* One action is one database statement of a request, or the commit or     *)
(* rollback that ends it.  What other threads see is `counters' and        *)
(* `events', the committed rows.  What a thread's open transaction wrote   *)
(* is apart: its version of the one counter row it touches is row[t], and  *)
(* its usage event is resp[t] while pc[t] = "commit".  A thread that owns  *)
(* an uncommitted row or an uncommitted key makes the others wait, which   *)
(* is PostgreSQL's row lock and its unique-index wait.                     *)
(*                                                                         *)
(* A request may reach any thread at any time, so a client's retry while   *)
(* the first attempt still runs, after a lost answer, or after a crash is  *)
(* just another Receive.                                                   *)
(***************************************************************************)
EXTENDS Naturals

CONSTANTS
    Thread,                   \* threads that serve requests
    Tenant, Key,              \* tenants and their idempotency keys
    Payload,                  \* valid request bodies, up to their SHA-256 hash
    UsageType,                \* 'api_call', 'token'
    TypeOf, Quantity,         \* usage_type and quantity of a payload
    Plan,                     \* rows of the plans table
    PlanLimit,                \* plans.api_call_limit and plans.token_limit
    LastPeriod,               \* bound: billing months are 1 .. LastPeriod
    NoCounter, NoEvent, NoRequest

ASSUME TypeOfAssumption    == TypeOf \in [Payload -> UsageType]
ASSUME QuantityAssumption  == Quantity \in [Payload -> Nat \ {0}]
ASSUME PlanLimitAssumption == PlanLimit \in [Plan -> [UsageType -> Nat]]
ASSUME PeriodAssumption    == LastPeriod \in Nat \ {0}

Period    == 1 .. LastPeriod
Account   == Tenant \X UsageType \X Period      \* primary key of quota_counters
Operation == Tenant \X Key                      \* unique key of usage_events
Limits    == {PlanLimit[p][u] : p \in Plan, u \in UsageType} \ {0}
Counter   == [plan_limit : Limits, used : Nat]
Request   == [tenant : Tenant, key : Key, payload : Payload, period : Period]

\* A usage_events row with its response_payload.
Event     == [payload : Payload, period : Period, quota_used : Nat,
              quota_limit : Nat]

ASSUME NullAssumption == /\ NoCounter \notin Counter
                         /\ NoEvent \notin Event
                         /\ NoRequest \notin Request

VARIABLES
    period,      \* the current billing month (date.today)
    plan,        \* per tenant, the plan of its active subscription, else free
    counters,    \* committed rows of quota_counters
    events,      \* committed rows of usage_events
    pc,          \* per thread, the next statement of its request
    req,         \* per thread, the request it serves
    limit,       \* per thread, the result of get_plan_limit
    row,         \* per thread, the counter row its transaction wrote
    resp,        \* per thread, the response it is about to send
    answers      \* history: (operation, response) pairs sent with status 200

db     == <<counters, events>>
local  == <<pc, req, limit, row, resp>>
vars   == <<period, plan, counters, events, pc, req, limit, row, resp, answers>>

Refused == {"exceeded", "conflict", "error"}    \* 429, 422, 500

OpOf(t)      == <<req[t].tenant, req[t].key>>
TypeFor(t)   == TypeOf[req[t].payload]
AccountOf(t) == <<req[t].tenant, TypeFor(t), req[t].period>>
Asked(t)     == Quantity[req[t].payload]

\* t's open transaction wrote the counter row of account a.
Owns(t, a) == row[t] # NoCounter /\ AccountOf(t) = a

\* Mutant: row locks are not waited for.
RowsNeverLocked(t, a) == FALSE

OwnedByOther(t, a) == \E s \in Thread \ {t} : Owns(s, a)

\* Mutant: the insertion does not wait for another transaction's row of the key.
KeysNeverHeld(t) == FALSE

\* t would insert a key that another open transaction has inserted.
KeyHeldByOther(t) ==
    \E s \in Thread \ {t} : pc[s] = "commit" /\ OpOf(s) = OpOf(t)

\* Mutant: statements also see rows that others have not committed.
DirtyRead(t) ==
    IF OwnedByOther(t, AccountOf(t))
    THEN row[CHOOSE s \in Thread \ {t} : Owns(s, AccountOf(t))]
    ELSE IF row[t] # NoCounter THEN row[t] ELSE counters[AccountOf(t)]

\* The version of its counter row that a statement of t works on.
Visible(t) == IF row[t] # NoCounter THEN row[t] ELSE counters[AccountOf(t)]

\* Mutant: any unit left is room enough.
FitsByOne(t) == Visible(t).used < Visible(t).plan_limit

Fits(t) == Visible(t).used + Asked(t) <= Visible(t).plan_limit

\* The event row that record_usage builds from check_and_deduct's result.
NewEvent(t) == [payload |-> req[t].payload, period |-> req[t].period,
                quota_used |-> row[t].used, quota_limit |-> row[t].plan_limit]

Init ==
    /\ period   = 1
    /\ plan     \in [Tenant -> Plan]
    /\ counters = [a \in Account |-> NoCounter]
    /\ events   = [o \in Operation |-> NoEvent]
    /\ pc       = [t \in Thread |-> "idle"]
    /\ req      = [t \in Thread |-> NoRequest]
    /\ limit    = [t \in Thread |-> 0]
    /\ row      = [t \in Thread |-> NoCounter]
    /\ resp     = [t \in Thread |-> NoEvent]
    /\ answers  = {}

Goto(t, l) == pc' = [pc EXCEPT ![t] = l]

\* Mutant: the thread forgets to let go of its request.
EndRequestStale(t) ==
    /\ Goto(t, "idle")
    /\ limit' = [limit EXCEPT ![t] = 0]
    /\ row'   = [row EXCEPT ![t] = NoCounter]
    /\ resp'  = [resp EXCEPT ![t] = NoEvent]
    /\ UNCHANGED req

\* The request ends; closing the session rolls back what it did not commit.
EndRequest(t) ==
    /\ Goto(t, "idle")
    /\ req'   = [req EXCEPT ![t] = NoRequest]
    /\ limit' = [limit EXCEPT ![t] = 0]
    /\ row'   = [row EXCEPT ![t] = NoCounter]
    /\ resp'  = [resp EXCEPT ![t] = NoEvent]
-----------------------------------------------------------------------------
(* The steps of a request.                                                 *)

\* A validated request starts; the billing month it is charged to is read here.
Receive(t) ==
    /\ pc[t] = "idle"
    /\ \E r \in [tenant : Tenant, key : Key, payload : Payload, period : {period}] :
          req' = [req EXCEPT ![t] = r]
    /\ Goto(t, "lookup")
    /\ UNCHANGED <<period, plan, db, limit, row, resp, answers>>

\* Same key, same payload: the stored response is replayed.  Same key, other
\* payload: IdempotencyConflictError.
ReplayOrConflict(t) ==
    /\ events[OpOf(t)] # NoEvent
    /\ \/ /\ events[OpOf(t)].payload = req[t].payload
          /\ resp' = [resp EXCEPT ![t] = events[OpOf(t)]]
          /\ Goto(t, "replay")
       \/ /\ events[OpOf(t)].payload # req[t].payload
          /\ Goto(t, "conflict")
          /\ UNCHANGED resp
    /\ UNCHANGED <<period, plan, db, req, limit, row, answers>>

\* Step 1: the idempotency lookup.
LookupIdempotencyKey(t) ==
    /\ pc[t] = "lookup"
    /\ \/ ReplayOrConflict(t)
       \/ /\ events[OpOf(t)] = NoEvent
          /\ Goto(t, "limit")
          /\ UNCHANGED <<period, plan, db, req, limit, row, resp, answers>>

GetPlanLimit(t) ==
    /\ pc[t] = "limit"
    /\ limit' = [limit EXCEPT ![t] = PlanLimit[plan[req[t].tenant]][TypeFor(t)]]
    /\ Goto(t, "ensure")
    /\ UNCHANGED <<period, plan, db, req, row, resp, answers>>

\* INSERT ... ON CONFLICT DO NOTHING: waits for another transaction's
\* uncommitted row, keeps a committed one, and fails the CHECK plan_limit > 0.
EnsureQuotaCounter(t) ==
    /\ pc[t] = "ensure"
    /\ \/ /\ limit[t] = 0
          /\ Goto(t, "error")
          /\ UNCHANGED row
       \/ /\ limit[t] > 0
          /\ counters[AccountOf(t)] # NoCounter
          /\ Goto(t, "deduct")
          /\ UNCHANGED row
       \/ /\ limit[t] > 0
          /\ counters[AccountOf(t)] = NoCounter
          /\ ~OwnedByOther(t, AccountOf(t))
          /\ row' = [row EXCEPT ![t] = [plan_limit |-> limit[t], used |-> 0]]
          /\ Goto(t, "deduct")
    /\ UNCHANGED <<period, plan, db, req, limit, resp, answers>>

\* UPDATE ... WHERE used + quantity <= plan_limit RETURNING.  A committed row
\* without room is passed over at once; a row with room must be locked first,
\* and the condition is decided again on what its last owner committed.
CheckAndDeduct(t) ==
    /\ pc[t] = "deduct"
    /\ \/ /\ Fits(t)
          /\ ~OwnedByOther(t, AccountOf(t))
          /\ row' = [row EXCEPT ![t] = [plan_limit |-> Visible(t).plan_limit,
                                        used       |-> Visible(t).used + Asked(t)]]
          /\ Goto(t, "insert")
       \/ /\ ~Fits(t)
          /\ Goto(t, "exceeded")
          /\ UNCHANGED row
    /\ UNCHANGED <<period, plan, db, req, limit, resp, answers>>

\* Mutant: the savepoint is not rolled back, and the deduction is kept.
InsertEventKeepsDeduction(t) ==
    /\ pc[t] = "insert"
    /\ ~KeyHeldByOther(t)
    /\ \/ /\ events[OpOf(t)] = NoEvent
          /\ resp' = [resp EXCEPT ![t] = NewEvent(t)]
          /\ Goto(t, "commit")
       \/ /\ events[OpOf(t)] # NoEvent
          /\ Goto(t, "refetch")
          /\ UNCHANGED resp
    /\ UNCHANGED <<period, plan, db, req, limit, row, answers>>

\* Mutant: no unique constraint on (tenant_id, idempotency_key).
InsertEventAnyway(t) ==
    /\ pc[t] = "insert"
    /\ ~KeyHeldByOther(t)
    /\ resp' = [resp EXCEPT ![t] = NewEvent(t)]
    /\ Goto(t, "commit")
    /\ UNCHANGED <<period, plan, db, req, limit, row, answers>>

\* The flush of the usage event: waits for another transaction's uncommitted
\* row of the same key.  When the key is taken, the IntegrityError handler
\* rolls the savepoint back, and the deduction and its row lock with it.
InsertEvent(t) ==
    /\ pc[t] = "insert"
    /\ ~KeyHeldByOther(t)
    /\ \/ /\ events[OpOf(t)] = NoEvent
          /\ resp' = [resp EXCEPT ![t] = NewEvent(t)]
          /\ Goto(t, "commit")
          /\ UNCHANGED row
       \/ /\ events[OpOf(t)] # NoEvent
          /\ row' = [row EXCEPT ![t] = NoCounter]
          /\ Goto(t, "refetch")
          /\ UNCHANGED resp
    /\ UNCHANGED <<period, plan, db, req, limit, answers>>

FetchWinner(t) == pc[t] = "refetch" /\ ReplayOrConflict(t)

\* Mutant: the route answers without db.commit.
CommitForgotten(t) ==
    /\ pc[t] \in {"commit", "replay"}
    /\ row' = [row EXCEPT ![t] = NoCounter]
    /\ Goto(t, "answer")
    /\ UNCHANGED <<period, plan, db, req, limit, resp, answers>>

\* db.commit ends record_usage's transaction, on the replay path too, where it
\* has nothing to write.
Commit(t) ==
    /\ pc[t] \in {"commit", "replay"}
    /\ counters' = IF row[t] = NoCounter THEN counters
                   ELSE [counters EXCEPT ![AccountOf(t)] = row[t]]
    /\ events'   = IF pc[t] = "commit" THEN [events EXCEPT ![OpOf(t)] = resp[t]]
                                       ELSE events
    /\ row'      = [row EXCEPT ![t] = NoCounter]
    /\ Goto(t, "answer")
    /\ UNCHANGED <<period, plan, req, limit, resp, answers>>

Answer(t) ==
    /\ pc[t] = "answer"
    /\ answers' = answers \cup {<<OpOf(t), resp[t]>>}
    /\ EndRequest(t)
    /\ UNCHANGED <<period, plan, db>>

\* Mutant: the session of a refused request stays open.
RejectKeepsSession(t) ==
    /\ pc[t] \in Refused
    /\ Goto(t, "idle")
    /\ UNCHANGED <<period, plan, db, req, limit, row, resp, answers>>

\* An exception left the route: get_db rolls back, the handler answers
\* 429, 422 or 500.
Reject(t) ==
    /\ pc[t] \in Refused
    /\ EndRequest(t)
    /\ UNCHANGED <<period, plan, db, answers>>

\* The process, its connection or the client's connection is lost.
Crash(t) ==
    /\ pc[t] # "idle"
    /\ EndRequest(t)
    /\ UNCHANGED <<period, plan, db, answers>>
-----------------------------------------------------------------------------
(* The environment.                                                        *)

\* A Stripe webhook activates, downgrades or cancels a subscription.
ChangePlan ==
    /\ \E n \in Tenant, p \in Plan : p # plan[n] /\ plan' = [plan EXCEPT ![n] = p]
    /\ UNCHANGED <<period, db, local, answers>>

NextMonth ==
    /\ period < LastPeriod
    /\ period' = period + 1
    /\ UNCHANGED <<plan, db, local, answers>>

Step(t) ==
    \/ LookupIdempotencyKey(t) \/ GetPlanLimit(t) \/ EnsureQuotaCounter(t)
    \/ CheckAndDeduct(t) \/ InsertEvent(t) \/ FetchWinner(t)
    \/ Commit(t) \/ Answer(t) \/ Reject(t)

Next ==
    \/ \E t \in Thread : Receive(t) \/ Step(t) \/ Crash(t)
    \/ ChangePlan
    \/ NextMonth

Spec == Init /\ [][Next]_vars

\* A thread that can run does; one that waits for a row or a key is served by
\* PostgreSQL's lock queue, so it is not overtaken for ever.  Requests, crashes,
\* plan changes and the calendar are not owed by anyone.
Fairness ==
    \A t \in Thread : /\ WF_vars(Step(t))
                      /\ SF_vars(EnsureQuotaCounter(t))
                      /\ SF_vars(CheckAndDeduct(t))
                      /\ SF_vars(InsertEvent(t))

FairSpec == Spec /\ Fairness
-----------------------------------------------------------------------------
(* What must hold.                                                         *)

PC == {"idle", "lookup", "limit", "ensure", "deduct", "insert", "commit",
       "refetch", "replay", "answer"} \cup Refused

\* Every variable keeps its type, and a request is at hand exactly while a
\* thread is busy with one.
TypeOK ==
    /\ period   \in Period
    /\ plan     \in [Tenant -> Plan]
    /\ counters \in [Account -> Counter \cup {NoCounter}]
    /\ events   \in [Operation -> Event \cup {NoEvent}]
    /\ pc       \in [Thread -> PC]
    /\ req      \in [Thread -> Request \cup {NoRequest}]
    /\ limit    \in [Thread -> Limits \cup {0}]
    /\ row      \in [Thread -> Counter \cup {NoCounter}]
    /\ resp     \in [Thread -> Event \cup {NoEvent}]
    /\ answers  \subseteq Operation \X Event
    /\ \A t \in Thread : pc[t] = "idle" <=> req[t] = NoRequest

\* The usage events charged to an account.
EventsOf(a) ==
    {o \in Operation : /\ events[o] # NoEvent
                       /\ a = <<o[1], TypeOf[events[o].payload], events[o].period>>}

\* The units of its account that a usage event paid for: the last Quantity
\* units below the quota_used that its response reports.
Units(e) == (e.quota_used - Quantity[e.payload] + 1) .. e.quota_used

UsedUnits(a) == IF counters[a] = NoCounter THEN {} ELSE 1 .. counters[a].used

\* However requests on one counter interleave, its committed usage never passes
\* the limit it was opened with (the UPDATE of check_and_deduct).
QuotaRespected ==
    \A a \in Account :
        counters[a] # NoCounter => counters[a].used <= counters[a].plan_limit

\* The committed usage events of an account tile its counter: no unit is paid
\* for twice, none is counted that no event paid for, and none is lost - so a
\* duplicate, a savepoint rollback or a crash never leaves a deduction behind
\* or an event uncounted, and used is the sum of the quantities.
EventsTileCounter ==
    \A a \in Account :
        /\ UsedUnits(a) = UNION {Units(events[o]) : o \in EventsOf(a)}
        /\ \A o1, o2 \in EventsOf(a) :
              o1 # o2 => Units(events[o1]) \cap Units(events[o2]) = {}

\* Whoever was answered 200 for a key was told what is durably stored for it,
\* in particular the same thing as every other caller (db.commit comes before
\* the response; a replay returns response_payload verbatim).
AnswersAreStored == \A x \in answers : events[x[1]] = x[2]

\* A refusal is deserved and stays so until the thread reports it: 429 only
\* when the committed row, or the limit of an account still unopened, has no
\* room for the request; 422 only when the key is stored with another payload.
\* Neither is ever decided on another transaction's uncommitted write.
RefusalDeserved(t) ==
    /\ pc[t] = "exceeded" =>
          IF counters[AccountOf(t)] = NoCounter
          THEN Asked(t) > limit[t]
          ELSE counters[AccountOf(t)].used + Asked(t)
                 > counters[AccountOf(t)].plan_limit
    /\ pc[t] = "conflict" => /\ events[OpOf(t)] # NoEvent
                             /\ events[OpOf(t)].payload # req[t].payload

RefusalsDeserved == \A t \in Thread : RefusalDeserved(t)

\* The counter row t is about to commit is the committed one, moved on by the
\* quantity of t's request and still within its limit.
Deducted(t) ==
    /\ row[t] # NoCounter
    /\ row[t].used <= row[t].plan_limit
    /\ IF counters[AccountOf(t)] = NoCounter
       THEN row[t].used = Asked(t)
       ELSE /\ row[t].used = counters[AccountOf(t)].used + Asked(t)
            /\ row[t].plan_limit = counters[AccountOf(t)].plan_limit

\* What the next step of a request may rely on, whatever the others do meanwhile.
RelyOn(t) ==
    /\ row[t] # NoCounter => pc[t] \in {"deduct", "insert", "commit", "exceeded"}
    /\ pc[t] \in {"deduct", "exceeded"} =>
          IF row[t] = NoCounter
          THEN counters[AccountOf(t)] # NoCounter
          ELSE /\ counters[AccountOf(t)] = NoCounter
               /\ row[t] = [plan_limit |-> limit[t], used |-> 0]
    /\ pc[t] \in {"insert", "commit"} => Deducted(t)
    /\ pc[t] = "commit" => events[OpOf(t)] = NoEvent /\ resp[t] = NewEvent(t)
    /\ pc[t] = "refetch" => events[OpOf(t)] # NoEvent
    /\ pc[t] \in {"replay", "answer"} =>
          resp[t] # NoEvent /\ events[OpOf(t)] = resp[t]

StepsRelyOn == \A t \in Thread : RelyOn(t)

\* One transaction at a time owns the uncommitted version of a counter row ...
OneOwnerPerCounter ==
    \A s, t \in Thread :
        s # t /\ row[s] # NoCounter /\ row[t] # NoCounter => AccountOf(s) # AccountOf(t)

\* ... and one the uncommitted event of a key.
OneWriterPerKey ==
    \A s, t \in Thread :
        s # t /\ pc[s] = "commit" /\ pc[t] = "commit" => OpOf(s) # OpOf(t)

\* The inductive invariant of the proofs.
IInv ==
    /\ TypeOK
    /\ StepsRelyOn
    /\ OneOwnerPerCounter
    /\ OneWriterPerKey
    /\ QuotaRespected
    /\ EventsTileCounter
    /\ AnswersAreStored
    /\ RefusalsDeserved

\* No step takes back or alters a committed usage event, lowers a committed
\* counter or changes the limit it was opened with.
BooksOnlyGrow ==
    [][ /\ \A o \in Operation : events[o] # NoEvent => events'[o] = events[o]
        /\ \A a \in Account : counters[a] # NoCounter =>
              /\ counters'[a] # NoCounter
              /\ counters'[a].plan_limit = counters[a].plan_limit
              /\ counters'[a].used >= counters[a].used ]_vars

\* Every request is answered, refused or cut off: no interleaving of row locks,
\* key waits and savepoint rollbacks leaves threads waiting for ever.
EveryRequestEnds == \A t \in Thread : pc[t] # "idle" ~> pc[t] = "idle"

\* Metering implements the abstract ledger: the unit numbers an operation buys
\* are the ones its counter passed over, and the size of an account is the
\* limit of its committed counter.
SaleOf(e) == [payload |-> e.payload, period |-> e.period, units |-> Units(e)]

Ledger == INSTANCE UsageLedger WITH
    Quotas  <- Limits,
    NotSold <- NoEvent,
    NotOpen <- NoCounter,
    sold    <- [o \in Operation |-> IF events[o] = NoEvent THEN NoEvent
                                                         ELSE SaleOf(events[o])],
    quota   <- [a \in Account |-> IF counters[a] = NoCounter THEN NoCounter
                                  ELSE counters[a].plan_limit],
    told    <- {<<x[1], SaleOf(x[2])>> : x \in answers}

ASSUME SaleAssumption == NoEvent \notin Ledger!Sale

ImplementsLedger == Ledger!LedgerSpec
===============================================================================
