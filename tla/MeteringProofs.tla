---------------------------- MODULE MeteringProofs ----------------------------
(***************************************************************************)
(* Proofs about Metering, for any threads, tenants, keys, payloads, plans  *)
(* and months.                                                             *)
(***************************************************************************)
EXTENDS Metering, FiniteSetTheorems, TLAPS

\* What a busy thread works on is well typed.
LEMMA BusyTypes ==
    ASSUME TypeOK, NEW t \in Thread, pc[t] # "idle"
    PROVE  /\ req[t] \in Request
           /\ OpOf(t) \in Operation
           /\ TypeFor(t) \in UsageType
           /\ AccountOf(t) \in Account
           /\ Asked(t) \in Nat \ {0}
<1>1. req[t] \in Request
  BY DEF TypeOK
<1>2. /\ req[t].tenant \in Tenant /\ req[t].key \in Key
      /\ req[t].payload \in Payload /\ req[t].period \in Period
  BY <1>1 DEF Request
<1>3. TypeFor(t) \in UsageType /\ Asked(t) \in Nat \ {0}
  BY <1>2, TypeOfAssumption, QuantityAssumption DEF TypeFor, Asked
<1> QED
  BY <1>1, <1>2, <1>3 DEF OpOf, AccountOf, Operation, Account

LEMMA LimitsAreNat == Limits \subseteq Nat \ {0}
BY PlanLimitAssumption DEF Limits

LEMMA LimitIsNat == ASSUME TypeOK, NEW t \in Thread PROVE limit[t] \in Nat
<1>1. limit[t] \in Limits \/ limit[t] = 0
  BY DEF TypeOK
<1>2. CASE limit[t] \in Limits
  BY <1>2, LimitsAreNat
<1>3. CASE limit[t] = 0
  BY <1>3
<1> QED
  BY <1>1, <1>2, <1>3

LEMMA NewEventType ==
    ASSUME NEW t \in Thread, row[t] \in Counter, req[t] \in Request
    PROVE  NewEvent(t) \in Event
<1>1. row[t].used \in Nat /\ row[t].plan_limit \in Nat
  BY LimitsAreNat DEF Counter
<1>2. req[t].payload \in Payload /\ req[t].period \in Period
  BY DEF Request
<1> QED
  BY <1>1, <1>2 DEF NewEvent, Event

LEMMA InitTypeOK == Init => TypeOK
<1> SUFFICES ASSUME Init PROVE TypeOK
  OBVIOUS
<1>1. period \in Period
  BY PeriodAssumption DEF Init, Period
<1>2. \A t \in Thread : pc[t] = "idle" <=> req[t] = NoRequest
  BY DEF Init
<1> QED
  BY <1>1, <1>2 DEF Init, TypeOK, PC

\* Types hold only together with what the steps rely on: the UPDATE needs a
\* counter to work on, and a response must exist before it is sent.
LEMMA TypeOKStep == TypeOK /\ StepsRelyOn /\ [Next]_vars => TypeOK'
<1> SUFFICES ASSUME TypeOK, StepsRelyOn, [Next]_vars PROVE TypeOK'
  OBVIOUS
<1> USE DEF TypeOK, PC, Refused, Goto, db, local
<1>1. ASSUME NEW t \in Thread, Receive(t) PROVE TypeOK'
  <2>1. PICK r \in [tenant : Tenant, key : Key, payload : Payload, period : {period}] :
           req' = [req EXCEPT ![t] = r]
    BY <1>1 DEF Receive
  <2>2. r \in Request /\ r # NoRequest
    BY <2>1, NullAssumption DEF Request
  <2> QED
    BY <1>1, <2>1, <2>2 DEF Receive
<1>2. ASSUME NEW t \in Thread, ReplayOrConflict(t), pc[t] # "idle" PROVE TypeOK'
  <2>1. OpOf(t) \in Operation
    BY <1>2, BusyTypes
  <2> QED
    BY <1>2, <2>1 DEF ReplayOrConflict
<1>3. ASSUME NEW t \in Thread, LookupIdempotencyKey(t) PROVE TypeOK'
  BY <1>2, <1>3 DEF LookupIdempotencyKey
<1>4. ASSUME NEW t \in Thread, GetPlanLimit(t) PROVE TypeOK'
  <2>1. req[t] \in Request /\ TypeFor(t) \in UsageType
    BY <1>4, BusyTypes DEF GetPlanLimit
  <2>2. plan[req[t].tenant] \in Plan
    BY <2>1 DEF Request
  <2>3. PlanLimit[plan[req[t].tenant]][TypeFor(t)] \in Limits \cup {0}
    BY <2>1, <2>2 DEF Limits
  <2> QED
    BY <1>4, <2>3 DEF GetPlanLimit
<1>5. ASSUME NEW t \in Thread, EnsureQuotaCounter(t) PROVE TypeOK'
  <2>1. limit[t] > 0 => [plan_limit |-> limit[t], used |-> 0] \in Counter
    BY DEF Counter, Limits
  <2> QED
    BY <1>5, <2>1 DEF EnsureQuotaCounter
<1>6. ASSUME NEW t \in Thread, CheckAndDeduct(t) PROVE TypeOK'
  <2>1. AccountOf(t) \in Account /\ Asked(t) \in Nat
    BY <1>6, BusyTypes DEF CheckAndDeduct
  <2>2. Visible(t) \in Counter
    BY <1>6, <2>1 DEF CheckAndDeduct, StepsRelyOn, RelyOn, Visible
  <2>3. [plan_limit |-> Visible(t).plan_limit,
        used |-> Visible(t).used + Asked(t)] \in Counter
    BY <2>1, <2>2 DEF Counter
  <2> QED
    BY <1>6, <2>3 DEF CheckAndDeduct
<1>7. ASSUME NEW t \in Thread, InsertEvent(t) PROVE TypeOK'
  <2>1. req[t] \in Request
    BY <1>7, BusyTypes DEF InsertEvent
  <2>2. row[t] \in Counter
    BY <1>7 DEF InsertEvent, StepsRelyOn, RelyOn, Deducted
  <2>3. NewEvent(t) \in Event
    BY <2>1, <2>2, NewEventType
  <2> QED
    BY <1>7, <2>3 DEF InsertEvent
<1>8. ASSUME NEW t \in Thread, FetchWinner(t) PROVE TypeOK'
  BY <1>2, <1>8 DEF FetchWinner
<1>9. ASSUME NEW t \in Thread, Commit(t) PROVE TypeOK'
  BY <1>9 DEF Commit
<1>10. ASSUME NEW t \in Thread, Answer(t) PROVE TypeOK'
  <2>1. OpOf(t) \in Operation
    BY <1>10, BusyTypes DEF Answer
  <2>2. resp[t] \in Event
    BY <1>10 DEF Answer, StepsRelyOn, RelyOn
  <2>3. answers' \subseteq Operation \X Event
    BY <1>10, <2>1, <2>2 DEF Answer
  <2> QED
    BY <1>10, <2>3 DEF Answer, EndRequest
<1>11. ASSUME NEW t \in Thread, Reject(t) PROVE TypeOK'
  BY <1>11 DEF Reject, EndRequest
<1>12. ASSUME NEW t \in Thread, Crash(t) PROVE TypeOK'
  BY <1>12 DEF Crash, EndRequest
<1>13. CASE ChangePlan
  BY <1>13 DEF ChangePlan
<1>14. CASE NextMonth
  BY <1>14, PeriodAssumption DEF NextMonth, Period
<1>15. CASE UNCHANGED vars
  BY <1>15 DEF vars
<1> QED
  BY <1>1, <1>3, <1>4, <1>5, <1>6, <1>7, <1>8, <1>9, <1>10, <1>11, <1>12,
     <1>13, <1>14, <1>15 DEF Next, Step

------------------------------------------------------------------------------
(* A step of one thread leaves the others alone, and only the commit of a   *)
(* new event writes to the database.                                        *)

ThreadStep(t) == Receive(t) \/ Step(t) \/ Crash(t)

Charge(t) == pc[t] = "commit" /\ Commit(t)

LEMMA OthersQuiet ==
    ASSUME TypeOK, NEW t \in Thread, ThreadStep(t), NEW s \in Thread, s # t
    PROVE  /\ pc'[s] = pc[s] /\ req'[s] = req[s] /\ limit'[s] = limit[s]
           /\ row'[s] = row[s] /\ resp'[s] = resp[s]
<1> USE DEF TypeOK, Goto, EndRequest
<1>1. CASE Receive(t)
  BY <1>1 DEF Receive
<1>2. CASE LookupIdempotencyKey(t) \/ FetchWinner(t)
  BY <1>2 DEF LookupIdempotencyKey, FetchWinner, ReplayOrConflict
<1>3. CASE GetPlanLimit(t)
  BY <1>3 DEF GetPlanLimit
<1>4. CASE EnsureQuotaCounter(t)
  BY <1>4 DEF EnsureQuotaCounter
<1>5. CASE CheckAndDeduct(t)
  BY <1>5 DEF CheckAndDeduct
<1>6. CASE InsertEvent(t)
  BY <1>6 DEF InsertEvent
<1>7. CASE Commit(t)
  BY <1>7 DEF Commit
<1>8. CASE Answer(t) \/ Reject(t) \/ Crash(t)
  BY <1>8 DEF Answer, Reject, Crash
<1> QED
  BY <1>1, <1>2, <1>3, <1>4, <1>5, <1>6, <1>7, <1>8 DEF ThreadStep, Step

LEMMA OnlyCommitWrites ==
    ASSUME StepsRelyOn, NEW t \in Thread, ThreadStep(t), ~Charge(t)
    PROVE  UNCHANGED <<counters, events>>
<1>1. CASE Commit(t)
  BY <1>1 DEF Commit, Charge, StepsRelyOn, RelyOn
<1>2. CASE ~Commit(t)
  BY <1>2 DEF ThreadStep, Step, Receive, LookupIdempotencyKey, FetchWinner,
              ReplayOrConflict, GetPlanLimit, EnsureQuotaCounter, CheckAndDeduct,
              InsertEvent, Answer, Reject, Crash, db
<1> QED
  BY <1>1, <1>2

\* What AccountOf, OpOf and Asked say of a thread depends on its request alone.
LEMMA SameRequest ==
    ASSUME NEW s \in Thread, req'[s] = req[s]
    PROVE  /\ AccountOf(s)' = AccountOf(s) /\ OpOf(s)' = OpOf(s)
           /\ Asked(s)' = Asked(s)
BY DEF AccountOf, OpOf, Asked, TypeFor

LEMMA OneOwnerStep == IInv /\ [Next]_vars => OneOwnerPerCounter'
<1> SUFFICES ASSUME IInv, [Next]_vars,
                    NEW a \in Thread, NEW b \in Thread, a # b,
                    row'[a] # NoCounter, row'[b] # NoCounter
             PROVE  AccountOf(a)' # AccountOf(b)'
  BY DEF OneOwnerPerCounter
<1> USE DEF IInv
\* The thread that moves keeps its claim, or makes one where nobody else has.
<1>1. ASSUME NEW t \in Thread, ThreadStep(t), row'[t] # NoCounter
      PROVE  /\ req'[t] = req[t]
             /\ row[t] # NoCounter \/ ~OwnedByOther(t, AccountOf(t))
  <2> USE DEF TypeOK, Goto, EndRequest
  <2>1. CASE Receive(t)
    BY <1>1, <2>1 DEF Receive, StepsRelyOn, RelyOn
  <2>2. CASE LookupIdempotencyKey(t) \/ FetchWinner(t)
    BY <1>1, <2>2 DEF LookupIdempotencyKey, FetchWinner, ReplayOrConflict
  <2>3. CASE GetPlanLimit(t)
    BY <1>1, <2>3 DEF GetPlanLimit
  <2>4. CASE EnsureQuotaCounter(t)
    BY <1>1, <2>4 DEF EnsureQuotaCounter
  <2>5. CASE CheckAndDeduct(t)
    BY <1>1, <2>5 DEF CheckAndDeduct
  <2>6. CASE InsertEvent(t)
    BY <1>1, <2>6 DEF InsertEvent
  <2>7. CASE Commit(t) \/ Answer(t) \/ Reject(t) \/ Crash(t)
    BY <1>1, <2>7 DEF Commit, Answer, Reject, Crash
  <2> QED
    BY <1>1, <2>1, <2>2, <2>3, <2>4, <2>5, <2>6, <2>7 DEF ThreadStep, Step
<1>2. ASSUME NEW t \in Thread, ThreadStep(t) PROVE AccountOf(a)' # AccountOf(b)'
  <2>1. ASSUME NEW s \in Thread, s # t, row'[s] # NoCounter, row'[t] # NoCounter
        PROVE  AccountOf(s)' # AccountOf(t)'
    <3>1. row'[s] = row[s] /\ req'[s] = req[s] /\ req'[t] = req[t]
      BY <1>1, <1>2, <2>1, OthersQuiet
    <3>2. AccountOf(s)' = AccountOf(s) /\ AccountOf(t)' = AccountOf(t)
      BY <3>1, SameRequest
    <3>3. AccountOf(s) # AccountOf(t)
      BY <1>1, <1>2, <2>1, <3>1 DEF OneOwnerPerCounter, OwnedByOther, Owns
    <3> QED
      BY <3>2, <3>3
  <2>2. CASE a # t /\ b # t
    <3>1. /\ row'[a] = row[a] /\ req'[a] = req[a]
          /\ row'[b] = row[b] /\ req'[b] = req[b]
      BY <1>2, <2>2, OthersQuiet
    <3> QED
      BY <3>1, SameRequest DEF OneOwnerPerCounter
  <2> QED
    BY <2>1, <2>2
<1>3. CASE ChangePlan \/ NextMonth \/ UNCHANGED vars
  <2>1. UNCHANGED <<row, req>>
    BY <1>3 DEF ChangePlan, NextMonth, vars, local
  <2> QED
    BY <2>1, SameRequest DEF OneOwnerPerCounter
<1> QED
  BY <1>2, <1>3 DEF Next, ThreadStep

LEMMA OneWriterStep == IInv /\ [Next]_vars => OneWriterPerKey'
<1> SUFFICES ASSUME IInv, [Next]_vars,
                    NEW a \in Thread, NEW b \in Thread, a # b,
                    pc'[a] = "commit", pc'[b] = "commit"
             PROVE  OpOf(a)' # OpOf(b)'
  BY DEF OneWriterPerKey
<1> USE DEF IInv
\* Only the insertion of the event brings a thread to its commit.
<1>1. ASSUME NEW t \in Thread, ThreadStep(t), pc'[t] = "commit"
      PROVE  InsertEvent(t) /\ req'[t] = req[t]
  <2> USE DEF TypeOK, PC, Goto, EndRequest
  <2>1. CASE Receive(t)
    BY <1>1, <2>1 DEF Receive
  <2>2. CASE LookupIdempotencyKey(t) \/ FetchWinner(t)
    BY <1>1, <2>2 DEF LookupIdempotencyKey, FetchWinner, ReplayOrConflict
  <2>3. CASE GetPlanLimit(t) \/ EnsureQuotaCounter(t) \/ CheckAndDeduct(t)
    BY <1>1, <2>3 DEF GetPlanLimit, EnsureQuotaCounter, CheckAndDeduct
  <2>4. CASE InsertEvent(t)
    BY <1>1, <2>4 DEF InsertEvent
  <2>5. CASE Commit(t) \/ Answer(t) \/ Reject(t) \/ Crash(t)
    BY <1>1, <2>5 DEF Commit, Answer, Reject, Crash
  <2> QED
    BY <1>1, <2>1, <2>2, <2>3, <2>4, <2>5 DEF ThreadStep, Step
<1>2. ASSUME NEW t \in Thread, ThreadStep(t) PROVE OpOf(a)' # OpOf(b)'
  <2>1. ASSUME NEW s \in Thread, s # t, pc'[s] = "commit", pc'[t] = "commit"
        PROVE  OpOf(s)' # OpOf(t)'
    <3>1. InsertEvent(t) /\ pc[s] = "commit" /\ req'[s] = req[s] /\ req'[t] = req[t]
      BY <1>1, <1>2, <2>1, OthersQuiet
    <3> QED
      BY <3>1, <2>1, SameRequest DEF InsertEvent, KeyHeldByOther
  <2>2. CASE a # t /\ b # t
    <3>1. /\ pc'[a] = pc[a] /\ req'[a] = req[a]
          /\ pc'[b] = pc[b] /\ req'[b] = req[b]
      BY <1>2, <2>2, OthersQuiet
    <3> QED
      BY <3>1, SameRequest DEF OneWriterPerKey
  <2> QED
    BY <2>1, <2>2
<1>3. CASE ChangePlan \/ NextMonth \/ UNCHANGED vars
  <2>1. UNCHANGED <<pc, req>>
    BY <1>3 DEF ChangePlan, NextMonth, vars, local
  <2> QED
    BY <2>1, SameRequest DEF OneWriterPerKey
<1> QED
  BY <1>2, <1>3 DEF Next, ThreadStep

------------------------------------------------------------------------------
(* What the steps of a request rely on stays true.                          *)

\* A commit by t touches no counter and no key that a waiting thread s holds.
LEMMA CommitElsewhere ==
    ASSUME IInv, NEW t \in Thread, Charge(t), NEW s \in Thread, s # t, pc[s] # "idle"
    PROVE  /\ row[s] # NoCounter => counters'[AccountOf(s)] = counters[AccountOf(s)]
           /\ counters[AccountOf(s)] # NoCounter => counters'[AccountOf(s)] # NoCounter
           /\ pc[s] = "commit" => events'[OpOf(s)] = events[OpOf(s)]
           /\ events[OpOf(s)] # NoEvent => events'[OpOf(s)] = events[OpOf(s)]
<1> USE DEF IInv
<1>1. /\ AccountOf(t) \in Account /\ OpOf(t) \in Operation
      /\ AccountOf(s) \in Account /\ OpOf(s) \in Operation
  BY BusyTypes DEF Charge
<1>2. row[t] # NoCounter /\ events[OpOf(t)] = NoEvent
  BY DEF Charge, StepsRelyOn, RelyOn, Deducted
<1>3. /\ counters' = [counters EXCEPT ![AccountOf(t)] = row[t]]
      /\ events'   = [events EXCEPT ![OpOf(t)] = resp[t]]
  BY <1>2 DEF Charge, Commit
<1>4. row[s] # NoCounter => AccountOf(s) # AccountOf(t)
  BY <1>2 DEF OneOwnerPerCounter
<1>5. pc[s] = "commit" => OpOf(s) # OpOf(t)
  BY DEF OneWriterPerKey, Charge
<1> QED
  BY <1>1, <1>2, <1>3, <1>4, <1>5 DEF TypeOK

LEMMA RelyOnOther ==
    ASSUME IInv, NEW t \in Thread, ThreadStep(t), NEW s \in Thread, s # t
    PROVE  RelyOn(s)'
<1> USE DEF IInv
<1>1. /\ pc'[s] = pc[s] /\ req'[s] = req[s] /\ limit'[s] = limit[s]
      /\ row'[s] = row[s] /\ resp'[s] = resp[s]
  BY OthersQuiet
<1>2. /\ AccountOf(s)' = AccountOf(s) /\ OpOf(s)' = OpOf(s) /\ Asked(s)' = Asked(s)
  BY <1>1, SameRequest
<1>3. NewEvent(s)' = NewEvent(s)
  BY <1>1 DEF NewEvent
<1>4. RelyOn(s)
  BY DEF StepsRelyOn
<1>5. CASE ~Charge(t)
  <2>1. counters' = counters /\ events' = events
    BY <1>5, OnlyCommitWrites
  <2> QED
    BY <1>1, <1>2, <1>3, <1>4, <2>1 DEF RelyOn, Deducted
<1>6. CASE Charge(t)
  <2>1. CASE pc[s] = "idle"
    BY <1>1, <1>4, <2>1 DEF RelyOn
  <2>2. CASE pc[s] # "idle"
    <3>1. /\ row[s] # NoCounter => counters'[AccountOf(s)] = counters[AccountOf(s)]
          /\ counters[AccountOf(s)] # NoCounter => counters'[AccountOf(s)] # NoCounter
          /\ pc[s] = "commit" => events'[OpOf(s)] = events[OpOf(s)]
          /\ events[OpOf(s)] # NoEvent => events'[OpOf(s)] = events[OpOf(s)]
      BY <1>6, <2>2, CommitElsewhere
    <3>2. pc[s] \in {"insert", "commit"} => Deducted(s)'
      BY <1>1, <1>2, <1>4, <3>1 DEF RelyOn, Deducted
    <3>3. pc[s] \in {"replay", "answer"} => events'[OpOf(s)] = resp[s]
      BY <1>4, <3>1 DEF RelyOn
    <3> QED
      BY <1>1, <1>2, <1>3, <1>4, <3>1, <3>2, <3>3 DEF RelyOn
  <2> QED
    BY <2>1, <2>2
<1> QED
  BY <1>5, <1>6

LEMMA RelyOnOwn ==
    ASSUME IInv, NEW t \in Thread, ThreadStep(t)
    PROVE  RelyOn(t)'
<1> USE DEF IInv
<1>1. RelyOn(t) /\ TypeOK
  BY DEF StepsRelyOn
<1>2. CASE Receive(t)
  BY <1>1, <1>2 DEF Receive, TypeOK, Goto, RelyOn
<1>3. ASSUME ReplayOrConflict(t), pc[t] \in {"lookup", "refetch"} PROVE RelyOn(t)'
  <2>1. req' = req /\ row' = row /\ events' = events /\ OpOf(t)' = OpOf(t)
    BY <1>3, SameRequest DEF ReplayOrConflict, db
  <2> QED
    BY <1>1, <1>3, <2>1 DEF ReplayOrConflict, TypeOK, Goto, RelyOn
<1>4. CASE LookupIdempotencyKey(t)
  BY <1>1, <1>3, <1>4 DEF LookupIdempotencyKey, TypeOK, Goto, RelyOn
<1>5. CASE GetPlanLimit(t)
  BY <1>1, <1>5 DEF GetPlanLimit, TypeOK, Goto, RelyOn
<1>6. CASE EnsureQuotaCounter(t)
  <2>1. req' = req /\ counters' = counters /\ limit' = limit /\ AccountOf(t)' = AccountOf(t)
    BY <1>6, SameRequest DEF EnsureQuotaCounter, db
  <2>2. row[t] = NoCounter
    BY <1>1, <1>6 DEF EnsureQuotaCounter, RelyOn
  <2>3. CASE pc'[t] = "error"
    BY <1>1, <1>6, <2>2, <2>3 DEF EnsureQuotaCounter, TypeOK, Goto, RelyOn
  <2>4. CASE counters[AccountOf(t)] # NoCounter /\ pc'[t] # "error"
    <3>1. row'[t] = NoCounter /\ pc'[t] = "deduct"
      BY <1>1, <1>6, <2>2, <2>4 DEF EnsureQuotaCounter, TypeOK, Goto
    <3> QED
      BY <2>1, <2>4, <3>1 DEF RelyOn
  <2>5. CASE counters[AccountOf(t)] = NoCounter /\ pc'[t] # "error"
    <3>1. /\ limit[t] > 0 /\ pc'[t] = "deduct"
          /\ row'[t] = [plan_limit |-> limit[t], used |-> 0]
      BY <1>1, <1>6, <2>5 DEF EnsureQuotaCounter, TypeOK, Goto
    <3>2. row'[t] # NoCounter
      BY <1>1, <3>1, NullAssumption DEF TypeOK, Limits, Counter
    <3> QED
      BY <2>1, <2>5, <3>1, <3>2 DEF RelyOn
  <2> QED
    BY <2>3, <2>4, <2>5
<1>7. CASE CheckAndDeduct(t)
  <2>1. /\ req' = req /\ counters' = counters /\ limit' = limit
        /\ AccountOf(t)' = AccountOf(t) /\ Asked(t)' = Asked(t)
    BY <1>7, SameRequest DEF CheckAndDeduct, db
  <2>2. AccountOf(t) \in Account /\ Asked(t) \in Nat
    BY <1>7, BusyTypes DEF CheckAndDeduct
  <2>3. Visible(t) \in Counter /\ Visible(t).used \in Nat
    BY <1>1, <1>7, <2>2 DEF CheckAndDeduct, RelyOn, Visible, TypeOK, Counter
  <2>4. CASE pc'[t] = "exceeded"
    BY <1>1, <1>7, <2>1, <2>4 DEF CheckAndDeduct, RelyOn, TypeOK, Goto
  <2>5. CASE pc'[t] # "exceeded"
    <3>1. /\ Fits(t) /\ pc'[t] = "insert"
          /\ row'[t] = [plan_limit |-> Visible(t).plan_limit,
                        used       |-> Visible(t).used + Asked(t)]
      BY <1>7, <2>5 DEF CheckAndDeduct, TypeOK, Goto
    <3>2. row'[t] # NoCounter
      BY <2>2, <2>3, <3>1, NullAssumption DEF Counter
    <3>3. Deducted(t)'
      BY <1>1, <1>7, <2>1, <2>2, <2>3, <3>1, <3>2
         DEF CheckAndDeduct, Deducted, Fits, Visible, RelyOn
    <3> QED
      BY <3>1, <3>3 DEF RelyOn
  <2> QED
    BY <2>4, <2>5
<1>8. CASE InsertEvent(t)
  <2>1. /\ req' = req /\ counters' = counters /\ events' = events
        /\ AccountOf(t)' = AccountOf(t) /\ OpOf(t)' = OpOf(t) /\ Asked(t)' = Asked(t)
    BY <1>8, SameRequest DEF InsertEvent, db
  <2>2. Deducted(t)
    BY <1>1, <1>8 DEF InsertEvent, RelyOn
  <2>3. CASE events[OpOf(t)] = NoEvent
    <3>1. row' = row /\ pc'[t] = "commit" /\ resp'[t] = NewEvent(t)
      BY <1>8, <2>3 DEF InsertEvent, TypeOK, Goto
    <3>2. NewEvent(t)' = NewEvent(t)
      BY <2>1, <3>1 DEF NewEvent
    <3>3. Deducted(t)'
      BY <2>1, <2>2, <3>1 DEF Deducted
    <3> QED
      BY <2>1, <2>3, <3>1, <3>2, <3>3 DEF RelyOn
  <2>4. CASE events[OpOf(t)] # NoEvent
    <3>1. row'[t] = NoCounter /\ pc'[t] = "refetch"
      BY <1>8, <2>4 DEF InsertEvent, TypeOK, Goto
    <3> QED
      BY <2>1, <2>4, <3>1 DEF RelyOn
  <2> QED
    BY <2>3, <2>4
<1>9. CASE FetchWinner(t)
  BY <1>3, <1>9 DEF FetchWinner
<1>10. CASE Commit(t)
  <2>1. req' = req /\ resp' = resp /\ OpOf(t)' = OpOf(t)
    BY <1>10, SameRequest DEF Commit
  <2>2. row'[t] = NoCounter /\ pc'[t] = "answer"
    BY <1>1, <1>10 DEF Commit, TypeOK, Goto
  <2>3. CASE pc[t] = "replay"
    BY <1>1, <1>10, <2>1, <2>2, <2>3 DEF Commit, RelyOn
  <2>4. CASE pc[t] = "commit"
    <3>1. OpOf(t) \in Operation /\ req[t] \in Request
      BY <2>4, BusyTypes
    <3>2. events'[OpOf(t)] = resp[t]
      BY <1>1, <1>10, <2>4, <3>1 DEF Commit, TypeOK
    <3>3. row[t] \in Counter
      BY <1>1, <2>4 DEF RelyOn, Deducted, TypeOK
    <3>4. NewEvent(t) \in Event
      BY <3>1, <3>3, NewEventType
    <3>5. resp[t] # NoEvent
      BY <1>1, <2>4, <3>4, NullAssumption DEF RelyOn
    <3> QED
      BY <2>1, <2>2, <3>2, <3>5 DEF RelyOn
  <2> QED
    BY <1>10, <2>3, <2>4 DEF Commit
<1>11. CASE Answer(t) \/ Reject(t) \/ Crash(t)
  <2>1. row'[t] = NoCounter /\ pc'[t] = "idle"
    BY <1>1, <1>11 DEF Answer, Reject, Crash, EndRequest, TypeOK, Goto
  <2> QED
    BY <2>1 DEF RelyOn
<1> QED
  BY <1>2, <1>4, <1>5, <1>6, <1>7, <1>8, <1>9, <1>10, <1>11 DEF ThreadStep, Step

LEMMA StepsRelyOnStep == IInv /\ [Next]_vars => StepsRelyOn'
<1> SUFFICES ASSUME IInv, [Next]_vars, NEW s \in Thread PROVE RelyOn(s)'
  BY DEF StepsRelyOn
<1>1. ASSUME NEW t \in Thread, ThreadStep(t) PROVE RelyOn(s)'
  BY <1>1, RelyOnOther, RelyOnOwn
<1>2. CASE ChangePlan \/ NextMonth \/ UNCHANGED vars
  <2>1. UNCHANGED <<counters, events, pc, req, limit, row, resp>>
    BY <1>2 DEF ChangePlan, NextMonth, vars, db, local
  <2>2. RelyOn(s)
    BY DEF IInv, StepsRelyOn
  <2>3. AccountOf(s)' = AccountOf(s) /\ OpOf(s)' = OpOf(s) /\ Asked(s)' = Asked(s)
    BY <2>1, SameRequest
  <2>4. NewEvent(s)' = NewEvent(s)
    BY <2>1 DEF NewEvent
  <2> QED
    BY <2>1, <2>2, <2>3, <2>4 DEF RelyOn, Deducted
<1> QED
  BY <1>1, <1>2 DEF Next, ThreadStep

------------------------------------------------------------------------------
(* The books.                                                               *)

\* The one step that writes to the database: t's account moves on by the
\* quantity t asked for, and t's key gets the event that reports it.
LEMMA CommitEffect ==
    ASSUME IInv, NEW t \in Thread, Charge(t)
    PROVE  /\ AccountOf(t) \in Account /\ OpOf(t) \in Operation /\ Asked(t) \in Nat \ {0}
           /\ row[t] \in Counter /\ row[t].used \in Nat /\ row[t].plan_limit \in Limits
           /\ row[t].used <= row[t].plan_limit
           /\ counters[AccountOf(t)] = NoCounter => row[t].used = Asked(t)
           /\ counters[AccountOf(t)] # NoCounter =>
                 /\ counters[AccountOf(t)] \in Counter
                 /\ counters[AccountOf(t)].used \in Nat
                 /\ row[t].used = counters[AccountOf(t)].used + Asked(t)
                 /\ row[t].plan_limit = counters[AccountOf(t)].plan_limit
           /\ events[OpOf(t)] = NoEvent
           /\ resp[t] = NewEvent(t) /\ NewEvent(t) \in Event
           /\ counters' = [counters EXCEPT ![AccountOf(t)] = row[t]]
           /\ events'   = [events EXCEPT ![OpOf(t)] = NewEvent(t)]
<1> USE DEF IInv
<1>1. /\ AccountOf(t) \in Account /\ OpOf(t) \in Operation
      /\ Asked(t) \in Nat \ {0} /\ req[t] \in Request
  BY BusyTypes DEF Charge
<1>2. RelyOn(t) /\ pc[t] = "commit"
  BY DEF Charge, StepsRelyOn
<1>3. Deducted(t) /\ row[t] \in Counter
  BY <1>2 DEF RelyOn, Deducted, TypeOK
<1>4. row[t].used \in Nat /\ row[t].plan_limit \in Limits
  BY <1>3 DEF Counter
<1>5. counters[AccountOf(t)] # NoCounter =>
         counters[AccountOf(t)] \in Counter /\ counters[AccountOf(t)].used \in Nat
  BY <1>1 DEF TypeOK, Counter
<1>6. NewEvent(t) \in Event
  BY <1>1, <1>3, NewEventType
<1> QED
  BY <1>1, <1>2, <1>3, <1>4, <1>5, <1>6 DEF Charge, Commit, RelyOn, Deducted

\* All other steps leave the database alone.
LEMMA WritesOnlyByCommit ==
    ASSUME StepsRelyOn, [Next]_vars, \A t \in Thread : ~Charge(t)
    PROVE  counters' = counters /\ events' = events
<1>1. CASE \E t \in Thread : ThreadStep(t)
  BY <1>1, OnlyCommitWrites
<1>2. CASE ChangePlan \/ NextMonth \/ UNCHANGED vars
  BY <1>2 DEF ChangePlan, NextMonth, vars, db
<1> QED
  BY <1>1, <1>2 DEF Next, ThreadStep

LEMMA QuotaRespectedStep == IInv /\ [Next]_vars => QuotaRespected'
<1> SUFFICES ASSUME IInv, [Next]_vars PROVE QuotaRespected'
  OBVIOUS
<1>1. ASSUME NEW t \in Thread, Charge(t) PROVE QuotaRespected'
  BY <1>1, CommitEffect DEF IInv, TypeOK, QuotaRespected
<1>2. CASE \A t \in Thread : ~Charge(t)
  BY <1>2, WritesOnlyByCommit DEF IInv, QuotaRespected
<1> QED
  BY <1>1, <1>2

LEMMA EventsTileCounterStep == IInv /\ [Next]_vars => EventsTileCounter'
<1> SUFFICES ASSUME IInv, [Next]_vars PROVE EventsTileCounter'
  OBVIOUS
<1>1. ASSUME NEW t \in Thread, Charge(t), NEW a \in Account
      PROVE  /\ UsedUnits(a)' = UNION {Units(events'[o]) : o \in EventsOf(a)'}
             /\ \A o1, o2 \in EventsOf(a)' :
                   o1 # o2 => Units(events'[o1]) \cap Units(events'[o2]) = {}
  <2> DEFINE A == AccountOf(t)
             O == OpOf(t)
             U == IF counters[A] = NoCounter THEN 0 ELSE counters[A].used
  <2>1. /\ A \in Account /\ O \in Operation /\ Asked(t) \in Nat \ {0}
        /\ U \in Nat /\ row[t].used = U + Asked(t)
        /\ row[t] # NoCounter
        /\ events[O] = NoEvent /\ NewEvent(t) # NoEvent
        /\ counters' = [counters EXCEPT ![A] = row[t]]
        /\ events' = [events EXCEPT ![O] = NewEvent(t)]
    BY <1>1, CommitEffect, NullAssumption
  <2>2. /\ counters'[a] = IF a = A THEN row[t] ELSE counters[a]
        /\ \A o \in Operation : events'[o] = IF o = O THEN NewEvent(t) ELSE events[o]
    BY <2>1 DEF IInv, TypeOK
  <2>3. /\ UsedUnits(a) = UNION {Units(events[o]) : o \in EventsOf(a)}
        /\ \A o1, o2 \in EventsOf(a) :
              o1 # o2 => Units(events[o1]) \cap Units(events[o2]) = {}
    BY DEF IInv, EventsTileCounter
  <2>4. A = <<O[1], TypeOf[NewEvent(t).payload], NewEvent(t).period>>
    BY DEF AccountOf, OpOf, TypeFor, NewEvent
  <2>5. EventsOf(a)' = IF a = A THEN EventsOf(a) \cup {O} ELSE EventsOf(a)
    BY <2>1, <2>2, <2>4 DEF EventsOf
  <2>6. O \notin EventsOf(a)
    BY <2>1 DEF EventsOf
  <2>7. \A o \in EventsOf(a) : events'[o] = events[o]
    BY <2>2, <2>6 DEF EventsOf
  <2>8. CASE a # A
    <3>1. UsedUnits(a)' = UsedUnits(a) /\ EventsOf(a)' = EventsOf(a)
      BY <2>2, <2>5, <2>8 DEF UsedUnits
    <3>2. {Units(events'[o]) : o \in EventsOf(a)} = {Units(events[o]) : o \in EventsOf(a)}
      BY <2>7
    <3> QED
      BY <2>3, <2>7, <3>1, <3>2
  <2>9. CASE a = A
    <3>1. UsedUnits(a) = 1 .. U
      BY <2>1, <2>9 DEF UsedUnits
    <3>2. UsedUnits(a)' = 1 .. U + Asked(t)
      BY <2>1, <2>2, <2>9 DEF UsedUnits
    <3>3. Units(NewEvent(t)) = U + 1 .. U + Asked(t)
      <4>1. NewEvent(t).quota_used = U + Asked(t)
            /\ Quantity[NewEvent(t).payload] = Asked(t)
        BY <2>1 DEF NewEvent, Asked
      <4>2. U + Asked(t) - Asked(t) + 1 = U + 1
        BY <2>1
      <4>3. Units(NewEvent(t)) = NewEvent(t).quota_used - Quantity[NewEvent(t).payload] + 1
                                  .. NewEvent(t).quota_used
        BY DEF Units
      <4> QED
        BY <2>1, <4>1, <4>2, <4>3
    <3>4. 1 .. U + Asked(t) = (1 .. U) \cup (U + 1 .. U + Asked(t))
      BY <2>1
    <3>5. (1 .. U) \cap (U + 1 .. U + Asked(t)) = {}
      BY <2>1
    <3>6. \A o \in EventsOf(a) : /\ Units(events'[o]) = Units(events[o])
                                 /\ Units(events[o]) \subseteq 1 .. U
      BY <2>3, <2>7, <3>1
    <3>7. Units(events'[O]) = U + 1 .. U + Asked(t)
      BY <2>1, <2>2, <3>3
    <3>8. EventsOf(a)' = EventsOf(a) \cup {O}
      BY <2>5, <2>9
    <3>9. UNION {Units(events'[o]) : o \in EventsOf(a)'}
            = (UNION {Units(events[o]) : o \in EventsOf(a)}) \cup (U + 1 .. U + Asked(t))
      <4>1. {Units(events'[o]) : o \in EventsOf(a)'}
              = {Units(events'[o]) : o \in EventsOf(a)} \cup {Units(events'[O])}
        BY <3>8
      <4>2. {Units(events'[o]) : o \in EventsOf(a)} = {Units(events[o]) : o \in EventsOf(a)}
        BY <3>6
      <4> QED
        BY <3>7, <4>1, <4>2
    <3>10. UsedUnits(a)' = UNION {Units(events'[o]) : o \in EventsOf(a)'}
      BY <2>3, <3>1, <3>2, <3>4, <3>9
    <3>11. \A o1, o2 \in EventsOf(a)' :
              o1 # o2 => Units(events'[o1]) \cap Units(events'[o2]) = {}
      BY <2>3, <3>5, <3>6, <3>7, <3>8
    <3> QED
      BY <3>10, <3>11
  <2> QED
    BY <2>8, <2>9
<1>2. CASE \A t \in Thread : ~Charge(t)
  <2>1. counters' = counters /\ events' = events
    BY <1>2, WritesOnlyByCommit DEF IInv
  <2>2. \A a \in Account : UsedUnits(a)' = UsedUnits(a) /\ EventsOf(a)' = EventsOf(a)
    BY <2>1 DEF UsedUnits, EventsOf
  <2> QED
    BY <2>1, <2>2 DEF IInv, EventsTileCounter
<1>3. CASE \E t \in Thread : Charge(t)
  BY <1>1, <1>3 DEF EventsTileCounter
<1> QED
  BY <1>2, <1>3

\* A committed event stays as it is.
LEMMA EventsStay ==
    ASSUME IInv, [Next]_vars, NEW o \in Operation, events[o] # NoEvent
    PROVE  events'[o] = events[o]
<1>1. ASSUME NEW t \in Thread, Charge(t) PROVE events'[o] = events[o]
  BY <1>1, CommitEffect DEF IInv, TypeOK
<1> QED
  BY <1>1, WritesOnlyByCommit DEF IInv

\* A committed counter keeps its limit and never goes down.
LEMMA CountersGrow ==
    ASSUME IInv, [Next]_vars, NEW a \in Account, counters[a] # NoCounter
    PROVE  /\ counters'[a] # NoCounter
           /\ counters'[a].plan_limit = counters[a].plan_limit
           /\ counters'[a].used >= counters[a].used
<1>1. counters[a].used \in Nat
  BY DEF IInv, TypeOK, Counter
<1>2. ASSUME NEW t \in Thread, Charge(t)
      PROVE  /\ counters'[a] # NoCounter
             /\ counters'[a].plan_limit = counters[a].plan_limit
             /\ counters'[a].used >= counters[a].used
  <2>1. CASE a = AccountOf(t)
    BY <1>1, <1>2, <2>1, CommitEffect, NullAssumption DEF IInv, TypeOK
  <2>2. CASE a # AccountOf(t)
    BY <1>1, <1>2, <2>2, CommitEffect DEF IInv, TypeOK
  <2> QED
    BY <2>1, <2>2
<1>3. CASE \A t \in Thread : ~Charge(t)
  BY <1>1, <1>3, WritesOnlyByCommit DEF IInv
<1> QED
  BY <1>2, <1>3

LEMMA AnswersAreStoredStep == IInv /\ [Next]_vars => AnswersAreStored'
<1> SUFFICES ASSUME IInv, [Next]_vars, NEW x \in answers' PROVE events'[x[1]] = x[2]
  BY DEF AnswersAreStored
<1>1. CASE x \in answers
  <2>1. x[1] \in Operation /\ x[2] \in Event /\ events[x[1]] = x[2]
    BY <1>1 DEF IInv, TypeOK, AnswersAreStored
  <2> QED
    BY <2>1, EventsStay, NullAssumption
<1>2. CASE x \notin answers
  <2>1. PICK t \in Thread : Answer(t)
    BY <1>2 DEF Next, Step, Receive, LookupIdempotencyKey, FetchWinner, ReplayOrConflict,
                GetPlanLimit, EnsureQuotaCounter, CheckAndDeduct, InsertEvent, Commit,
                Reject, Crash, ChangePlan, NextMonth, vars
  <2>2. x = <<OpOf(t), resp[t]>> /\ events' = events
    BY <1>2, <2>1 DEF Answer, db
  <2>3. events[OpOf(t)] = resp[t]
    BY <2>1 DEF Answer, IInv, StepsRelyOn, RelyOn
  <2> QED
    BY <2>2, <2>3
<1> QED
  BY <1>1, <1>2

------------------------------------------------------------------------------
(* Refusals.                                                                *)

LEMMA RefusalStaysDeserved ==
    ASSUME IInv, [Next]_vars, NEW s \in Thread, RefusalDeserved(s),
           pc'[s] = pc[s], req'[s] = req[s], limit'[s] = limit[s], row'[s] = row[s],
           row[s] # NoCounter => counters'[AccountOf(s)] = counters[AccountOf(s)]
    PROVE  RefusalDeserved(s)'
<1>1. /\ AccountOf(s)' = AccountOf(s) /\ OpOf(s)' = OpOf(s) /\ Asked(s)' = Asked(s)
  BY SameRequest
<1>2. CASE pc[s] = "exceeded"
  <2>1. AccountOf(s) \in Account /\ Asked(s) \in Nat
    BY <1>2, BusyTypes DEF IInv
  <2>2. RelyOn(s)
    BY DEF IInv, StepsRelyOn
  <2>3. CASE row[s] # NoCounter
    <3>1. counters'[AccountOf(s)] = NoCounter
      BY <1>2, <2>2, <2>3 DEF RelyOn
    <3> QED
      BY <1>1, <1>2, <2>2, <2>3, <3>1 DEF RefusalDeserved, RelyOn
  <2>4. CASE row[s] = NoCounter
    <3>1. counters[AccountOf(s)] # NoCounter
      BY <1>2, <2>2, <2>4 DEF RelyOn
    <3>2. /\ counters'[AccountOf(s)] # NoCounter
          /\ counters'[AccountOf(s)].plan_limit = counters[AccountOf(s)].plan_limit
          /\ counters'[AccountOf(s)].used >= counters[AccountOf(s)].used
      BY <2>1, <3>1, CountersGrow
    <3>3. /\ counters[AccountOf(s)].used \in Nat
          /\ counters[AccountOf(s)].plan_limit \in Nat
          /\ counters'[AccountOf(s)].used \in Nat
      <4>1. counters[AccountOf(s)] \in Counter
        BY <2>1, <3>1 DEF IInv, TypeOK
      <4>2. counters'[AccountOf(s)] \in Counter
        BY <2>1, <3>2, TypeOKStep DEF IInv, TypeOK
      <4> QED
        BY <4>1, <4>2, LimitsAreNat DEF Counter
    <3> QED
      BY <1>1, <1>2, <2>1, <3>1, <3>2, <3>3 DEF RefusalDeserved
  <2> QED
    BY <2>3, <2>4
<1>3. CASE pc[s] = "conflict"
  <2>1. OpOf(s) \in Operation
    BY <1>3, BusyTypes DEF IInv
  <2> QED
    BY <1>1, <1>3, <2>1, EventsStay DEF RefusalDeserved
<1>4. CASE pc[s] \notin {"exceeded", "conflict"}
  BY <1>4 DEF RefusalDeserved
<1> QED
  BY <1>2, <1>3, <1>4

LEMMA RefusalsDeservedStep == IInv /\ [Next]_vars => RefusalsDeserved'
<1> SUFFICES ASSUME IInv, [Next]_vars, NEW s \in Thread PROVE RefusalDeserved(s)'
  BY DEF RefusalsDeserved
<1>1. RefusalDeserved(s) /\ TypeOK
  BY DEF IInv, RefusalsDeserved
<1>2. ASSUME NEW t \in Thread, ThreadStep(t), s # t PROVE RefusalDeserved(s)'
  <2>1. row[s] # NoCounter => counters'[AccountOf(s)] = counters[AccountOf(s)]
    <3>1. CASE Charge(t) /\ pc[s] # "idle"
      BY <1>2, <3>1, CommitElsewhere
    <3>2. CASE pc[s] = "idle"
      BY <3>2 DEF IInv, StepsRelyOn, RelyOn
    <3>3. CASE ~Charge(t)
      BY <1>2, <3>3, OnlyCommitWrites DEF IInv
    <3> QED
      BY <3>1, <3>2, <3>3
  <2> QED
    BY <1>1, <1>2, <2>1, OthersQuiet, RefusalStaysDeserved
<1>3. ASSUME ThreadStep(s), pc'[s] \in {"exceeded", "conflict"} PROVE RefusalDeserved(s)'
  <2> USE <1>1 DEF TypeOK, PC, Refused, Goto, EndRequest
  <2>1. CASE CheckAndDeduct(s)
    <3>1. /\ ~Fits(s) /\ row' = row /\ pc'[s] = "exceeded" /\ req' = req
          /\ counters' = counters /\ limit' = limit
      BY <1>3, <2>1 DEF CheckAndDeduct, db
    <3>2. AccountOf(s)' = AccountOf(s) /\ Asked(s)' = Asked(s)
      BY <3>1, SameRequest
    <3>3. AccountOf(s) \in Account /\ Asked(s) \in Nat /\ RelyOn(s) /\ pc[s] = "deduct"
      BY <2>1, BusyTypes DEF CheckAndDeduct, IInv, StepsRelyOn
    <3>4. CASE row[s] = NoCounter
      <4>1. Visible(s) = counters[AccountOf(s)] /\ counters[AccountOf(s)] \in Counter
            /\ counters[AccountOf(s)] # NoCounter
        BY <3>3, <3>4 DEF RelyOn, Visible
      <4>2. counters[AccountOf(s)].used \in Nat /\ counters[AccountOf(s)].plan_limit \in Nat
        BY <4>1, LimitsAreNat DEF Counter
      <4>3. counters[AccountOf(s)].used + Asked(s) > counters[AccountOf(s)].plan_limit
        BY <3>1, <3>3, <4>1, <4>2 DEF Fits
      <4> QED
        BY <3>1, <3>2, <4>1, <4>3 DEF RefusalDeserved
    <3>5. CASE row[s] # NoCounter
      <4>1. counters[AccountOf(s)] = NoCounter /\ row[s] = [plan_limit |-> limit[s], used |-> 0]
        BY <3>3, <3>5 DEF RelyOn
      <4>2. Visible(s).used = 0 /\ Visible(s).plan_limit = limit[s]
        BY <3>5, <4>1 DEF Visible
      <4>3. limit[s] \in Nat
        BY <1>1, LimitIsNat
      <4>4. Asked(s) > limit[s]
        BY <3>1, <3>3, <4>2, <4>3 DEF Fits
      <4> QED
        BY <3>1, <3>2, <4>1, <4>4 DEF RefusalDeserved
    <3> QED
      BY <3>4, <3>5
  <2>2. ASSUME ReplayOrConflict(s) PROVE RefusalDeserved(s)'
    <3>1. /\ pc'[s] = "conflict" /\ req' = req /\ events' = events
          /\ events[OpOf(s)] # NoEvent /\ events[OpOf(s)].payload # req[s].payload
      BY <1>3, <2>2 DEF ReplayOrConflict, db
    <3> QED
      BY <3>1, SameRequest DEF RefusalDeserved
  <2>3. CASE LookupIdempotencyKey(s) \/ FetchWinner(s)
    BY <1>3, <2>2, <2>3 DEF LookupIdempotencyKey, FetchWinner
  <2>4. CASE Receive(s) \/ GetPlanLimit(s) \/ EnsureQuotaCounter(s) \/ InsertEvent(s)
    BY <1>3, <2>4 DEF Receive, GetPlanLimit, EnsureQuotaCounter, InsertEvent
  <2>5. CASE Commit(s) \/ Answer(s) \/ Reject(s) \/ Crash(s)
    BY <1>3, <2>5 DEF Commit, Answer, Reject, Crash
  <2> QED
    BY <1>3, <2>1, <2>3, <2>4, <2>5 DEF ThreadStep, Step
<1>4. CASE ChangePlan \/ NextMonth \/ UNCHANGED vars
  <2>1. UNCHANGED <<counters, events, pc, req, limit, row, resp>>
    BY <1>4 DEF ChangePlan, NextMonth, vars, db, local
  <2> QED
    BY <1>1, <2>1, RefusalStaysDeserved
<1>5. pc'[s] \notin {"exceeded", "conflict"} => RefusalDeserved(s)'
  BY DEF RefusalDeserved
<1> QED
  BY <1>2, <1>3, <1>4, <1>5 DEF Next, ThreadStep

------------------------------------------------------------------------------
(* The theorems.                                                            *)

LEMMA InitIInv == Init => IInv
<1> SUFFICES ASSUME Init PROVE IInv
  OBVIOUS
<1>1. TypeOK
  BY InitTypeOK
<1>2. StepsRelyOn /\ OneOwnerPerCounter /\ OneWriterPerKey /\ RefusalsDeserved
  BY DEF Init, StepsRelyOn, RelyOn, OneOwnerPerCounter, OneWriterPerKey,
         RefusalsDeserved, RefusalDeserved
<1>3. QuotaRespected /\ AnswersAreStored
  BY DEF Init, QuotaRespected, AnswersAreStored
<1>4. EventsTileCounter
  BY DEF Init, EventsTileCounter, UsedUnits, EventsOf
<1> QED
  BY <1>1, <1>2, <1>3, <1>4 DEF IInv

LEMMA NextIInv == IInv /\ [Next]_vars => IInv'
BY TypeOKStep, StepsRelyOnStep, OneOwnerStep, OneWriterStep, QuotaRespectedStep,
   EventsTileCounterStep, AnswersAreStoredStep, RefusalsDeservedStep DEF IInv

\* The inductive invariant holds of record_usage in every reachable state.
THEOREM Invariance == Spec => []IInv
BY InitIInv, NextIInv, PTL DEF Spec

\* Every variable keeps its type.
THEOREM TypeCorrectness == Spec => []TypeOK
<1>1. IInv => TypeOK
  BY DEF IInv
<1> QED
  BY <1>1, Invariance, PTL

\* No interleaving of requests takes a counter past its limit.
THEOREM QuotaSafety == Spec => []QuotaRespected
<1>1. IInv => QuotaRespected
  BY DEF IInv
<1> QED
  BY <1>1, Invariance, PTL

\* Metering is exactly-once: an account's committed events and its counter
\* account for each other, unit by unit.
THEOREM ExactlyOnce == Spec => []EventsTileCounter
<1>1. IInv => EventsTileCounter
  BY DEF IInv
<1> QED
  BY <1>1, Invariance, PTL

\* A 200 answer reports what is durably stored for its key.
THEOREM DurableAnswers == Spec => []AnswersAreStored
<1>1. IInv => AnswersAreStored
  BY DEF IInv
<1> QED
  BY <1>1, Invariance, PTL

\* A 429 or 422 is deserved when it is decided and still when it is sent.
THEOREM JustRefusals == Spec => []RefusalsDeserved
<1>1. IInv => RefusalsDeserved
  BY DEF IInv
<1> QED
  BY <1>1, Invariance, PTL

\* Committed events are final, committed counters only grow.
THEOREM AppendOnlyBooks == Spec => BooksOnlyGrow
<1>1. IInv /\ [Next]_vars =>
        /\ \A o \in Operation : events[o] # NoEvent => events'[o] = events[o]
        /\ \A a \in Account : counters[a] # NoCounter =>
              /\ counters'[a] # NoCounter
              /\ counters'[a].plan_limit = counters[a].plan_limit
              /\ counters'[a].used >= counters[a].used
  BY EventsStay, CountersGrow
<1> QED
  BY <1>1, Invariance, PTL DEF Spec, BooksOnlyGrow

------------------------------------------------------------------------------
(* Metering implements the abstract ledger.                                 *)

LEMMA InitImplements == Init => Ledger!LedgerInit
BY DEF Init, Ledger!LedgerInit, Ledger!Operation, Ledger!Account, Operation, Account

\* The account a committed event was charged to.
LEMMA EventAccount ==
    ASSUME TypeOK, NEW o \in Operation, events[o] # NoEvent
    PROVE  \E a \in Account : o \in EventsOf(a)
<1>1. events[o].payload \in Payload /\ events[o].period \in Period
  BY DEF TypeOK, Event
<1>2. <<o[1], TypeOf[events[o].payload], events[o].period>> \in Account
  BY <1>1, TypeOfAssumption DEF Operation, Account
<1> QED
  BY <1>2 DEF EventsOf

LEMMA EventIsSale ==
    ASSUME IInv, NEW o \in Operation, events[o] # NoEvent
    PROVE  SaleOf(events[o]) \in Ledger!Sale /\ SaleOf(events[o]) # NoEvent
<1>1. PICK a \in Account : o \in EventsOf(a)
  BY EventAccount DEF IInv
<1>2. Units(events[o]) \subseteq UsedUnits(a)
  BY <1>1 DEF IInv, EventsTileCounter
<1>3. UsedUnits(a) \subseteq Nat
  BY DEF UsedUnits
<1>4. events[o].payload \in Payload /\ events[o].period \in Period
  BY DEF IInv, TypeOK, Event
<1>5. SaleOf(events[o]) \in Ledger!Sale
  BY <1>2, <1>3, <1>4 DEF SaleOf, Ledger!Sale
<1> QED
  BY <1>5, SaleAssumption

\* The sales of the ledger are the committed events, account by account.
LEMMA SoldIsEvents ==
    ASSUME IInv, NEW a \in Account
    PROVE  /\ Ledger!SoldOf(a) = EventsOf(a)
           /\ Ledger!UnitsSold(a) = UsedUnits(a)
<1> DEFINE sold == [o \in Operation |-> IF events[o] = NoEvent THEN NoEvent
                                                             ELSE SaleOf(events[o])]
<1>1. \A o \in Operation : events[o] # NoEvent =>
         /\ sold[o] = SaleOf(events[o]) /\ sold[o] # NoEvent
         /\ sold[o].payload = events[o].payload
         /\ sold[o].period = events[o].period
         /\ sold[o].units = Units(events[o])
  BY EventIsSale DEF SaleOf
<1>2. \A o \in Operation : events[o] = NoEvent => sold[o] = NoEvent
  OBVIOUS
<1>3. Ledger!SoldOf(a) = {o \in Operation : /\ sold[o] # NoEvent
                            /\ a = <<o[1], TypeOf[sold[o].payload], sold[o].period>>}
  BY DEF Ledger!SoldOf, Ledger!Operation, Operation
<1>4. Ledger!SoldOf(a) = EventsOf(a)
  <2> HIDE DEF sold
  <2> QED
    BY <1>1, <1>2, <1>3 DEF EventsOf
<1>5. Ledger!UnitsSold(a) = UNION {sold[o].units : o \in Ledger!SoldOf(a)}
  BY DEF Ledger!UnitsSold
<1>6. \A o \in EventsOf(a) : sold[o].units = Units(events[o])
  BY <1>1 DEF EventsOf
<1>7. {sold[o].units : o \in EventsOf(a)} = {Units(events[o]) : o \in EventsOf(a)}
  <2> HIDE DEF sold
  <2> QED
    BY <1>6
<1>8. UNION {Units(events[o]) : o \in EventsOf(a)} = UsedUnits(a)
  BY DEF IInv, EventsTileCounter
<1> QED
  BY <1>4, <1>5, <1>7, <1>8

\* A run of q units has q units.
LEMMA IntervalSize ==
    ASSUME NEW u \in Nat, NEW q \in Nat \ {0}
    PROVE  Cardinality(u + 1 .. u + q) = q
<1> DEFINE m == u + 1
           n == u + q
<1>1. m \in Int /\ n \in Int /\ ~(m > n) /\ n - m + 1 = q
  OBVIOUS
<1> HIDE DEF m, n
<1>2. Cardinality(m .. n) = IF m > n THEN 0 ELSE n - m + 1
  BY <1>1, FS_Interval
<1>3. Cardinality(m .. n) = q
  BY <1>1, <1>2
<1> QED
  BY <1>3 DEF m, n

LEMMA SameCardinality == \A S : Ledger!Cardinality(S) = Cardinality(S)
BY DEF Ledger!Cardinality, Cardinality

\* A commit sells the units the counter passes over.
LEMMA CommitSells ==
    ASSUME IInv, NEW t \in Thread, Charge(t), NEW O, NEW p, NEW d,
           O = OpOf(t), p = req[t].payload, d = req[t].period
    PROVE  Ledger!Sell(O, p, d)
<1> DEFINE A     == AccountOf(t)
           e     == NewEvent(t)
           U     == IF counters[A] = NoCounter THEN 0 ELSE counters[A].used
           sold  == [o \in Operation |-> IF events[o] = NoEvent THEN NoEvent
                                                             ELSE SaleOf(events[o])]
           quota == [a \in Account |-> IF counters[a] = NoCounter THEN NoCounter
                                       ELSE counters[a].plan_limit]
<1>1. /\ A \in Account /\ O \in Operation /\ Asked(t) \in Nat \ {0}
      /\ U \in Nat /\ row[t].used = U + Asked(t) /\ row[t].plan_limit \in Limits
      /\ row[t].used <= row[t].plan_limit /\ row[t] # NoCounter
      /\ events[O] = NoEvent /\ e # NoEvent
      /\ counters[A] # NoCounter => counters[A].plan_limit = row[t].plan_limit
      /\ counters' = [counters EXCEPT ![A] = row[t]]
      /\ events' = [events EXCEPT ![O] = e]
  BY CommitEffect, NullAssumption
<1>2. row[t].plan_limit \in Nat
  BY <1>1, LimitsAreNat
<1>3. A = <<O[1], TypeOf[p], d>>
  BY DEF AccountOf, OpOf, TypeFor
<1>4. sold[O] = NoEvent
  BY <1>1
<1>5. quota[A] \in {NoCounter, row[t].plan_limit}
  BY <1>1
<1>6. Units(e) = U + 1 .. U + Asked(t)
  <2>1. e.quota_used = U + Asked(t) /\ Quantity[e.payload] = Asked(t)
    BY <1>1 DEF NewEvent, Asked
  <2>2. U + Asked(t) - Asked(t) + 1 = U + 1
    BY <1>1
  <2>3. Units(e) = e.quota_used - Quantity[e.payload] + 1 .. e.quota_used
    BY DEF Units
  <2> QED
    BY <1>1, <2>1, <2>2, <2>3
<1>7. Units(e) \in SUBSET (1 .. row[t].plan_limit)
  BY <1>1, <1>2, <1>6
<1>8. Cardinality(Units(e)) = Quantity[p]
  <2> HIDE DEF U
  <2>1. Cardinality(U + 1 .. U + Asked(t)) = Asked(t)
    BY <1>1, IntervalSize
  <2> QED
    BY <1>6, <2>1 DEF Asked
<1>9. Units(e) \cap Ledger!UnitsSold(A) = {}
  <2>1. Ledger!UnitsSold(A) = 1 .. U
    <3>1. Ledger!UnitsSold(A) = UsedUnits(A)
      BY <1>1, SoldIsEvents
    <3>2. UsedUnits(A) = 1 .. U
      BY <1>1 DEF UsedUnits
    <3> QED
      BY <3>1, <3>2
  <2>2. (1 .. U) \cap (U + 1 .. U + Asked(t)) = {}
    BY <1>1
  <2> QED
    BY <1>6, <2>1, <2>2
<1>10. sold' = [sold EXCEPT ![O] = [payload |-> p, period |-> d,
                                    units |-> Units(e)]]
  <2>1. SaleOf(e) = [payload |-> p, period |-> d, units |-> Units(e)]
    BY DEF SaleOf, NewEvent
  <2>2. \A o \in Operation : events'[o] = IF o = O THEN e ELSE events[o]
    BY <1>1 DEF IInv, TypeOK
  <2>3. sold' = [o \in Operation |-> IF events'[o] = NoEvent THEN NoEvent
                                                           ELSE SaleOf(events'[o])]
    BY DEF SaleOf, Units
  <2>4. sold' = [o \in Operation |-> IF o = O THEN SaleOf(e) ELSE sold[o]]
    BY <1>1, <2>2, <2>3
  <2> QED
    BY <1>1, <2>1, <2>4
<1>11. quota' = [quota EXCEPT ![A] = row[t].plan_limit]
  <2>1. \A a \in Account : counters'[a] = IF a = A THEN row[t] ELSE counters[a]
    BY <1>1 DEF IInv, TypeOK
  <2>2. quota' = [a \in Account |-> IF counters'[a] = NoCounter THEN NoCounter
                                    ELSE counters'[a].plan_limit]
    OBVIOUS
  <2>3. quota' = [a \in Account |-> IF a = A THEN row[t].plan_limit ELSE quota[a]]
    BY <1>1, <2>1, <2>2
  <2> QED
    BY <1>1, <2>3
<1>12. answers' = answers
  BY DEF Charge, Commit
<1> QED
  <2>1. {<<x[1], SaleOf(x[2])>> : x \in answers}' = {<<x[1], SaleOf(x[2])>> : x \in answers}
    BY <1>12 DEF SaleOf, Units
  <2> DEFINE size == row[t].plan_limit
             units == Units(e)
  <2>2. /\ size \in Limits /\ units \in SUBSET (1 .. size)
        /\ quota[A] \in {NoCounter, size}
        /\ Ledger!Cardinality(units) = Quantity[p]
        /\ units \cap Ledger!UnitsSold(A) = {}
        /\ sold' = [sold EXCEPT ![O] = [payload |-> p,
                                        period |-> d, units |-> units]]
        /\ quota' = [quota EXCEPT ![A] = size]
    BY <1>1, <1>5, <1>7, <1>8, <1>9, <1>10, <1>11, SameCardinality
  <2> HIDE DEF size, units
  <2> QED
    BY <1>3, <1>4, <2>1, <2>2 DEF Ledger!Sell

\* An answer tells of a sale.
LEMMA AnswerTells ==
    ASSUME IInv, NEW t \in Thread, Answer(t), NEW O, O = OpOf(t)
    PROVE  Ledger!Tell(O)
<1> DEFINE sold == [o \in Operation |-> IF events[o] = NoEvent THEN NoEvent
                                                             ELSE SaleOf(events[o])]
           told == {<<x[1], SaleOf(x[2])>> : x \in answers}
<1>1. O \in Operation /\ resp[t] # NoEvent /\ events[O] = resp[t]
  BY BusyTypes DEF Answer, IInv, StepsRelyOn, RelyOn
<1>2. sold[O] = SaleOf(resp[t]) /\ sold[O] # NoEvent
  BY <1>1, EventIsSale
<1>3. UNCHANGED <<counters, events>> /\ answers' = answers \cup {<<O, resp[t]>>}
  BY DEF Answer, db
<1>4. told' = {<<x[1], SaleOf(x[2])>> : x \in answers'}
  BY DEF SaleOf, Units
<1>5. told' = told \cup {<<O, SaleOf(resp[t])>>}
  <2> DEFINE f(x) == <<x[1], SaleOf(x[2])>>
             y    == <<O, resp[t]>>
  <2>1. f(y) = <<O, SaleOf(resp[t])>>
    OBVIOUS
  <2>2. told' = {f(x) : x \in answers \cup {y}} /\ told = {f(x) : x \in answers}
    BY <1>3, <1>4
  <2>3. {f(x) : x \in answers \cup {y}} = {f(x) : x \in answers} \cup {f(y)}
    <3> HIDE DEF f, y
    <3> QED
      OBVIOUS
  <2> HIDE DEF f, y, told
  <2> QED
    BY <2>1, <2>2, <2>3
<1>6. sold' = sold
  BY <1>3 DEF SaleOf, Units
<1>7. [a \in Account |-> IF counters[a] = NoCounter THEN NoCounter
                         ELSE counters[a].plan_limit]'
        = [a \in Account |-> IF counters[a] = NoCounter THEN NoCounter
                             ELSE counters[a].plan_limit]
  BY <1>3
<1> QED
  BY <1>2, <1>5, <1>6, <1>7 DEF Ledger!Tell

\* Every other step is invisible to the ledger.
LEMMA OthersStutter ==
    ASSUME StepsRelyOn, [Next]_vars, \A t \in Thread : ~Charge(t) /\ ~Answer(t)
    PROVE  UNCHANGED Ledger!ledgerVars
<1>1. counters' = counters /\ events' = events
  BY WritesOnlyByCommit
<1>2. answers' = answers
  BY DEF Next, Step, Receive, LookupIdempotencyKey, FetchWinner, ReplayOrConflict,
         GetPlanLimit, EnsureQuotaCounter, CheckAndDeduct, InsertEvent, Commit,
         Reject, Crash, ChangePlan, NextMonth, vars
<1> QED
  BY <1>1, <1>2 DEF Ledger!ledgerVars, SaleOf, Units

LEMMA StepImplements == IInv /\ [Next]_vars => [Ledger!LedgerNext]_(Ledger!ledgerVars)
<1> SUFFICES ASSUME IInv, [Next]_vars
             PROVE  Ledger!LedgerNext \/ UNCHANGED Ledger!ledgerVars
  OBVIOUS
<1>1. ASSUME NEW t \in Thread, Charge(t) PROVE Ledger!LedgerNext
  <2>1. req[t] \in Request /\ OpOf(t) \in Operation
    BY <1>1, BusyTypes DEF Charge, IInv
  <2>2. req[t].payload \in Payload /\ req[t].period \in Period
    BY <2>1 DEF Request
  <2>3. PICK o \in Ledger!Operation, p \in Payload, d \in Period :
           o = OpOf(t) /\ p = req[t].payload /\ d = req[t].period
    BY <2>1, <2>2 DEF Ledger!Operation, Operation
  <2>4. Ledger!Sell(o, p, d)
    BY <1>1, <2>3, CommitSells
  <2> QED
    BY <2>4 DEF Ledger!LedgerNext
<1>2. ASSUME NEW t \in Thread, Answer(t) PROVE Ledger!LedgerNext
  <2>1. OpOf(t) \in Operation
    BY <1>2, BusyTypes DEF Answer, IInv
  <2>2. PICK o \in Ledger!Operation : o = OpOf(t)
    BY <2>1 DEF Ledger!Operation, Operation
  <2>3. Ledger!Tell(o)
    BY <1>2, <2>2, AnswerTells
  <2> QED
    BY <2>3 DEF Ledger!LedgerNext
<1>3. CASE \A t \in Thread : ~Charge(t) /\ ~Answer(t)
  BY <1>3, OthersStutter DEF IInv
<1> QED
  BY <1>1, <1>2, <1>3

\* The threads, locks, savepoints and retries of record_usage implement the
\* abstract ledger, which sells every unit of quota at most once.
THEOREM Refinement == Spec => ImplementsLedger
BY InitImplements, StepImplements, Invariance, PTL DEF Spec, ImplementsLedger, Ledger!LedgerSpec

------------------------------------------------------------------------------
(* Waiting for rows and keys.                                               *)

\* The guards of Step: t can go on now.
CanGoOn(t) ==
    \/ pc[t] \in {"lookup", "limit", "commit", "replay", "answer"} \cup Refused
    \/ pc[t] = "ensure" /\ (limit[t] = 0 \/ counters[AccountOf(t)] # NoCounter
                                          \/ ~OwnedByOther(t, AccountOf(t)))
    \/ pc[t] = "deduct" /\ (~Fits(t) \/ ~OwnedByOther(t, AccountOf(t)))
    \/ pc[t] = "insert" /\ ~KeyHeldByOther(t)
    \/ pc[t] = "refetch" /\ events[OpOf(t)] # NoEvent

\* t waits for the counter row that s has written, or for the key that s has inserted.
WaitsForRow(t, s) ==
    /\ s # t /\ pc[t] \in {"ensure", "deduct"} /\ Owns(s, AccountOf(t))
WaitsForKey(t, s) ==
    /\ s # t /\ pc[t] = "insert" /\ pc[s] = "commit" /\ OpOf(s) = OpOf(t)

\* Rows are waited for before keys: whoever cannot go on waits for a thread that can, or
\* for a row whose owner waits for the key of a thread that can.
WaitsAreShort ==
    \A t \in Thread : pc[t] # "idle" /\ ~CanGoOn(t) =>
        \/ \E s \in Thread : (WaitsForRow(t, s) \/ WaitsForKey(t, s)) /\ CanGoOn(s)
        \/ \E s, u \in Thread : WaitsForRow(t, s) /\ WaitsForKey(s, u) /\ CanGoOn(u)

\* What a key is waited for is a commit, which nothing can stop.
LEMMA KeyWaits ==
    ASSUME NEW t \in Thread, pc[t] = "insert", ~CanGoOn(t)
    PROVE  \E s \in Thread : WaitsForKey(t, s) /\ CanGoOn(s)
BY DEF CanGoOn, KeyHeldByOther, WaitsForKey

\* The owner of a counter row has it for good until it inserts its event.
LEMMA OwnersGoOn ==
    ASSUME IInv, NEW s \in Thread, row[s] # NoCounter
    PROVE  CanGoOn(s) \/ pc[s] = "insert"
<1>1. pc[s] \in {"deduct", "insert", "commit", "exceeded"}
  BY DEF IInv, StepsRelyOn, RelyOn
<1>2. ~OwnedByOther(s, AccountOf(s))
  BY DEF IInv, OneOwnerPerCounter, OwnedByOther, Owns
<1> QED
  BY <1>1, <1>2 DEF CanGoOn, Refused

LEMMA NoCircle == IInv => WaitsAreShort
<1> SUFFICES ASSUME IInv, NEW t \in Thread, pc[t] # "idle", ~CanGoOn(t)
             PROVE  \/ \E s \in Thread : (WaitsForRow(t, s) \/ WaitsForKey(t, s)) /\ CanGoOn(s)
                    \/ \E s, u \in Thread :
                          WaitsForRow(t, s) /\ WaitsForKey(s, u) /\ CanGoOn(u)
  BY DEF WaitsAreShort
<1>1. pc[t] \in {"ensure", "deduct", "insert", "refetch"}
  BY DEF IInv, TypeOK, PC, CanGoOn
<1>2. CASE pc[t] = "insert"
  BY <1>2, KeyWaits
<1>3. CASE pc[t] \in {"ensure", "deduct"}
  <2>1. PICK s \in Thread : WaitsForRow(t, s)
    BY <1>3 DEF CanGoOn, OwnedByOther, WaitsForRow
  <2>2. row[s] # NoCounter
    BY <2>1 DEF WaitsForRow, Owns
  <2> QED
    BY <2>1, <2>2, OwnersGoOn, KeyWaits
<1>4. CASE pc[t] = "refetch"
  BY <1>4 DEF IInv, StepsRelyOn, RelyOn, CanGoOn
<1> QED
  BY <1>1, <1>2, <1>3, <1>4

\* Row locks of counters and waits for idempotency keys never go round in a circle,
\* however many requests share accounts and keys (ensure_quota_counter, check_and_deduct
\* and the flush of the usage event always come in this order).
THEOREM NoDeadlock == Spec => []WaitsAreShort
BY NoCircle, Invariance, PTL
================================================================================
