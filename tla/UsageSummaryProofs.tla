-------------------------- MODULE UsageSummaryProofs --------------------------
(***************************************************************************)
(* Proofs about UsageSummary, for any number of metering threads and       *)
(* readers.  What a reader relies on is that Metering's books only grow,   *)
(* so they come from the theorems about Metering: a reader changes nothing *)
(* Metering can see.                                                       *)
(***************************************************************************)
EXTENDS UsageSummary, MeteringProofs, TokenCostProofs, WellFoundedInduction

\* Readers leave Metering alone: to it, their steps are stutters.
LEMMA MeteringGoesOn == SummarySpec => Spec
<1>1. SummaryInit => Init
  BY DEF SummaryInit
<1>2. [SummaryNext]_summaryVars => [Next]_vars
  BY DEF SummaryNext, summaryVars, Read, Open, FetchSubscription, FetchCounters,
         FetchCosts, FillLimit, Close, Turn
<1> QED
  BY <1>1, <1>2, PTL DEF SummarySpec, Spec

LEMMA SummaryKeepsIInv == SummarySpec => []IInv
BY MeteringGoesOn, Invariance, PTL

\* Committed answers, events and counters, as far as readers rely on them.
BooksGrow ==
    /\ answers \subseteq answers'
    /\ \A o \in Operation : events[o] # NoEvent => events'[o] = events[o]
    /\ \A a \in Account : counters[a] # NoCounter =>
          counters'[a] # NoCounter /\ counters'[a].used >= counters[a].used

LEMMA AnswersGrow == [Next]_vars => answers \subseteq answers'
BY DEF Next, vars, Step, Receive, LookupIdempotencyKey, ReplayOrConflict, GetPlanLimit,
       EnsureQuotaCounter, CheckAndDeduct, InsertEvent, FetchWinner, Commit, Answer,
       Reject, Crash, ChangePlan, NextMonth

LEMMA NextGrows == IInv /\ [Next]_vars => BooksGrow
BY AnswersGrow, EventsStay, CountersGrow DEF BooksGrow

\* What an answer reports is within the counter and among the events of its account.
LEMMA AnswerIsOnBooks ==
    ASSUME IInv, NEW x \in answers,
           NEW a, a = <<x[1][1], TypeOf[x[2].payload], x[2].period>>
    PROVE  /\ a \in Account /\ x[1] \in EventsOf(a) /\ events[x[1]] = x[2]
           /\ counters[a] # NoCounter /\ x[2].quota_used <= counters[a].used
<1>1. x[1] \in Operation /\ x[2] \in Event /\ events[x[1]] = x[2]
  BY DEF IInv, TypeOK, AnswersAreStored
<1>2. x[2] # NoEvent
  BY <1>1, NullAssumption
<1>3. x[2].payload \in Payload /\ x[2].period \in Period /\ x[2].quota_used \in Nat
  BY <1>1 DEF Event
<1>4. a \in Account
  BY <1>1, <1>3, TypeOfAssumption DEF Account, Operation
<1>5. x[1] \in EventsOf(a)
  BY <1>1, <1>2 DEF EventsOf
<1>6. Units(x[2]) \subseteq UsedUnits(a)
  BY <1>1, <1>4, <1>5 DEF IInv, EventsTileCounter
<1>7. x[2].quota_used \in Units(x[2])
  BY <1>3, QuantityAssumption DEF Units
<1>8. counters[a] # NoCounter /\ counters[a].used \in Nat
  BY <1>4, <1>6, <1>7 DEF UsedUnits, IInv, TypeOK, Counter
<1> QED
  BY <1>1, <1>4, <1>5, <1>6, <1>7, <1>8 DEF UsedUnits

------------------------------------------------------------------------------
(* Reader q's page p: what holds of it at each statement.                   *)

ShownAccount(p, u) == <<p.tenant, u, p.period>>

\* The answers a reader remembers were really sent, for its tenant and month.
ToldWasSent(p) ==
    \A x \in p.told : x \in answers /\ x[1][1] = p.tenant /\ x[2].period = p.period

\* The usage it read is not above the counter's, and has the told requests in it.
UsageWasRead(p) ==
    /\ \A u \in UsageType :
          \/ p.used[u] = 0
          \/ /\ counters[ShownAccount(p, u)] # NoCounter
             /\ p.used[u] <= counters[ShownAccount(p, u)].used
    /\ \A x \in p.told : p.used[TypeOf[x[2].payload]] >= x[2].quota_used

\* The events it summed are on the books and pay for the usage it read.
CostWasRead(p) ==
    /\ \A u \in UsageType :
          /\ \A o \in p.billed[u] : events[o] # NoEvent
          /\ 1 .. p.used[u] \subseteq UNION {Units(events[o]) : o \in p.billed[u]}
    /\ \A x \in p.told : x[1] \in p.billed[TypeOf[x[2].payload]]

PageInv(q) ==
    at[q] # "idle" =>
        /\ ToldWasSent(page[q])
        /\ at[q] \in {"costs", "limits"} => UsageWasRead(page[q])
        /\ at[q] = "limits" => CostWasRead(page[q])

ReaderInv == SummaryTypeOK /\ \A q \in Reader : PageInv(q)

LEMMA InitReaderInv == SummaryInit => ReaderInv
BY DEF SummaryInit, ReaderInv, SummaryTypeOK, PageInv

LEMMA PageTypes ==
    ASSUME SummaryTypeOK, NEW q \in Reader, at[q] # "idle"
    PROVE  /\ page[q] \in Page
           /\ page[q].tenant \in Tenant /\ page[q].period \in Period
           /\ page[q].used \in [UsageType -> Nat]
           /\ page[q].plan_limit \in [UsageType -> Limits \cup {0}]
           /\ page[q].billed \in [UsageType -> SUBSET Operation]
           /\ page[q].told \in SUBSET (Operation \X Event)
           /\ \A u \in UsageType : ShownAccount(page[q], u) \in Account
<1>1. page[q] \in Page
  BY DEF SummaryTypeOK
<1> QED
  BY <1>1 DEF Page, ShownAccount, Account

LEMMA ToldTypes ==
    ASSUME NEW x \in Operation \X Event
    PROVE  /\ x[1] \in Operation /\ x[2] \in Event /\ x[2].payload \in Payload
           /\ TypeOf[x[2].payload] \in UsageType /\ x[2].quota_used \in Nat
BY TypeOfAssumption DEF Event

\* Whatever is metered meanwhile, a page stays as true as it was.
LEMMA BooksKeepPages ==
    ASSUME SummaryTypeOK, IInv, BooksGrow, IInv', NEW q \in Reader, PageInv(q),
           UNCHANGED <<at, page>>
    PROVE  PageInv(q)'
<1> SUFFICES ASSUME at[q] # "idle" PROVE PageInv(q)'
  BY DEF PageInv
<1> DEFINE p == page[q]
<1>0. p' = p /\ at'[q] = at[q]
  OBVIOUS
<1>1. ToldWasSent(p)'
  BY DEF PageInv, ToldWasSent, BooksGrow
<1>2. ASSUME UsageWasRead(p) PROVE UsageWasRead(p)'
  <2>1. ASSUME NEW u \in UsageType, p.used[u] # 0
        PROVE  /\ counters'[ShownAccount(p, u)] # NoCounter
               /\ p.used[u] <= counters'[ShownAccount(p, u)].used
    <3>1. ShownAccount(p, u) \in Account /\ p.used[u] \in Nat
      BY PageTypes
    <3>2. /\ counters[ShownAccount(p, u)] # NoCounter
          /\ p.used[u] <= counters[ShownAccount(p, u)].used
      BY <1>2, <2>1 DEF UsageWasRead
    <3>3. /\ counters'[ShownAccount(p, u)] # NoCounter
          /\ counters'[ShownAccount(p, u)].used >= counters[ShownAccount(p, u)].used
      BY <3>1, <3>2 DEF BooksGrow
    <3>4. /\ counters[ShownAccount(p, u)].used \in Nat
          /\ counters'[ShownAccount(p, u)].used \in Nat
      BY <3>1, <3>2, <3>3 DEF IInv, TypeOK, Counter
    <3> QED
      BY <3>1, <3>2, <3>3, <3>4
  <2> QED
    BY <1>2, <2>1 DEF UsageWasRead, ShownAccount
<1>3. ASSUME CostWasRead(p) PROVE CostWasRead(p)'
  <2>1. ASSUME NEW u \in UsageType, NEW o \in p.billed[u]
        PROVE  events'[o] = events[o] /\ events[o] # NoEvent
    <3>1. o \in Operation
      BY PageTypes
    <3> QED
      BY <3>1, <1>3 DEF CostWasRead, BooksGrow
  <2>2. \A u \in UsageType :
           {Units(events'[o]) : o \in p.billed[u]} = {Units(events[o]) : o \in p.billed[u]}
    BY <2>1
  <2> QED
    BY <1>3, <2>1, <2>2 DEF CostWasRead, Units
<1> QED
  BY <1>0, <1>1, <1>2, <1>3 DEF PageInv

LEMMA OthersKeepPages ==
    ASSUME UNCHANGED vars, NEW q \in Reader, NEW l, NEW p, Turn(q, l, p), SummaryTypeOK,
           NEW r \in Reader, r # q, PageInv(r)
    PROVE  PageInv(r)'
<1>1. at'[r] = at[r] /\ page'[r] = page[r]
  BY DEF Turn, SummaryTypeOK
<1>2. UNCHANGED <<answers, counters, events>>
  BY DEF vars
<1> QED
  BY <1>1, <1>2 DEF PageInv, ToldWasSent, UsageWasRead, CostWasRead, ShownAccount, Units

\* What a turn of reader q has to show.
LEMMA TurnStep ==
    ASSUME ReaderInv, NEW q \in Reader, NEW l, NEW p, Turn(q, l, p),
           l \in {"subscription", "counters", "costs", "limits"}, p \in Page,
           ToldWasSent(p), 
           l \in {"costs", "limits"} => UsageWasRead(p),
           l = "limits" => CostWasRead(p)
    PROVE  ReaderInv'
<1>1. at'[q] = l /\ page'[q] = p /\ UNCHANGED <<answers, counters, events>>
  BY DEF Turn, ReaderInv, SummaryTypeOK, vars
<1>2. SummaryTypeOK'
  BY NoPageAssumption DEF Turn, ReaderInv, SummaryTypeOK
<1>3. PageInv(q)'
  BY <1>1 DEF PageInv, ToldWasSent, UsageWasRead, CostWasRead, ShownAccount, Units
<1>4. ASSUME NEW r \in Reader, r # q PROVE PageInv(r)'
  BY <1>4, OthersKeepPages DEF ReaderInv, Turn
<1> QED
  BY <1>2, <1>3, <1>4 DEF ReaderInv

LEMMA OpenStep == ASSUME IInv, ReaderInv, NEW q \in Reader, Open(q) PROVE ReaderInv'
<1>1. PICK n \in Tenant :
         Turn(q, "subscription",
               [tenant |-> n, period |-> period, plan |-> plan[n],
                counted |-> {}, known |-> {},
                used |-> [u \in UsageType |-> 0], plan_limit |-> [u \in UsageType |-> 0],
                billed |-> [u \in UsageType |-> {}],
                told |-> {x \in answers : x[1][1] = n /\ x[2].period = period}])
  BY DEF Open
<1> DEFINE p == [tenant |-> n, period |-> period, plan |-> plan[n],
                 counted |-> {}, known |-> {},
                 used |-> [u \in UsageType |-> 0], plan_limit |-> [u \in UsageType |-> 0],
                 billed |-> [u \in UsageType |-> {}],
                 told |-> {x \in answers : x[1][1] = n /\ x[2].period = period}]
<1>2. p \in Page
  <2>1. period \in Period /\ plan[n] \in Plan /\ answers \subseteq Operation \X Event
    BY DEF IInv, TypeOK
  <2> QED
    BY <2>1 DEF Page
<1>3. ToldWasSent(p)
  BY DEF ToldWasSent
<1> HIDE DEF p
<1> QED
  BY <1>1, <1>2, <1>3, TurnStep DEF p

LEMMA FetchSubscriptionStep ==
    ASSUME IInv, ReaderInv, NEW q \in Reader, FetchSubscription(q) PROVE ReaderInv'
<1> DEFINE p == [page[q] EXCEPT !.plan = plan[page[q].tenant]]
<1>1. page[q] \in Page /\ page[q].tenant \in Tenant /\ ToldWasSent(page[q])
  BY PageTypes DEF ReaderInv, PageInv, FetchSubscription
<1>2. p \in Page
  BY <1>1 DEF Page, IInv, TypeOK
<1>3. p.told = page[q].told /\ p.tenant = page[q].tenant /\ p.period = page[q].period
  BY <1>1 DEF Page
<1>4. ToldWasSent(p)
  BY <1>1, <1>3 DEF ToldWasSent
<1>5. Turn(q, "counters", p)
  BY DEF FetchSubscription
<1> HIDE DEF p
<1> QED
  BY <1>2, <1>4, <1>5, TurnStep

LEMMA FetchCountersStep ==
    ASSUME IInv, ReaderInv, NEW q \in Reader, FetchCounters(q) PROVE ReaderInv'
<1> DEFINE C == Counted(q)
           used == [u \in UsageType |->
                      IF u \in C THEN counters[AccountShown(q, u)].used ELSE 0]
           lim  == [u \in UsageType |->
                      IF u \in C THEN counters[AccountShown(q, u)].plan_limit ELSE 0]
           p == [page[q] EXCEPT !.counted = C, !.known = C, !.used = used,
                                !.plan_limit = lim]
<1>1. /\ page[q] \in Page /\ ToldWasSent(page[q])
      /\ \A u \in UsageType : AccountShown(q, u) \in Account
      /\ page[q].told \in SUBSET (Operation \X Event)
  BY PageTypes DEF ReaderInv, PageInv, FetchCounters, AccountShown, ShownAccount
<1>2. \A u \in C : counters[AccountShown(q, u)] \in Counter
  BY <1>1 DEF Counted, IInv, TypeOK
<1>3. C \subseteq UsageType
  BY DEF Counted
<1>4. used \in [UsageType -> Nat] /\ lim \in [UsageType -> Limits \cup {0}]
  BY <1>2 DEF Counter
<1> HIDE DEF used, lim, C
<1>5. p \in Page
  BY <1>1, <1>3, <1>4 DEF Page
<1>6. /\ p.told = page[q].told /\ p.tenant = page[q].tenant /\ p.period = page[q].period
      /\ p.used = used
  BY <1>1 DEF Page
<1>7. ToldWasSent(p)
  BY <1>1, <1>6 DEF ToldWasSent
<1>8. UsageWasRead(p)
  <2>1. ASSUME NEW u \in UsageType, used[u] # 0
        PROVE  /\ counters[ShownAccount(p, u)] # NoCounter
               /\ used[u] <= counters[ShownAccount(p, u)].used
    <3>1. u \in C /\ used[u] = counters[AccountShown(q, u)].used
      BY <2>1 DEF used
    <3>2. ShownAccount(p, u) = AccountShown(q, u)
      BY <1>6 DEF ShownAccount, AccountShown
    <3>3. counters[AccountShown(q, u)] # NoCounter /\ counters[AccountShown(q, u)].used \in Nat
      BY <1>2, <3>1 DEF C, Counted, Counter
    <3> QED
      BY <3>1, <3>2, <3>3
  <2>2. ASSUME NEW x \in p.told PROVE p.used[TypeOf[x[2].payload]] >= x[2].quota_used
    <3> DEFINE u == TypeOf[x[2].payload]
    <3>1. /\ x \in answers /\ x[1][1] = page[q].tenant /\ x[2].period = page[q].period
          /\ u \in UsageType /\ x[2].quota_used \in Nat
      BY <1>1, <1>6, <2>2, ToldTypes DEF ToldWasSent
    <3>2. /\ counters[AccountShown(q, u)] # NoCounter
          /\ x[2].quota_used <= counters[AccountShown(q, u)].used
      BY <3>1, AnswerIsOnBooks DEF AccountShown
    <3>3. u \in C
      BY <3>1, <3>2 DEF C, Counted
    <3>4. used[u] = counters[AccountShown(q, u)].used /\ used[u] \in Nat
      BY <1>4, <3>1, <3>3 DEF used
    <3> QED
      BY <1>6, <3>1, <3>2, <3>4
  <2> QED
    BY <1>6, <2>1, <2>2 DEF UsageWasRead
<1>9. Turn(q, "costs", p)
  BY DEF FetchCounters, used, lim, C
<1> HIDE DEF p
<1> QED
  BY <1>5, <1>7, <1>8, <1>9, TurnStep

LEMMA FetchCostsStep ==
    ASSUME IInv, ReaderInv, NEW q \in Reader, FetchCosts(q) PROVE ReaderInv'
<1> DEFINE b == [u \in UsageType |-> EventsOf(AccountShown(q, u))]
           p == [page[q] EXCEPT !.billed = b]
<1>1. /\ page[q] \in Page /\ ToldWasSent(page[q]) /\ UsageWasRead(page[q])
      /\ \A u \in UsageType : AccountShown(q, u) \in Account
      /\ page[q].told \in SUBSET (Operation \X Event)
      /\ page[q].used \in [UsageType -> Nat]
  BY PageTypes DEF ReaderInv, PageInv, FetchCosts, AccountShown, ShownAccount
<1>2. \A u \in UsageType : b[u] = EventsOf(AccountShown(q, u)) /\ b[u] \subseteq Operation
  BY DEF EventsOf
<1>3. b \in [UsageType -> SUBSET Operation]
  BY DEF EventsOf
<1> HIDE DEF b
<1>4. p \in Page
  BY <1>1, <1>3 DEF Page
<1>5. /\ p.told = page[q].told /\ p.tenant = page[q].tenant /\ p.period = page[q].period
      /\ p.used = page[q].used /\ p.billed = b
  BY <1>1 DEF Page
<1>6. ToldWasSent(p) /\ UsageWasRead(p)
  BY <1>1, <1>5 DEF ToldWasSent, UsageWasRead, ShownAccount
<1>7. CostWasRead(p)
  <2>1. ASSUME NEW u \in UsageType PROVE \A o \in b[u] : events[o] # NoEvent
    BY <1>2 DEF EventsOf
  <2>2. ASSUME NEW u \in UsageType
        PROVE  1 .. page[q].used[u] \subseteq UNION {Units(events[o]) : o \in b[u]}
    <3> DEFINE a == AccountShown(q, u)
               k == page[q].used[u]
    <3>1. a \in Account /\ k \in Nat
      BY <1>1
    <3>2. UsedUnits(a) = UNION {Units(events[o]) : o \in EventsOf(a)}
      BY <3>1 DEF IInv, EventsTileCounter
    <3>3. k = 0 \/ (counters[a] # NoCounter /\ k <= counters[a].used)
      BY <1>1 DEF UsageWasRead, AccountShown, ShownAccount
    <3>4. counters[a] # NoCounter => counters[a].used \in Nat
      BY <3>1 DEF IInv, TypeOK, Counter
    <3>5. 1 .. k \subseteq UsedUnits(a)
      BY <3>1, <3>3, <3>4 DEF UsedUnits
    <3> QED
      BY <1>2, <3>2, <3>5
  <2>3. ASSUME NEW x \in page[q].told PROVE x[1] \in b[TypeOf[x[2].payload]]
    <3>1. /\ x \in answers /\ x[1][1] = page[q].tenant /\ x[2].period = page[q].period
          /\ TypeOf[x[2].payload] \in UsageType
      BY <1>1, <2>3, ToldTypes DEF ToldWasSent
    <3>2. x[1] \in EventsOf(AccountShown(q, TypeOf[x[2].payload]))
      BY <3>1, AnswerIsOnBooks DEF AccountShown
    <3> QED
      BY <1>2, <3>1, <3>2
  <2> QED
    BY <1>5, <2>1, <2>2, <2>3 DEF CostWasRead
<1>8. Turn(q, "limits", p)
  BY DEF FetchCosts, b
<1> HIDE DEF p
<1> QED
  BY <1>4, <1>6, <1>7, <1>8, TurnStep

LEMMA FillLimitStep ==
    ASSUME IInv, ReaderInv, NEW q \in Reader, FillLimit(q) PROVE ReaderInv'
<1>1. PICK u \in UsageType \ page[q].known :
         Turn(q, "limits",
              [page[q] EXCEPT !.known = @ \cup {u},
                              !.plan_limit[u] = PlanLimit[plan[page[q].tenant]][u]])
  BY DEF FillLimit
<1> DEFINE lim == PlanLimit[plan[page[q].tenant]][u]
           p == [page[q] EXCEPT !.known = @ \cup {u}, !.plan_limit[u] = lim]
<1>2. /\ page[q] \in Page /\ page[q].tenant \in Tenant
      /\ ToldWasSent(page[q]) /\ UsageWasRead(page[q]) /\ CostWasRead(page[q])
  BY PageTypes DEF ReaderInv, PageInv, FillLimit
<1>3. lim \in Limits \cup {0}
  BY <1>2 DEF IInv, TypeOK, Limits
<1> HIDE DEF lim
<1>4. p \in Page
  BY <1>2, <1>3 DEF Page
<1>5. /\ p.told = page[q].told /\ p.tenant = page[q].tenant /\ p.period = page[q].period
      /\ p.used = page[q].used /\ p.billed = page[q].billed
  BY <1>2 DEF Page
<1>6. ToldWasSent(p) /\ UsageWasRead(p) /\ CostWasRead(p)
  BY <1>2, <1>5 DEF ToldWasSent, UsageWasRead, CostWasRead, ShownAccount
<1>7. Turn(q, "limits", p)
  BY <1>1 DEF lim
<1> HIDE DEF p
<1> QED
  BY <1>4, <1>6, <1>7, TurnStep

LEMMA CloseStep == ASSUME ReaderInv, NEW q \in Reader, Close(q) PROVE ReaderInv'
<1>1. Turn(q, "idle", NoPage)
  BY DEF Close
<1>2. SummaryTypeOK'
  BY <1>1 DEF Turn, ReaderInv, SummaryTypeOK
<1>3. PageInv(q)'
  BY <1>1 DEF Turn, PageInv, ReaderInv, SummaryTypeOK
<1>4. ASSUME NEW r \in Reader, r # q PROVE PageInv(r)'
  BY <1>1, <1>4, OthersKeepPages DEF ReaderInv, Turn
<1> QED
  BY <1>2, <1>3, <1>4 DEF ReaderInv

LEMMA NextReaderInv ==
    IInv /\ IInv' /\ ReaderInv /\ [SummaryNext]_summaryVars => ReaderInv'
<1> SUFFICES ASSUME IInv, IInv', ReaderInv, [SummaryNext]_summaryVars PROVE ReaderInv'
  OBVIOUS
<1>1. CASE [Next]_vars /\ UNCHANGED <<at, page>>
  <2>1. BooksGrow
    BY <1>1, NextGrows
  <2>2. SummaryTypeOK'
    BY <1>1 DEF ReaderInv, SummaryTypeOK
  <2> QED
    BY <1>1, <2>1, <2>2, BooksKeepPages DEF ReaderInv
<1>2. ASSUME NEW q \in Reader, Read(q) PROVE ReaderInv'
  BY <1>2, OpenStep, FetchSubscriptionStep, FetchCountersStep, FetchCostsStep,
     FillLimitStep, CloseStep DEF Read
<1>3. UNCHANGED summaryVars => UNCHANGED vars /\ UNCHANGED <<at, page>>
  BY DEF summaryVars
<1> QED
  BY <1>1, <1>2, <1>3 DEF SummaryNext

LEMMA ReaderInvariance == SummarySpec => []ReaderInv
<1>1. SummarySpec => []IInv
  BY SummaryKeepsIInv
<1> QED
  BY <1>1, InitReaderInv, NextReaderInv, PTL DEF SummarySpec

------------------------------------------------------------------------------
(* The theorems.                                                            *)

\* Every variable of the readers keeps its type.
THEOREM SummaryTypeCorrectness == SummarySpec => []SummaryTypeOK
<1>1. ReaderInv => SummaryTypeOK
  BY DEF ReaderInv
<1> QED
  BY <1>1, ReaderInvariance, PTL

\* The cost that GET /usage shows is never behind the usage it shows, however the
\* requests being metered fall between its statements.
THEOREM SummaryCostCoversUsage == SummarySpec => []CostCoversUsage
<1>1. ReaderInv => CostCoversUsage
  BY DEF ReaderInv, CostCoversUsage, Shown, PageInv, CostWasRead
<1> QED
  BY <1>1, ReaderInvariance, PTL

\* GET /usage shows a client every request it was answered 200 before.
THEOREM SummaryReadsYourWrites == SummarySpec => []ReadYourWrites
<1>1. ReaderInv => ReadYourWrites
  BY DEF ReaderInv, ReadYourWrites, Shown, PageInv, UsageWasRead, CostWasRead
<1> QED
  BY <1>1, ReaderInvariance, PTL

------------------------------------------------------------------------------
(* Sums over a set, which the community modules take element by element.    *)

\* A set of subsets of a finite set has a member that is least among them.
LEMMA LeastSubset ==
    ASSUME NEW S, IsFiniteSet(S), NEW W \in SUBSET (SUBSET S), W # {}
    PROVE  \E s \in W : \A r \in W : r \subseteq s => r = s
<1>1. IsWellFoundedOn(StrictSubsetOrdering(S), SUBSET S)
  BY FS_StrictSubsetOrderingWellFounded, FS_FiniteSubsetsOfFinite
<1>2. PICK s \in W : \A r \in W : ~(<<r, s>> \in StrictSubsetOrdering(S))
  BY <1>1, WFMin
<1> QED
  BY <1>2 DEF StrictSubsetOrdering

\* The sum of f over s is made of the sum over s without one element.
First(s) == CHOOSE x \in s : TRUE

Partial(f, g, s) == IF s = {} THEN 0 ELSE f[First(s)] + g[s \ {First(s)}]

\* g has the sums of f over all subsets of S.
Sums(f, S, g) == g = [s \in SUBSET S |-> Partial(f, g, s)]

LEMMA FirstIsIn == ASSUME NEW s, s # {} PROVE First(s) \in s
BY DEF First

\* There is one way only to sum up.
LEMMA SumsAgree ==
    ASSUME NEW f, NEW S, IsFiniteSet(S), NEW T \in SUBSET S, NEW g, NEW h,
           Sums(f, S, g), Sums(f, T, h)
    PROVE  \A s \in SUBSET T : g[s] = h[s]
<1> DEFINE W == {s \in SUBSET T : g[s] # h[s]}
<1> SUFFICES ASSUME W # {} PROVE FALSE
  OBVIOUS
<1>0. W \in SUBSET (SUBSET S)
  OBVIOUS
<1>1. PICK s \in W : \A r \in W : r \subseteq s => r = s
  <2> HIDE DEF W
  <2> QED
    BY <1>0, LeastSubset
<1>2. g[s] = Partial(f, g, s) /\ h[s] = Partial(f, h, s)
  BY DEF Sums
<1>3. s # {}
  BY <1>2 DEF Partial
<1>4. First(s) \in s
  BY <1>3, FirstIsIn
<1>5. s \ {First(s)} \in SUBSET T /\ s \ {First(s)} # s /\ s \ {First(s)} \subseteq s
  BY <1>4
<1>6. g[s \ {First(s)}] = h[s \ {First(s)}]
  BY <1>1, <1>5
<1> QED
  BY <1>2, <1>3, <1>6 DEF Partial

LEMMA SumsExist ==
    ASSUME NEW f, NEW S, IsFiniteSet(S)
    PROVE  \E g : Sums(f, S, g)
<1> DEFINE W == {T \in SUBSET S : ~ \E g : Sums(f, T, g)}
<1> SUFFICES ASSUME W # {} PROVE FALSE
  OBVIOUS
<1>1. PICK T \in W : \A r \in W : r \subseteq T => r = T
  <2>1. W \in SUBSET (SUBSET S)
    OBVIOUS
  <2> HIDE DEF W
  <2> QED
    BY <2>1, LeastSubset
<1> DEFINE G(s) == CHOOSE g : Sums(f, s, g)
<1>2. \A s \in SUBSET T : s # T => Sums(f, s, G(s))
  <2>1. \A s \in SUBSET T : s # T => \E g : Sums(f, s, g)
    BY <1>1
  <2> QED
    BY <2>1
<1> HIDE DEF G
<1> DEFINE below(s) == G(s)[s]
<1> DEFINE h == [s \in SUBSET T |-> IF s = {} THEN 0
                                    ELSE f[First(s)] + below(s \ {First(s)})]
<1>3. ASSUME NEW s \in SUBSET T, s # T PROVE h[s] = G(s)[s]
  <2>1. G(s)[s] = Partial(f, G(s), s)
    BY <1>2, <1>3 DEF Sums
  <2>2. CASE s = {}
    BY <2>1, <2>2 DEF Partial
  <2>3. CASE s # {}
    <3> DEFINE r == s \ {First(s)}
    <3>1. r \in SUBSET T /\ r \in SUBSET r /\ r \in SUBSET s /\ r # T
      BY <1>3, <2>3, FirstIsIn
    <3>2. IsFiniteSet(s)
      BY FS_Subset
    <3>3. Sums(f, s, G(s)) /\ Sums(f, r, G(r))
      BY <1>2, <1>3, <3>1
    <3>4. G(s)[r] = G(r)[r]
      <4> HIDE DEF r
      <4> QED
        BY <3>1, <3>2, <3>3, SumsAgree
    <3> QED
      BY <2>1, <2>3, <3>4 DEF Partial
  <2> QED
    BY <2>2, <2>3
<1>4. ASSUME NEW s \in SUBSET T, s # {}
      PROVE  below(s \ {First(s)}) = h[s \ {First(s)}]
  <2>1. s \ {First(s)} \in SUBSET T /\ s \ {First(s)} # T
    BY <1>4, FirstIsIn
  <2> HIDE DEF h
  <2> QED
    BY <1>3, <2>1
<1>5. \A s \in SUBSET T : h[s] = Partial(f, h, s)
  BY <1>4 DEF Partial
<1>6. h = [s \in SUBSET T |-> h[s]]
  OBVIOUS
<1>7. Sums(f, T, h)
  <2> HIDE DEF h
  <2> QED
    BY <1>5, <1>6 DEF Sums
<1> QED
  BY <1>7

\* What the community module's sum computes.
LEMMA SumIsPartial ==
    ASSUME NEW f, IsFiniteSet(DOMAIN f)
    PROVE  \E g : Sums(f, DOMAIN f, g) /\ SumFunction(f) = g[DOMAIN f]
<1>1. \E g : Sums(f, DOMAIN f, g)
  BY SumsExist
<1> QED
  BY <1>1 DEF Sums, Partial, First, SumFunction, SumFunctionOnSet, FoldFunctionOnSet, MapThenFoldSet

\* If each summand is off by at most half a million, n of them are by at most n halves
LEMMA ErrorsAddUp ==
    ASSUME NEW S, IsFiniteSet(S), NEW f \in [S -> Int], NEW e \in [S -> Int],
           \A x \in S : -Million <= 2 * (Million * f[x] - e[x])
                        /\ 2 * (Million * f[x] - e[x]) <= Million
    PROVE  LET off == 2 * (Million * SumFunction(f) - SumFunction(e))
           IN  -(Cardinality(S) * Million) <= off /\ off <= Cardinality(S) * Million
<1>1. PICK g : Sums(f, S, g) /\ SumFunction(f) = g[S]
  BY SumIsPartial
<1>2. PICK h : Sums(e, S, h) /\ SumFunction(e) = h[S]
  BY SumIsPartial
<1> DEFINE Fair(s) ==
        /\ g[s] \in Int /\ h[s] \in Int
        /\ -(Cardinality(s) * Million) <= 2 * (Million * g[s] - h[s])
        /\ 2 * (Million * g[s] - h[s]) <= Cardinality(s) * Million
<1> DEFINE W == {s \in SUBSET S : ~Fair(s)}
<1>3. W = {}
  <2> SUFFICES ASSUME W # {} PROVE FALSE
    OBVIOUS
  <2>1. PICK s \in W : \A r \in W : r \subseteq s => r = s
    <3>1. W \in SUBSET (SUBSET S)
      OBVIOUS
    <3> HIDE DEF W
    <3> QED
      BY <3>1, LeastSubset
  <2>2. g[s] = Partial(f, g, s) /\ h[s] = Partial(e, h, s)
    BY <1>1, <1>2 DEF Sums
  <2>3. IsFiniteSet(s)
    BY FS_Subset
  <2>4. s # {}
    <3> SUFFICES ASSUME s = {} PROVE Fair(s)
      OBVIOUS
    <3>1. Cardinality(s) = 0 /\ g[s] = 0 /\ h[s] = 0
      BY <2>2, FS_EmptySet DEF Partial
    <3> QED
      BY <3>1 DEF Million
  <2> DEFINE x == First(s)
  <2> DEFINE r == s \ {x}
  <2>5. x \in s /\ x \in S
    BY <2>4, FirstIsIn
  <2>6. r \in SUBSET S /\ r \subseteq s /\ r # s
    BY <2>5
  <2>7. Cardinality(r) \in Nat /\ Cardinality(s) = Cardinality(r) + 1
    BY <2>3, <2>5, <2>6, FS_RemoveElement, FS_CardinalityType, FS_Subset
  <2>8. Fair(r)
    <3> HIDE DEF Fair, r
    <3> QED
      BY <2>1, <2>6
  <2>9. g[s] = f[x] + g[r] /\ h[s] = e[x] + h[r]
    BY <2>2, <2>4 DEF Partial
  <2>10. f[x] \in Int /\ e[x] \in Int
         /\ -Million <= 2 * (Million * f[x] - e[x]) /\ 2 * (Million * f[x] - e[x]) <= Million
    BY <2>5
  <2>11. Fair(s)
    <3> HIDE DEF x, r
    <3> QED
      BY <2>7, <2>8, <2>9, <2>10 DEF Million
  <2> QED
    BY <2>11
<1> QED
  BY <1>1, <1>2, <1>3

------------------------------------------------------------------------------
(* The total cost.                                                          *)

\* An event is stored with its exact cost, rounded by at most half a micro-cent.
LEMMA EventIsPricedFairly ==
    ASSUME NEW p \in Payload
    PROVE  /\ CostOf(p) \in Int /\ ExactCostOf(p) \in Int
           /\ -Million <= 2 * (Million * CostOf(p) - ExactCostOf(p))
           /\ 2 * (Million * CostOf(p) - ExactCostOf(p)) <= Million
<1>1. CASE TypeOf[p] = "api_call"
  <2>1. CostOfCalls(Quantity[p]) \in Nat
    BY QuantityAssumption, PriceAssumption, ProductIsNat DEF CostOfCalls
  <2> QED
    BY <1>1, <2>1 DEF CostOf, ExactCostOf, Million
<1>2. CASE TypeOf[p] # "api_call"
  <2>1. AllInput(Quantity[p]) \in TokenUsage
    BY QuantityAssumption DEF AllInput, TokenUsage
  <2>2. BilledUsage(p) \in TokenUsage
    BY <2>1, BreakdownAssumption DEF BilledUsage
  <2>3. CostOfTokens(BilledUsage(p)) \in Nat /\ Exact(BilledUsage(p)) \in Nat
    BY <2>2, CostIsFair, ExactIsNat
  <2> QED
    BY <1>2, <2>2, <2>3, CostIsFair DEF CostOf, ExactCostOf, Million
<1> QED
  BY <1>1, <1>2

\* There are finitely many events, as each step adds one at most.
FiniteBooks == IsFiniteSet({o \in Operation : events[o] # NoEvent})

LEMMA InitFiniteBooks == Init => FiniteBooks
<1> SUFFICES ASSUME Init PROVE FiniteBooks
  OBVIOUS
<1>1. {o \in Operation : events[o] # NoEvent} = {}
  BY DEF Init
<1> QED
  BY <1>1, FS_EmptySet DEF FiniteBooks

LEMMA NextFiniteBooks == IInv /\ FiniteBooks /\ [Next]_vars => FiniteBooks'
<1> SUFFICES ASSUME IInv, FiniteBooks, [Next]_vars PROVE FiniteBooks'
  OBVIOUS
<1> DEFINE S == {o \in Operation : events[o] # NoEvent}
<1>1. ASSUME NEW t \in Thread, Charge(t) PROVE FiniteBooks'
  <2>1. S' \subseteq S \cup {OpOf(t)}
    BY <1>1, CommitEffect DEF IInv, TypeOK
  <2>2. IsFiniteSet(S \cup {OpOf(t)})
    BY FS_AddElement DEF FiniteBooks
  <2> QED
    BY <2>1, <2>2, FS_Subset DEF FiniteBooks
<1>2. CASE \A t \in Thread : ~Charge(t)
  BY <1>2, WritesOnlyByCommit DEF IInv, FiniteBooks
<1> QED
  BY <1>1, <1>2

LEMMA BooksAreFinite == SummarySpec => []FiniteBooks
<1>1. Spec => []FiniteBooks
  BY Invariance, InitFiniteBooks, NextFiniteBooks, PTL DEF Spec
<1> QED
  BY <1>1, MeteringGoesOn, PTL

\* The total of GET /usage is off its exact price by no more than the rounding of
\* the requests in it, each of which was rounded once.
THEOREM SummaryTotalIsFair == SummarySpec => []TotalIsFair
<1>1. IInv /\ ReaderInv /\ FiniteBooks => TotalIsFair
  <2> SUFFICES ASSUME IInv, ReaderInv, FiniteBooks,
                      NEW q \in Reader, NEW u \in UsageType, Shown(q)
               PROVE  LET allowed == Cardinality(page[q].billed[u]) * Million
                          off     == 2 * (Million * TotalCost(q, u) - TotalExact(q, u))
                      IN  -allowed <= off /\ off <= allowed
    BY DEF TotalIsFair
  <2> DEFINE S == page[q].billed[u]
  <2> DEFINE cost == [o \in S |-> CostOf(events[o].payload)]
  <2> DEFINE exact == [o \in S |-> ExactCostOf(events[o].payload)]
  <2>1. \A o \in S : o \in Operation /\ events[o] # NoEvent
    BY PageTypes DEF ReaderInv, PageInv, CostWasRead, Shown
  <2>2. IsFiniteSet(S)
    <3>1. S \subseteq {o \in Operation : events[o] # NoEvent}
      BY <2>1
    <3> QED
      BY <3>1, FS_Subset DEF FiniteBooks
  <2>3. \A o \in S : events[o].payload \in Payload
    BY <2>1 DEF IInv, TypeOK, Event
  <2>4. \A o \in S : /\ cost[o] \in Int /\ exact[o] \in Int
                    /\ -Million <= 2 * (Million * cost[o] - exact[o])
                    /\ 2 * (Million * cost[o] - exact[o]) <= Million
    BY <2>3, EventIsPricedFairly
  <2>5. cost \in [S -> Int] /\ exact \in [S -> Int]
    BY <2>4
  <2>6. TotalCost(q, u) = SumFunction(cost) /\ TotalExact(q, u) = SumFunction(exact)
    BY DEF TotalCost, TotalExact
  <2> HIDE DEF S, cost, exact
  <2>7. LET off == 2 * (Million * SumFunction(cost) - SumFunction(exact))
        IN  -(Cardinality(S) * Million) <= off /\ off <= Cardinality(S) * Million
    BY <2>2, <2>4, <2>5, ErrorsAddUp
  <2> QED
    BY <2>6, <2>7 DEF S
<1> QED
  BY <1>1, SummaryKeepsIInv, ReaderInvariance, BooksAreFinite, PTL
===============================================================================
