----------------------------- MODULE UsageSummary -----------------------------
(***************************************************************************)
(* GET /usage while requests are being metered: Metering's threads write   *)
(* the books, readers put the month's usage, limits and costs together     *)
(* from statements that each see what is committed at their own moment     *)
(* (READ COMMITTED).                                                       *)
(*                                                                         *)
(* The composition interleaves a whole Metering with the readers, and adds *)
(* what Metering left out of a usage event: its cost (TokenCost).          *)
(***************************************************************************)
EXTENDS Metering, TokenCost, FiniteSetsExt

CONSTANTS
    Reader,            \* requests for GET /usage
    Breakdown,         \* token_usage of a payload, NoBreakdown without one
    NoBreakdown, NoPage

ASSUME BreakdownAssumption ==
    /\ NoBreakdown \notin TokenUsage
    /\ Breakdown \in [Payload -> TokenUsage \cup {NoBreakdown}]
    /\ \A p \in Payload : Breakdown[p] # NoBreakdown =>
                              Quantity[p] = TotalTokens(Breakdown[p])

\* What a reader has put together: the plan it displays and, per usage type, the
\* units used, the plan limit (0 until it is `known') and the usage events whose
\* costs were summed.  `counted' are the types with a counter.  `told' is history:
\* the answers that had been sent when the request began.
Page == [tenant : Tenant, period : Period, plan : Plan,
         counted : SUBSET UsageType, known : SUBSET UsageType,
         used : [UsageType -> Nat], plan_limit : [UsageType -> Limits \cup {0}],
         billed : [UsageType -> SUBSET Operation],
         told : SUBSET (Operation \X Event)]

ASSUME NoPageAssumption == NoPage \notin Page

VARIABLES
    at,                \* per reader, its next statement
    page               \* per reader, what it has read so far

summaryVars == <<vars, at, page>>

\* A token request without a breakdown is billed as uncached input.
BilledUsage(p) ==
    IF Breakdown[p] = NoBreakdown THEN AllInput(Quantity[p]) ELSE Breakdown[p]

\* The cost_micro_cents that record_usage stores with an event of payload p.
CostOf(p) ==
    IF TypeOf[p] = "api_call" THEN CostOfCalls(Quantity[p])
    ELSE CostOfTokens(BilledUsage(p))

SummaryInit ==
    /\ Init
    /\ at   = [q \in Reader |-> "idle"]
    /\ page = [q \in Reader |-> NoPage]

\* Reader q goes on at l with page p; nothing is written.
Turn(q, l, p) ==
    /\ at'   = [at EXCEPT ![q] = l]
    /\ page' = [page EXCEPT ![q] = p]
    /\ UNCHANGED vars

AccountShown(q, u) == <<page[q].tenant, u, page[q].period>>
-----------------------------------------------------------------------------
(* The steps of a request.                                                 *)

\* The request is authenticated, and the month is read from the calendar.
Open(q) ==
    /\ at[q] = "idle"
    /\ \E n \in Tenant :
          Turn(q, "subscription",
               [tenant |-> n, period |-> period, plan |-> plan[n],
                counted |-> {}, known |-> {},
                used |-> [u \in UsageType |-> 0], plan_limit |-> [u \in UsageType |-> 0],
                billed |-> [u \in UsageType |-> {}],
                told |-> {x \in answers : x[1][1] = n /\ x[2].period = period}])

\* 1. The newest active subscription, for the plan to display.
FetchSubscription(q) ==
    /\ at[q] = "subscription"
    /\ Turn(q, "counters", [page[q] EXCEPT !.plan = plan[page[q].tenant]])

Counted(q) == {u \in UsageType : counters[AccountShown(q, u)] # NoCounter}

\* Mutant: the counters are read once more when the response is built.
FetchCountersAgain(q) ==
    /\ at[q] \in {"counters", "limits"}
    /\ Turn(q, IF at[q] = "counters" THEN "costs" ELSE "limits",
            [page[q] EXCEPT
               !.counted = Counted(q), !.known = Counted(q),
               !.used = [u \in UsageType |->
                   IF u \in Counted(q) THEN counters[AccountShown(q, u)].used ELSE 0],
               !.plan_limit = [u \in UsageType |->
                   IF u \in Counted(q) THEN counters[AccountShown(q, u)].plan_limit ELSE 0]])

\* 2. All counters of the tenant and month in one statement.
FetchCounters(q) ==
    /\ at[q] = "counters"
    /\ Turn(q, "costs",
            [page[q] EXCEPT
               !.counted = Counted(q), !.known = Counted(q),
               !.used = [u \in UsageType |->
                   IF u \in Counted(q) THEN counters[AccountShown(q, u)].used ELSE 0],
               !.plan_limit = [u \in UsageType |->
                   IF u \in Counted(q) THEN counters[AccountShown(q, u)].plan_limit ELSE 0]])

\* 3. The cost of every usage type in one statement.
FetchCosts(q) ==
    /\ at[q] = "costs"
    /\ Turn(q, "limits",
            [page[q] EXCEPT !.billed = [u \in UsageType |-> EventsOf(AccountShown(q, u))]])

\* The response: a type without a counter takes its limit from get_plan_limit,
\* 'api_call' before 'token'.
FillLimit(q) ==
    /\ at[q] = "limits"
    /\ \E u \in UsageType \ page[q].known :
          /\ u = "token" => "api_call" \notin UsageType \ page[q].known
          /\ Turn(q, "limits",
                  [page[q] EXCEPT !.known = @ \cup {u},
                                  !.plan_limit[u] = PlanLimit[plan[page[q].tenant]][u]])

\* Mutant: a page outlives its request.
CloseKeepsPage(q) ==
    /\ at[q] # "idle"
    /\ Turn(q, "idle", page[q])

\* The response is sent, or the request is cut off.
Close(q) ==
    /\ at[q] # "idle"
    /\ Turn(q, "idle", NoPage)

Read(q) ==
    \/ Open(q) \/ FetchSubscription(q) \/ FetchCounters(q) \/ FetchCosts(q)
    \/ FillLimit(q) \/ Close(q)

SummaryNext ==
    \/ Next /\ UNCHANGED <<at, page>>
    \/ \E q \in Reader : Read(q)

SummarySpec == SummaryInit /\ [][SummaryNext]_summaryVars
-----------------------------------------------------------------------------
(* What must hold.                                                         *)

Shown(q) == at[q] = "limits" /\ page[q].known = UsageType

SummaryTypeOK ==
    /\ at   \in [Reader -> {"idle", "subscription", "counters", "costs", "limits"}]
    /\ page \in [Reader -> Page \cup {NoPage}]
    /\ \A q \in Reader : at[q] = "idle" <=> page[q] = NoPage

\* Although usage and costs are read at different moments, the total cost of a
\* page never falls short of the usage next to it: every unit counted as used
\* belongs to a usage event whose cost is in the sum, because the counters are read
\* before the costs and an event is never taken back.
CostCoversUsage ==
    \A q \in Reader, u \in UsageType : Shown(q) =>
        1 .. page[q].used[u] \subseteq UNION {Units(events[o]) : o \in page[q].billed[u]}

\* A client that was answered 200 and then asks for its usage finds that request
\* counted and its cost in the total, whatever is being metered at the same time.
ReadYourWrites ==
    \A q \in Reader : Shown(q) =>
        \A x \in page[q].told :
            LET u == TypeOf[x[2].payload] IN
            /\ page[q].used[u] >= x[2].quota_used
            /\ x[1] \in page[q].billed[u]

\* total_cost_micro_cents: the stored, rounded costs, summed.
TotalCost(q, u) == SumFunction([o \in page[q].billed[u] |-> CostOf(events[o].payload)])

\* What a payload costs before rounding, in millionths of a micro-cent.
ExactCostOf(p) ==
    IF TypeOf[p] = "api_call" THEN Million * CostOfCalls(Quantity[p]) ELSE Exact(BilledUsage(p))

TotalExact(q, u) == SumFunction([o \in page[q].billed[u] |-> ExactCostOf(events[o].payload)])

\* The total of a page is within half a micro-cent per billed request of what its
\* tokens cost exactly: rounding is done once per request and never adds up to more.
TotalIsFair ==
    \A q \in Reader, u \in UsageType : Shown(q) =>
        LET allowed == Cardinality(page[q].billed[u]) * Million
            off     == 2 * (Million * TotalCost(q, u) - TotalExact(q, u))
        IN  -allowed <= off /\ off <= allowed
-----------------------------------------------------------------------------
(* What the repository says and the code does not do.                       *)

\* A page never shows a smaller limit than the plan allows that the page names and
\* that still is the tenant's: after an upgrade the counters have the new limits.
UpgradedLimitsShown ==
    \A q \in Reader, u \in UsageType :
        Shown(q) /\ u \in page[q].counted /\ page[q].plan = plan[page[q].tenant]
            => page[q].plan_limit[u] >= PlanLimit[page[q].plan][u]
===============================================================================
