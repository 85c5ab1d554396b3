\* Two threads on one key, under the fairness of the lock queue, while the plan and the
\* month change.
SPECIFICATION FairSpec
CONSTANTS
    Thread = {t1, t2}
    Tenant = {acme}
    Key = {k1}
    small = small
    large = large
    huge = huge
    tokens = tokens
    Payload = {small, huge}
    UsageType = {"api_call", "token"}
    TypeOf <- MCTypeOf
    Quantity <- MCQuantity
    Plan = {"free", "pro"}
    PlanLimit <- MCPlanLimit
    LastPeriod = 2
    NoCounter = NoCounter
    NoEvent = NoEvent
    NoRequest = NoRequest
PROPERTIES
    EveryRequestEnds
