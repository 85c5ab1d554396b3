\* Three threads on one tenant, plan and month: duplicates, conflicting
\* payloads and competitors for one counter, in every order.
SPECIFICATION Spec
CONSTANTS
    Thread = {t1, t2, t3}
    Tenant = {acme}
    Key = {k1, k2}
    small = small
    large = large
    huge = huge
    tokens = tokens
    Payload = {small, large, tokens}
    UsageType = {"api_call", "token"}
    TypeOf <- MCTypeOf
    Quantity <- MCQuantity
    Plan = {"free"}
    PlanLimit <- MCFreeLimit
    LastPeriod = 1
    NoCounter = NoCounter
    NoEvent = NoEvent
    NoRequest = NoRequest
SYMMETRY MCSymmetry
INVARIANTS
    TypeOK
    IInv
    QuotaRespected
    EventsTileCounter
    AnswersAreStored
    RefusalsDeserved
PROPERTIES
    BooksOnlyGrow
    ImplementsLedger
