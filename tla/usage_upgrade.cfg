\* A reader after an upgrade from free to pro in the middle of a month.
SPECIFICATION UpgradeSpec
CONSTANTS
    Thread = {t1}
    Tenant = {acme}
    Key = {k1, k2}
    call = call
    chat = chat
    prompt = prompt
    Payload = {call, chat}
    UsageType = {"api_call", "token"}
    TypeOf <- MCTypeOf
    Quantity <- MCQuantity
    Plan = {"free", "pro"}
    PlanLimit <- MCPlanLimit
    LastPeriod = 1
    NoCounter = NoCounter
    NoEvent = NoEvent
    NoRequest = NoRequest
    InputPrice = 400000
    CachedPrice = 300000
    OutputPrice = 450000
    CallPrice = 2
    Reader = {q1}
    Breakdown <- MCBreakdown
    NoBreakdown = NoBreakdown
    NoPage = NoPage
INVARIANTS
    UpgradedLimitsShown
