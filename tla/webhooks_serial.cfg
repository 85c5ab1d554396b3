\* One worker, every kind of event in every order of delivery.
SPECIFICATION Spec
CONSTANTS
    Worker = {w1}
    acme = acme
    beta = beta
    cus = cus
    sub1 = sub1
    sub2 = sub2
    created = created
    updated = updated
    paid = paid
    deleted = deleted
    unpaid = unpaid
    again = again
    alien = alien
    unnamed = unnamed
    Event = {unnamed, updated, paid, deleted, unpaid, again}
    Body <- MCBody
    Tenant = {acme, beta}
    Customer = {cus}
    SubId = {sub1, sub2}
    CreatedFor <- MCCreatedFor
    MaxFaults = 1
    NoEvent = NoEvent
    NoTenant = NoTenant
    NoCustomer = NoCustomer
    NoWrite = NoWrite
INVARIANTS
    RowTellsNewest
    EveryUpsertCounts
    OneSubscriptionPerTenant
PROPERTIES
    OnlyUpsertRevives
    OnlyNewerApplied
    ImplementsLedger
