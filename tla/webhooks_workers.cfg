\* Two workers: duplicate deliveries, conflicting metadata, failures, and a Stripe
\* that retries.
SPECIFICATION FairSpec
CONSTANTS
    Worker = {w1, w2}
    acme = acme
    beta = beta
    cus = cus
    sub1 = sub1
    sub2 = sub2
    created = created
    updated = updated
    paid = paid
    deleted = deleted
    unpaid = unpaid
    again = again
    alien = alien
    unnamed = unnamed
    Event = {created, updated, alien}
    Body <- MCBody
    Tenant = {acme, beta}
    Customer = {cus}
    SubId = {sub1, sub2}
    CreatedFor <- MCCreatedFor
    MaxFaults = 1
    NoEvent = NoEvent
    NoTenant = NoTenant
    NoCustomer = NoCustomer
    NoWrite = NoWrite
INVARIANTS
    TypeOK
    AppliedOnce
    AckedIsProcessed
    RowsFollowCustomers
PROPERTIES
    EveryEventIsAcked
