\* One worker, the deletion delivered before the creation.
SPECIFICATION Spec
CONSTANTS
    Worker = {w1}
    acme = acme
    beta = beta
    cus = cus
    sub1 = sub1
    sub2 = sub2
    created = created
    updated = updated
    paid = paid
    deleted = deleted
    unpaid = unpaid
    again = again
    alien = alien
    unnamed = unnamed
    Event = {created, updated, deleted}
    Body <- MCBody
    Tenant = {acme}
    Customer = {cus}
    SubId = {sub1, sub2}
    CreatedFor <- MCCreatedFor
    MaxFaults = 0
    NoEvent = NoEvent
    NoTenant = NoTenant
    NoCustomer = NoCustomer
    NoWrite = NoWrite
INVARIANTS
    DeletedIsCancelled
