\* Two threads, two tenants that come to exist, one key between them.
SPECIFICATION Spec
CONSTANTS
    Thread = {t1, t2}
    Tenant = {acme, beta}
    Email = {e1, e2}
    ClientKey = {k1}
    NoKey = NoKey
    NoTenant = NoTenant
    NoEmail = NoEmail
    NoRequest = NoRequest
    MaxFaults = 1
    MaxLapses = 1
SYMMETRY ThreadSymmetry
INVARIANTS
    TypeOK
    TokensNameTenants
    NoOrphanCustomers
    AnswersAreLinked
PROPERTIES
    RefusalsExplained
