\* One tenant whose client tries again and again, with and without a key of its own.
SPECIFICATION FairSpec
CONSTANTS
    Thread = {t1, t2}
    Tenant = {acme}
    Email = {e1}
    ClientKey = {k1, k2}
    NoKey = NoKey
    NoTenant = NoTenant
    NoEmail = NoEmail
    NoRequest = NoRequest
    MaxFaults = 2
    MaxLapses = 1
PROPERTIES
    CheckoutGoesThrough
