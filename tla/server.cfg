\* Three requests of any kind, one thread, two connections.
SPECIFICATION FairSpec
CONSTANTS
    Request = {r1, r2, r3}
    Tenant = {acme}
    Threads = 1
    Connections = 2
INVARIANTS
    TypeOK
PROPERTIES
    RequestsEndUnlessHung
    PoolIsEnough
CHECK_DEADLOCK FALSE
