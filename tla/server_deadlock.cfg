\* A refused request keeps its tenant's row from a webhook, and the webhook the
\* loop from the refused request.
SPECIFICATION FairSpec
CONSTANTS
    Request = {r1, r2}
    Tenant = {acme}
    Threads = 1
    Connections = 2
PROPERTIES
    SessionsAreClosed
CHECK_DEADLOCK FALSE
