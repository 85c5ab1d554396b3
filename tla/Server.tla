-------------------------------- MODULE Server --------------------------------
(***************************************************************************)
(* The server process: one event loop, a pool of threads, a pool of        *)
(* database connections, and the locks on tenant rows that outlive a       *)
(* statement.                                                              *)
(*                                                                         *)
(* FastAPI runs a synchronous dependency or route in a thread, which the   *)
(* loop hands out and takes back.  The session of a request has a          *)
(* connection from its first statement to its commit, rollback or close;   *)
(* a request that ends without a commit keeps it, and its locks, until the *)
(* loop gets round to the teardown of get_db.  The webhook is an async     *)
(* route: its statements run on the loop, and while one of them waits the  *)
(* loop does nothing else.                                                 *)
(*                                                                         *)
(* A burst of requests is followed to its end.                             *)
(***************************************************************************)
EXTENDS Naturals, FiniteSets

CONSTANTS
    Request,             \* the requests of the burst, each sent once
    Tenant,
    Threads,             \* size of the thread pool (AnyIO's 40)
    Connections          \* size of the connection pool, overflow included (10 + 20)

ASSUME PoolAssumption == Threads \in Nat \ {0} /\ Connections \in Nat \ {0}

\* What a request does, as far as locks and threads go: "write" is a generate
\* request that inserts its counter or event row, "read" one that inserts none, GET
\* /usage, or a checkout refused for its plan; "health" also stands for /auth/token
\* of a known tenant; the hooks insert a subscription, link a customer, or update a
\* subscription.
Kind == {"write", "read", "health", "checkout", "hook_insert", "hook_link", "hook_update"}

Hook == {"hook_insert", "hook_link", "hook_update"}

VARIABLES
    pc,           \* per request, how far it is
    kind, tenant, \* what it does, and for whom
    conn,         \* requests whose session has a connection
    lock          \* per request, its lock on the row of its tenant

vars == <<pc, kind, tenant, conn, lock>>

Init ==
    /\ pc     = [r \in Request |-> "new"]
    /\ kind   \in [Request -> Kind]
    /\ tenant \in [Request -> Tenant]
    /\ conn   = {}
    /\ lock   = [r \in Request |-> "none"]

Goto(r, l) == pc' = [pc EXCEPT ![r] = l]

\* No webhook is in the middle of its statements.
LoopFree == \A r \in Request : pc[r] \notin {"hook_connect", "hook", "hook_commit"}

\* A thread is given back by the loop, some time after its function has ended.
InThread == {r \in Request : pc[r] \in {"connect", "authed", "route", "decide", "stripe",
                                        "open", "closed"}}

\* The lock that a request's statements take on its tenant's row: KEY SHARE for the
\* foreign key of an insertion, FOR UPDATE for itself or for a new unique value.
Wanted(r) == CASE kind[r] \in {"write", "hook_insert"}  -> "share"
               [] kind[r] \in {"checkout", "hook_link"} -> "update"
               [] OTHER                                 -> "none"

\* The requests whose locks make r wait.
Blockers(r) ==
    {s \in Request \ {r} :
        /\ tenant[s] = tenant[r]
        /\ \/ Wanted(r) = "update" /\ lock[s] # "none"
           \/ Wanted(r) = "share"  /\ lock[s] = "update"}

TakeLock(r) ==
    /\ Blockers(r) = {}
    /\ lock' = [lock EXCEPT ![r] = Wanted(r)]

\* Commit, rollback or close: the connection goes back to the pool.
Release(r) ==
    /\ conn' = conn \ {r}
    /\ lock' = [lock EXCEPT ![r] = "none"]

FreeConnection == Cardinality(conn) < Connections
FreeThread     == Cardinality(InThread) < Threads
-----------------------------------------------------------------------------
(* Steps of the loop.                                                      *)

Arrive(r) ==
    /\ pc[r] = "new" /\ LoopFree
    /\ Goto(r, "arrived")
    /\ UNCHANGED <<kind, tenant, conn, lock>>

\* get_db and get_current_tenant get a thread; a token that does not verify ends
\* the request at once with 401.  Without authentication the route comes next.
Dispatch(r) ==
    /\ pc[r] = "arrived" /\ LoopFree /\ FreeThread
    /\ \/ kind[r] \in Hook \cup {"health"} /\ Goto(r, "ready")
       \/ kind[r] \notin Hook \cup {"health"} /\ (Goto(r, "connect") \/ Goto(r, "closed"))
    /\ UNCHANGED <<kind, tenant, conn, lock>>

\* The thread of get_current_tenant is given back ...
Authenticated(r) ==
    /\ pc[r] = "authed" /\ LoopFree
    /\ Goto(r, "ready")
    /\ UNCHANGED <<kind, tenant, conn, lock>>

\* ... and one is found for the route, or the loop turns to an async route.
Enter(r) ==
    /\ pc[r] = "ready" /\ LoopFree
    /\ \/ kind[r] \in Hook /\ Goto(r, "hook_connect")
       \/ kind[r] \notin Hook /\ FreeThread /\ Goto(r, "route")
    /\ UNCHANGED <<kind, tenant, conn, lock>>

\* The route has returned or raised.
Finish(r) ==
    /\ pc[r] \in {"open", "closed"} /\ LoopFree
    /\ Goto(r, IF pc[r] = "open" THEN "teardown" ELSE "ended")
    /\ UNCHANGED <<kind, tenant, conn, lock>>
-----------------------------------------------------------------------------
(* Steps of the threads.                                                   *)

\* The first statement takes a connection, the session keeps it.
Connect(r) ==
    /\ FreeConnection
    /\ \/ pc[r] = "connect" /\ Goto(r, "authed")
       \/ pc[r] = "route" /\ kind[r] = "health" /\ Goto(r, "open")
       \/ pc[r] = "hook_connect" /\ Goto(r, "hook")
    /\ conn' = conn \cup {r}
    /\ UNCHANGED <<kind, tenant, lock>>

\* Mutant: waits for a connection as long as it takes.
NoPoolTimeout(r) == FALSE /\ UNCHANGED vars

\* None was free for 30 seconds: TimeoutError, answered 500, or "degraded".
PoolTimeout(r) ==
    /\ ~FreeConnection
    /\ \/ pc[r] = "connect" /\ Goto(r, "closed")
       \/ pc[r] = "route" /\ kind[r] = "health" /\ Goto(r, "closed")
       \/ pc[r] = "hook_connect" /\ Goto(r, "ended")
    /\ UNCHANGED <<kind, tenant, conn, lock>>

\* The route's statements, up to the one that may wait for the tenant's row: the INSERT
\* of a quota counter, or get_or_create_customer's SELECT ... FOR UPDATE.
Execute(r) ==
    /\ pc[r] = "route" /\ kind[r] # "health"
    /\ TakeLock(r)
    /\ Goto(r, IF kind[r] = "checkout" THEN "stripe" ELSE "decide")
    /\ UNCHANGED <<kind, tenant, conn>>

\* The route commits, or it ends with its transaction open: a refusal or GET /usage.
CommitOrRaise(r) ==
    /\ pc[r] = "decide"
    /\ \/ Goto(r, "closed") /\ Release(r)
       \/ Goto(r, "open") /\ UNCHANGED <<conn, lock>>
    /\ UNCHANGED <<kind, tenant>>

\* Stripe has answered: commit, or rollback in the route.
StripeReturns(r) ==
    /\ pc[r] = "stripe"
    /\ Goto(r, "closed")
    /\ Release(r)
    /\ UNCHANGED <<kind, tenant>>

\* Mutant: get_db does not close the session.
TeardownLeaks(r) ==
    /\ pc[r] = "teardown"
    /\ Goto(r, "ended")
    /\ lock' = [lock EXCEPT ![r] = "none"]
    /\ UNCHANGED <<kind, tenant, conn>>

\* The teardown of get_db, in a thread outside the pool.
Teardown(r) ==
    /\ pc[r] = "teardown"
    /\ Goto(r, "ended")
    /\ Release(r)
    /\ UNCHANGED <<kind, tenant>>
-----------------------------------------------------------------------------
(* The webhook, on the loop.                                               *)

HookExecute(r) ==
    /\ pc[r] = "hook"
    /\ TakeLock(r)
    /\ Goto(r, "hook_commit")
    /\ UNCHANGED <<kind, tenant, conn>>

\* Mutant: what a failed webhook has locked is not rolled back.
HookCommitOrNot(r) ==
    /\ pc[r] = "hook_commit"
    /\ Goto(r, "ended")
    /\ Release(r) \/ UNCHANGED <<conn, lock>>
    /\ UNCHANGED <<kind, tenant>>

\* Commit, or rollback in the route's except branch.
HookCommit(r) ==
    /\ pc[r] = "hook_commit"
    /\ Goto(r, "ended")
    /\ Release(r)
    /\ UNCHANGED <<kind, tenant>>

Step(r) ==
    \/ Dispatch(r) \/ Authenticated(r) \/ Enter(r) \/ Finish(r)
    \/ Connect(r) \/ PoolTimeout(r) \/ Execute(r) \/ CommitOrRaise(r) \/ StripeReturns(r)
    \/ Teardown(r) \/ HookExecute(r) \/ HookCommit(r)

Next == \E r \in Request : Arrive(r) \/ Step(r)

Spec == Init /\ [][Next]_vars

\* What can go on does: a thread, the loop, a waiter for a lock, a connection or
\* a thread.  Weak fairness is enough as a burst is finite.
FairSpec == Spec /\ \A r \in Request : WF_vars(Step(r))
-----------------------------------------------------------------------------
(* What must hold.                                                         *)

TypeOK ==
    /\ pc     \in [Request -> {"new", "arrived", "connect", "authed", "ready", "route",
                               "decide", "stripe", "open", "closed", "teardown", "ended",
                               "hook_connect", "hook", "hook_commit"}]
    /\ kind   \in [Request -> Kind]
    /\ tenant \in [Request -> Tenant]
    /\ conn   \subseteq Request
    /\ lock   \in [Request -> {"none", "share", "update"}]
    /\ Cardinality(conn) <= Connections /\ Cardinality(InThread) <= Threads
    /\ \A r \in Request : /\ lock[r] # "none" => r \in conn
                          /\ pc[r] \in {"new", "arrived", "ended"} => r \notin conn

\* The webhook waits on the loop for a row that is locked by a request which needs
\* the loop to let go of it.
Hung == \E h, r \in Request : pc[h] = "hook" /\ pc[r] = "open" /\ r \in Blockers(h)

\* Every request that arrives is ended, whatever the order in which threads,
\* connections and row locks are waited for, unless the process is hung: this is
\* the only way in which waiting goes round in a circle for good.
RequestsEndUnlessHung == \A r \in Request : pc[r] = "arrived" ~> (pc[r] = "ended" \/ Hung)

\* Nobody waits in vain for a connection while no more requests are in the house
\* than the pool has connections.
PoolIsEnough ==
    [][ \A r \in Request :
          PoolTimeout(r) =>
             Cardinality({s \in Request : pc[s] \notin {"new", "ended"}}) > Connections ]_vars
-----------------------------------------------------------------------------
(* What the repository says and the code does not do.                       *)

\* get_db "always rolls back on exception and closes the session after request".
SessionsAreClosed == \A r \in Request : pc[r] = "open" ~> r \notin conn
===============================================================================
