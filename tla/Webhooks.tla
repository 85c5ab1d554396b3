------------------------------- MODULE Webhooks -------------------------------
(***************************************************************************)
(* POST /billing/webhook: WebhookService.process_webhook_event and its     *)
(* handlers, run by one or more server processes (Worker) against          *)
(* PostgreSQL at READ COMMITTED.                                           *)
(*                                                                         *)
(* The route blocks its process's event loop from the first statement to   *)
(* the commit, so a process handles one event at a time; several processes *)
(* interleave statement by statement.  Stripe delivers an event again      *)
(* until it is answered 200, sometimes again after that, and in any order. *)
(*                                                                         *)
(* `records', `subscriptions' and `customer' are committed rows.  A worker *)
(* whose pc is "commit" has flushed what write[w] and link[w] say and      *)
(* holds the row locks and unique-index entries of it.                     *)
(*                                                                         *)
(* SubscriptionLedger says what all of it amounts to.                      *)
(***************************************************************************)
EXTENDS Naturals, Sequences, FiniteSetsExt

CONSTANTS
    Worker,                  \* server processes
    Event, Body,             \* Stripe events and what they say
    Tenant, Customer,        \* tenants; Stripe customers
    SubId,                   \* Stripe subscription ids
    CreatedFor,              \* per tenant, the customers that its checkouts may link
    MaxFaults,               \* bound: exceptions and crashes of a behaviour
    NoEvent, NoTenant, NoCustomer, NoWrite

Status == {"active", "past_due", "cancelled", "trialing", "incomplete"}

\* The fields that the handlers read.  "paid" and "unpaid" are invoice.payment_
\* succeeded and _failed, "upsert" is customer.subscription.created or .updated
\* with its mapped status, "other" any type without a handler; claims is the
\* tenant_id of the metadata.
EventBody == [kind : {"upsert", "deleted", "paid", "unpaid", "other"},
              sub : SubId, customer : Customer, claims : Tenant \cup {NoTenant},
              status : Status, created : Nat \ {0}]

ASSUME BodyAssumption  == Body \in [Event -> EventBody]
ASSUME CustomerAssumption == CreatedFor \in [Tenant -> SUBSET Customer]
ASSUME FaultAssumption == MaxFaults \in Nat

\* A row of subscriptions; stamp is last_event_timestamp.  A null cancelled_at
\* is 0.  The plan of every row is 'pro'.
Row == [tenant : Tenant, sub : SubId, status : Status, stamp : Nat, cancelled_at : Nat]

\* What a handler wants to write: an UPDATE of the row at index `at', loaded as
\* `old', or an INSERT when at = 0.
Write == [at : Nat, old : Row, new : Row]

ASSUME NullAssumption == /\ NoEvent \notin Event
                         /\ NoTenant \notin Tenant
                         /\ NoCustomer \notin Customer
                         /\ NoWrite \notin Write

VARIABLES
    records,         \* per event, the status of its webhook_events row
    subscriptions,   \* rows of subscriptions, oldest first
    customer,        \* tenants.stripe_customer_id
    pc, job,         \* per worker, its next statement and its event
    write, link,     \* per worker, the row it writes, the tenant it links
    acked,           \* events answered 200
    log,             \* history: commits that marked an event processed
    faults           \* exceptions and crashes so far

store  == <<records, subscriptions, customer>>
vars   == <<store, pc, job, write, link, acked, log, faults>>

BodyOf(w) == Body[job[w]]

Init ==
    /\ records       = [e \in Event |-> "none"]
    /\ subscriptions = << >>
    /\ customer      = [t \in Tenant |-> NoCustomer]
    /\ pc            = [w \in Worker |-> "idle"]
    /\ job           = [w \in Worker |-> NoEvent]
    /\ write         = [w \in Worker |-> NoWrite]
    /\ link          = [w \in Worker |-> NoTenant]
    /\ acked         = {}
    /\ log           = << >>
    /\ faults        = 0

Goto(w, l) == pc' = [pc EXCEPT ![w] = l]

\* Mutant: the worker keeps its event.
FinishStale(w) ==
    /\ Goto(w, "idle")
    /\ write' = [write EXCEPT ![w] = NoWrite]
    /\ link'  = [link EXCEPT ![w] = NoTenant]
    /\ UNCHANGED job

\* The handler returns or dies, and its session is closed.
Finish(w) ==
    /\ Goto(w, "idle")
    /\ job'   = [job EXCEPT ![w] = NoEvent]
    /\ write' = [write EXCEPT ![w] = NoWrite]
    /\ link'  = [link EXCEPT ![w] = NoTenant]
-----------------------------------------------------------------------------
(* What the handlers read and decide.                                      *)

WithSub(s)  == {i \in DOMAIN subscriptions : subscriptions[i].sub = s}
OfTenant(t) == {i \in DOMAIN subscriptions : subscriptions[i].tenant = t}

\* Mutant: no fallback to the metadata.
ResolveByCustomer(b) ==
    LET holders == {t \in Tenant : customer[t] = b.customer} IN
    IF holders = {} THEN NoTenant
    ELSE IF b.claims \in holders \cup {NoTenant} THEN CHOOSE t \in holders : TRUE
    ELSE NoTenant

\* Mutant: metadata that names another tenant than the customer's is not noticed.
ResolveUnchecked(b) ==
    LET holders == {t \in Tenant : customer[t] = b.customer} IN
    IF holders = {} THEN b.claims ELSE CHOOSE t \in holders : TRUE

\* _resolve_tenant: by customer, which the metadata must not contradict; by
\* metadata when no tenant has the customer.
Resolve(b) ==
    LET holders == {t \in Tenant : customer[t] = b.customer} IN
    IF holders = {} THEN b.claims
    ELSE IF b.claims \in holders \cup {NoTenant} THEN CHOOSE t \in holders : TRUE
    ELSE NoTenant

\* Mutant: an upsert looks for its own subscription id only.
CandidatesBySub(b) ==
    IF b.kind = "other" \/ (b.kind = "upsert" /\ Resolve(b) = NoTenant) THEN {}
    ELSE WithSub(b.sub)

\* The row an event is about, if any.
Candidates(b) ==
    CASE b.kind = "upsert"  -> IF Resolve(b) = NoTenant THEN {}
                               ELSE LET rows == WithSub(b.sub) \cup OfTenant(Resolve(b))
                                    IN  IF rows = {} THEN {} ELSE {Max(rows)}
      [] b.kind = "deleted" -> IF WithSub(b.sub) # {} THEN WithSub(b.sub)
                                                      ELSE OfTenant(Resolve(b))
      [] b.kind \in {"paid", "unpaid"} -> WithSub(b.sub)
      [] OTHER -> {}

Invoice(b) == b.kind \in {"paid", "unpaid"}

StatusAfter(b) == CASE b.kind = "upsert"  -> b.status
                    [] b.kind = "deleted" -> "cancelled"
                    [] b.kind = "paid"    -> "active"
                    [] b.kind = "unpaid"  -> "past_due"

\* Mutant: an event of the same second as the last one is applied.
IgnoredIfOlder(r, b) ==
    b.created < r.stamp \/ (Invoice(b) /\ r.status = "cancelled")

\* Mutant: an invoice touches a cancelled row.
IgnoredByTime(r, b) == b.created <= r.stamp

\* The out-of-order guard, and the guard of invoices on a cancelled row.
Ignored(r, b) ==
    b.created <= r.stamp \/ (Invoice(b) /\ r.status = "cancelled")

\* Mutant: an invoice does not move last_event_timestamp.
ChangedUnstamped(r, b) ==
    [tenant |-> r.tenant,
     sub    |-> IF b.kind = "upsert" THEN b.sub ELSE r.sub,
     status |-> StatusAfter(b),
     stamp  |-> IF Invoice(b) THEN r.stamp ELSE b.created,
     cancelled_at |-> IF b.kind = "deleted" THEN b.created ELSE r.cancelled_at]

Changed(r, b) ==
    [tenant |-> r.tenant,
     sub    |-> IF b.kind = "upsert" THEN b.sub ELSE r.sub,
     status |-> StatusAfter(b),
     stamp  |-> b.created,
     cancelled_at |-> IF b.kind = "deleted" THEN b.created ELSE r.cancelled_at]

NewRow(b) == [tenant |-> Resolve(b), sub |-> b.sub, status |-> b.status,
              stamp |-> b.created, cancelled_at |-> 0]

\* The UPDATE names only the columns whose value differs from the loaded one;
\* the others keep what the committed row says by now.
Written(w) ==
    IF write[w].at = 0 THEN write[w].new
    ELSE LET now == subscriptions[write[w].at] IN
         [f \in DOMAIN now |-> IF write[w].new[f] # write[w].old[f]
                               THEN write[w].new[f] ELSE now[f]]

Writes(w) == write[w] # NoWrite
Links(w)  == link[w] # NoTenant

\* Tenant rows that w's flush locks: FOR UPDATE by a new customer link, FOR KEY
\* SHARE by the foreign key of a new subscription row.
Rekeys(w)  == {t \in Tenant : link[w] = t}
Refers(w)  == {t \in Tenant : Writes(w) /\ write[w].at = 0 /\ write[w].new.tenant = t}

\* v's flushed rows make w's flush wait: the same row, the same unique key, or
\* the same tenant.
Blocks(v, w) ==
    /\ pc[v] = "commit"
    /\ \/ /\ Writes(v) /\ Writes(w)
          /\ \/ write[v].at = write[w].at /\ write[w].at # 0
             \/ write[w].new.sub \in {write[v].old.sub, write[v].new.sub}
       \/ Links(v) /\ Links(w) /\ BodyOf(v).customer = BodyOf(w).customer
       \/ Rekeys(v) \cap (Rekeys(w) \cup Refers(w)) # {}
       \/ Refers(v) \cap Rekeys(w) # {}

\* Mutant: stripe_customer_id is not UNIQUE.
BreaksUniqueSub(w) ==
    /\ Writes(w)
    /\ \E i \in DOMAIN subscriptions \ {write[w].at} :
          subscriptions[i].sub = Written(w).sub

\* stripe_subscription_id and stripe_customer_id are UNIQUE.
BreaksUnique(w) ==
    \/ /\ Writes(w)
       /\ \E i \in DOMAIN subscriptions \ {write[w].at} :
             subscriptions[i].sub = Written(w).sub
    \/ /\ Links(w)
       /\ \E t \in Tenant \ {link[w]} : customer[t] = BodyOf(w).customer
-----------------------------------------------------------------------------
(* The steps of a delivery.                                                *)

Deliver(w, e) ==
    /\ pc[w] = "idle"
    /\ job' = [job EXCEPT ![w] = e]
    /\ Goto(w, "lookup")
    /\ UNCHANGED <<store, write, link, acked, log, faults>>

\* Mutant: a redelivery of a processed event is answered 500.
LookupRejects(w) ==
    /\ pc[w] = "lookup"
    /\ Goto(w, IF records[job[w]] = "none" THEN "claim" ELSE "rollback")
    /\ UNCHANGED <<store, job, write, link, acked, log, faults>>

\* Step 1: SELECT ... FOR UPDATE of the event's row.  A committed row always
\* says 'processed' (theorem NoFailedRecord), so the branches for a stale 'processing'
\* and for a 'failed' row do not run.
Lookup(w) ==
    /\ pc[w] = "lookup"
    /\ Goto(w, IF records[job[w]] = "none" THEN "claim" ELSE "reply")
    /\ UNCHANGED <<store, job, write, link, acked, log, faults>>

\* Mutant: the row of the event is written without a primary key.
ClaimUnkeyed(w) ==
    /\ pc[w] = "claim"
    /\ Goto(w, "load")
    /\ UNCHANGED <<store, job, write, link, acked, log, faults>>

\* The INSERT of the event's row waits for another worker's uncommitted one and
\* fails when that was committed: the delivery ends with 500.
Claim(w) ==
    /\ pc[w] = "claim"
    /\ \A v \in Worker \ {w} :
          ~(job[v] = job[w] /\ pc[v] \in {"load", "flush", "commit", "failed"})
    /\ Goto(w, IF records[job[w]] = "none" THEN "load" ELSE "rollback")
    /\ UNCHANGED <<store, job, write, link, acked, log, faults>>

\* Step 2, the reads of the handler: the tenant, then the subscription - without
\* FOR UPDATE - and what is to be written.
Load(w) ==
    LET b == BodyOf(w)
        upserts == b.kind = "upsert" /\ Resolve(b) # NoTenant
    IN
    /\ pc[w] = "load"
    /\ \/ \E i \in Candidates(b) :
             write' = [write EXCEPT ![w] =
                         IF Ignored(subscriptions[i], b) THEN NoWrite
                         ELSE [at |-> i, old |-> subscriptions[i],
                               new |-> Changed(subscriptions[i], b)]]
       \/ /\ Candidates(b) = {}
          /\ write' = [write EXCEPT ![w] =
                         IF upserts THEN [at |-> 0, old |-> NewRow(b), new |-> NewRow(b)]
                                    ELSE NoWrite]
    /\ link' = [link EXCEPT ![w] =
                  IF upserts /\ customer[Resolve(b)] = NoCustomer THEN Resolve(b)
                                                                  ELSE NoTenant]
    /\ Goto(w, "flush")
    /\ UNCHANGED <<store, job, acked, log, faults>>

\* The flush of the handler's changes at the end of its savepoint.
Flush(w) ==
    /\ pc[w] = "flush"
    /\ \A v \in Worker \ {w} : ~Blocks(v, w)
    /\ Goto(w, IF BreaksUnique(w) THEN "failed" ELSE "commit")
    /\ UNCHANGED <<store, job, write, link, acked, log, faults>>

\* The event's row says 'processed' and everything is committed.
Commit(w) ==
    /\ pc[w] = "commit"
    /\ records' = [records EXCEPT ![job[w]] = "processed"]
    /\ subscriptions' =
          IF ~Writes(w) THEN subscriptions
          ELSE IF write[w].at = 0 THEN Append(subscriptions, Written(w))
          ELSE [subscriptions EXCEPT ![write[w].at] = Written(w)]
    /\ customer' = [t \in Tenant |-> IF link[w] = t THEN BodyOf(w).customer ELSE customer[t]]
    /\ log' = Append(log, [event |-> job[w],
                           row   |-> IF ~Writes(w) THEN 0
                                     ELSE IF write[w].at = 0 THEN Len(subscriptions) + 1
                                     ELSE write[w].at])
    /\ Goto(w, "reply")
    /\ UNCHANGED <<job, write, link, acked, faults>>

Reply(w) ==
    /\ pc[w] = "reply"
    /\ acked' = acked \cup {job[w]}
    /\ Finish(w)
    /\ UNCHANGED <<store, log, faults>>

\* Mutant: an error is swallowed and the delivery answered 200.
RollbackAndReply(w) ==
    /\ pc[w] \in {"failed", "rollback"}
    /\ acked' = acked \cup {job[w]}
    /\ Finish(w)
    /\ UNCHANGED <<store, log, faults>>

\* process_webhook_event marks the row 'failed', but it raises and the route
\* rolls everything back and answers 500.
Rollback(w) ==
    /\ pc[w] \in {"failed", "rollback"}
    /\ Finish(w)
    /\ UNCHANGED <<store, acked, log, faults>>

\* The dispatch raises: a database error, a malformed object.
Raise(w) ==
    /\ pc[w] \in {"load", "flush"}
    /\ faults < MaxFaults
    /\ faults' = faults + 1
    /\ Goto(w, "failed")
    /\ UNCHANGED <<store, job, write, link, acked, log>>

\* The process or its connection is lost.  When it was to roll back anyway,
\* that is what PostgreSQL does for it.
Crash(w) ==
    /\ pc[w] \notin {"idle", "failed", "rollback"}
    /\ faults < MaxFaults
    /\ faults' = faults + 1
    /\ Finish(w)
    /\ UNCHANGED <<store, acked, log>>

\* StripeService.get_or_create_customer links a customer during a checkout.
LinkCustomer ==
    /\ \E t \in Tenant : \E c \in CreatedFor[t] :
          /\ customer[t] = NoCustomer
          /\ \A u \in Tenant : customer[u] # c
          /\ \A w \in Worker : pc[w] = "commit" =>
                t \notin Rekeys(w) \cup Refers(w) /\ (Links(w) => BodyOf(w).customer # c)
          /\ customer' = [customer EXCEPT ![t] = c]
    /\ UNCHANGED <<records, subscriptions, pc, job, write, link, acked, log, faults>>

Step(w) ==
    Lookup(w) \/ Claim(w) \/ Load(w) \/ Flush(w) \/ Commit(w) \/ Reply(w) \/ Rollback(w)

Next ==
    \/ \E w \in Worker : \/ \E e \in Event : Deliver(w, e)
                         \/ Step(w) \/ Raise(w) \/ Crash(w)
    \/ LinkCustomer

Spec == Init /\ [][Next]_vars

\* A worker that can go on does, and Stripe delivers an event that was not
\* answered 200 again and again.
Fairness ==
    /\ \A w \in Worker : WF_vars(Step(w))
    /\ \A e \in Event : SF_vars(e \notin acked /\ \E w \in Worker : Deliver(w, e))

FairSpec == Spec /\ Fairness
-----------------------------------------------------------------------------
(* What holds however many workers there are.                              *)

TypeOK ==
    /\ records       \in [Event -> {"none", "processed", "failed"}]
    /\ subscriptions \in Seq(Row)
    /\ customer      \in [Tenant -> Customer \cup {NoCustomer}]
    /\ pc            \in [Worker -> {"idle", "lookup", "claim", "load", "flush",
                                     "commit", "reply", "failed", "rollback"}]
    /\ job           \in [Worker -> Event \cup {NoEvent}]
    /\ write         \in [Worker -> Write \cup {NoWrite}]
    /\ link          \in [Worker -> Tenant \cup {NoTenant}]
    /\ acked         \subseteq Event
    /\ log           \in Seq([event : Event, row : Nat])
    /\ faults        \in 0 .. MaxFaults
    /\ \A w \in Worker : pc[w] = "idle" <=> job[w] = NoEvent
    /\ \A w \in Worker : Writes(w) => write[w].at \in 0 .. Len(subscriptions)

\* An event takes effect once, and its row tells: redeliveries, workers handling
\* the same delivery at once, exceptions and crashes neither repeat an effect
\* nor leave a row without one.
AppliedOnce ==
    /\ \A m, n \in DOMAIN log : log[m].event = log[n].event => m = n
    /\ \A e \in Event :
          records[e] = "processed" <=> \E n \in DOMAIN log : log[n].event = e

\* Stripe stops retrying an event only when it is durably processed.
AckedIsProcessed == \A e \in acked : records[e] = "processed"

\* What checkouts put into Stripe: the subscriptions that carry a tenant's id in their
\* metadata are for the one customer that the tenant is, or will be, linked to.  A
\* customer may still be claimed for several tenants.
OneCustomerPerTenant ==
    \A e, f \in Event :
        /\ Body[e].sub = Body[f].sub => Body[e].customer = Body[f].customer
        /\ Body[e].claims = Body[f].claims /\ Body[e].claims # NoTenant =>
              /\ Body[e].customer = Body[f].customer
              /\ CreatedFor[Body[e].claims] \subseteq {Body[e].customer}

\* A subscription row belongs to the tenant, and the only one, that has the
\* subscription's customer, whatever an event's metadata claims and whoever links a
\* customer meanwhile, as long as a tenant has one customer.
RowsFollowCustomers ==
    \A i \in DOMAIN subscriptions, e \in Event :
        subscriptions[i].sub = Body[e].sub =>
            \A t \in Tenant : customer[t] = Body[e].customer <=> t = subscriptions[i].tenant

\* Every event is answered 200 in the end, whatever collided or failed before.
EveryEventIsAcked == \A e \in Event : <>(e \in acked)
-----------------------------------------------------------------------------
(* What holds when one worker handles all events.                          *)

\* A row shows what the newest event written to it says, whatever the order of
\* delivery.
RowTellsNewest ==
    \A i \in DOMAIN subscriptions :
        LET applied == {log[n].event : n \in {m \in DOMAIN log : log[m].row = i}} IN
        \E e \in applied :
            /\ \A f \in applied : Body[f].created <= Body[e].created
            /\ subscriptions[i].stamp  = Body[e].created
            /\ subscriptions[i].status = StatusAfter(Body[e])
            /\ Body[e].kind = "deleted" => subscriptions[i].cancelled_at = Body[e].created

\* No subscription.created or .updated is lost: once processed, its tenant has a
\* row that is at least as new.
EveryUpsertCounts ==
    \A e \in Event : LET b == Body[e] IN
        /\ records[e] = "processed"
        /\ b.kind = "upsert"
        /\ b.claims # NoTenant
        /\ customer[b.claims] = b.customer
        => \E i \in OfTenant(b.claims) : subscriptions[i].stamp >= b.created

\* Only a subscription.created or .updated brings a cancelled row back.
OnlyUpsertRevives ==
    [][ \A i \in DOMAIN subscriptions :
           subscriptions[i].status = "cancelled" /\ subscriptions'[i].status # "cancelled"
             => \E w \in Worker : pc[w] = "commit" /\ BodyOf(w).kind = "upsert" ]_vars

\* Each tenant has one subscription row at a time.
OneSubscriptionPerTenant ==
    \A i, j \in DOMAIN subscriptions :
        subscriptions[i].tenant = subscriptions[j].tenant => i = j

\* An event is applied to a row only if it is newer than the last one applied.
OnlyNewerApplied ==
    [][ \A i \in DOMAIN subscriptions :
           subscriptions'[i] # subscriptions[i]
             => subscriptions'[i].stamp > subscriptions[i].stamp ]_vars
-----------------------------------------------------------------------------
(* What one worker implements.                                             *)

\* The rows as a book: per tenant that has one, its row without the tenant.
BookOf(rows) ==
    [t \in {rows[i].tenant : i \in DOMAIN rows} |->
        LET r == rows[CHOOSE i \in DOMAIN rows : rows[i].tenant = t] IN
        [sub |-> r.sub, status |-> r.status, stamp |-> r.stamp, cancelled_at |-> r.cancelled_at]]

Settled == {e \in Event : records[e] = "processed"}

Ledger == INSTANCE SubscriptionLedger WITH
    book <- BookOf(subscriptions), holds <- customer, settled <- Settled, told <- acked

\* The statements, failures and crashes of one worker, Stripe's redeliveries, and the
\* checkouts that link customers between a handler's reads and its commit, amount to
\* events that are settled once, one at a time, in the book of the tenant they concern
\* at that moment.
ImplementsLedger == Ledger!LedgerSpec
-----------------------------------------------------------------------------
(* What the repository says and the code does not do.                       *)

\* When every event has been processed, a subscription that Stripe deleted is
\* cancelled here.
DeletedIsCancelled ==
    (\A e \in Event : records[e] = "processed") =>
        \A e \in Event :
            /\ Body[e].kind = "deleted"
            /\ \A f \in Event : Body[f].sub = Body[e].sub => Body[f].created <= Body[e].created
            => \A i \in WithSub(Body[e].sub) : subscriptions[i].status = "cancelled"
===============================================================================
