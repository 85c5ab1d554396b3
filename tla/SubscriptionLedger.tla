-------------------------- MODULE SubscriptionLedger --------------------------
(***************************************************************************)
(* What webhook ingestion promises, with the database taken away.          *)
(*                                                                         *)
(* A book has at most one subscription per tenant.  An event of Stripe is  *)
(* settled once, in one step: it is entered into the book of the tenant it *)
(* concerns, or dismissed, for being stale or for concerning nobody; and   *)
(* Stripe is told of an event only after it is settled.  There are no      *)
(* workers, webhook_events rows, reads, flushes or failures here: Webhooks *)
(* has those, and is shown to implement this module when one worker        *)
(* handles the events.                                                     *)
(***************************************************************************)
EXTENDS Naturals

CONSTANTS
    Event, Body,         \* Stripe events and what they say
    Tenant,
    CreatedFor,          \* per tenant, the customers that its checkouts may link
    NoTenant, NoCustomer

VARIABLES
    book,                \* the subscription of each tenant that has one
    holds,               \* the Stripe customer of each tenant
    settled,             \* events entered or dismissed
    told                 \* events that Stripe knows to be settled

ledgerVars == <<book, holds, settled, told>>

LedgerInit ==
    /\ book    = << >>
    /\ holds   = [t \in Tenant |-> NoCustomer]
    /\ settled = {}
    /\ told    = {}

\* A tenant owns the events of the customer it holds, unless they name another
\* tenant; while nobody holds the customer, the tenant they name owns them.
Owners(b) ==
    {t \in Tenant : \/ holds[t] = b.customer /\ b.claims \in {t, NoTenant}
                    \/ t = b.claims /\ \A u \in Tenant : holds[u] # b.customer}

Subscribers(s) == {t \in DOMAIN book : book[t].sub = s}

Invoice(b) == b.kind \in {"paid", "unpaid"}

\* Whose subscription an event is about.
Concerned(b) ==
    CASE b.kind = "upsert"  -> Owners(b)
      [] b.kind = "deleted" -> IF Subscribers(b.sub) # {} THEN Subscribers(b.sub) ELSE Owners(b)
      [] Invoice(b)         -> Subscribers(b.sub)
      [] OTHER              -> {}

Stale(t, b) ==
    /\ t \in DOMAIN book
    /\ b.created <= book[t].stamp \/ (Invoice(b) /\ book[t].status = "cancelled")

StatusAfter(b) == CASE b.kind = "upsert"  -> b.status
                    [] b.kind = "deleted" -> "cancelled"
                    [] b.kind = "paid"    -> "active"
                    [] b.kind = "unpaid"  -> "past_due"

Entry(t, b) ==
    [sub    |-> IF b.kind = "upsert" THEN b.sub ELSE book[t].sub,
     status |-> StatusAfter(b),
     stamp  |-> b.created,
     cancelled_at |-> IF b.kind = "deleted" THEN b.created
                      ELSE IF t \in DOMAIN book THEN book[t].cancelled_at ELSE 0]

\* An upsert opens the subscription of a tenant that has none, and the tenant
\* holds its customer from then on.
Enter(e, t) ==
    LET b == Body[e] IN
    /\ e \notin settled
    /\ t \in Concerned(b)
    /\ t \in DOMAIN book \/ b.kind = "upsert"
    /\ ~Stale(t, b)
    /\ book' = [u \in DOMAIN book \cup {t} |-> IF u = t THEN Entry(t, b) ELSE book[u]]
    /\ holds' = IF b.kind = "upsert" THEN [holds EXCEPT ![t] = b.customer] ELSE holds
    /\ settled' = settled \cup {e}
    /\ UNCHANGED told

\* An upsert that names nobody may miss the tenant that a checkout is just
\* linking to its customer.
MayDismiss(b) ==
    \A t \in Concerned(b) :
        \/ Stale(t, b)
        \/ t \notin DOMAIN book /\ (b.kind = "upsert" => b.claims = NoTenant)

Dismiss(e) ==
    /\ e \notin settled
    /\ MayDismiss(Body[e])
    /\ settled' = settled \cup {e}
    /\ UNCHANGED <<book, holds, told>>

\* A checkout makes its tenant hold a customer that nobody has.
Hold(t, c) ==
    /\ c \in CreatedFor[t]
    /\ holds[t] = NoCustomer
    /\ \A u \in Tenant : holds[u] # c
    /\ holds' = [holds EXCEPT ![t] = c]
    /\ UNCHANGED <<book, settled, told>>

Tell(e) ==
    /\ e \in settled
    /\ told' = told \cup {e}
    /\ UNCHANGED <<book, holds, settled>>

LedgerNext ==
    \/ \E e \in Event : Dismiss(e) \/ Tell(e) \/ \E t \in Tenant : Enter(e, t)
    \/ \E t \in Tenant : \E c \in CreatedFor[t] : Hold(t, c)

LedgerSpec == LedgerInit /\ [][LedgerNext]_ledgerVars
===============================================================================
