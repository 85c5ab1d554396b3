----------------------------- MODULE MCWebhooks -----------------------------
(***************************************************************************)
(* Small instances of Webhooks for TLC: the events of one Stripe customer. *)
(***************************************************************************)
EXTENDS Webhooks, TLC

CONSTANTS acme, beta, cus, sub1, sub2,
          created, updated, paid, deleted, unpaid, again, alien, unnamed   \* events

About(kind, sub, status, at) ==
    [kind |-> kind, sub |-> sub, customer |-> cus, claims |-> acme,
     status |-> status, created |-> at]

\* A life of sub1: created incomplete - with a tenant in its metadata or, as
\* `unnamed', without - and paid in the same second, updated to active, deleted,
\* with a last invoice still failing; then a second subscription, and an event
\* whose metadata names another tenant.
MCBodies ==
    created :> About("upsert",  sub1, "incomplete", 1) @@
    updated :> About("upsert",  sub1, "active",     2) @@
    paid    :> About("paid",    sub1, "active",     1) @@
    deleted :> About("deleted", sub1, "cancelled",  3) @@
    unpaid  :> About("unpaid",  sub1, "past_due",   4) @@
    again   :> About("upsert",  sub2, "active",     5) @@
    alien   :> [About("upsert", sub2, "active",     6) EXCEPT !.claims = beta] @@
    unnamed :> [About("upsert", sub1, "incomplete", 1) EXCEPT !.claims = NoTenant]

MCBody == [e \in Event |-> MCBodies[e]]

\* Any tenant may be the one whose checkout created the customer.
MCCreatedFor == [t \in Tenant |-> Customer]

ASSUME OneCustomer == OneCustomerPerTenant
==============================================================================
