------------------------------- MODULE Checkout -------------------------------
(***************************************************************************)
(* How a tenant comes to exist and to have a Stripe customer: POST         *)
(* /auth/token, POST /billing/checkout and StripeService, run by server    *)
(* threads against PostgreSQL at READ COMMITTED and against Stripe.        *)
(*                                                                         *)
(* A checkout locks its tenant's row, calls Stripe once or twice while it  *)
(* holds the lock, and commits last.  So Stripe may have done what the     *)
(* database never hears of; what makes a retry safe are the idempotency    *)
(* keys under which Stripe saves its answers for a day or more.            *)
(*                                                                         *)
(* `email' and `customer' are committed columns of tenants.  Plan and      *)
(* price are constant (the schema admits 'pro' only) and left out, so is   *)
(* the webhook that could link a customer before its checkout does: a      *)
(* session exists only once a checkout has got that far.                   *)
(***************************************************************************)
EXTENDS Naturals, Sequences, FiniteSets

CONSTANTS
    Thread,                 \* threads that serve requests
    Tenant, Email,          \* tenant ids (uuid4) and normalised e-mail addresses
    ClientKey,              \* values of the Idempotency-Key header, or its absence
    NoKey,                  \* of a customer's idempotency key
    NoTenant, NoEmail, NoRequest,
    MaxFaults,              \* bound: crashes, lost answers, failures of Stripe
    MaxLapses               \* bound: customers whose key expires before they are linked

ASSUME BoundAssumption == MaxFaults \in Nat /\ MaxLapses \in Nat

\* create_customer_{tenant} and checkout_{tenant}_{plan}[_{client key}].
StripeKey == [kind : {"customer"}, tenant : Tenant, key : {NoKey}]
             \cup [kind : {"session"}, tenant : Tenant, key : ClientKey]

\* What Stripe saved under an idempotency key: the customer it created or, for a
\* session, the customer that the session is for.
Saved == [state : {"none", "busy", "failed", "done"}, customer : Nat]
NotSaved == [state |-> "none", customer |-> 0]

Login    == [email : Email, tenant : Tenant \cup {NoTenant}]
Purchase == [tenant : Tenant, key : ClientKey]

ASSUME NullAssumption == /\ NoEmail \notin Email
                         /\ NoTenant \notin Tenant
                         /\ NoRequest \notin Login \cup Purchase

VARIABLES
    email,        \* per tenant, its e-mail, NoEmail while the row does not exist
    customer,     \* per tenant, stripe_customer_id, 0 for NULL
    customers,    \* Stripe's customers: for each, the tenant it was created for
    saved,        \* per idempotency key, what Stripe saved
    pc, req,      \* per thread, its next statement or call and its request
    own,          \* per thread, the customer that its checkout works with
    tokens,       \* history: logins answered with a token
    answers,      \* history: checkouts answered 200, and the session's customer
    lapses,       \* history, per tenant: keys of unlinked customers that expired
    faults

database == <<email, customer>>
stripe   == <<customers, saved>>
history  == <<tokens, answers, lapses>>
vars     == <<database, stripe, pc, req, own, history, faults>>

Init ==
    /\ email     = [n \in Tenant |-> NoEmail]
    /\ customer  = [n \in Tenant |-> 0]
    /\ customers = << >>
    /\ saved     = [k \in StripeKey |-> NotSaved]
    /\ pc        = [t \in Thread |-> "idle"]
    /\ req       = [t \in Thread |-> NoRequest]
    /\ own       = [t \in Thread |-> 0]
    /\ tokens    = {}
    /\ answers   = {}
    /\ lapses    = [n \in Tenant |-> 0]
    /\ faults    = 0

Goto(t, l) == pc' = [pc EXCEPT ![t] = l]

\* Mutant: an ended request leaves its data behind.
EndRequestStale(t) ==
    /\ Goto(t, "idle")
    /\ own' = [own EXCEPT ![t] = 0]
    /\ UNCHANGED req

\* The request ends; its session is closed, or rolled back and closed.
EndRequest(t) ==
    /\ Goto(t, "idle")
    /\ req' = [req EXCEPT ![t] = NoRequest]
    /\ own' = [own EXCEPT ![t] = 0]

Fault == faults < MaxFaults /\ faults' = faults + 1
-----------------------------------------------------------------------------
(* POST /auth/token.                                                       *)

\* Bound: who has a token does not ask for another.
ReceiveLogin(t) ==
    /\ pc[t] = "idle"
    /\ \E e \in Email :
          /\ \A x \in tokens : x.email # e
          /\ req' = [req EXCEPT ![t] = [email |-> e, tenant |-> NoTenant]]
    /\ Goto(t, "find")
    /\ UNCHANGED <<database, stripe, own, history, faults>>

FindTenant(t) ==
    /\ pc[t] = "find"
    /\ \/ /\ \A n \in Tenant : email[n] # req[t].email
          /\ Goto(t, "insert")
          /\ UNCHANGED req
       \/ \E n \in Tenant :
             /\ email[n] = req[t].email
             /\ req' = [req EXCEPT ![t].tenant = n]
             /\ Goto(t, "issue")
    /\ UNCHANGED <<database, stripe, own, history, faults>>

\* Mutant: no unique constraint on tenants.email.
InsertTenantAnyway(t) ==
    /\ pc[t] = "insert"
    /\ \E n \in Tenant :
          /\ email[n] = NoEmail
          /\ \A s \in Thread : pc[s] = "provision" => req[s].tenant # n
          /\ req' = [req EXCEPT ![t].tenant = n]
    /\ Goto(t, "provision")
    /\ UNCHANGED <<database, stripe, own, history, faults>>

\* The INSERT that db.commit flushes, with a new uuid: it waits for another
\* transaction's row with the same e-mail, and fails if that one committed.
InsertTenant(t) ==
    /\ pc[t] = "insert"
    /\ \A s \in Thread \ {t} : pc[s] = "provision" => req[s].email # req[t].email
    /\ \/ /\ \E n \in Tenant : email[n] = req[t].email
          /\ Goto(t, "taken")
          /\ UNCHANGED req
       \/ /\ \A n \in Tenant : email[n] # req[t].email
          /\ \E n \in Tenant :
                /\ email[n] = NoEmail
                /\ \A s \in Thread : pc[s] = "provision" => req[s].tenant # n
                /\ req' = [req EXCEPT ![t].tenant = n]
          /\ Goto(t, "provision")
    /\ UNCHANGED <<database, stripe, own, history, faults>>

CommitTenant(t) ==
    /\ pc[t] = "provision"
    /\ email' = [email EXCEPT ![req[t].tenant] = req[t].email]
    /\ Goto(t, "issue")
    /\ UNCHANGED <<customer, stripe, req, own, history, faults>>

Issue(t) ==
    /\ pc[t] = "issue"
    /\ tokens' = tokens \cup {req[t]}
    /\ EndRequest(t)
    /\ UNCHANGED <<database, stripe, answers, lapses, faults>>
-----------------------------------------------------------------------------
(* POST /billing/checkout.                                                 *)

\* The bearer of a token asks for a checkout; get_current_tenant finds the row,
\* which no route ever deletes or deactivates.
ReceiveCheckout(t, n) ==
    /\ pc[t] = "idle"
    /\ email[n] # NoEmail
    /\ \E x \in tokens : x.tenant = n
    /\ \E k \in ClientKey : req' = [req EXCEPT ![t] = [tenant |-> n, key |-> k]]
    /\ Goto(t, "lock")
    /\ UNCHANGED <<database, stripe, own, history, faults>>

Refused == {"busy", "mismatch", "failed"}       \* 502

\* Between its SELECT ... FOR UPDATE and the end of its transaction a checkout
\* holds its tenant's row.
Locking == {"customer", "customer_wait", "session", "session_wait", "commit"} \cup Refused

LockedByOther(t) ==
    \E s \in Thread \ {t} : pc[s] \in Locking /\ req[s].tenant = req[t].tenant

\* get_or_create_customer: a customer that is already linked is reused.
LockTenant(t) ==
    /\ pc[t] = "lock"
    /\ ~LockedByOther(t)
    /\ own' = [own EXCEPT ![t] = customer[req[t].tenant]]
    /\ Goto(t, IF customer[req[t].tenant] = 0 THEN "customer" ELSE "session")
    /\ UNCHANGED <<database, stripe, req, history, faults>>

CustomerKey(r) == [kind |-> "customer", tenant |-> r.tenant, key |-> NoKey]

\* Mutant: the client's key is passed to Stripe as it is, whoever the tenant.
SessionKeyOfClient(r) ==
    [kind |-> "session", tenant |-> CHOOSE n \in Tenant : TRUE, key |-> r.key]

SessionKey(r) == [kind |-> "session", tenant |-> r.tenant, key |-> r.key]

\* The key of the call that a checkout makes or waits for.
KeyOf(t) == IF pc[t] \in {"customer", "customer_wait"} THEN CustomerKey(req[t])
                                                       ELSE SessionKey(req[t])

\* t takes the saved answer of its call: a customer to work with, or a session.
\* The customer is flushed to the row that t has locked.
Take(t) ==
    \/ /\ pc[t] \in {"customer", "customer_wait"}
       /\ own' = [own EXCEPT ![t] = saved[KeyOf(t)].customer]
       /\ Goto(t, "session")
    \/ /\ pc[t] \in {"session", "session_wait"}
       /\ Goto(t, "commit")
       /\ UNCHANGED own

\* Mutant: Customer.create is called without an idempotency key.
FoundUnkeyed(t) == IF pc[t] = "customer" THEN "none" ELSE saved[KeyOf(t)].state

\* What Stripe finds under the key of t's call.
Found(t) == saved[KeyOf(t)].state

\* Customer.create or Session.create reaches Stripe: a new key starts the work, a
\* key that is being worked on or was used for another customer is an error, and
\* otherwise the saved answer, also that of a failure, is given again.
Call(t) ==
    LET k == KeyOf(t) IN
    /\ pc[t] \in {"customer", "session"}
    /\ \/ /\ Found(t) = "none"
          /\ saved' = [saved EXCEPT ![k] = [state |-> "busy", customer |-> own[t]]]
          /\ Goto(t, IF pc[t] = "customer" THEN "customer_wait" ELSE "session_wait")
          /\ UNCHANGED own
       \/ /\ Found(t) = "busy"
          /\ Goto(t, "busy")
          /\ UNCHANGED <<saved, own>>
       \/ /\ Found(t) = "failed"
          /\ Goto(t, "failed")
          /\ UNCHANGED <<saved, own>>
       \/ /\ Found(t) = "done"
          /\ pc[t] = "session" /\ saved[k].customer # own[t]
          /\ Goto(t, "mismatch")
          /\ UNCHANGED <<saved, own>>
       \/ /\ Found(t) = "done"
          /\ pc[t] = "session" => saved[k].customer = own[t]
          /\ Take(t)
          /\ UNCHANGED saved
    /\ UNCHANGED <<database, customers, req, history, faults>>

\* The answer arrives ...
Return(t) ==
    /\ pc[t] \in {"customer_wait", "session_wait"}
    /\ \/ saved[KeyOf(t)].state = "done" /\ Take(t)
       \/ saved[KeyOf(t)].state = "failed" /\ Goto(t, "failed") /\ UNCHANGED own
    /\ UNCHANGED <<database, stripe, req, history, faults>>

\* ... or is lost, or late: the call raises a StripeError, whatever Stripe does.
LoseAnswer(t) ==
    /\ pc[t] \in {"customer_wait", "session_wait"}
    /\ Fault
    /\ Goto(t, "failed")
    /\ UNCHANGED <<database, stripe, req, own, history>>

\* Mutant: the route answers without db.commit.
CommitForgotten(t) ==
    /\ pc[t] = "commit"
    /\ Goto(t, "answer")
    /\ UNCHANGED <<database, stripe, req, own, history, faults>>

Commit(t) ==
    /\ pc[t] = "commit"
    /\ customer' = [customer EXCEPT ![req[t].tenant] = own[t]]
    /\ Goto(t, "answer")
    /\ UNCHANGED <<email, stripe, req, own, history, faults>>

Answer(t) ==
    /\ pc[t] = "answer"
    /\ answers' = answers \cup {<<req[t], own[t]>>}
    /\ EndRequest(t)
    /\ UNCHANGED <<database, stripe, tokens, lapses, faults>>

\* Mutant: a refused checkout keeps its transaction open.
RefuseKeepsLock(t) ==
    /\ pc[t] = "taken"
    /\ EndRequest(t)
    /\ UNCHANGED <<database, stripe, history, faults>>

\* db.rollback and 502, or an IntegrityError and 500.
Refuse(t) ==
    /\ pc[t] \in Refused \cup {"taken"}
    /\ EndRequest(t)
    /\ UNCHANGED <<database, stripe, history, faults>>

\* The process or its connection is lost.
Crash(t) ==
    /\ pc[t] # "idle"
    /\ Fault
    /\ EndRequest(t)
    /\ UNCHANGED <<database, stripe, history>>
-----------------------------------------------------------------------------
(* Stripe.                                                                 *)

\* A call that was started is carried out and its answer saved, also when nobody
\* waits for it any more.
Execute(k) ==
    /\ saved[k].state = "busy"
    /\ \/ /\ k.kind = "customer"
          /\ customers' = Append(customers, k.tenant)
          /\ saved' = [saved EXCEPT ![k] = [state |-> "done", customer |-> Len(customers')]]
       \/ /\ k.kind = "session"
          /\ saved' = [saved EXCEPT ![k].state = "done"]
          /\ UNCHANGED customers
    /\ UNCHANGED <<database, pc, req, own, history, faults>>

FailCall(k) ==
    /\ saved[k].state = "busy"
    /\ Fault
    /\ saved' = [saved EXCEPT ![k].state = "failed"]
    /\ UNCHANGED <<database, customers, pc, req, own, history>>

\* A day or more later, which no request of the tenant lives to see, the key is
\* forgotten.  It lapses when it was that of a customer nobody has linked.
Expire(k) ==
    LET n == k.tenant
        lapse == k.kind = "customer" /\ saved[k].state = "done" /\ customer[n] = 0 IN
    /\ saved[k].state \in {"done", "failed"}
    /\ \A t \in Thread : pc[t] \in Locking => req[t].tenant # n
    /\ lapse => lapses[n] < MaxLapses
    /\ lapses' = IF lapse THEN [lapses EXCEPT ![n] = @ + 1] ELSE lapses
    /\ saved' = [saved EXCEPT ![k] = NotSaved]
    /\ UNCHANGED <<database, customers, pc, req, own, tokens, answers, faults>>

Step(t) ==
    \/ FindTenant(t) \/ InsertTenant(t) \/ CommitTenant(t) \/ Issue(t)
    \/ LockTenant(t) \/ Call(t) \/ Return(t) \/ Commit(t) \/ Answer(t) \/ Refuse(t)

Next ==
    \/ \E t \in Thread : \/ ReceiveLogin(t) \/ Step(t) \/ LoseAnswer(t) \/ Crash(t)
                         \/ \E n \in Tenant : ReceiveCheckout(t, n)
    \/ \E k \in StripeKey : Execute(k) \/ FailCall(k) \/ Expire(k)

Spec == Init /\ [][Next]_vars

\* A thread that can go on does, PostgreSQL serves those that wait for a row in
\* turn, Stripe carries out what it has started and forgets its keys, and the
\* client of a tenant tries again and again.
Fairness ==
    /\ \A t \in Thread : WF_vars(Step(t)) /\ SF_vars(LockTenant(t))
    /\ \A k \in StripeKey : WF_vars(Execute(k)) /\ SF_vars(Expire(k))
    /\ \A n \in Tenant : SF_vars(\E t \in Thread : ReceiveCheckout(t, n))

FairSpec == Spec /\ Fairness
-----------------------------------------------------------------------------
(* What must hold.                                                         *)

TypeOK ==
    /\ email     \in [Tenant -> Email \cup {NoEmail}]
    /\ customer  \in [Tenant -> 0 .. Len(customers)]
    /\ customers \in Seq(Tenant)
    /\ saved     \in [StripeKey -> Saved]
    /\ pc        \in [Thread -> {"idle", "find", "insert", "provision", "issue", "lock",
                                 "answer", "taken"} \cup Locking]
    /\ req       \in [Thread -> Login \cup Purchase \cup {NoRequest}]
    /\ own       \in [Thread -> 0 .. Len(customers)]
    /\ tokens    \subseteq Login
    /\ answers   \subseteq Purchase \X Nat
    /\ lapses    \in [Tenant -> 0 .. MaxLapses]
    /\ faults    \in 0 .. MaxFaults
    /\ \A t \in Thread : pc[t] = "idle" <=> req[t] = NoRequest

\* Two first logins with one e-mail make one tenant, and a token names the tenant
\* row that is durably stored for its e-mail.
TokensNameTenants ==
    /\ \A x \in tokens : email[x.tenant] = x.email
    /\ \A m, n \in Tenant : m # n /\ email[m] = email[n] => email[m] = NoEmail

CustomersOf(n) == {c \in 1 .. Len(customers) : customers[c] = n}

\* Whatever crashes, fails or is repeated, Stripe gets a second customer of a tenant
\* only after the key of the first expired without any checkout having committed:
\* the deterministic keys leave no orphans behind as long as they are remembered.
NoOrphanCustomers == \A n \in Tenant : Cardinality(CustomersOf(n)) <= 1 + lapses[n]

\* The customer a checkout was answered with is the one its tenant is linked to for
\* good, was created for that tenant, and is the one the session charges.
AnswersAreLinked ==
    \A x \in answers : customer[x[1].tenant] = x[2] /\ customers[x[2]] = x[1].tenant

\* A checkout is refused for its idempotency key only for a reason of its own
\* tenant's: a call that nobody waits for any more is still being carried out, or
\* the tenant's first customer was forgotten.  Neither a double click nor another
\* tenant with the same Idempotency-Key header makes it fail.
RefusalsExplained ==
    [][ \A t \in Thread :
          /\ pc[t] # "busy" /\ pc'[t] = "busy" =>
                \A s \in Thread \ {t} :
                   ~(pc[s] \in {"customer_wait", "session_wait"} /\ KeyOf(s) = KeyOf(t))
          /\ pc[t] # "mismatch" /\ pc'[t] = "mismatch" => lapses[req[t].tenant] > 0 ]_vars

\* A client that keeps asking gets its checkout in the end: no crash, lost answer,
\* saved failure or forgotten customer leaves the tenant stuck.
CheckoutGoesThrough ==
    \A n \in Tenant :
        (\E x \in tokens : x.tenant = n) ~> (\E x \in answers : x[1].tenant = n)
===============================================================================
