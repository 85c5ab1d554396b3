---------------------------- MODULE CheckoutProofs ----------------------------
(***************************************************************************)
(* Proofs about Checkout, for any threads, tenants, e-mails and client     *)
(* keys, and any number of faults.                                         *)
(*                                                                         *)
(* The argument has two halves that hardly touch: the unique e-mail makes  *)
(* log-ins safe, and the row lock together with Stripe's memory of a       *)
(* customer's key makes checkouts safe.                                    *)
(***************************************************************************)
EXTENDS Checkout, FiniteSetTheorems, TLAPS

LoginSteps    == {"find", "insert", "provision", "issue", "taken"}
CheckoutSteps == {"lock", "answer"} \cup Locking

\* What a step works on is the request of its kind.
StepsFitRequests ==
    \A t \in Thread : /\ pc[t] \in LoginSteps    => req[t] \in Login
                      /\ pc[t] \in CheckoutSteps => req[t] \in Purchase

\* What log-ins rely on: nobody else has the e-mail or the id of an uncommitted row.
LoginsSafe ==
    /\ \A x \in tokens : x.tenant \in Tenant
    /\ TokensNameTenants
    /\ \A t \in Thread : pc[t] = "issue" =>
          req[t].tenant \in Tenant /\ email[req[t].tenant] = req[t].email
    /\ \A t \in Thread : pc[t] = "provision" =>
          /\ req[t].tenant \in Tenant /\ email[req[t].tenant] = NoEmail
          /\ \A n \in Tenant : email[n] # req[t].email
    /\ \A s, t \in Thread : s # t /\ pc[s] = "provision" /\ pc[t] = "provision" =>
          req[s].tenant # req[t].tenant /\ req[s].email # req[t].email

OneCheckoutPerTenant ==
    \A s, t \in Thread : s # t /\ pc[s] \in Locking /\ pc[t] \in Locking =>
        req[s].tenant # req[t].tenant

\* Customers that rows, answers and Stripe's memory name belong to the tenant.
CustomersMatch ==
    /\ \A n \in Tenant : customer[n] # 0 => customer[n] \in CustomersOf(n)
    /\ \A k \in StripeKey :
          saved[k].state = "done" \/ (k.kind = "session" /\ saved[k].state # "none")
              => saved[k].customer \in CustomersOf(k.tenant)
    /\ \A x \in answers : x[1] \in Purchase /\ x[2] # 0 /\ x[2] = customer[x[1].tenant]

\* The customer that a checkout works with is the linked one or, before it is
\* linked, the one that Stripe remembers.
WorksWithCustomer(t) ==
    LET n == req[t].tenant
        k == CustomerKey(req[t]) IN
    /\ pc[t] \in {"customer", "customer_wait"} => customer[n] = 0
    /\ pc[t] \in {"session", "session_wait", "commit"} =>
          /\ customer[n] = 0 => saved[k].state = "done" /\ own[t] = saved[k].customer
          /\ customer[n] # 0 => own[t] = customer[n]
    /\ pc[t] = "answer" => own[t] # 0 /\ own[t] = customer[n]

WorkIsSafe == \A t \in Thread : WorksWithCustomer(t)

\* While a tenant is not linked, a customer whose key has not lapsed is one that
\* Stripe remembers.
KeysRemember ==
    \A k \in StripeKey : k.kind = "customer" =>
        /\ saved[k].state = "busy" => customer[k.tenant] = 0
        /\ saved[k].state # "done" /\ customer[k.tenant] = 0 =>
              Cardinality(CustomersOf(k.tenant)) <= lapses[k.tenant]

CheckoutsSafe == /\ OneCheckoutPerTenant /\ CustomersMatch /\ WorkIsSafe
                 /\ KeysRemember /\ NoOrphanCustomers

IInv == TypeOK /\ StepsFitRequests /\ LoginsSafe /\ CheckoutsSafe
-----------------------------------------------------------------------------
(* Types.                                                                  *)

LEMMA KeyTypes ==
    ASSUME NEW r \in Purchase
    PROVE  /\ r.tenant \in Tenant /\ r.key \in ClientKey
           /\ CustomerKey(r) \in StripeKey /\ CustomerKey(r).kind = "customer"
           /\ SessionKey(r) \in StripeKey /\ SessionKey(r).kind = "session"
           /\ CustomerKey(r).tenant = r.tenant /\ SessionKey(r).tenant = r.tenant
BY DEF Purchase, CustomerKey, SessionKey, StripeKey

LEMMA CallTypes ==
    ASSUME TypeOK, StepsFitRequests, NEW t \in Thread, pc[t] \in CheckoutSteps
    PROVE  /\ req[t] \in Purchase /\ KeyOf(t) \in StripeKey
           /\ KeyOf(t).tenant = req[t].tenant
           /\ saved[KeyOf(t)] \in Saved /\ own[t] \in Nat
<1>1. req[t] \in Purchase
  BY DEF StepsFitRequests
<1>2. KeyOf(t) \in StripeKey /\ KeyOf(t).tenant = req[t].tenant
  BY <1>1, KeyTypes DEF KeyOf
<1> QED
  BY <1>1, <1>2 DEF TypeOK

LEMMA CustomerRange ==
    ASSUME TypeOK, NEW n \in Tenant
    PROVE  /\ Len(customers) \in Nat
           /\ CustomersOf(n) \subseteq 1 .. Len(customers)
           /\ IsFiniteSet(CustomersOf(n)) /\ Cardinality(CustomersOf(n)) \in Nat
<1>1. Len(customers) \in Nat /\ CustomersOf(n) \subseteq 1 .. Len(customers)
  BY DEF TypeOK, CustomersOf
<1>2. IsFiniteSet(1 .. Len(customers))
  BY <1>1, FS_Interval
<1>3. IsFiniteSet(CustomersOf(n))
  BY <1>1, <1>2, FS_Subset
<1> QED
  BY <1>1, <1>3, FS_CardinalityType

LEMMA InitTypeOK == Init => TypeOK
<1> SUFFICES ASSUME Init PROVE TypeOK
  OBVIOUS
<1>1. NotSaved \in Saved
  BY DEF NotSaved, Saved
<1>2. customers \in Seq(Tenant) /\ Len(customers) = 0
  BY DEF Init
<1>3. faults \in 0 .. MaxFaults /\ lapses \in [Tenant -> 0 .. MaxLapses]
  BY BoundAssumption DEF Init
<1> QED
  BY <1>1, <1>2, <1>3 DEF Init, TypeOK, Locking

\* A log-in moves on with its request.
LEMMA RequestMovesOn ==
    ASSUME TypeOK, StepsFitRequests, NEW t \in Thread, NEW l \in LoginSteps,
           pc[t] \in LoginSteps, Goto(t, l),
           req' = req \/ \E n \in Tenant : req' = [req EXCEPT ![t].tenant = n]
    PROVE  /\ req' \in [Thread -> Login \cup Purchase \cup {NoRequest}]
           /\ pc' \in [Thread -> {"idle", "find", "insert", "provision", "issue", "lock",
                                  "answer", "taken"} \cup Locking]
           /\ \A s \in Thread : pc'[s] = "idle" <=> req'[s] = NoRequest
           /\ StepsFitRequests'
<1>1. req[t] \in Login
  BY DEF StepsFitRequests
<1>2. req'[t] \in Login /\ \A s \in Thread \ {t} : req'[s] = req[s]
  <2>1. CASE req' = req
    BY <1>1, <2>1
  <2>2. CASE \E n \in Tenant : req' = [req EXCEPT ![t].tenant = n]
    <3>1. PICK n \in Tenant : req' = [req EXCEPT ![t].tenant = n]
      BY <2>2
    <3>2. req'[t] = [req[t] EXCEPT !.tenant = n]
      BY <3>1 DEF TypeOK
    <3>3. req'[t] \in Login
      BY <1>1, <3>2 DEF Login
    <3> QED
      BY <3>1, <3>3 DEF TypeOK
  <2> QED
    BY <2>1, <2>2
<1>3. pc' = [pc EXCEPT ![t] = l]
  BY DEF Goto
<1>4. req' \in [Thread -> Login \cup Purchase \cup {NoRequest}]
  <2>1. CASE req' = req
    BY <2>1 DEF TypeOK
  <2>2. CASE \E n \in Tenant : req' = [req EXCEPT ![t].tenant = n]
    BY <1>2, <2>2 DEF TypeOK
  <2> QED
    BY <2>1, <2>2
<1> QED
  BY <1>2, <1>3, <1>4, NullAssumption DEF TypeOK, StepsFitRequests, LoginSteps, CheckoutSteps, Locking, Refused

LEMMA ReceiveLoginTypes ==
    ASSUME TypeOK, StepsFitRequests, NEW t \in Thread, ReceiveLogin(t)
    PROVE  TypeOK' /\ StepsFitRequests'
BY NullAssumption
   DEF ReceiveLogin, TypeOK, StepsFitRequests, Goto, Login, LoginSteps, CheckoutSteps, Locking,
       Refused, database, stripe, history

LEMMA FindTenantTypes ==
    ASSUME TypeOK, StepsFitRequests, NEW t \in Thread, FindTenant(t)
    PROVE  TypeOK' /\ StepsFitRequests'
<1>1. /\ pc[t] \in LoginSteps /\ (Goto(t, "insert") \/ Goto(t, "issue"))
      /\ req' = req \/ \E n \in Tenant : req' = [req EXCEPT ![t].tenant = n]
      /\ UNCHANGED <<database, stripe, own, history, faults>>
  BY DEF FindTenant, LoginSteps
<1>2. "insert" \in LoginSteps /\ "issue" \in LoginSteps
  BY DEF LoginSteps
<1> QED
  BY <1>1, <1>2, RequestMovesOn DEF TypeOK, database, stripe, history

LEMMA InsertTenantTypes ==
    ASSUME TypeOK, StepsFitRequests, NEW t \in Thread, InsertTenant(t)
    PROVE  TypeOK' /\ StepsFitRequests'
<1>1. /\ pc[t] \in LoginSteps /\ (Goto(t, "taken") \/ Goto(t, "provision"))
      /\ req' = req \/ \E n \in Tenant : req' = [req EXCEPT ![t].tenant = n]
      /\ UNCHANGED <<database, stripe, own, history, faults>>
  BY DEF InsertTenant, LoginSteps
<1>2. "taken" \in LoginSteps /\ "provision" \in LoginSteps
  BY DEF LoginSteps
<1> QED
  BY <1>1, <1>2, RequestMovesOn DEF TypeOK, database, stripe, history

LEMMA CommitTenantTypes ==
    ASSUME TypeOK, StepsFitRequests, NEW t \in Thread, CommitTenant(t)
    PROVE  TypeOK' /\ StepsFitRequests'
<1>1. req[t] \in Login /\ req[t].email \in Email
  BY DEF CommitTenant, StepsFitRequests, LoginSteps, Login
<1>2. "issue" \in LoginSteps /\ pc[t] \in LoginSteps
  BY DEF CommitTenant, LoginSteps
<1> QED
  BY <1>1, <1>2, RequestMovesOn DEF CommitTenant, TypeOK, stripe, history

\* A request that ends leaves nothing behind.
LEMMA EndTypes ==
    ASSUME TypeOK, StepsFitRequests, NEW t \in Thread, EndRequest(t)
    PROVE  /\ pc' = [pc EXCEPT ![t] = "idle"]
           /\ req' \in [Thread -> Login \cup Purchase \cup {NoRequest}]
           /\ own' \in [Thread -> 0 .. Len(customers)]
           /\ \A s \in Thread : pc'[s] = "idle" <=> req'[s] = NoRequest
           /\ StepsFitRequests'
<1>1. 0 \in 0 .. Len(customers)
  BY DEF TypeOK
<1> QED
  BY <1>1 DEF EndRequest, Goto, TypeOK, StepsFitRequests, LoginSteps, CheckoutSteps, Locking, Refused

LEMMA IssueTypes ==
    ASSUME TypeOK, StepsFitRequests, NEW t \in Thread, Issue(t)
    PROVE  TypeOK' /\ StepsFitRequests'
<1>1. req[t] \in Login
  BY DEF Issue, StepsFitRequests, LoginSteps
<1>2. EndRequest(t)
  BY DEF Issue
<1> QED
  BY <1>1, <1>2, EndTypes DEF Issue, TypeOK, database, stripe

LEMMA CrashTypes ==
    ASSUME TypeOK, StepsFitRequests, NEW t \in Thread, Crash(t)
    PROVE  TypeOK' /\ StepsFitRequests'
<1>1. EndRequest(t)
  BY DEF Crash
<1>2. faults' \in 0 .. MaxFaults
  BY BoundAssumption DEF Crash, Fault, TypeOK
<1> QED
  BY <1>1, <1>2, EndTypes DEF Crash, TypeOK, database, stripe, history

LEMMA RefuseTypes ==
    ASSUME TypeOK, StepsFitRequests, NEW t \in Thread, Refuse(t)
    PROVE  TypeOK' /\ StepsFitRequests'
<1>1. EndRequest(t)
  BY DEF Refuse
<1> QED
  BY <1>1, EndTypes DEF Refuse, TypeOK, database, stripe, history

LEMMA AnswerTypes ==
    ASSUME TypeOK, StepsFitRequests, NEW t \in Thread, Answer(t)
    PROVE  TypeOK' /\ StepsFitRequests'
<1>1. EndRequest(t) /\ answers' = answers \cup {<<req[t], own[t]>>}
  BY DEF Answer
<1>2. req[t] \in Purchase /\ own[t] \in Nat
  BY CallTypes DEF Answer, CheckoutSteps
<1>3. answers' \subseteq Purchase \X Nat
  BY <1>1, <1>2 DEF TypeOK
<1>4. UNCHANGED <<email, customer, customers, saved, tokens, lapses, faults>>
  BY DEF Answer, database, stripe
<1> QED
  BY <1>1, <1>3, <1>4, EndTypes DEF TypeOK

LEMMA ReceiveCheckoutTypes ==
    ASSUME TypeOK, StepsFitRequests, NEW t \in Thread, NEW n \in Tenant, ReceiveCheckout(t, n)
    PROVE  TypeOK' /\ StepsFitRequests'
BY NullAssumption
   DEF ReceiveCheckout, TypeOK, StepsFitRequests, Goto, Purchase, LoginSteps, CheckoutSteps,
       Locking, Refused, database, stripe, history

\* A checkout moves on with a customer that exists.
LEMMA CheckoutMovesOn ==
    ASSUME TypeOK, StepsFitRequests, NEW t \in Thread, NEW l \in CheckoutSteps,
           pc[t] \in CheckoutSteps, Goto(t, l), UNCHANGED req
    PROVE  /\ pc' \in [Thread -> {"idle", "find", "insert", "provision", "issue", "lock",
                                  "answer", "taken"} \cup Locking]
           /\ \A s \in Thread : pc'[s] = "idle" <=> req'[s] = NoRequest
           /\ StepsFitRequests'
BY DEF Goto, TypeOK, StepsFitRequests, LoginSteps, CheckoutSteps, Locking, Refused

LEMMA LockTenantTypes ==
    ASSUME TypeOK, StepsFitRequests, NEW t \in Thread, LockTenant(t)
    PROVE  TypeOK' /\ StepsFitRequests'
<1>1. pc[t] \in CheckoutSteps /\ (Goto(t, "customer") \/ Goto(t, "session"))
  BY DEF LockTenant, CheckoutSteps
<1>2. "customer" \in CheckoutSteps /\ "session" \in CheckoutSteps
  BY DEF CheckoutSteps, Locking
<1>3. req[t].tenant \in Tenant
  BY <1>1, CallTypes, KeyTypes
<1>4. own' \in [Thread -> 0 .. Len(customers)]
  BY <1>3 DEF LockTenant, TypeOK
<1> QED
  BY <1>1, <1>2, <1>4, CheckoutMovesOn DEF LockTenant, TypeOK, database, stripe, history

LEMMA CommitTypes ==
    ASSUME TypeOK, StepsFitRequests, NEW t \in Thread, Commit(t)
    PROVE  TypeOK' /\ StepsFitRequests'
<1>1. pc[t] \in CheckoutSteps /\ "answer" \in CheckoutSteps
  BY DEF Commit, CheckoutSteps, Locking
<1>2. customer' \in [Tenant -> 0 .. Len(customers)]
  BY DEF Commit, TypeOK
<1> QED
  BY <1>1, <1>2, CheckoutMovesOn DEF Commit, TypeOK, stripe, history

LEMMA LoseAnswerTypes ==
    ASSUME TypeOK, StepsFitRequests, NEW t \in Thread, LoseAnswer(t)
    PROVE  TypeOK' /\ StepsFitRequests'
<1>1. pc[t] \in CheckoutSteps /\ "failed" \in CheckoutSteps
  BY DEF LoseAnswer, CheckoutSteps, Locking, Refused
<1>2. faults' \in 0 .. MaxFaults
  BY BoundAssumption DEF LoseAnswer, Fault, TypeOK
<1> QED
  BY <1>1, <1>2, CheckoutMovesOn DEF LoseAnswer, TypeOK, database, stripe, history

LEMMA TakeTypes ==
    ASSUME TypeOK, StepsFitRequests, NEW t \in Thread, pc[t] \in Locking, Take(t), UNCHANGED req,
           saved[KeyOf(t)].customer \in 0 .. Len(customers)
    PROVE  /\ pc' \in [Thread -> {"idle", "find", "insert", "provision", "issue", "lock",
                                  "answer", "taken"} \cup Locking]
           /\ \A s \in Thread : pc'[s] = "idle" <=> req'[s] = NoRequest
           /\ StepsFitRequests'
           /\ own' \in [Thread -> 0 .. Len(customers)]
<1>1. pc[t] \in CheckoutSteps /\ (Goto(t, "session") \/ Goto(t, "commit"))
  BY DEF Take, CheckoutSteps
<1>2. "session" \in CheckoutSteps /\ "commit" \in CheckoutSteps
  BY DEF CheckoutSteps, Locking
<1>3. own' \in [Thread -> 0 .. Len(customers)]
  BY DEF Take, TypeOK
<1> QED
  BY <1>1, <1>2, <1>3, CheckoutMovesOn

\* Customers that Stripe remembers exist.
LEMMA SavedCustomerExists ==
    ASSUME TypeOK, CustomersMatch, NEW k \in StripeKey, saved[k].state = "done"
    PROVE  saved[k].customer \in CustomersOf(k.tenant) /\ saved[k].customer \in 0 .. Len(customers)
<1>1. saved[k].customer \in CustomersOf(k.tenant)
  BY DEF CustomersMatch
<1> QED
  BY <1>1 DEF CustomersOf, TypeOK

LEMMA CallTypesKept ==
    ASSUME TypeOK, StepsFitRequests, CustomersMatch, NEW t \in Thread, Call(t)
    PROVE  TypeOK' /\ StepsFitRequests'
<1>1. /\ pc[t] \in Locking /\ pc[t] \in CheckoutSteps
      /\ UNCHANGED <<email, customer, customers, req, tokens, answers, lapses, faults>>
  BY DEF Call, Locking, CheckoutSteps, database, history
<1>2. KeyOf(t) \in StripeKey /\ own[t] \in Nat
  BY <1>1, CallTypes
<1>3. CASE Take(t) /\ Found(t) = "done" /\ UNCHANGED saved
  BY <1>1, <1>2, <1>3, SavedCustomerExists, TakeTypes DEF TypeOK, Found
<1>4. CASE /\ UNCHANGED own
           /\ \E l \in CheckoutSteps : Goto(t, l)
           /\ UNCHANGED saved \/ saved' = [saved EXCEPT ![KeyOf(t)] = [state |-> "busy", customer |-> own[t]]]
  <2>1. saved' \in [StripeKey -> Saved]
    <3>1. [state |-> "busy", customer |-> own[t]] \in Saved
      BY <1>2 DEF Saved
    <3>2. saved \in [StripeKey -> Saved]
      BY DEF TypeOK
    <3> QED
      BY <1>4, <3>1, <3>2
  <2> QED
    BY <1>1, <1>4, <2>1, CheckoutMovesOn DEF TypeOK
<1>5. \A l \in {"customer_wait", "session_wait", "busy", "failed", "mismatch"} : l \in CheckoutSteps
  BY DEF CheckoutSteps, Locking, Refused
<1> QED
  BY <1>3, <1>4, <1>5 DEF Call

LEMMA ReturnTypes ==
    ASSUME TypeOK, StepsFitRequests, CustomersMatch, NEW t \in Thread, Return(t)
    PROVE  TypeOK' /\ StepsFitRequests'
<1>1. /\ pc[t] \in Locking /\ pc[t] \in CheckoutSteps /\ "failed" \in CheckoutSteps
      /\ UNCHANGED <<email, customer, customers, saved, req, tokens, answers, lapses, faults>>
  BY DEF Return, Locking, Refused, CheckoutSteps, database, stripe, history
<1>2. KeyOf(t) \in StripeKey
  BY <1>1, CallTypes
<1>3. CASE Take(t) /\ saved[KeyOf(t)].state = "done"
  BY <1>1, <1>2, <1>3, SavedCustomerExists, TakeTypes DEF TypeOK
<1>4. CASE Goto(t, "failed") /\ UNCHANGED own
  BY <1>1, <1>4, CheckoutMovesOn DEF TypeOK
<1> QED
  BY <1>3, <1>4 DEF Return

LEMMA ExecuteTypes ==
    ASSUME TypeOK, StepsFitRequests, NEW k \in StripeKey, Execute(k)
    PROVE  TypeOK' /\ StepsFitRequests'
<1>1. UNCHANGED <<email, customer, pc, req, own, tokens, answers, lapses, faults>>
  BY DEF Execute, database, history
<1>2. k.tenant \in Tenant /\ saved[k] \in Saved
  BY DEF StripeKey, TypeOK
<1>3. customers \in Seq(Tenant) /\ Len(customers) \in Nat
  BY DEF TypeOK
<1>4. /\ customers' \in Seq(Tenant) /\ Len(customers') \in Nat
      /\ Len(customers') = Len(customers) \/ Len(customers') = Len(customers) + 1
  <2>1. CASE customers' = customers
    BY <1>3, <2>1
  <2>2. CASE customers' = Append(customers, k.tenant)
    BY <1>2, <1>3, <2>2
  <2> QED
    BY <2>1, <2>2 DEF Execute
<1>5. 0 .. Len(customers) \subseteq 0 .. Len(customers')
  BY <1>3, <1>4
<1>6. saved' \in [StripeKey -> Saved]
  <2>1. \E n \in Nat : saved' = [saved EXCEPT ![k] = [state |-> "done", customer |-> n]]
    BY <1>2, <1>4 DEF Execute, TypeOK, Saved
  <2>2. PICK n \in Nat : saved' = [saved EXCEPT ![k] = [state |-> "done", customer |-> n]]
    BY <2>1
  <2>3. [state |-> "done", customer |-> n] \in Saved
    BY DEF Saved
  <2> QED
    BY <2>2, <2>3 DEF TypeOK
<1>7. StepsFitRequests'
  BY <1>1 DEF StepsFitRequests
<1>8. /\ customer' \in [Tenant -> 0 .. Len(customers')]
      /\ own' \in [Thread -> 0 .. Len(customers')]
  BY <1>1, <1>5 DEF TypeOK
<1> QED
  BY <1>1, <1>4, <1>6, <1>7, <1>8 DEF TypeOK

LEMMA FailCallTypes ==
    ASSUME TypeOK, StepsFitRequests, NEW k \in StripeKey, FailCall(k)
    PROVE  TypeOK' /\ StepsFitRequests'
<1>1. saved' \in [StripeKey -> Saved]
  BY DEF FailCall, TypeOK, Saved
<1>2. faults' \in 0 .. MaxFaults
  BY BoundAssumption DEF FailCall, Fault, TypeOK
<1> QED
  BY <1>1, <1>2 DEF FailCall, TypeOK, StepsFitRequests, database, history

LEMMA ExpireTypes ==
    ASSUME TypeOK, StepsFitRequests, NEW k \in StripeKey, Expire(k)
    PROVE  TypeOK' /\ StepsFitRequests'
<1>1. saved' \in [StripeKey -> Saved]
  BY DEF Expire, TypeOK, Saved, NotSaved
<1>2. k.tenant \in Tenant
  BY DEF StripeKey
<1>3. lapses' \in [Tenant -> 0 .. MaxLapses]
  BY <1>2, BoundAssumption DEF Expire, TypeOK
<1> QED
  BY <1>1, <1>3 DEF Expire, TypeOK, StepsFitRequests, database

LEMMA StutterKeepsTypes ==
    ASSUME TypeOK, StepsFitRequests, UNCHANGED vars PROVE TypeOK' /\ StepsFitRequests'
BY DEF vars, database, stripe, history, TypeOK, StepsFitRequests

LEMMA TypesKept == IInv /\ [Next]_vars => TypeOK' /\ StepsFitRequests'
<1> SUFFICES ASSUME IInv, [Next]_vars PROVE TypeOK' /\ StepsFitRequests'
  OBVIOUS
<1> USE DEF IInv, CheckoutsSafe
<1>1. ASSUME NEW t \in Thread, Step(t) PROVE TypeOK' /\ StepsFitRequests'
  BY <1>1, FindTenantTypes, InsertTenantTypes, CommitTenantTypes, IssueTypes, LockTenantTypes,
     CallTypesKept, ReturnTypes, CommitTypes, AnswerTypes, RefuseTypes DEF Step
<1> QED
  BY <1>1, ReceiveLoginTypes, ReceiveCheckoutTypes, LoseAnswerTypes, CrashTypes, ExecuteTypes,
     FailCallTypes, ExpireTypes, StutterKeepsTypes DEF Next
-----------------------------------------------------------------------------
(* Log-ins.                                                                *)

\* Whoever is at provision or issue afterwards was there before, with the same
\* request: nothing that log-ins rely on has changed.
LEMMA LoginsUndisturbed ==
    ASSUME LoginsSafe, UNCHANGED <<email, tokens>>,
           \A t \in Thread : pc'[t] \in {"provision", "issue"} => pc'[t] = pc[t] /\ req'[t] = req[t]
    PROVE  LoginsSafe'
BY DEF LoginsSafe, TokensNameTenants

LEMMA CheckoutKeepsLogins ==
    ASSUME TypeOK, LoginsSafe, NEW t \in Thread,
           \/ LockTenant(t) \/ Call(t) \/ Return(t) \/ Commit(t) \/ Answer(t) \/ Refuse(t)
           \/ LoseAnswer(t) \/ Crash(t) \/ \E n \in Tenant : ReceiveCheckout(t, n)
    PROVE  LoginsSafe'
<1>1. UNCHANGED <<email, tokens>>
  BY DEF LockTenant, Call, Return, Commit, Answer, Refuse, LoseAnswer, Crash, ReceiveCheckout,
         database, history
<1>2. \E l \in CheckoutSteps \cup {"idle"} : Goto(t, l)
  BY DEF LockTenant, Call, Take, Return, Commit, Answer, Refuse, LoseAnswer, Crash, ReceiveCheckout,
         EndRequest, CheckoutSteps, Locking, Refused
<1>3. \A s \in Thread \ {t} : req'[s] = req[s]
  BY DEF LockTenant, Call, Return, Commit, Answer, Refuse, LoseAnswer, Crash, ReceiveCheckout,
         EndRequest, TypeOK
<1>4. \A s \in Thread : pc'[s] \in {"provision", "issue"} => s # t /\ pc'[s] = pc[s]
  BY <1>2 DEF Goto, TypeOK, CheckoutSteps, Locking, Refused
<1> QED
  BY <1>1, <1>3, <1>4, LoginsUndisturbed

LEMMA StripeKeepsLogins ==
    ASSUME LoginsSafe, NEW k \in StripeKey, Execute(k) \/ FailCall(k) \/ Expire(k)
    PROVE  LoginsSafe'
BY LoginsUndisturbed DEF Execute, FailCall, Expire, database, history

LEMMA ReceiveLoginKeepsLogins ==
    ASSUME TypeOK, LoginsSafe, NEW t \in Thread, ReceiveLogin(t)
    PROVE  LoginsSafe'
<1>1. /\ UNCHANGED <<email, tokens>> /\ Goto(t, "find")
      /\ \A s \in Thread \ {t} : req'[s] = req[s]
  BY DEF ReceiveLogin, TypeOK, database, history
<1> QED
  BY <1>1, LoginsUndisturbed DEF Goto, TypeOK

LEMMA FindTenantKeepsLogins ==
    ASSUME TypeOK, StepsFitRequests, LoginsSafe, NEW t \in Thread, FindTenant(t)
    PROVE  LoginsSafe'
<1>1. UNCHANGED <<email, tokens>> /\ req[t] \in Login
  BY DEF FindTenant, database, history, StepsFitRequests, LoginSteps
<1>2. CASE Goto(t, "insert") /\ UNCHANGED req
  BY <1>1, <1>2, LoginsUndisturbed DEF Goto, TypeOK
<1>3. ASSUME NEW n \in Tenant, email[n] = req[t].email, Goto(t, "issue"),
             req' = [req EXCEPT ![t].tenant = n]
      PROVE  LoginsSafe'
  <2>1. req'[t].tenant = n /\ req'[t].email = req[t].email
    BY <1>1, <1>3 DEF TypeOK, Login
  <2>2. \A s \in Thread \ {t} : req'[s] = req[s] /\ pc'[s] = pc[s]
    BY <1>3 DEF TypeOK, Goto
  <2>3. pc'[t] = "issue"
    BY <1>3 DEF TypeOK, Goto
  <2> QED
    BY <1>1, <1>3, <2>1, <2>2, <2>3 DEF LoginsSafe, TokensNameTenants
<1> QED
  BY <1>2, <1>3 DEF FindTenant

LEMMA InsertTenantKeepsLogins ==
    ASSUME TypeOK, StepsFitRequests, LoginsSafe, NEW t \in Thread, InsertTenant(t)
    PROVE  LoginsSafe'
<1>1. UNCHANGED <<email, tokens>> /\ req[t] \in Login
  BY DEF InsertTenant, database, history, StepsFitRequests, LoginSteps
<1>2. CASE Goto(t, "taken") /\ UNCHANGED req
  BY <1>1, <1>2, LoginsUndisturbed DEF Goto, TypeOK
<1>3. ASSUME NEW n \in Tenant, email[n] = NoEmail, Goto(t, "provision"),
             \A m \in Tenant : email[m] # req[t].email,
             \A s \in Thread : pc[s] = "provision" => req[s].tenant # n,
             req' = [req EXCEPT ![t].tenant = n]
      PROVE  LoginsSafe'
  <2>1. req'[t].tenant = n /\ req'[t].email = req[t].email
    BY <1>1, <1>3 DEF TypeOK, Login
  <2>2. \A s \in Thread \ {t} : req'[s] = req[s] /\ pc'[s] = pc[s]
    BY <1>3 DEF TypeOK, Goto
  <2>3. pc'[t] = "provision"
    BY <1>3 DEF TypeOK, Goto
  <2>4. \A s \in Thread \ {t} : pc[s] = "provision" => req[s].email # req[t].email
    BY DEF InsertTenant
  <2> QED
    BY <1>1, <1>3, <2>1, <2>2, <2>3, <2>4 DEF LoginsSafe, TokensNameTenants
<1> QED
  BY <1>2, <1>3 DEF InsertTenant

\* The committed row has an e-mail that no other row has or is about to get.
LEMMA CommitTenantKeepsLogins ==
    ASSUME TypeOK, StepsFitRequests, LoginsSafe, NEW t \in Thread, CommitTenant(t)
    PROVE  LoginsSafe'
<1> DEFINE n == req[t].tenant
<1>1. /\ req[t] \in Login /\ pc[t] = "provision" /\ n \in Tenant /\ req[t].email \in Email
      /\ email[n] = NoEmail /\ \A m \in Tenant : email[m] # req[t].email
  BY DEF CommitTenant, StepsFitRequests, LoginSteps, LoginsSafe, Login
<1>2. /\ UNCHANGED <<req, tokens>> /\ pc'[t] = "issue"
      /\ \A s \in Thread \ {t} : pc'[s] = pc[s]
  BY DEF CommitTenant, Goto, history, TypeOK
<1>3. email'[n] = req[t].email /\ \A m \in Tenant \ {n} : email'[m] = email[m]
  BY <1>1 DEF CommitTenant, TypeOK
<1>4. \A x \in tokens : x.tenant \in Tenant /\ x.tenant # n /\ email[x.tenant] = x.email
  BY <1>1, NullAssumption DEF LoginsSafe, TokensNameTenants, TypeOK, Login
<1>5. (\A x \in tokens : x.tenant \in Tenant)' /\ TokensNameTenants'
  BY <1>1, <1>2, <1>3, <1>4, NullAssumption DEF LoginsSafe, TokensNameTenants
<1>6. ASSUME NEW s \in Thread, pc'[s] = "issue"
      PROVE  req'[s].tenant \in Tenant /\ email'[req'[s].tenant] = req'[s].email
  <2>1. CASE s = t
    BY <1>1, <1>2, <1>3, <2>1
  <2>2. CASE s # t
    <3>1. pc[s] = "issue" /\ req[s] \in Login /\ req'[s] = req[s]
      BY <1>2, <1>6, <2>2 DEF StepsFitRequests, LoginSteps
    <3>2. req[s].tenant # n
      BY <1>1, <3>1, NullAssumption DEF LoginsSafe, Login
    <3> QED
      BY <1>3, <3>1, <3>2 DEF LoginsSafe
  <2> QED
    BY <2>1, <2>2
<1>7. ASSUME NEW s \in Thread, pc'[s] = "provision"
      PROVE  /\ s # t /\ pc[s] = "provision" /\ req'[s].tenant \in Tenant
             /\ email'[req'[s].tenant] = NoEmail
             /\ \A m \in Tenant : email'[m] # req'[s].email
  <2>1. s # t /\ pc[s] = "provision" /\ req'[s] = req[s]
    BY <1>2, <1>7
  <2>2. req[s].tenant # n /\ req[s].email # req[t].email
    BY <1>1, <2>1 DEF LoginsSafe
  <2> QED
    BY <1>3, <2>1, <2>2 DEF LoginsSafe
<1> QED
  BY <1>2, <1>5, <1>6, <1>7 DEF LoginsSafe

LEMMA IssueKeepsLogins ==
    ASSUME TypeOK, StepsFitRequests, LoginsSafe, NEW t \in Thread, Issue(t)
    PROVE  LoginsSafe'
<1>1. /\ UNCHANGED email /\ tokens' = tokens \cup {req[t]} /\ pc[t] = "issue"
      /\ pc'[t] = "idle" /\ \A s \in Thread \ {t} : pc'[s] = pc[s] /\ req'[s] = req[s]
  BY DEF Issue, EndRequest, Goto, database, TypeOK
<1> QED
  BY <1>1 DEF LoginsSafe, TokensNameTenants

LEMMA LoginsKept == IInv /\ [Next]_vars => LoginsSafe'
<1> SUFFICES ASSUME IInv, [Next]_vars PROVE LoginsSafe'
  OBVIOUS
<1> USE DEF IInv
<1>1. CASE UNCHANGED vars
  BY <1>1, LoginsUndisturbed DEF vars, database, history
<1>2. ASSUME NEW t \in Thread, Step(t) PROVE LoginsSafe'
  BY <1>2, FindTenantKeepsLogins, InsertTenantKeepsLogins, CommitTenantKeepsLogins,
     IssueKeepsLogins, CheckoutKeepsLogins DEF Step
<1> QED
  BY <1>1, <1>2, ReceiveLoginKeepsLogins, CheckoutKeepsLogins, StripeKeepsLogins DEF Next
-----------------------------------------------------------------------------
(* Checkouts.                                                              *)

\* A thread that is at work afterwards was at the same work before, or has just
\* been refused.
LEMMA CheckoutsUndisturbed ==
    ASSUME CheckoutsSafe, UNCHANGED <<customer, customers, saved, answers, lapses>>,
           \A s \in Thread : pc'[s] \in (Locking \cup {"answer"}) \ Refused =>
               pc'[s] = pc[s] /\ req'[s] = req[s] /\ own'[s] = own[s],
           \A s \in Thread : pc'[s] \in Refused => pc[s] \in Locking /\ req'[s] = req[s]
    PROVE  CheckoutsSafe'
<1>1. \A s \in Thread : pc'[s] \in Locking => pc[s] \in Locking /\ req'[s] = req[s]
  BY DEF Locking
<1>2. OneCheckoutPerTenant'
  BY <1>1 DEF CheckoutsSafe, OneCheckoutPerTenant
<1>3. CustomersMatch' /\ KeysRemember' /\ NoOrphanCustomers'
  BY DEF CheckoutsSafe, CustomersMatch, KeysRemember, NoOrphanCustomers, CustomersOf
<1>4. ASSUME NEW s \in Thread PROVE WorksWithCustomer(s)'
  <2>1. WorksWithCustomer(s)
    BY DEF CheckoutsSafe, WorkIsSafe
  <2> QED
    BY <2>1 DEF WorksWithCustomer, CustomerKey, Locking, Refused
<1> QED
  BY <1>2, <1>3, <1>4 DEF CheckoutsSafe, WorkIsSafe

LEMMA LoginKeepsCheckouts ==
    ASSUME TypeOK, CheckoutsSafe, NEW t \in Thread,
           ReceiveLogin(t) \/ FindTenant(t) \/ InsertTenant(t) \/ CommitTenant(t) \/ Issue(t)
    PROVE  CheckoutsSafe'
<1>1. UNCHANGED <<customer, customers, saved, answers, lapses>>
  BY DEF ReceiveLogin, FindTenant, InsertTenant, CommitTenant, Issue, database, stripe, history
<1>2. \E l \in LoginSteps \cup {"idle"} : Goto(t, l)
  BY DEF ReceiveLogin, FindTenant, InsertTenant, CommitTenant, Issue, EndRequest, LoginSteps
<1>3. \A s \in Thread \ {t} : req'[s] = req[s] /\ own'[s] = own[s]
  BY DEF ReceiveLogin, FindTenant, InsertTenant, CommitTenant, Issue, EndRequest, TypeOK
<1>4. \A s \in Thread : pc'[s] \in CheckoutSteps => s # t /\ pc'[s] = pc[s]
  BY <1>2 DEF Goto, TypeOK, LoginSteps, CheckoutSteps, Locking, Refused
<1> QED
  BY <1>1, <1>3, <1>4, CheckoutsUndisturbed DEF CheckoutSteps, Locking

LEMMA ReceiveOrEndKeepsCheckouts ==
    ASSUME TypeOK, CheckoutsSafe, NEW t \in Thread,
           Refuse(t) \/ Crash(t) \/ LoseAnswer(t) \/ \E n \in Tenant : ReceiveCheckout(t, n)
    PROVE  CheckoutsSafe'
<1>1. UNCHANGED <<customer, customers, saved, answers, lapses>>
  BY DEF Refuse, Crash, LoseAnswer, ReceiveCheckout, database, stripe, history
<1>2. \/ Goto(t, "idle") \/ Goto(t, "lock")
      \/ pc[t] \in Locking /\ Goto(t, "failed") /\ UNCHANGED req
  BY DEF Refuse, Crash, LoseAnswer, ReceiveCheckout, EndRequest, Locking
<1>3. \A s \in Thread \ {t} : req'[s] = req[s] /\ own'[s] = own[s]
  BY DEF Refuse, Crash, LoseAnswer, ReceiveCheckout, EndRequest, TypeOK
<1> QED
  BY <1>1, <1>2, <1>3, CheckoutsUndisturbed DEF Goto, TypeOK, Locking, Refused

\* The customer a checkout works with is its tenant's.
LEMMA OwnCustomer ==
    ASSUME TypeOK, StepsFitRequests, CheckoutsSafe, NEW t \in Thread,
           pc[t] \in {"session", "session_wait", "commit", "answer"}
    PROVE  /\ req[t] \in Purchase /\ req[t].tenant \in Tenant
           /\ own[t] \in CustomersOf(req[t].tenant) /\ own[t] \in Nat \ {0}
<1>1. req[t] \in Purchase /\ req[t].tenant \in Tenant
  BY CallTypes, KeyTypes DEF CheckoutSteps, Locking
<1>2. /\ CustomerKey(req[t]) \in StripeKey
      /\ CustomerKey(req[t]).tenant = req[t].tenant
  BY <1>1, KeyTypes
<1>3. own[t] \in CustomersOf(req[t].tenant)
  <2>1. WorksWithCustomer(t) /\ CustomersMatch
    BY DEF CheckoutsSafe, WorkIsSafe
  <2> QED
    BY <1>1, <1>2, <2>1 DEF WorksWithCustomer, CustomersMatch
<1> QED
  BY <1>1, <1>3, CustomerRange

LEMMA AnswerKeepsCheckouts ==
    ASSUME TypeOK, StepsFitRequests, CheckoutsSafe, NEW t \in Thread, Answer(t)
    PROVE  CheckoutsSafe'
<1>1. /\ UNCHANGED <<customer, customers, saved, lapses>> /\ pc[t] = "answer" /\ pc'[t] = "idle"
      /\ \A s \in Thread \ {t} : pc'[s] = pc[s] /\ req'[s] = req[s] /\ own'[s] = own[s]
      /\ answers' = answers \cup {<<req[t], own[t]>>}
  BY DEF Answer, EndRequest, Goto, database, stripe, TypeOK
<1>2. req[t] \in Purchase /\ own[t] # 0 /\ own[t] = customer[req[t].tenant]
  BY <1>1, OwnCustomer DEF CheckoutsSafe, WorkIsSafe, WorksWithCustomer
<1>3. CustomersMatch'
  BY <1>1, <1>2 DEF CheckoutsSafe, CustomersMatch, CustomersOf
<1>4. OneCheckoutPerTenant' /\ KeysRemember' /\ NoOrphanCustomers'
  BY <1>1 DEF CheckoutsSafe, OneCheckoutPerTenant, KeysRemember, NoOrphanCustomers, CustomersOf,
     Locking, Refused
<1>5. WorkIsSafe'
  BY <1>1 DEF CheckoutsSafe, WorkIsSafe, WorksWithCustomer, CustomerKey
<1> QED
  BY <1>3, <1>4, <1>5 DEF CheckoutsSafe

\* The lock on the tenant's row is free, so nobody else works for the tenant.
LEMMA LockTenantKeepsCheckouts ==
    ASSUME TypeOK, StepsFitRequests, CheckoutsSafe, NEW t \in Thread, LockTenant(t)
    PROVE  CheckoutsSafe'
<1>1. /\ UNCHANGED <<customer, customers, saved, req, answers, lapses>>
      /\ own'[t] = customer[req[t].tenant]
      /\ pc'[t] = IF customer[req[t].tenant] = 0 THEN "customer" ELSE "session"
      /\ \A s \in Thread \ {t} : pc'[s] = pc[s] /\ own'[s] = own[s]
  BY DEF LockTenant, Goto, database, stripe, history, TypeOK
<1>2. OneCheckoutPerTenant'
  BY <1>1 DEF LockTenant, LockedByOther, CheckoutsSafe, OneCheckoutPerTenant
<1>3. CustomersMatch' /\ KeysRemember' /\ NoOrphanCustomers'
  BY <1>1 DEF CheckoutsSafe, CustomersMatch, KeysRemember, NoOrphanCustomers, CustomersOf
<1>4. WorkIsSafe'
  BY <1>1 DEF CheckoutsSafe, WorkIsSafe, WorksWithCustomer, CustomerKey
<1> QED
  BY <1>2, <1>3, <1>4 DEF CheckoutsSafe

\* A checkout that takes a saved answer goes on with a customer that Stripe
\* remembers, and that is not linked yet, or with a session.
LEMMA TakeKeepsCheckouts ==
    ASSUME TypeOK, CheckoutsSafe, NEW t \in Thread, Take(t), saved[KeyOf(t)].state = "done",
           UNCHANGED <<customer, customers, saved, req, answers, lapses>>
    PROVE  CheckoutsSafe'
<1>1. \A s \in Thread \ {t} : pc'[s] = pc[s] /\ own'[s] = own[s]
  BY DEF Take, Goto, TypeOK
<1>2. \/ /\ pc[t] \in {"customer", "customer_wait"} /\ pc'[t] = "session"
         /\ own'[t] = saved[CustomerKey(req[t])].customer
         /\ saved[CustomerKey(req[t])].state = "done"
      \/ pc[t] \in {"session", "session_wait"} /\ pc'[t] = "commit" /\ own'[t] = own[t]
  BY DEF Take, Goto, TypeOK, KeyOf
<1>3. OneCheckoutPerTenant'
  BY <1>1, <1>2 DEF CheckoutsSafe, OneCheckoutPerTenant, Locking
<1>4. CustomersMatch' /\ KeysRemember' /\ NoOrphanCustomers'
  BY DEF CheckoutsSafe, CustomersMatch, KeysRemember, NoOrphanCustomers, CustomersOf
<1>5. ASSUME NEW s \in Thread PROVE WorksWithCustomer(s)'
  <2>1. WorksWithCustomer(s)
    BY DEF CheckoutsSafe, WorkIsSafe
  <2>2. CASE s = t
    BY <1>2, <2>1, <2>2 DEF WorksWithCustomer, CustomerKey
  <2>3. CASE s # t
    BY <1>1, <2>1, <2>3 DEF WorksWithCustomer, CustomerKey
  <2> QED
    BY <2>2, <2>3
<1> QED
  BY <1>3, <1>4, <1>5 DEF CheckoutsSafe, WorkIsSafe

\* A call that starts work at Stripe: nobody else works with the key.
LEMMA NewCallKeepsCheckouts ==
    ASSUME TypeOK, StepsFitRequests, CheckoutsSafe, NEW t \in Thread,
           pc[t] \in {"customer", "session"}, saved[KeyOf(t)].state = "none",
           saved' = [saved EXCEPT ![KeyOf(t)] = [state |-> "busy", customer |-> own[t]]],
           Goto(t, IF pc[t] = "customer" THEN "customer_wait" ELSE "session_wait"),
           UNCHANGED <<customer, customers, req, own, answers, lapses>>
    PROVE  CheckoutsSafe'
<1> DEFINE k == KeyOf(t)
           n == req[t].tenant
<1>1. pc[t] \in Locking /\ pc[t] \in CheckoutSteps
  BY DEF Locking, CheckoutSteps
<1>2. /\ k \in StripeKey /\ k.tenant = n /\ req[t] \in Purchase /\ n \in Tenant
      /\ pc[t] = "customer" => k = CustomerKey(req[t]) /\ k.kind = "customer"
      /\ pc[t] = "session"  => k.kind = "session"
  BY <1>1, CallTypes, KeyTypes DEF KeyOf
<1>3. /\ saved'[k] = [state |-> "busy", customer |-> own[t]]
      /\ \A j \in StripeKey \ {k} : saved'[j] = saved[j]
  BY <1>2 DEF TypeOK
<1>4. /\ pc'[t] = IF pc[t] = "customer" THEN "customer_wait" ELSE "session_wait"
      /\ \A s \in Thread \ {t} : pc'[s] = pc[s]
  BY DEF Goto, TypeOK
<1>5. OneCheckoutPerTenant'
  BY <1>4 DEF CheckoutsSafe, OneCheckoutPerTenant, Locking
<1>6. CustomersMatch'
  <2>1. k.kind = "session" => own[t] \in CustomersOf(n)
    BY <1>2, OwnCustomer
  <2> QED
    BY <1>2, <1>3, <2>1 DEF CheckoutsSafe, CustomersMatch, CustomersOf
<1>7. pc[t] = "customer" => customer[n] = 0
  BY DEF CheckoutsSafe, WorkIsSafe, WorksWithCustomer
<1>8. KeysRemember' /\ NoOrphanCustomers'
  BY <1>2, <1>3, <1>7 DEF CheckoutsSafe, KeysRemember, NoOrphanCustomers, CustomersOf
<1>9. ASSUME NEW s \in Thread PROVE WorksWithCustomer(s)'
  <2>1. WorksWithCustomer(s)
    BY DEF CheckoutsSafe, WorkIsSafe
  <2>2. CASE s = t
    <3>1. pc[t] = "session" => CustomerKey(req[t]) \in StripeKey \ {k}
      BY <1>2, KeyTypes
    <3> QED
      BY <1>3, <1>4, <1>7, <2>1, <2>2, <3>1 DEF WorksWithCustomer, CustomerKey
  <2>3. CASE s # t /\ pc[s] \in {"session", "session_wait", "commit"}
    <3>1. req[s] \in Purchase /\ req[s].tenant # n
      BY <1>1, <2>3, OwnCustomer DEF CheckoutsSafe, OneCheckoutPerTenant, Locking
    <3>2. CustomerKey(req[s]) \in StripeKey \ {k}
      BY <1>2, <3>1, KeyTypes
    <3> QED
      BY <1>3, <1>4, <2>1, <2>3, <3>2 DEF WorksWithCustomer, CustomerKey
  <2>4. CASE s # t /\ pc[s] \notin {"session", "session_wait", "commit"}
    BY <1>4, <2>1, <2>4 DEF WorksWithCustomer
  <2> QED
    BY <2>2, <2>3, <2>4
<1> QED
  BY <1>5, <1>6, <1>8, <1>9 DEF CheckoutsSafe, WorkIsSafe

LEMMA CallKeepsCheckouts ==
    ASSUME TypeOK, StepsFitRequests, CheckoutsSafe, NEW t \in Thread, Call(t) \/ Return(t)
    PROVE  CheckoutsSafe'
<1>1. UNCHANGED <<customer, customers, req, answers, lapses>> /\ pc[t] \in Locking
  BY DEF Call, Return, database, stripe, history, Locking
<1>2. CASE Take(t) /\ saved[KeyOf(t)].state = "done" /\ UNCHANGED saved
  BY <1>1, <1>2, TakeKeepsCheckouts
<1>3. CASE (\E l \in Refused : Goto(t, l)) /\ UNCHANGED <<saved, own>>
  BY <1>1, <1>3, CheckoutsUndisturbed DEF Goto, TypeOK, Locking, Refused
<1>4. CASE /\ pc[t] \in {"customer", "session"} /\ saved[KeyOf(t)].state = "none"
           /\ saved' = [saved EXCEPT ![KeyOf(t)] = [state |-> "busy", customer |-> own[t]]]
           /\ Goto(t, IF pc[t] = "customer" THEN "customer_wait" ELSE "session_wait")
           /\ UNCHANGED own
  BY <1>1, <1>4, NewCallKeepsCheckouts
<1>5. CASE Call(t)
  BY <1>2, <1>3, <1>4, <1>5 DEF Call, Found, Refused
<1>6. CASE Return(t)
  BY <1>2, <1>3, <1>6 DEF Return, Refused, stripe
<1> QED
  BY <1>5, <1>6

\* A tenant that is linked stays so, and one that is not is linked to the customer
\* that Stripe remembers.
LEMMA CommitKeepsCheckouts ==
    ASSUME TypeOK, StepsFitRequests, CheckoutsSafe, NEW t \in Thread, Commit(t)
    PROVE  CheckoutsSafe'
<1> DEFINE n == req[t].tenant
<1>1. /\ UNCHANGED <<customers, saved, req, own, answers, lapses>> /\ pc[t] = "commit"
      /\ pc'[t] = "answer" /\ \A s \in Thread \ {t} : pc'[s] = pc[s]
  BY DEF Commit, Goto, stripe, history, TypeOK
<1>2. /\ req[t] \in Purchase /\ n \in Tenant /\ own[t] \in CustomersOf(n) /\ own[t] # 0
  BY <1>1, OwnCustomer
<1>3. customer'[n] = own[t] /\ \A m \in Tenant \ {n} : customer'[m] = customer[m]
  BY <1>2 DEF Commit, TypeOK
<1>4. /\ customer[n] # 0 => customer'[n] = customer[n]
      /\ customer[n] = 0 => saved[CustomerKey(req[t])].state = "done"
  BY <1>1, <1>3 DEF CheckoutsSafe, WorkIsSafe, WorksWithCustomer
<1>5. OneCheckoutPerTenant'
  BY <1>1 DEF CheckoutsSafe, OneCheckoutPerTenant, Locking, Refused
<1>6. CustomersMatch'
  <2>1. \A x \in answers : x[1] \in Purchase /\ x[2] # 0 /\ x[2] = customer'[x[1].tenant]
    BY <1>3, <1>4, KeyTypes DEF CheckoutsSafe, CustomersMatch
  <2> QED
    BY <1>1, <1>2, <1>3, <2>1 DEF CheckoutsSafe, CustomersMatch, CustomersOf
<1>7. KeysRemember'
  <2>1. \A k \in StripeKey : k.kind = "customer" /\ k.tenant = n => k = CustomerKey(req[t])
    BY <1>2 DEF StripeKey, CustomerKey
  <2>2. \A k \in StripeKey : k.tenant \in Tenant
    BY DEF StripeKey
  <2> QED
    BY <1>1, <1>2, <1>3, <1>4, <2>1, <2>2 DEF CheckoutsSafe, KeysRemember, CustomersOf
<1>8. NoOrphanCustomers'
  BY <1>1 DEF CheckoutsSafe, NoOrphanCustomers, CustomersOf
<1>9. ASSUME NEW s \in Thread PROVE WorksWithCustomer(s)'
  <2>1. WorksWithCustomer(s)
    BY DEF CheckoutsSafe, WorkIsSafe
  <2>2. CASE s = t
    BY <1>1, <1>2, <1>3, <2>2 DEF WorksWithCustomer
  <2>3. CASE s # t /\ pc[s] \in Locking
    <3>1. req[s].tenant # n /\ req[s].tenant \in Tenant
      BY <1>1, <2>3, CallTypes, KeyTypes
      DEF CheckoutsSafe, OneCheckoutPerTenant, CheckoutSteps, Locking
    <3> QED
      BY <1>1, <1>3, <2>1, <2>3, <3>1 DEF WorksWithCustomer, CustomerKey
  <2>4. CASE s # t /\ pc[s] \notin Locking
    <3>1. pc[s] = "answer" => req[s].tenant \in Tenant
      BY OwnCustomer
    <3> QED
      BY <1>1, <1>3, <1>4, <2>1, <2>4, <3>1 DEF WorksWithCustomer, Locking
  <2> QED
    BY <2>2, <2>3, <2>4
<1> QED
  BY <1>5, <1>6, <1>7, <1>8, <1>9 DEF CheckoutsSafe, WorkIsSafe

\* Stripe's work on a key that no checkout of the tenant relies on disturbs none.
LEMMA OtherKeysStay ==
    ASSUME TypeOK, StepsFitRequests, CheckoutsSafe, NEW k \in StripeKey,
           UNCHANGED <<customer, pc, req, own>>,
           \A j \in StripeKey \ {k} : saved'[j] = saved[j],
           \/ saved[k].state # "done"
           \/ \A t \in Thread : pc[t] \in Locking => req[t].tenant # k.tenant
    PROVE  OneCheckoutPerTenant' /\ WorkIsSafe'
<1>1. OneCheckoutPerTenant'
  BY DEF CheckoutsSafe, OneCheckoutPerTenant
<1>2. ASSUME NEW t \in Thread PROVE WorksWithCustomer(t)'
  <2>1. WorksWithCustomer(t)
    BY DEF CheckoutsSafe, WorkIsSafe
  <2>2. CASE pc[t] \in {"session", "session_wait", "commit"}
    <3>1. req[t] \in Purchase /\ pc[t] \in Locking
      BY <2>2, OwnCustomer DEF Locking
    <3>2. /\ CustomerKey(req[t]) \in StripeKey
          /\ CustomerKey(req[t]).tenant = req[t].tenant
      BY <3>1, KeyTypes
    <3>3. customer[req[t].tenant] = 0 => CustomerKey(req[t]) # k
      BY <2>1, <2>2, <3>1, <3>2 DEF WorksWithCustomer
    <3> QED
      BY <2>1, <2>2, <3>2, <3>3 DEF WorksWithCustomer, CustomerKey
  <2>3. CASE pc[t] \notin {"session", "session_wait", "commit"}
    BY <2>1, <2>3 DEF WorksWithCustomer
  <2> QED
    BY <2>2, <2>3
<1> QED
  BY <1>1, <1>2 DEF WorkIsSafe

LEMMA CustomerAdded ==
    ASSUME TypeOK, NEW n \in Tenant, customers' = Append(customers, n)
    PROVE  /\ Len(customers') = Len(customers) + 1
           /\ CustomersOf(n)' = CustomersOf(n) \cup {Len(customers')}
           /\ Cardinality(CustomersOf(n)') = Cardinality(CustomersOf(n)) + 1
           /\ \A m \in Tenant \ {n} : CustomersOf(m)' = CustomersOf(m)
<1>1. /\ customers \in Seq(Tenant) /\ Len(customers) \in Nat
      /\ Len(customers') = Len(customers) + 1 /\ customers'[Len(customers')] = n
      /\ \A c \in 1 .. Len(customers) : customers'[c] = customers[c]
  BY DEF TypeOK
<1>2. 1 .. Len(customers') = (1 .. Len(customers)) \cup {Len(customers')}
  BY <1>1
<1>3. CustomersOf(n)' = CustomersOf(n) \cup {Len(customers')}
  BY <1>1, <1>2 DEF CustomersOf
<1>4. \A m \in Tenant \ {n} : CustomersOf(m)' = CustomersOf(m)
  BY <1>1, <1>2 DEF CustomersOf
<1>5. IsFiniteSet(CustomersOf(n)) /\ Len(customers') \notin CustomersOf(n)
  BY <1>1, CustomerRange DEF CustomersOf
<1> QED
  BY <1>1, <1>3, <1>4, <1>5, FS_AddElement

LEMMA ExecuteKeepsCheckouts ==
    ASSUME TypeOK, StepsFitRequests, CheckoutsSafe, NEW k \in StripeKey, Execute(k)
    PROVE  CheckoutsSafe'
<1> DEFINE n == k.tenant
<1>1. /\ UNCHANGED <<customer, pc, req, own, answers, lapses>> /\ saved[k].state = "busy"
      /\ \A j \in StripeKey \ {k} : saved'[j] = saved[j]
      /\ n \in Tenant /\ saved'[k].state = "done"
  BY DEF Execute, database, history, TypeOK, StripeKey, Saved
<1>2. OneCheckoutPerTenant' /\ WorkIsSafe'
  BY <1>1, OtherKeysStay
<1>3. CASE k.kind = "session"
  <2>1. UNCHANGED customers /\ saved'[k].customer = saved[k].customer
    BY <1>3 DEF Execute, TypeOK, Saved
  <2>2. CustomersMatch'
    BY <1>1, <1>3, <2>1 DEF CheckoutsSafe, CustomersMatch, CustomersOf
  <2>3. KeysRemember' /\ NoOrphanCustomers'
    BY <1>1, <1>3, <2>1 DEF CheckoutsSafe, KeysRemember, NoOrphanCustomers, CustomersOf
  <2> QED
    BY <1>2, <2>2, <2>3 DEF CheckoutsSafe
<1>4. CASE k.kind = "customer"
  <2>1. customers' = Append(customers, n) /\ saved'[k].customer = Len(customers')
    BY <1>4 DEF Execute, TypeOK
  <2>2. /\ CustomersOf(n)' = CustomersOf(n) \cup {Len(customers')}
        /\ Cardinality(CustomersOf(n)') = Cardinality(CustomersOf(n)) + 1
        /\ \A m \in Tenant \ {n} : CustomersOf(m)' = CustomersOf(m)
    BY <1>1, <2>1, CustomerAdded
  <2>3. CustomersMatch'
    <3>1. \A m \in Tenant : CustomersOf(m) \subseteq CustomersOf(m)'
      BY <2>2
    <3>2. \A j \in StripeKey : j.tenant \in Tenant
      BY DEF StripeKey
    <3>3. \A m \in Tenant : customer'[m] # 0 => customer'[m] \in CustomersOf(m)'
      BY <1>1, <3>1 DEF CheckoutsSafe, CustomersMatch
    <3>4. ASSUME NEW j \in StripeKey,
                 saved'[j].state = "done" \/ (j.kind = "session" /\ saved'[j].state # "none")
          PROVE  saved'[j].customer \in CustomersOf(j.tenant)'
      <4>1. CASE j = k
        BY <2>1, <2>2, <4>1
      <4>2. CASE j # k
        <5>1. saved[j].customer \in CustomersOf(j.tenant)
          BY <1>1, <3>4, <4>2 DEF CheckoutsSafe, CustomersMatch
        <5> QED
          BY <1>1, <3>1, <3>2, <4>2, <5>1
      <4> QED
        BY <4>1, <4>2
    <3>5. \A x \in answers' : x[1] \in Purchase /\ x[2] # 0 /\ x[2] = customer'[x[1].tenant]
      BY <1>1 DEF CheckoutsSafe, CustomersMatch
    <3> QED
      BY <3>3, <3>4, <3>5 DEF CustomersMatch
  <2>4. customer[n] = 0 /\ Cardinality(CustomersOf(n)) <= lapses[n]
    BY <1>1, <1>4 DEF CheckoutsSafe, KeysRemember
  <2>5. KeysRemember'
    <3>1. ASSUME NEW j \in StripeKey, j.kind = "customer", j # k
          PROVE  j.tenant \in Tenant \ {n}
      BY <1>4, <3>1 DEF StripeKey
    <3>2. ASSUME NEW j \in StripeKey, j.kind = "customer", j # k
          PROVE  CustomersOf(j.tenant)' = CustomersOf(j.tenant)
      BY <2>2, <3>1, <3>2
    <3> QED
      BY <1>1, <3>2 DEF CheckoutsSafe, KeysRemember
  <2>6. NoOrphanCustomers'
    <3>1. Cardinality(CustomersOf(n)) \in Nat /\ lapses[n] \in Nat
      BY <1>1, CustomerRange, BoundAssumption DEF TypeOK
    <3>2. Cardinality(CustomersOf(n)') <= 1 + lapses[n]
      BY <2>2, <2>4, <3>1
    <3>3. ASSUME NEW m \in Tenant PROVE Cardinality(CustomersOf(m)') <= 1 + lapses[m]
      <4>1. Cardinality(CustomersOf(m)) <= 1 + lapses[m]
        BY DEF CheckoutsSafe, NoOrphanCustomers
      <4> QED
        BY <2>2, <3>2, <4>1
    <3> QED
      BY <1>1, <3>3 DEF NoOrphanCustomers
  <2> QED
    BY <1>2, <2>3, <2>5, <2>6 DEF CheckoutsSafe
<1> QED
  BY <1>3, <1>4 DEF StripeKey

LEMMA FailCallKeepsCheckouts ==
    ASSUME TypeOK, StepsFitRequests, CheckoutsSafe, NEW k \in StripeKey, FailCall(k)
    PROVE  CheckoutsSafe'
<1>1. /\ UNCHANGED <<customer, customers, pc, req, own, answers, lapses>>
      /\ saved[k].state = "busy" /\ saved'[k].state = "failed"
      /\ saved'[k].customer = saved[k].customer
      /\ \A j \in StripeKey \ {k} : saved'[j] = saved[j]
  BY DEF FailCall, database, history, TypeOK, Saved
<1>2. OneCheckoutPerTenant' /\ WorkIsSafe'
  BY <1>1, OtherKeysStay
<1>3. CustomersMatch'
  BY <1>1 DEF CheckoutsSafe, CustomersMatch, CustomersOf
<1>4. KeysRemember' /\ NoOrphanCustomers'
  BY <1>1 DEF CheckoutsSafe, KeysRemember, NoOrphanCustomers, CustomersOf
<1> QED
  BY <1>2, <1>3, <1>4 DEF CheckoutsSafe

\* Forgetting an unlinked customer is counted, so what was one customer more than
\* the lapses is no more than them.
LEMMA ExpireKeepsCheckouts ==
    ASSUME TypeOK, StepsFitRequests, CheckoutsSafe, NEW k \in StripeKey, Expire(k)
    PROVE  CheckoutsSafe'
<1> DEFINE n == k.tenant
           lapse == k.kind = "customer" /\ saved[k].state = "done" /\ customer[n] = 0
<1>1. /\ UNCHANGED <<customer, customers, pc, req, own, answers>>
      /\ saved'[k] = NotSaved /\ n \in Tenant
      /\ \A j \in StripeKey \ {k} : saved'[j] = saved[j]
      /\ \A t \in Thread : pc[t] \in Locking => req[t].tenant # n
      /\ \A m \in Tenant \ {n} : lapses'[m] = lapses[m]
      /\ lapses'[n] = IF lapse THEN lapses[n] + 1 ELSE lapses[n]
  BY DEF Expire, database, TypeOK, StripeKey
<1>2. OneCheckoutPerTenant' /\ WorkIsSafe'
  BY <1>1, OtherKeysStay
<1>3. CustomersMatch'
  BY <1>1 DEF CheckoutsSafe, CustomersMatch, CustomersOf, NotSaved
<1>4. /\ \A m \in Tenant : lapses[m] \in Nat /\ Cardinality(CustomersOf(m)) \in Nat
      /\ \A m \in Tenant : CustomersOf(m)' = CustomersOf(m)
  <2>1. \A m \in Tenant : lapses[m] \in Nat
    BY BoundAssumption DEF TypeOK
  <2>2. \A m \in Tenant : CustomersOf(m)' = CustomersOf(m)
    BY <1>1 DEF CustomersOf
  <2> QED
    BY <2>1, <2>2, CustomerRange
<1>5. NoOrphanCustomers'
  <2>1. ASSUME NEW m \in Tenant PROVE Cardinality(CustomersOf(m)') <= 1 + lapses'[m]
    <3>1. Cardinality(CustomersOf(m)) <= 1 + lapses[m]
      BY DEF CheckoutsSafe, NoOrphanCustomers
    <3> QED
      BY <1>1, <1>4, <3>1
  <2> QED
    BY <2>1 DEF NoOrphanCustomers
<1>6. KeysRemember'
  <2>1. ASSUME NEW j \in StripeKey, j.kind = "customer"
        PROVE  /\ saved'[j].state = "busy" => customer[j.tenant] = 0
               /\ saved'[j].state # "done" /\ customer[j.tenant] = 0 =>
                     Cardinality(CustomersOf(j.tenant)') <= lapses'[j.tenant]
    <3>1. /\ j.tenant \in Tenant
          /\ saved[j].state = "busy" => customer[j.tenant] = 0
          /\ saved[j].state # "done" /\ customer[j.tenant] = 0 =>
                Cardinality(CustomersOf(j.tenant)) <= lapses[j.tenant]
      BY <2>1 DEF CheckoutsSafe, KeysRemember, StripeKey
    <3>2. CASE j = k
      <4>1. Cardinality(CustomersOf(n)) <= 1 + lapses[n]
        BY <1>1 DEF CheckoutsSafe, NoOrphanCustomers
      <4> QED
        BY <1>1, <1>4, <2>1, <3>1, <3>2, <4>1 DEF NotSaved
    <3>3. CASE j # k
      BY <1>1, <1>4, <3>1, <3>3
    <3> QED
      BY <3>2, <3>3
  <2> QED
    BY <1>1, <2>1 DEF KeysRemember
<1> QED
  BY <1>2, <1>3, <1>5, <1>6 DEF CheckoutsSafe

LEMMA CheckoutsKept == IInv /\ [Next]_vars => CheckoutsSafe'
<1> SUFFICES ASSUME IInv, [Next]_vars PROVE CheckoutsSafe'
  OBVIOUS
<1> USE DEF IInv
<1>1. CASE UNCHANGED vars
  <2>1. \A t \in Thread : pc'[t] \in Refused => pc[t] \in Locking
    BY <1>1 DEF vars, Locking
  <2> QED
    BY <1>1, <2>1, CheckoutsUndisturbed DEF vars, database, stripe, history
<1>2. ASSUME NEW t \in Thread, Step(t) PROVE CheckoutsSafe'
  BY <1>2, LoginKeepsCheckouts, LockTenantKeepsCheckouts, CallKeepsCheckouts,
     CommitKeepsCheckouts, AnswerKeepsCheckouts, ReceiveOrEndKeepsCheckouts DEF Step
<1>3. ASSUME NEW k \in StripeKey, Execute(k) \/ FailCall(k) \/ Expire(k) PROVE CheckoutsSafe'
  BY <1>3, ExecuteKeepsCheckouts, FailCallKeepsCheckouts, ExpireKeepsCheckouts
<1> QED
  BY <1>1, <1>2, <1>3, LoginKeepsCheckouts, ReceiveOrEndKeepsCheckouts DEF Next
-----------------------------------------------------------------------------
(* Refusals.                                                               *)

\* No step but a call to Stripe refuses a checkout for its key.
LEMMA OnlyCallsRefuse ==
    ASSUME TypeOK, Next, NEW t \in Thread, pc'[t] # pc[t], pc'[t] \in {"busy", "mismatch"}
    PROVE  Call(t)
<1>1. ASSUME NEW s \in Thread, NEW l, l \notin {"busy", "mismatch"}, Goto(s, l)
      PROVE  FALSE
  BY <1>1 DEF Goto, TypeOK
<1>2. ASSUME NEW k \in StripeKey, Execute(k) \/ FailCall(k) \/ Expire(k)
      PROVE  FALSE
  BY <1>2 DEF Execute, FailCall, Expire
<1>3. ASSUME NEW s \in Thread, EndRequest(s) PROVE FALSE
  BY <1>1, <1>3 DEF EndRequest
<1>4. ASSUME NEW s \in Thread,
             \/ ReceiveLogin(s) \/ FindTenant(s) \/ InsertTenant(s) \/ CommitTenant(s)
             \/ LockTenant(s) \/ Return(s) \/ Commit(s) \/ LoseAnswer(s)
             \/ \E n \in Tenant : ReceiveCheckout(s, n)
      PROVE  FALSE
  BY <1>1, <1>4 DEF ReceiveLogin, FindTenant, InsertTenant, CommitTenant, LockTenant, Return, Take,
                    Commit, LoseAnswer, ReceiveCheckout
<1>5. ASSUME NEW s \in Thread, Issue(s) \/ Answer(s) \/ Refuse(s) \/ Crash(s) PROVE FALSE
  BY <1>3, <1>5 DEF Issue, Answer, Refuse, Crash
<1>6. ASSUME NEW s \in Thread, Call(s) PROVE s = t
  BY <1>6 DEF Call, Take, Goto, TypeOK
<1> QED
  BY <1>2, <1>4, <1>5, <1>6 DEF Next, Step

\* Two customers of one tenant: the key of the first has lapsed.
LEMMA TwoCustomersLapsed ==
    ASSUME TypeOK, NoOrphanCustomers, NEW n \in Tenant,
           NEW a \in CustomersOf(n), NEW b \in CustomersOf(n), a # b
    PROVE  lapses[n] > 0
<1>1. /\ IsFiniteSet(CustomersOf(n)) /\ Cardinality(CustomersOf(n)) \in Nat
      /\ lapses[n] \in Nat
  BY CustomerRange, BoundAssumption DEF TypeOK
<1>2. IsFiniteSet({a}) /\ Cardinality({a}) = 1
  BY FS_Singleton
<1>3. Cardinality({a} \cup {b}) = 2
  BY <1>2, FS_AddElement
<1>4. Cardinality({a} \cup {b}) <= Cardinality(CustomersOf(n))
  BY <1>1, FS_Subset
<1>5. Cardinality(CustomersOf(n)) <= 1 + lapses[n]
  BY DEF NoOrphanCustomers
<1> QED
  BY <1>1, <1>3, <1>4, <1>5

\* Two checkouts that are at work for tenants of their own use different keys.
LEMMA BusyIsUnattended ==
    ASSUME TypeOK, StepsFitRequests, OneCheckoutPerTenant,
           NEW t \in Thread, pc[t] \in Locking, NEW s \in Thread \ {t}, pc[s] \in Locking
    PROVE  KeyOf(s) # KeyOf(t)
<1>1. KeyOf(s).tenant = req[s].tenant /\ KeyOf(t).tenant = req[t].tenant
  BY CallTypes DEF CheckoutSteps
<1> QED
  BY <1>1 DEF OneCheckoutPerTenant

LEMMA MismatchIsLapsed ==
    ASSUME TypeOK, StepsFitRequests, CheckoutsSafe, NEW t \in Thread, pc[t] = "session",
           Found(t) = "done", saved[KeyOf(t)].customer # own[t]
    PROVE  lapses[req[t].tenant] > 0
<1>1. req[t].tenant \in Tenant /\ own[t] \in CustomersOf(req[t].tenant)
  BY OwnCustomer
<1>2. KeyOf(t) \in StripeKey /\ KeyOf(t).tenant = req[t].tenant
  BY CallTypes DEF CheckoutSteps, Locking
<1>3. saved[KeyOf(t)].customer \in CustomersOf(req[t].tenant)
  BY <1>2 DEF CheckoutsSafe, CustomersMatch, Found
<1> QED
  BY <1>1, <1>3, TwoCustomersLapsed DEF CheckoutsSafe
-----------------------------------------------------------------------------
(* Waiting for Stripe.                                                     *)

Awaiting == {"customer_wait", "session_wait"}

\* Stripe has not forgotten the call that t waits for, and the session that t is
\* answered with is one for the customer that t commits.
Awaits(t) ==
    /\ pc[t] \in Awaiting => saved[KeyOf(t)].state # "none"
    /\ pc[t] = "session_wait" => saved[KeyOf(t)].customer = own[t]
    /\ pc[t] = "commit" => /\ saved[SessionKey(req[t])].state = "done"
                           /\ saved[SessionKey(req[t])].customer = own[t]

SessionsFit == \A t \in Thread : Awaits(t)

\* The guards of t's next statement or call hold.
CanGoOn(t) ==
    \/ pc[t] \in {"customer", "session", "commit", "answer"} \cup Refused
    \/ pc[t] = "lock" /\ ~LockedByOther(t)
    \/ pc[t] \in Awaiting /\ saved[KeyOf(t)].state \in {"done", "failed"}

\* t waits for a call that Stripe is carrying out.
WaitsForStripe(t) == pc[t] \in Awaiting /\ saved[KeyOf(t)].state = "busy"

\* A checkout goes on, or waits for Stripe, or for the one checkout that has its
\* tenant's row and goes on or waits for Stripe itself.
OnlyStripeIsWaitedFor ==
    \A t \in Thread : pc[t] \in CheckoutSteps =>
        \/ CanGoOn(t) \/ WaitsForStripe(t)
        \/ \E s \in Thread \ {t} :
              /\ pc[t] = "lock" /\ pc[s] \in Locking /\ req[s].tenant = req[t].tenant
              /\ CanGoOn(s) \/ WaitsForStripe(s)

LEMMA NothingAwaited ==
    ASSUME NEW t \in Thread, pc'[t] \notin Awaiting \cup {"commit"}
    PROVE  Awaits(t)'
BY DEF Awaits, Awaiting

\* What t waits for stays as long as its tenant's saved answers do.
LEMMA AwaitedStays ==
    ASSUME TypeOK, StepsFitRequests, NEW t \in Thread, Awaits(t),
           pc'[t] = pc[t], req'[t] = req[t], own'[t] = own[t],
           pc[t] \in Locking => \A k \in StripeKey :
              k.tenant = req[t].tenant /\ saved[k].state # "none" =>
                 /\ saved'[k].state # "none"
                 /\ k.kind = "session" => saved'[k].customer = saved[k].customer
                 /\ saved[k].state = "done" => saved'[k].state = "done"
    PROVE  Awaits(t)'
<1>1. CASE pc[t] \notin Awaiting \cup {"commit"}
  BY <1>1, NothingAwaited
<1>2. CASE pc[t] \in Awaiting \cup {"commit"}
  <2>1. pc[t] \in Locking /\ pc[t] \in CheckoutSteps
    BY <1>2 DEF Awaiting, Locking, CheckoutSteps
  <2>2. /\ req[t] \in Purchase /\ KeyOf(t) \in StripeKey
        /\ KeyOf(t).tenant = req[t].tenant /\ KeyOf(t)' = KeyOf(t)
    BY <2>1, CallTypes DEF KeyOf, CustomerKey, SessionKey
  <2>3. /\ SessionKey(req[t]) \in StripeKey /\ SessionKey(req[t]).kind = "session"
        /\ SessionKey(req[t]).tenant = req[t].tenant
    BY <2>2, KeyTypes
  <2>4. pc[t] = "session_wait" => KeyOf(t) = SessionKey(req[t])
    BY DEF KeyOf
  <2>5. SessionKey(req[t])' = SessionKey(req[t])
    BY DEF SessionKey
  <2> QED
    BY <1>2, <2>1, <2>2, <2>3, <2>4, <2>5 DEF Awaits, Awaiting
<1> QED
  BY <1>1, <1>2

\* Statements between the calls, whoever makes them.
LEMMA StatementsKeepSessions ==
    ASSUME TypeOK, StepsFitRequests, SessionsFit, NEW s \in Thread,
           NEW l \in LoginSteps \cup CheckoutSteps \cup {"idle"}, Goto(s, l),
           l \notin Awaiting \cup {"commit"}, UNCHANGED saved,
           \A t \in Thread \ {s} : req'[t] = req[t] /\ own'[t] = own[t]
    PROVE  SessionsFit'
<1>1. pc'[s] = l /\ \A t \in Thread \ {s} : pc'[t] = pc[t]
  BY DEF Goto, TypeOK
<1>2. Awaits(s)'
  BY <1>1, NothingAwaited
<1>3. ASSUME NEW t \in Thread \ {s} PROVE Awaits(t)'
  BY <1>1, <1>3, AwaitedStays DEF SessionsFit
<1> QED
  BY <1>2, <1>3 DEF SessionsFit

LEMMA ThreadsKeepSessions ==
    ASSUME TypeOK, StepsFitRequests, SessionsFit, NEW s \in Thread,
           \/ ReceiveLogin(s) \/ FindTenant(s) \/ InsertTenant(s) \/ CommitTenant(s)
           \/ Issue(s) \/ LockTenant(s) \/ Commit(s) \/ Answer(s) \/ Refuse(s)
           \/ LoseAnswer(s) \/ Crash(s) \/ \E n \in Tenant : ReceiveCheckout(s, n)
    PROVE  SessionsFit'
<1>1. \E l \in LoginSteps \cup CheckoutSteps \cup {"idle"} :
         /\ Goto(s, l) /\ l \notin Awaiting \cup {"commit"} /\ UNCHANGED saved
         /\ \A t \in Thread \ {s} : req'[t] = req[t] /\ own'[t] = own[t]
  <2>1. CASE ReceiveLogin(s) \/ FindTenant(s) \/ InsertTenant(s) \/ CommitTenant(s)
    BY <2>1 DEF ReceiveLogin, FindTenant, InsertTenant, CommitTenant, LoginSteps, Awaiting,
                TypeOK, stripe
  <2>2. CASE Issue(s) \/ Answer(s) \/ Refuse(s) \/ Crash(s)
    BY <2>2 DEF Issue, Answer, Refuse, Crash, EndRequest, Awaiting, TypeOK, stripe
  <2>3. CASE LockTenant(s) \/ Commit(s) \/ LoseAnswer(s) \/ \E n \in Tenant : ReceiveCheckout(s, n)
    BY <2>3 DEF LockTenant, Commit, LoseAnswer, ReceiveCheckout, CheckoutSteps, Locking, Refused,
                Awaiting, TypeOK, stripe
  <2> QED
    BY <2>1, <2>2, <2>3
<1> QED
  BY <1>1, StatementsKeepSessions

\* A call starts work only under a key that is free, so under no key that another
\* checkout waits for.
LEMMA CallKeepsSessions ==
    ASSUME TypeOK, StepsFitRequests, SessionsFit, NEW s \in Thread, Call(s)
    PROVE  SessionsFit'
<1>1. /\ pc[s] \in CheckoutSteps /\ pc[s] \in {"customer", "session"} /\ UNCHANGED req
      /\ \A t \in Thread \ {s} : pc'[t] = pc[t] /\ own'[t] = own[t]
      /\ \A k \in StripeKey : saved[k].state # "none" => saved'[k] = saved[k]
  BY DEF Call, Found, Take, Goto, TypeOK, CheckoutSteps, Locking
<1>2. /\ KeyOf(s) \in StripeKey /\ (pc[s] = "session" => KeyOf(s) = SessionKey(req[s]))
      /\ KeyOf(s) = IF pc[s] = "customer" THEN CustomerKey(req[s]) ELSE SessionKey(req[s])
  BY <1>1, CallTypes DEF KeyOf
<1>3. ASSUME NEW t \in Thread \ {s} PROVE Awaits(t)'
  BY <1>1, <1>3, AwaitedStays DEF SessionsFit
<1>4. Awaits(s)'
  <2>1. CASE Found(s) = "none"
    <3>1. /\ saved'[KeyOf(s)] = [state |-> "busy", customer |-> own[s]]
          /\ own'[s] = own[s]
          /\ pc'[s] = IF pc[s] = "customer" THEN "customer_wait" ELSE "session_wait"
      BY <1>2, <2>1 DEF Call, Goto, TypeOK, Found
    <3>2. KeyOf(s)' = KeyOf(s)
      BY <1>1, <3>1 DEF KeyOf, CustomerKey, SessionKey
    <3> QED
      BY <3>1, <3>2 DEF Awaits, Awaiting
  <2>2. CASE pc'[s] = "commit"
    <3>1. /\ pc[s] = "session" /\ UNCHANGED <<saved, own>>
          /\ Found(s) = "done" /\ saved[KeyOf(s)].customer = own[s]
      BY <1>1, <2>2 DEF Call, Take, Goto, TypeOK
    <3>2. SessionKey(req[s])' = KeyOf(s)
      BY <1>1, <1>2, <3>1 DEF SessionKey
    <3> QED
      BY <2>2, <3>1, <3>2 DEF Awaits, Awaiting, Found
  <2>3. CASE Found(s) # "none" /\ pc'[s] # "commit"
    <3>1. pc'[s] \notin Awaiting \cup {"commit"}
      BY <1>1, <2>3 DEF Call, Take, Goto, TypeOK, Awaiting
    <3> QED
      BY <3>1, NothingAwaited
  <2> QED
    BY <2>1, <2>2, <2>3
<1> QED
  BY <1>3, <1>4 DEF SessionsFit

LEMMA ReturnKeepsSessions ==
    ASSUME TypeOK, StepsFitRequests, SessionsFit, NEW s \in Thread, Return(s)
    PROVE  SessionsFit'
<1>1. /\ pc[s] \in {"customer_wait", "session_wait"} /\ UNCHANGED <<req, saved>>
      /\ \A t \in Thread \ {s} : pc'[t] = pc[t] /\ own'[t] = own[t]
  BY DEF Return, Take, Goto, TypeOK, stripe
<1>2. ASSUME NEW t \in Thread \ {s} PROVE Awaits(t)'
  BY <1>1, <1>2, AwaitedStays DEF SessionsFit
<1>3. CASE pc'[s] = "commit"
  <2>1. pc[s] = "session_wait" /\ saved[KeyOf(s)].state = "done" /\ own'[s] = own[s]
    BY <1>1, <1>3 DEF Return, Take, Goto, TypeOK
  <2>2. KeyOf(s) = SessionKey(req[s]) /\ saved[KeyOf(s)].customer = own[s]
    BY <2>1 DEF KeyOf, SessionsFit, Awaits
  <2>3. SessionKey(req[s])' = KeyOf(s)
    BY <1>1, <2>2 DEF SessionKey
  <2> QED
    BY <1>1, <1>2, <1>3, <2>1, <2>2, <2>3 DEF SessionsFit, Awaits, Awaiting
<1>4. CASE pc'[s] # "commit"
  <2>1. pc'[s] \notin Awaiting \cup {"commit"}
    BY <1>1, <1>4 DEF Return, Take, Goto, TypeOK, Awaiting
  <2> QED
    BY <1>2, <2>1, NothingAwaited DEF SessionsFit
<1> QED
  BY <1>3, <1>4

\* Stripe finishes calls for the customer they were started for, and forgets an
\* answer only when no request of the tenant is at work.
LEMMA StripeKeepsSessions ==
    ASSUME TypeOK, StepsFitRequests, SessionsFit, NEW k \in StripeKey,
           Execute(k) \/ FailCall(k) \/ Expire(k)
    PROVE  SessionsFit'
<1>1. /\ UNCHANGED <<pc, req, own>>
      /\ \A j \in StripeKey \ {k} : saved'[j] = saved[j]
  BY DEF Execute, FailCall, Expire, TypeOK
<1>2. CASE Execute(k) \/ FailCall(k)
  <2>1. /\ saved[k].state = "busy" /\ saved'[k].state \in {"done", "failed"}
        /\ k.kind = "session" => saved'[k].customer = saved[k].customer
    BY <1>2 DEF Execute, FailCall, TypeOK, Saved
  <2>2. ASSUME NEW t \in Thread PROVE Awaits(t)'
    BY <1>1, <2>1, <2>2, AwaitedStays DEF SessionsFit
  <2> QED
    BY <2>2 DEF SessionsFit
<1>3. CASE Expire(k)
  <2>1. \A t \in Thread : pc[t] \in Locking => req[t].tenant # k.tenant
    BY <1>3 DEF Expire
  <2>2. ASSUME NEW t \in Thread PROVE Awaits(t)'
    BY <1>1, <2>1, <2>2, AwaitedStays DEF SessionsFit
  <2> QED
    BY <2>2 DEF SessionsFit
<1> QED
  BY <1>2, <1>3

LEMMA SessionsKept == IInv /\ SessionsFit /\ [Next]_vars => SessionsFit'
<1> SUFFICES ASSUME IInv, SessionsFit, [Next]_vars PROVE SessionsFit'
  OBVIOUS
<1> USE DEF IInv
<1>1. CASE UNCHANGED vars
  <2>1. UNCHANGED <<pc, req, own, saved>>
    BY <1>1 DEF vars, stripe
  <2>2. ASSUME NEW t \in Thread PROVE Awaits(t)'
    BY <2>1, <2>2, AwaitedStays DEF SessionsFit
  <2> QED
    BY <2>2 DEF SessionsFit
<1>2. ASSUME NEW s \in Thread, Step(s) PROVE SessionsFit'
  BY <1>2, ThreadsKeepSessions, CallKeepsSessions, ReturnKeepsSessions DEF Step
<1>3. ASSUME NEW k \in StripeKey, Execute(k) \/ FailCall(k) \/ Expire(k) PROVE SessionsFit'
  BY <1>3, StripeKeepsSessions
<1> QED
  BY <1>1, <1>2, <1>3, ThreadsKeepSessions DEF Next
-----------------------------------------------------------------------------
(* Theorems.                                                               *)

\* The inductive invariant of log-in and checkout: it holds in every state that
\* POST /auth/token, POST /billing/checkout and Stripe can reach together.
THEOREM CheckoutInvariance == Spec => []IInv
<1>1. Init => IInv
  <2> SUFFICES ASSUME Init PROVE IInv
    OBVIOUS
  <2>1. TypeOK /\ StepsFitRequests
    BY InitTypeOK DEF Init, StepsFitRequests, LoginSteps, CheckoutSteps, Locking, Refused
  <2>2. LoginsSafe
    BY DEF Init, LoginsSafe, TokensNameTenants
  <2>3. OneCheckoutPerTenant /\ WorkIsSafe
    BY DEF Init, OneCheckoutPerTenant, WorkIsSafe, WorksWithCustomer, Locking, Refused
  <2>4. \A k \in StripeKey : saved[k].state = "none" /\ k.tenant \in Tenant
    BY DEF Init, NotSaved, StripeKey
  <2>5. CustomersMatch
    BY <2>4 DEF Init, CustomersMatch
  <2>6. \A n \in Tenant : Cardinality(CustomersOf(n)) = 0 /\ lapses[n] = 0
    <3>1. \A n \in Tenant : CustomersOf(n) = {}
      BY DEF Init, CustomersOf
    <3> QED
      BY <3>1, FS_EmptySet DEF Init
  <2>7. KeysRemember /\ NoOrphanCustomers
    BY <2>4, <2>6 DEF KeysRemember, NoOrphanCustomers
  <2> QED
    BY <2>1, <2>2, <2>3, <2>5, <2>7 DEF IInv, CheckoutsSafe
<1>2. IInv /\ [Next]_vars => IInv'
  BY TypesKept, LoginsKept, CheckoutsKept DEF IInv
<1> QED
  BY <1>1, <1>2, PTL DEF Spec

\* The variables stay in their types, whatever is retried, lost or crashes.
THEOREM CheckoutTypeCorrectness == Spec => []TypeOK
BY CheckoutInvariance, PTL DEF IInv

\* POST /auth/token: concurrent first logins with one e-mail make one tenant, and a
\* token names a tenant whose row is committed with the e-mail of the login.
THEOREM LoginSafety == Spec => []TokensNameTenants
BY CheckoutInvariance, PTL DEF IInv, LoginsSafe

\* get_or_create_customer: the key create_customer_{tenant} leaves no orphan at
\* Stripe before it is forgotten, for any number of retries, crashes and failures.
THEOREM NoOrphans == Spec => []NoOrphanCustomers
BY CheckoutInvariance, PTL DEF IInv, CheckoutsSafe

\* POST /billing/checkout: what a tenant was answered stays true; the customer of
\* the session is the one linked to the tenant's row for good.
THEOREM AnswersStayLinked == Spec => []AnswersAreLinked
<1>1. IInv => AnswersAreLinked
  BY KeyTypes DEF IInv, CheckoutsSafe, CustomersMatch, AnswersAreLinked, CustomersOf
<1> QED
  BY <1>1, CheckoutInvariance, PTL

\* create_checkout_session: the 502 for a key in use or for a changed parameter is
\* never due to a double click or to another tenant's Idempotency-Key.
THEOREM RefusalsHaveReasons == Spec => RefusalsExplained
<1> DEFINE Explained(t) ==
             /\ pc[t] # "busy" /\ pc'[t] = "busy" =>
                   \A s \in Thread \ {t} :
                      ~(pc[s] \in {"customer_wait", "session_wait"} /\ KeyOf(s) = KeyOf(t))
             /\ pc[t] # "mismatch" /\ pc'[t] = "mismatch" => lapses[req[t].tenant] > 0
<1>1. ASSUME IInv, Next, NEW t \in Thread PROVE Explained(t)
  <2>1. CASE pc'[t] # pc[t] /\ pc'[t] = "busy"
    <3>1. Call(t)
      BY <1>1, <2>1, OnlyCallsRefuse DEF IInv
    <3>2. pc[t] \in Locking
      BY <3>1 DEF Call, Locking
    <3> QED
      BY <1>1, <2>1, <3>2, BusyIsUnattended DEF IInv, CheckoutsSafe, Locking
  <2>2. CASE pc'[t] # pc[t] /\ pc'[t] = "mismatch"
    <3>1. Call(t)
      BY <1>1, <2>2, OnlyCallsRefuse DEF IInv
    <3>2. pc[t] = "session" /\ Found(t) = "done" /\ saved[KeyOf(t)].customer # own[t]
      BY <1>1, <2>2, <3>1 DEF Call, Take, Goto, TypeOK, IInv
    <3> QED
      BY <1>1, <2>2, <3>2, MismatchIsLapsed DEF IInv
  <2> QED
    BY <2>1, <2>2
<1>2. IInv /\ [Next]_vars => [\A t \in Thread : Explained(t)]_vars
  BY <1>1
<1> QED
  BY <1>2, CheckoutInvariance, PTL DEF Spec, RefusalsExplained

\* create_checkout_session: the session whose URL a checkout answers is one that
\* Stripe made for the customer the checkout commits, also when the URL is a saved
\* answer of an earlier attempt; and no checkout waits for a call Stripe has
\* forgotten.
THEOREM SessionsFitCustomers == Spec => []SessionsFit
<1>1. Init => SessionsFit
  BY DEF Init, SessionsFit, Awaits, Awaiting
<1> QED
  BY <1>1, SessionsKept, CheckoutInvariance, PTL DEF Spec

\* POST /billing/checkout holds its tenant's row across its calls to Stripe and
\* still cannot deadlock: what a checkout waits for is at most one other checkout,
\* and Stripe.  This is the safety half of CheckoutGoesThrough.
THEOREM NoCheckoutDeadlock == Spec => []OnlyStripeIsWaitedFor
<1>1. ASSUME IInv, SessionsFit, NEW t \in Thread, pc[t] \in Locking
      PROVE  CanGoOn(t) \/ WaitsForStripe(t)
  <2>1. CASE pc[t] \in Awaiting
    <3>1. saved[KeyOf(t)] \in Saved
      BY <1>1, CallTypes DEF IInv, CheckoutSteps
    <3>2. saved[KeyOf(t)].state # "none"
      BY <1>1, <2>1 DEF SessionsFit, Awaits
    <3>3. saved[KeyOf(t)].state \in {"busy", "failed", "done"}
      BY <3>1, <3>2 DEF Saved
    <3> QED
      BY <2>1, <3>3 DEF CanGoOn, WaitsForStripe
  <2>2. CASE pc[t] \notin Awaiting
    BY <1>1, <2>2 DEF CanGoOn, Locking, Awaiting
  <2> QED
    BY <2>1, <2>2
<1>2. ASSUME IInv, SessionsFit, NEW t \in Thread, pc[t] = "lock", ~CanGoOn(t)
      PROVE  \E s \in Thread \ {t} :
                /\ pc[s] \in Locking /\ req[s].tenant = req[t].tenant
                /\ CanGoOn(s) \/ WaitsForStripe(s)
  <2>1. PICK s \in Thread \ {t} : pc[s] \in Locking /\ req[s].tenant = req[t].tenant
    BY <1>2 DEF CanGoOn, LockedByOther
  <2> QED
    BY <1>1, <1>2, <2>1
<1>3. IInv /\ SessionsFit => OnlyStripeIsWaitedFor
  <2> SUFFICES ASSUME IInv, SessionsFit, NEW t \in Thread, pc[t] \in CheckoutSteps
               PROVE  \/ CanGoOn(t) \/ WaitsForStripe(t)
                      \/ \E s \in Thread \ {t} :
                            /\ pc[t] = "lock" /\ pc[s] \in Locking
                            /\ req[s].tenant = req[t].tenant
                            /\ CanGoOn(s) \/ WaitsForStripe(s)
    BY DEF OnlyStripeIsWaitedFor
  <2>1. CASE pc[t] \in Locking
    BY <1>1, <2>1
  <2>2. CASE pc[t] = "answer"
    BY <2>2 DEF CanGoOn
  <2>3. CASE pc[t] = "lock"
    BY <1>2, <2>3
  <2> QED
    BY <2>1, <2>2, <2>3 DEF CheckoutSteps
<1> QED
  BY <1>3, CheckoutInvariance, SessionsFitCustomers, PTL
===============================================================================
