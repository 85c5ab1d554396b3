-------------------------- MODULE WebhookRowsProofs --------------------------
(***************************************************************************)
(* Proofs about the subscription rows that Webhooks writes: whose they     *)
(* are, when a tenant has one Stripe customer, and what they say, when a   *)
(* single worker handles all events; then also that such a worker          *)
(* implements SubscriptionLedger.                                          *)
(***************************************************************************)
EXTENDS WebhooksProofs

\* stripe_customer_id is UNIQUE.
CustomersDiffer ==
    \A t, u \in Tenant : customer[t] = customer[u] /\ customer[t] # NoCustomer => t = u

LinkedAsClaimed ==
    \A e \in Event : LET t == Body[e].claims IN
        t # NoTenant /\ customer[t] # NoCustomer => customer[t] = Body[e].customer

RowsAreAbout ==
    \A i \in DOMAIN subscriptions :
        \E e \in Event : /\ Body[e].sub = subscriptions[i].sub
                         /\ customer[subscriptions[i].tenant] = Body[e].customer

\* What a worker is going to write fits, whatever the others commit meanwhile.
PlanFits(w) ==
    LET b == BodyOf(w)  p == write[w] IN
    pc[w] \in Planned =>
        /\ Links(w) => link[w] = b.claims
        /\ Writes(w) /\ p.at = 0 =>
              /\ p.new.sub = b.sub
              /\ link[w] = p.new.tenant \/ customer[p.new.tenant] = b.customer
        /\ Writes(w) /\ p.at # 0 =>
              /\ p.new.tenant = p.old.tenant
              /\ p.new.sub # p.old.sub =>
                    p.new.sub = b.sub /\ customer[subscriptions[p.at].tenant] = b.customer

\* A link that is flushed and not yet committed can be committed.
NewLinks ==
    /\ \A w \in Worker : pc[w] = "commit" /\ Links(w) =>
          \A t \in Tenant \ {link[w]} : customer[t] # BodyOf(w).customer
    /\ \A v, w \in Worker :
          v # w /\ pc[v] = "commit" /\ pc[w] = "commit" /\ Links(v) /\ Links(w) =>
              BodyOf(v).customer # BodyOf(w).customer

RowsSafe ==
    /\ CustomersDiffer /\ LinkedAsClaimed /\ RowsAreAbout
    /\ \A w \in Worker : PlanFits(w)
    /\ NewLinks
-----------------------------------------------------------------------------
(* What the steps do to the rows.                                          *)

LEMMA EventTypes ==
    ASSUME NEW e \in Event
    PROVE  /\ Body[e] \in EventBody /\ Body[e].customer \in Customer
           /\ Body[e].customer # NoCustomer
           /\ Body[e].claims \in Tenant \cup {NoTenant} /\ Body[e].created \in Nat \ {0}
<1>1. Body[e] \in EventBody
  BY BodyAssumption
<1> QED
  BY <1>1, NullAssumption DEF EventBody

LEMMA RowTypes ==
    ASSUME TypeOK
    PROVE  /\ Len(subscriptions) \in Nat /\ DOMAIN subscriptions = 1 .. Len(subscriptions)
           /\ \A i \in 1 .. Len(subscriptions) :
                 /\ subscriptions[i] \in Row /\ subscriptions[i].tenant \in Tenant
                 /\ subscriptions[i].stamp \in Nat
<1>1. /\ Len(subscriptions) \in Nat /\ DOMAIN subscriptions = 1 .. Len(subscriptions)
      /\ \A i \in 1 .. Len(subscriptions) : subscriptions[i] \in Row
  BY DEF TypeOK
<1> QED
  BY <1>1 DEF Row

LEMMA PlanTypes ==
    ASSUME TypeOK, NEW w \in Worker, Writes(w)
    PROVE  /\ write[w].at \in 0 .. Len(subscriptions)
           /\ write[w].new \in Row /\ write[w].new.tenant \in Tenant /\ write[w].old \in Row
<1>1. write[w] \in Write /\ write[w].at \in 0 .. Len(subscriptions)
  BY DEF TypeOK, Writes
<1>2. write[w].new \in Row /\ write[w].old \in Row
  BY <1>1 DEF Write
<1> QED
  BY <1>1, <1>2 DEF Row

LEMMA WrittenFields ==
    ASSUME TypeOK, NEW w \in Worker, Writes(w), write[w].at # 0
    PROVE  LET p == write[w]  now == subscriptions[p.at]  r == Written(w) IN
           /\ r.tenant = IF p.new.tenant # p.old.tenant THEN p.new.tenant ELSE now.tenant
           /\ r.sub    = IF p.new.sub # p.old.sub THEN p.new.sub ELSE now.sub
           /\ r.status = IF p.new.status # p.old.status THEN p.new.status ELSE now.status
           /\ r.stamp  = IF p.new.stamp # p.old.stamp THEN p.new.stamp ELSE now.stamp
           /\ r.cancelled_at = IF p.new.cancelled_at # p.old.cancelled_at
                               THEN p.new.cancelled_at ELSE now.cancelled_at
<1>1. write[w].at \in 1 .. Len(subscriptions)
  BY RowTypes, PlanTypes
<1>2. DOMAIN subscriptions[write[w].at] = {"tenant", "sub", "status", "stamp", "cancelled_at"}
  BY <1>1, RowTypes DEF Row
<1> QED
  BY <1>2 DEF Written

\* A commit writes one row, or none.
LEMMA CommitRows ==
    ASSUME TypeOK, NEW w \in Worker, Commit(w)
    PROVE  LET n == Len(subscriptions) IN
           /\ DOMAIN subscriptions' = IF Writes(w) /\ write[w].at = 0 THEN 1 .. n + 1 ELSE 1 .. n
           /\ \A i \in 1 .. n : subscriptions'[i] = IF Writes(w) /\ write[w].at = i
                                                    THEN Written(w) ELSE subscriptions[i]
           /\ Writes(w) /\ write[w].at = 0 => subscriptions'[n + 1] = write[w].new
<1>1. subscriptions \in Seq(Row) /\ Len(subscriptions) \in Nat
  BY DEF TypeOK
<1>2. CASE ~Writes(w)
  BY <1>1, <1>2 DEF Commit
<1>3. CASE Writes(w) /\ write[w].at = 0
  <2>1. subscriptions' = Append(subscriptions, write[w].new)
    BY <1>3 DEF Commit, Written
  <2> QED
    BY <1>1, <1>3, <2>1, PlanTypes
<1>4. CASE Writes(w) /\ write[w].at # 0
  <2>1. subscriptions' = [subscriptions EXCEPT ![write[w].at] = Written(w)]
    BY <1>4 DEF Commit
  <2>2. write[w].at \in 1 .. Len(subscriptions)
    BY <1>4, <1>1, PlanTypes
  <2> QED
    BY <1>1, <1>4, <2>1, <2>2
<1> QED
  BY <1>2, <1>3, <1>4

\* Only a commit changes a row.
LEMMA RowsStay ==
    ASSUME [Next]_vars, \A w \in Worker : ~Commit(w)
    PROVE  UNCHANGED <<records, subscriptions, log>>
BY DEF Next, Step, Deliver, Lookup, Claim, Load, Flush, Reply, Rollback, Raise, Crash,
       LinkCustomer, vars, store

\* Only a commit and a checkout link a customer.
LEMMA CustomersStay ==
    ASSUME [Next]_vars, \A w \in Worker : ~Commit(w), ~LinkCustomer
    PROVE  UNCHANGED customer
BY DEF Next, Step, Deliver, Lookup, Claim, Load, Flush, Reply, Rollback, Raise, Crash,
       vars, store

\* A row stays its tenant's.
LEMMA TenantsStay ==
    ASSUME TypeOK, RowsSafe, [Next]_vars
    PROVE  /\ DOMAIN subscriptions \subseteq DOMAIN subscriptions'
           /\ \A i \in DOMAIN subscriptions : subscriptions'[i].tenant = subscriptions[i].tenant
<1>1. CASE \A w \in Worker : ~Commit(w)
  BY <1>1, RowsStay
<1>2. ASSUME NEW w \in Worker, Commit(w)
      PROVE  /\ DOMAIN subscriptions \subseteq DOMAIN subscriptions'
             /\ \A i \in DOMAIN subscriptions :
                   subscriptions'[i].tenant = subscriptions[i].tenant
  <2>1. Writes(w) /\ write[w].at # 0 => write[w].new.tenant = write[w].old.tenant
    BY <1>2 DEF Commit, RowsSafe, PlanFits, Planned
  <2>2. Writes(w) /\ write[w].at # 0 => Written(w).tenant = subscriptions[write[w].at].tenant
    BY <2>1, WrittenFields
  <2> QED
    BY <1>2, <2>2, CommitRows, RowTypes
<1> QED
  BY <1>1, <1>2

\* A tenant that has a customer keeps it: an event links a tenant only to the customer
\* that the tenant is claimed to have.
LEMMA LinksStay ==
    ASSUME TypeOK, RowsSafe, [Next]_vars, NEW t \in Tenant, customer[t] # NoCustomer
    PROVE  customer'[t] = customer[t]
<1>1. ASSUME NEW w \in Worker, Commit(w) PROVE customer'[t] = customer[t]
  <2>1. /\ pc[w] = "commit"
        /\ customer'[t] = IF link[w] = t THEN BodyOf(w).customer ELSE customer[t]
    BY <1>1 DEF Commit
  <2>2. CASE link[w] = t
    <3>1. t = BodyOf(w).claims /\ t # NoTenant
      BY <2>1, <2>2, NullAssumption DEF RowsSafe, PlanFits, Planned, Links
    <3>2. job[w] \in Event
      BY <2>1, BodyTypes
    <3>3. customer[t] = BodyOf(w).customer
      BY <3>1, <3>2 DEF RowsSafe, LinkedAsClaimed, BodyOf
    <3> QED
      BY <2>1, <2>2, <3>3
  <2> QED
    BY <2>1, <2>2
<1>2. ASSUME LinkCustomer PROVE customer'[t] = customer[t]
  BY <1>2 DEF LinkCustomer, TypeOK
<1> QED
  BY <1>1, <1>2, CustomersStay
-----------------------------------------------------------------------------
(* Whose rows they are, when a tenant has one customer.                    *)

\* What a worker is going to write stays fit while others commit.
LEMMA FitPlansStay ==
    ASSUME TypeOK, RowsSafe, [Next]_vars, NEW v \in Worker,
           pc'[v] \in Planned => /\ pc[v] \in Planned /\ job'[v] = job[v]
                                 /\ write'[v] = write[v] /\ link'[v] = link[v]
    PROVE  PlanFits(v)'
<1> SUFFICES ASSUME pc'[v] \in Planned PROVE PlanFits(v)'
  BY DEF PlanFits
<1> DEFINE b == BodyOf(v)  p == write[v]
<1>1. pc[v] \in Planned /\ job'[v] = job[v] /\ write'[v] = p /\ link'[v] = link[v]
  OBVIOUS
<1>2. b' = b /\ (Writes(v)' <=> Writes(v)) /\ (Links(v)' <=> Links(v))
  BY <1>1 DEF BodyOf, Writes, Links
<1>3. b.customer # NoCustomer
  BY <1>1, BodyTypes, NullAssumption DEF Planned
<1>4. PlanFits(v)
  BY DEF RowsSafe
<1>5. Writes(v) /\ p.at = 0 /\ customer[p.new.tenant] = b.customer =>
          customer'[p.new.tenant] = b.customer
  BY <1>3, PlanTypes, LinksStay
<1>6. Writes(v) /\ p.at # 0 /\ customer[subscriptions[p.at].tenant] = b.customer =>
          customer'[subscriptions'[p.at].tenant] = b.customer
  BY <1>3, PlanTypes, RowTypes, TenantsStay, LinksStay
<1> QED
  BY <1>1, <1>2, <1>4, <1>5, <1>6 DEF PlanFits

\* Rows keep being about the customers that their tenants have.
LEMMA RowsStayAbout ==
    ASSUME TypeOK, RowsSafe, [Next]_vars, UNCHANGED subscriptions
    PROVE  RowsAreAbout'
<1>1. \A i \in DOMAIN subscriptions : customer[subscriptions[i].tenant] # NoCustomer
  BY EventTypes DEF RowsSafe, RowsAreAbout
<1>2. \A i \in DOMAIN subscriptions :
          customer'[subscriptions[i].tenant] = customer[subscriptions[i].tenant]
  BY <1>1, RowTypes, LinksStay
<1> QED
  BY <1>2 DEF RowsSafe, RowsAreAbout

LEMMA QuietRows ==
    ASSUME TypeOK, RowsSafe, [Next]_vars, NEW w \in Worker,
           \/ \E e \in Event : Deliver(w, e)
           \/ Lookup(w) \/ Claim(w) \/ Reply(w) \/ Rollback(w) \/ Raise(w) \/ Crash(w)
    PROVE  RowsSafe'
<1>1. UNCHANGED <<subscriptions, customer>>
  BY DEF Deliver, Lookup, Claim, Reply, Rollback, Raise, Crash, store
<1>2. \A v \in Worker : pc'[v] \in Planned =>
          pc[v] = pc'[v] /\ job'[v] = job[v] /\ write'[v] = write[v] /\ link'[v] = link[v]
  BY DEF TypeOK, Planned, Deliver, Lookup, Claim, Reply, Rollback, Raise, Crash, Finish, Goto
<1>3. NewLinks'
  BY <1>1, <1>2 DEF RowsSafe, NewLinks, Links, BodyOf, Planned
<1> QED
  BY <1>1, <1>2, <1>3, FitPlansStay DEF RowsSafe, CustomersDiffer, LinkedAsClaimed, RowsAreAbout

\* A handler plans a row, or a link, for the event's customer.
LEMMA LoadRows ==
    ASSUME TypeOK, TypeOK', RowsSafe, [Next]_vars, NEW w \in Worker, Load(w)
    PROVE  RowsSafe'
<1> DEFINE b == BodyOf(w)  p == write'[w]  t == Resolve(b)
<1>1. /\ UNCHANGED <<subscriptions, customer, job>> /\ pc[w] # "idle"
      /\ pc' = [pc EXCEPT ![w] = "flush"]
  BY DEF Load, Goto, store
<1>2. b \in EventBody /\ job[w] \in Event /\ b.customer # NoCustomer
  BY <1>1, BodyTypes, EventTypes DEF BodyOf
<1>3. t # NoTenant =>
         t \in Tenant /\ (customer[t] = b.customer \/ (t = b.claims /\ customer[t] = NoCustomer))
  BY <1>2, ResolveFinds DEF RowsSafe, LinkedAsClaimed, BodyOf
<1>4. PlanFits(w)'
  <2>1. link'[w] # NoTenant => link'[w] = b.claims
    BY <1>2, <1>3, LoadPlans
  <2>2. CASE p = NoWrite
    BY <1>1, <2>1, <2>2 DEF PlanFits, Writes, Links, BodyOf
  <2>3. ASSUME NEW i \in Candidates(b),
               p = [at |-> i, old |-> subscriptions[i], new |-> Changed(subscriptions[i], b)]
        PROVE  PlanFits(w)'
    <3>1. i \in 1 .. Len(subscriptions)
      BY <1>2, CandidatesAreRows
    <3>2. customer[subscriptions[i].tenant] # NoCustomer
      BY <3>1, EventTypes, RowTypes DEF RowsSafe, RowsAreAbout
    <3>3. ASSUME p.new.sub # p.old.sub
          PROVE  p.new.sub = b.sub /\ customer[subscriptions[i].tenant] = b.customer
      <4>1. b.kind = "upsert" /\ p.new.sub = b.sub /\ subscriptions[i].sub # b.sub
        BY <2>3, <3>3 DEF Changed
      <4>2. subscriptions[i].tenant = t /\ t # NoTenant
        BY <1>2, <4>1, CandidatesAreRows
      <4> QED
        BY <1>3, <3>2, <4>1, <4>2
    <3>4. p.new.tenant = p.old.tenant /\ p.at # 0
      BY <2>3, <3>1 DEF Changed
    <3> QED
      BY <1>1, <2>1, <2>3, <3>3, <3>4 DEF PlanFits, Writes, Links, BodyOf
  <2>4. CASE /\ b.kind = "upsert" /\ t # NoTenant
             /\ p = [at |-> 0, old |-> NewRow(b), new |-> NewRow(b)]
    <3>1. p.at = 0 /\ p.new.sub = b.sub /\ p.new.tenant = t
      BY <2>4 DEF NewRow
    <3>2. link'[w] = t \/ customer[t] = b.customer
      BY <1>3, <2>4, LoadPlans
    <3> QED
      BY <1>1, <2>1, <3>1, <3>2 DEF PlanFits, Writes, Links, BodyOf
  <2> QED
    BY <2>2, <2>3, <2>4, LoadPlans
<1>5. \A v \in Worker \ {w} : PlanFits(v)'
  BY <1>1, LoadPlans, FitPlansStay DEF TypeOK
<1>6. NewLinks'
  <2>1. \A v \in Worker : pc'[v] = "commit" => v # w /\ pc[v] = "commit" /\ link'[v] = link[v]
    BY <1>1, LoadPlans DEF TypeOK
  <2> QED
    BY <1>1, <2>1 DEF RowsSafe, NewLinks, Links, BodyOf
<1> QED
  BY <1>1, <1>4, <1>5, <1>6 DEF RowsSafe, CustomersDiffer, LinkedAsClaimed, RowsAreAbout

\* The flush of a link waits for another link of its customer and fails when the
\* customer is taken.
LEMMA FlushRows ==
    ASSUME TypeOK, RowsSafe, [Next]_vars, NEW w \in Worker, Flush(w)
    PROVE  RowsSafe'
<1>1. /\ UNCHANGED <<subscriptions, customer, job, write, link>> /\ pc[w] = "flush"
      /\ \A v \in Worker \ {w} : ~Blocks(v, w)
      /\ pc' = [pc EXCEPT ![w] = IF BreaksUnique(w) THEN "failed" ELSE "commit"]
  BY DEF Flush, Goto, store
<1>2. \A v \in Worker : pc'[v] \in Planned => pc[v] \in Planned
  BY <1>1 DEF TypeOK, Planned
<1>3. \A v \in Worker : pc'[v] = "commit" => pc[v] = "commit" \/ (v = w /\ ~BreaksUnique(w))
  BY <1>1 DEF TypeOK
<1>4. NewLinks'
  <2>1. \A v \in Worker : pc'[v] = "commit" /\ Links(v) =>
            \A t \in Tenant \ {link[v]} : customer[t] # BodyOf(v).customer
    BY <1>3 DEF BreaksUnique, RowsSafe, NewLinks
  <2>2. \A v \in Worker \ {w} : pc[v] = "commit" /\ Links(v) /\ Links(w) =>
            BodyOf(v).customer # BodyOf(w).customer
    BY <1>1 DEF Blocks
  <2>3. \A v, u \in Worker : v # u /\ pc'[v] = "commit" /\ pc'[u] = "commit" /\ Links(v) /\ Links(u) =>
            BodyOf(v).customer # BodyOf(u).customer
    BY <1>3, <2>2 DEF RowsSafe, NewLinks
  <2> QED
    BY <1>1, <2>1, <2>3 DEF NewLinks, Links, BodyOf
<1> QED
  BY <1>1, <1>2, <1>4, FitPlansStay DEF RowsSafe, CustomersDiffer, LinkedAsClaimed, RowsAreAbout

\* A commit leaves rows, and links, of the event's customer.
LEMMA CommitLinks ==
    ASSUME OneCustomerPerTenant, TypeOK, RowsSafe, [Next]_vars, NEW w \in Worker, Commit(w)
    PROVE  RowsSafe'
<1> DEFINE b == BodyOf(w)  p == write[w]
<1>1. /\ UNCHANGED <<job, write, link>> /\ pc[w] = "commit"
      /\ pc' = [pc EXCEPT ![w] = "reply"]
      /\ customer' = [t \in Tenant |-> IF link[w] = t THEN b.customer ELSE customer[t]]
  BY DEF Commit, Goto
<1>2. job[w] \in Event /\ b.customer # NoCustomer /\ PlanFits(w)
  BY <1>1, BodyTypes, EventTypes DEF BodyOf, RowsSafe
<1>3. \A v \in Worker : pc'[v] \in Planned => v # w /\ pc'[v] = pc[v]
  BY <1>1 DEF TypeOK, Planned
<1>4. CustomersDiffer'
  <2>1. \A t \in Tenant : link[w] = t => Links(w)
    BY NullAssumption DEF Links
  <2>2. \A t \in Tenant \ {link[w]} : Links(w) => customer[t] # b.customer
    BY <1>1 DEF RowsSafe, NewLinks
  <2> QED
    BY <1>1, <2>1, <2>2 DEF RowsSafe, CustomersDiffer
<1>5. LinkedAsClaimed'
  <2> SUFFICES ASSUME NEW e \in Event, Body[e].claims # NoTenant,
                      customer'[Body[e].claims] # NoCustomer
               PROVE  customer'[Body[e].claims] = Body[e].customer
    BY DEF LinkedAsClaimed
  <2>1. Body[e].claims \in Tenant
    BY EventTypes
  <2>2. CASE link[w] = Body[e].claims
    <3>1. Body[e].claims = b.claims
      BY <1>1, <1>2, <2>1, <2>2, NullAssumption DEF PlanFits, Planned, Links
    <3>2. Body[e].customer = b.customer
      BY <1>2, <2>1, <3>1, NullAssumption DEF OneCustomerPerTenant, BodyOf
    <3> QED
      BY <1>1, <2>1, <2>2, <3>2
  <2>3. CASE link[w] # Body[e].claims
    BY <1>1, <2>1, <2>3 DEF RowsSafe, LinkedAsClaimed
  <2> QED
    BY <2>2, <2>3
<1>6. RowsAreAbout'
  <2> SUFFICES ASSUME NEW i \in DOMAIN subscriptions'
               PROVE  \E e \in Event : /\ Body[e].sub = subscriptions'[i].sub
                                       /\ customer'[subscriptions'[i].tenant] = Body[e].customer
    BY DEF RowsAreAbout
  <2>1. CASE i \in DOMAIN subscriptions
    <3>1. /\ subscriptions'[i].tenant = subscriptions[i].tenant
          /\ subscriptions[i].tenant \in Tenant
      BY <2>1, TenantsStay, RowTypes
    <3>2. PICK e \in Event : /\ Body[e].sub = subscriptions[i].sub
                             /\ customer[subscriptions[i].tenant] = Body[e].customer
      BY <2>1 DEF RowsSafe, RowsAreAbout
    <3>3. customer'[subscriptions[i].tenant] = customer[subscriptions[i].tenant]
      BY <3>1, <3>2, EventTypes, LinksStay
    <3>4. \/ subscriptions'[i].sub = subscriptions[i].sub
          \/ subscriptions'[i].sub = b.sub /\ customer[subscriptions[i].tenant] = b.customer
      <4>1. CASE Writes(w) /\ p.at = i
        <5>1. p.at # 0
          BY <2>1, <4>1, RowTypes
        <5>2. subscriptions'[i] = Written(w)
          BY <2>1, <4>1, RowTypes, CommitRows
        <5> QED
          BY <1>1, <1>2, <4>1, <5>1, <5>2, WrittenFields DEF PlanFits, Planned
      <4>2. CASE ~(Writes(w) /\ p.at = i)
        BY <2>1, <4>2, RowTypes, CommitRows
      <4> QED
        BY <4>1, <4>2
    <3> QED
      BY <1>2, <3>1, <3>2, <3>3, <3>4 DEF BodyOf
  <2>2. CASE i \notin DOMAIN subscriptions
    <3>1. Writes(w) /\ p.at = 0 /\ subscriptions'[i] = p.new
      BY <2>2, RowTypes, CommitRows
    <3>2. p.new.tenant \in Tenant /\ p.new.sub = b.sub
      BY <1>1, <1>2, <3>1, PlanTypes DEF PlanFits, Planned
    <3>3. link[w] = p.new.tenant \/ customer[p.new.tenant] = b.customer
      BY <1>1, <1>2, <3>1 DEF PlanFits, Planned
    <3>4. customer'[p.new.tenant] = b.customer
      BY <1>1, <3>2, <3>3
    <3> QED
      BY <1>2, <3>1, <3>2, <3>4 DEF BodyOf
  <2> QED
    BY <2>1, <2>2
<1>7. \A v \in Worker : PlanFits(v)'
  BY <1>1, <1>3, FitPlansStay
<1>8. NewLinks'
  <2>1. \A v \in Worker : pc'[v] = "commit" => v # w /\ pc[v] = "commit"
    BY <1>3 DEF Planned
  <2>2. ASSUME NEW v \in Worker, pc'[v] = "commit", Links(v), NEW t \in Tenant \ {link[v]}
        PROVE  customer'[t] # BodyOf(v).customer
    <3>1. customer[t] # BodyOf(v).customer
      BY <2>1, <2>2 DEF RowsSafe, NewLinks
    <3>2. link[w] = t => b.customer # BodyOf(v).customer
      <4>1. link[w] = t => Links(w)
        BY NullAssumption DEF Links
      <4> QED
        BY <1>1, <2>1, <2>2, <4>1 DEF RowsSafe, NewLinks
    <3> QED
      BY <1>1, <3>1, <3>2
  <2> QED
    BY <1>1, <2>1, <2>2 DEF RowsSafe, NewLinks, Links, BodyOf
<1> QED
  BY <1>4, <1>5, <1>6, <1>7, <1>8 DEF RowsSafe

\* A checkout links the one customer of its tenant.
LEMMA CheckoutLinks ==
    ASSUME OneCustomerPerTenant, TypeOK, RowsSafe, [Next]_vars, LinkCustomer
    PROVE  RowsSafe'
<1>1. PICK t \in Tenant : \E c \in CreatedFor[t] :
          /\ customer[t] = NoCustomer
          /\ \A u \in Tenant : customer[u] # c
          /\ \A w \in Worker : pc[w] = "commit" =>
                t \notin Rekeys(w) \cup Refers(w) /\ (Links(w) => BodyOf(w).customer # c)
          /\ customer' = [customer EXCEPT ![t] = c]
  BY DEF LinkCustomer
<1>2. PICK c \in CreatedFor[t] :
          /\ \A u \in Tenant : customer[u] # c
          /\ \A w \in Worker : pc[w] = "commit" => (Links(w) => BodyOf(w).customer # c)
          /\ customer' = [customer EXCEPT ![t] = c]
  BY <1>1
<1>3. \A u \in Tenant : customer'[u] = IF u = t THEN c ELSE customer[u]
  BY <1>2 DEF TypeOK
<1>4. UNCHANGED <<subscriptions, pc, job, write, link>>
  BY DEF LinkCustomer
<1>5. CustomersDiffer'
  BY <1>2, <1>3 DEF RowsSafe, CustomersDiffer
<1>6. LinkedAsClaimed'
  <2>1. \A e \in Event : Body[e].claims = t => Body[e].customer = c
    BY NullAssumption DEF OneCustomerPerTenant
  <2> QED
    BY <1>3, <2>1, EventTypes DEF RowsSafe, LinkedAsClaimed
<1>7. RowsAreAbout'
  BY <1>4, RowsStayAbout
<1>8. \A v \in Worker : PlanFits(v)'
  BY <1>4, FitPlansStay
<1>9. NewLinks'
  BY <1>2, <1>3, <1>4 DEF RowsSafe, NewLinks, Links, BodyOf
<1> QED
  BY <1>5, <1>6, <1>7, <1>8, <1>9 DEF RowsSafe

LEMMA InitRowsSafe == Init => RowsSafe
<1> SUFFICES ASSUME Init PROVE RowsSafe
  OBVIOUS
<1>1. \A w \in Worker : pc[w] = "idle"
  BY DEF Init
<1>2. subscriptions = << >> /\ \A t \in Tenant : customer[t] = NoCustomer
  BY DEF Init
<1> QED
  BY <1>1, <1>2, EventTypes
  DEF RowsSafe, CustomersDiffer, LinkedAsClaimed, RowsAreAbout, PlanFits, Planned, NewLinks

LEMMA RowsSafeKept ==
    OneCustomerPerTenant /\ TypeOK /\ TypeOK' /\ RowsSafe /\ [Next]_vars => RowsSafe'
<1> SUFFICES ASSUME OneCustomerPerTenant, TypeOK, TypeOK', RowsSafe, [Next]_vars
             PROVE  RowsSafe'
  OBVIOUS
<1>1. CASE UNCHANGED vars
  <2>1. UNCHANGED <<subscriptions, customer, pc, job, write, link>>
    BY <1>1 DEF vars, store
  <2> QED
    BY <2>1, FitPlansStay
    DEF RowsSafe, CustomersDiffer, LinkedAsClaimed, RowsAreAbout, NewLinks, Links, BodyOf
<1>2. ASSUME NEW w \in Worker, Step(w) PROVE RowsSafe'
  BY <1>2, QuietRows, LoadRows, FlushRows, CommitLinks DEF Step
<1> QED
  BY <1>1, <1>2, QuietRows, CheckoutLinks DEF Next

LEMMA RowsAreTheirs == OneCustomerPerTenant /\ TypeOK /\ RowsSafe => RowsFollowCustomers
<1> SUFFICES ASSUME OneCustomerPerTenant, TypeOK, RowsSafe,
                    NEW i \in DOMAIN subscriptions, NEW e \in Event,
                    subscriptions[i].sub = Body[e].sub, NEW t \in Tenant
             PROVE  customer[t] = Body[e].customer <=> t = subscriptions[i].tenant
  BY DEF RowsFollowCustomers
<1>1. PICK f \in Event : /\ Body[f].sub = subscriptions[i].sub
                         /\ customer[subscriptions[i].tenant] = Body[f].customer
  BY DEF RowsSafe, RowsAreAbout
<1>2. Body[f].customer = Body[e].customer
  BY <1>1 DEF OneCustomerPerTenant
<1> QED
  BY <1>1, <1>2, EventTypes, RowTypes DEF RowsSafe, CustomersDiffer

\* WebhookService and StripeService together keep subscriptions with their customers: when
\* checkouts give a tenant one customer, a row belongs to the tenant, and the only one,
\* that has its subscription's customer, also when the events of one customer claim several
\* tenants in their metadata, and however workers and checkouts interleave.
THEOREM RowsFollowTheirCustomers ==
    ASSUME OneCustomerPerTenant PROVE Spec => []RowsFollowCustomers
<1>1. Init => TypeOK /\ RowsSafe
  BY InitTypeOK, InitRowsSafe
<1>2. TypeOK /\ RowsSafe /\ [Next]_vars => (TypeOK /\ RowsSafe)'
  BY TypesKept, RowsSafeKept
<1>3. TypeOK /\ RowsSafe => RowsFollowCustomers
  BY RowsAreTheirs
<1> QED
  BY <1>1, <1>2, <1>3, PTL DEF Spec
-----------------------------------------------------------------------------
(* What the rows say, when a single worker handles all events.             *)

OneWorker == \A v, w \in Worker : v = w

\* Nobody has touched what the worker has read.
FreshPlan(w) ==
    LET b == BodyOf(w)  p == write[w] IN
    pc[w] \in Planned /\ Writes(w) =>
        /\ p.at # 0 => /\ p.old = subscriptions[p.at] /\ ~Ignored(p.old, b)
                       /\ b.kind # "other" /\ p.new = Changed(p.old, b)
        /\ p.at = 0 => /\ b.kind = "upsert" /\ p.new.stamp = b.created
                       /\ p.new.status = b.status
                       /\ OfTenant(p.new.tenant) = {}

LoggedRows == \A n \in DOMAIN log : log[n].row \in 0 .. Len(subscriptions)

SerialSafe ==
    /\ OneSubscriptionPerTenant /\ RowTellsNewest /\ LoggedRows
    /\ \A w \in Worker : FreshPlan(w)

\* A commit applies the event to the row as it is.
LEMMA SerialCommit ==
    ASSUME TypeOK, SerialSafe, NEW w \in Worker, Commit(w)
    PROVE  LET b == BodyOf(w)  p == write[w]  n == Len(subscriptions) IN
           /\ DOMAIN subscriptions' = IF Writes(w) /\ p.at = 0 THEN 1 .. n + 1 ELSE 1 .. n
           /\ \A i \in 1 .. n :
                 IF Writes(w) /\ p.at = i
                 THEN /\ ~Ignored(subscriptions[i], b) /\ b.kind # "other"
                      /\ subscriptions'[i] = Changed(subscriptions[i], b)
                 ELSE subscriptions'[i] = subscriptions[i]
           /\ Writes(w) /\ p.at = 0 =>
                 /\ b.kind = "upsert" /\ OfTenant(p.new.tenant) = {}
                 /\ subscriptions'[n + 1] = p.new
                 /\ p.new.stamp = b.created /\ p.new.status = b.status
<1> DEFINE b == BodyOf(w)  p == write[w]  n == Len(subscriptions)
<1>1. pc[w] = "commit" /\ b \in EventBody
  BY BodyTypes DEF Commit
<1>2. FreshPlan(w)
  BY DEF SerialSafe
<1>3. ASSUME Writes(w), p.at # 0
      PROVE  /\ Written(w) = Changed(subscriptions[p.at], b)
             /\ ~Ignored(subscriptions[p.at], b) /\ b.kind # "other"
  <2>1. /\ p.old = subscriptions[p.at] /\ p.new = Changed(p.old, b)
        /\ ~Ignored(p.old, b) /\ b.kind # "other"
    BY <1>1, <1>2, <1>3 DEF FreshPlan, Planned
  <2>2. Written(w) \in Row /\ p.new \in Row
    BY <1>3, WrittenIsRow, PlanTypes
  <2>3. /\ Written(w).tenant = p.new.tenant /\ Written(w).sub = p.new.sub
        /\ Written(w).status = p.new.status /\ Written(w).stamp = p.new.stamp
        /\ Written(w).cancelled_at = p.new.cancelled_at
    BY <1>3, <2>1, WrittenFields
  <2>4. Written(w) = p.new
    BY <2>2, <2>3 DEF Row
  <2> QED
    BY <2>1, <2>4
<1>4. Writes(w) /\ p.at = 0 =>
          /\ b.kind = "upsert" /\ OfTenant(p.new.tenant) = {}
          /\ p.new.stamp = b.created /\ p.new.status = b.status
  BY <1>1, <1>2 DEF FreshPlan, Planned
<1> QED
  BY <1>3, <1>4, CommitRows, RowTypes

\* Only the worker itself changes the rows that it has read.
LEMMA FreshPlansStay ==
    ASSUME SerialSafe, UNCHANGED subscriptions, NEW w \in Worker,
           pc'[w] \in Planned => pc[w] \in Planned /\ job'[w] = job[w] /\ write'[w] = write[w]
    PROVE  FreshPlan(w)'
BY DEF SerialSafe, FreshPlan, BodyOf, Writes, OfTenant

LEMMA QuietSerial ==
    ASSUME TypeOK, SerialSafe,
           \/ LinkCustomer
           \/ \E w \in Worker : \/ \E e \in Event : Deliver(w, e)
                                \/ Lookup(w) \/ Claim(w) \/ Flush(w) \/ Reply(w)
                                \/ Rollback(w) \/ Raise(w) \/ Crash(w)
    PROVE  SerialSafe'
<1>1. UNCHANGED <<subscriptions, log>>
  BY DEF LinkCustomer, Deliver, Lookup, Claim, Flush, Reply, Rollback, Raise, Crash, store
<1>2. \A v \in Worker : pc'[v] \in Planned =>
          pc[v] \in Planned /\ job'[v] = job[v] /\ write'[v] = write[v]
  <2>1. CASE LinkCustomer
    BY <2>1 DEF LinkCustomer
  <2>2. ASSUME NEW w \in Worker,
               \/ \E e \in Event : Deliver(w, e)
               \/ Lookup(w) \/ Claim(w) \/ Flush(w) \/ Reply(w)
               \/ Rollback(w) \/ Raise(w) \/ Crash(w),
               NEW v \in Worker, pc'[v] \in Planned
        PROVE  pc[v] \in Planned /\ job'[v] = job[v] /\ write'[v] = write[v]
    BY <2>2 DEF TypeOK, Planned, Deliver, Lookup, Claim, Flush, Reply, Rollback, Raise, Crash,
                Finish, Goto
  <2> QED
    BY <2>1, <2>2
<1> QED
  BY <1>1, <1>2, FreshPlansStay
  DEF SerialSafe, OneSubscriptionPerTenant, RowTellsNewest, LoggedRows

LEMMA LoadSerial ==
    ASSUME OneWorker, TypeOK, SerialSafe, NEW w \in Worker, Load(w)
    PROVE  SerialSafe'
<1> DEFINE b == BodyOf(w)  p == write'[w]  t == Resolve(b)
<1>1. UNCHANGED <<subscriptions, log, job>> /\ pc[w] # "idle"
  BY DEF Load, store
<1>2. b \in EventBody /\ b' = b
  BY <1>1, BodyTypes DEF BodyOf
<1>3. FreshPlan(w)'
  <2>1. CASE p = NoWrite
    BY <2>1 DEF FreshPlan, Writes
  <2>2. ASSUME NEW i \in Candidates(b), ~Ignored(subscriptions[i], b),
               p = [at |-> i, old |-> subscriptions[i], new |-> Changed(subscriptions[i], b)]
        PROVE  FreshPlan(w)'
    <3>1. i \in 1 .. Len(subscriptions) /\ b.kind # "other"
      BY <1>2, CandidatesAreRows
    <3>2. p.at = i /\ p.old = subscriptions[i] /\ p.new = Changed(subscriptions[i], b) /\ i # 0
      BY <2>2, <3>1
    <3> QED
      BY <1>1, <1>2, <2>2, <3>1, <3>2 DEF FreshPlan, Ignored, Invoice, Changed, StatusAfter
  <2>3. CASE /\ b.kind = "upsert" /\ t # NoTenant /\ Candidates(b) = {}
             /\ p = [at |-> 0, old |-> NewRow(b), new |-> NewRow(b)]
    <3>1. /\ p.at = 0 /\ p.new.tenant = t /\ p.new.stamp = b.created
          /\ p.new.status = b.status
      BY <2>3 DEF NewRow
    <3>2. OfTenant(t) = {}
      BY <1>2, <2>3, CandidatesAreRows
    <3>3. {i \in DOMAIN subscriptions' : subscriptions'[i].tenant = t} = {}
      BY <1>1, <3>2 DEF OfTenant
    <3> QED
      BY <1>2, <2>3, <3>1, <3>3 DEF FreshPlan, OfTenant
  <2> QED
    BY <2>1, <2>2, <2>3, LoadPlans
<1>4. \A v \in Worker : FreshPlan(v)'
  BY <1>3 DEF OneWorker
<1> QED
  BY <1>1, <1>4 DEF SerialSafe, OneSubscriptionPerTenant, RowTellsNewest, LoggedRows

LEMMA LogTypes ==
    ASSUME TypeOK, NEW m \in 1 .. Len(log)
    PROVE  log[m].event \in Event
<1> DEFINE Entry == [event : Event, row : Nat]
<1>1. log \in Seq(Entry)
  BY DEF TypeOK
<1>2. \A e \in Entry : e.event \in Event
  OBVIOUS
<1> HIDE DEF Entry
<1>3. log[m] \in Entry
  BY <1>1
<1> QED
  BY <1>2, <1>3

LEMMA CommitSerial ==
    ASSUME OneWorker, TypeOK, SerialSafe, NEW w \in Worker, Commit(w)
    PROVE  SerialSafe'
<1> DEFINE b == BodyOf(w)  p == write[w]  n == Len(subscriptions)
           r == IF ~Writes(w) THEN 0 ELSE IF p.at = 0 THEN n + 1 ELSE p.at
<1>1. /\ log' = Append(log, [event |-> job[w], row |-> r]) /\ pc[w] = "commit"
      /\ pc' = [pc EXCEPT ![w] = "reply"]
  BY DEF Commit, Goto
<1>2. job[w] \in Event /\ b = Body[job[w]] /\ b.created \in Nat
  BY <1>1, BodyTypes DEF BodyOf
<1>3. /\ n \in Nat /\ DOMAIN subscriptions = 1 .. n
      /\ \A i \in 1 .. n : subscriptions[i].stamp \in Nat
  BY RowTypes
<1>4. log \in Seq([event : Event, row : Nat]) /\ Len(log) \in Nat /\ DOMAIN log = 1 .. Len(log)
  BY DEF TypeOK
<1>5. /\ DOMAIN log' = 1 .. Len(log) + 1
      /\ \A m \in 1 .. Len(log) : log'[m] = log[m]
      /\ log'[Len(log) + 1].event = job[w] /\ log'[Len(log) + 1].row = r
  BY <1>1, <1>4
<1>6. Writes(w) => p.at \in 0 .. n
  BY PlanTypes
<1>7. OneSubscriptionPerTenant'
  <2>1. ASSUME NEW i \in 1 .. n PROVE subscriptions'[i].tenant = subscriptions[i].tenant
    <3>1. \/ subscriptions'[i] = Changed(subscriptions[i], b)
          \/ subscriptions'[i] = subscriptions[i]
      BY SerialCommit
    <3> QED
      BY <3>1 DEF Changed
  <2>2. ASSUME Writes(w), p.at = 0, NEW i \in 1 .. n
        PROVE  subscriptions'[i].tenant # subscriptions'[n + 1].tenant
    <3>1. OfTenant(p.new.tenant) = {} /\ subscriptions'[n + 1] = p.new
      BY <2>2, SerialCommit
    <3> QED
      BY <1>3, <2>1, <3>1 DEF OfTenant
  <2>3. DOMAIN subscriptions' = IF Writes(w) /\ p.at = 0 THEN 1 .. n + 1 ELSE 1 .. n
    BY SerialCommit
  <2> QED
    BY <1>3, <2>1, <2>2, <2>3 DEF SerialSafe, OneSubscriptionPerTenant
<1>8. LoggedRows'
  <2>1. DOMAIN subscriptions' = IF Writes(w) /\ p.at = 0 THEN 1 .. n + 1 ELSE 1 .. n
    BY SerialCommit
  <2>2. Len(subscriptions') = IF Writes(w) /\ p.at = 0 THEN n + 1 ELSE n
    BY <1>3, <2>1, CommitTypes, RowTypes
  <2> QED
    BY <1>3, <1>4, <1>5, <1>6, <2>2 DEF SerialSafe, LoggedRows
<1>9. RowTellsNewest'
  <2> DEFINE Applied(i) == {log[m].event : m \in {m \in DOMAIN log : log[m].row = i}}
             AppliedNow(i) == {log'[m].event : m \in {m \in DOMAIN log' : log'[m].row = i}}
  <2>1. \A i \in 1 .. n + 1 : AppliedNow(i) = Applied(i) \cup (IF i = r THEN {job[w]} ELSE {})
    <3> SUFFICES ASSUME NEW i \in 1 .. n + 1
                 PROVE  AppliedNow(i) = Applied(i) \cup (IF i = r THEN {job[w]} ELSE {})
      OBVIOUS
    <3>1. ASSUME NEW e \in AppliedNow(i)
          PROVE  e \in Applied(i) \cup (IF i = r THEN {job[w]} ELSE {})
      <4>1. PICK m \in DOMAIN log' : log'[m].row = i /\ log'[m].event = e
        OBVIOUS
      <4>2. CASE m = Len(log) + 1
        BY <1>5, <4>1, <4>2
      <4>3. CASE m \in 1 .. Len(log)
        BY <1>4, <1>5, <4>1, <4>3
      <4> QED
        BY <1>4, <1>5, <4>2, <4>3
    <3>2. ASSUME NEW e \in Applied(i) PROVE e \in AppliedNow(i)
      <4>1. PICK m \in DOMAIN log : log[m].row = i /\ log[m].event = e
        OBVIOUS
      <4>2. m \in DOMAIN log' /\ log'[m] = log[m]
        BY <1>4, <1>5
      <4> QED
        BY <4>1, <4>2
    <3>3. i = r => job[w] \in AppliedNow(i)
      <4>1. Len(log) + 1 \in DOMAIN log'
        BY <1>4, <1>5
      <4> QED
        BY <1>5, <4>1
    <3> HIDE DEF Applied, AppliedNow
    <3> QED
      BY <3>1, <3>2, <3>3
  <2>2. \A i \in 1 .. n : \E e \in Applied(i) :
            /\ \A f \in Applied(i) : Body[f].created <= Body[e].created
            /\ subscriptions[i].stamp  = Body[e].created
            /\ subscriptions[i].status = StatusAfter(Body[e])
            /\ Body[e].kind = "deleted" => subscriptions[i].cancelled_at = Body[e].created
    BY <1>3 DEF SerialSafe, RowTellsNewest
  <2>3. \A i \in 1 .. n + 1 : Applied(i) \subseteq Event
    <3>1. \A m \in DOMAIN log : log[m].event \in Event
      BY <1>4, LogTypes
    <3> QED
      BY <3>1
  <2>4. Applied(n + 1) = {}
    <3>1. \A m \in DOMAIN log : log[m].row # n + 1
      BY <1>3 DEF SerialSafe, LoggedRows
    <3> QED
      BY <3>1
  <2> DEFINE Tells(i, e) ==
          /\ \A f \in AppliedNow(i) : Body[f].created <= Body[e].created
          /\ subscriptions'[i].stamp  = Body[e].created
          /\ subscriptions'[i].status = StatusAfter(Body[e])
          /\ Body[e].kind = "deleted" => subscriptions'[i].cancelled_at = Body[e].created
  <2> HIDE DEF Applied, AppliedNow
  <2>5. ASSUME NEW i \in DOMAIN subscriptions' PROVE \E e \in AppliedNow(i) : Tells(i, e)
    <3>1. CASE i \in 1 .. n /\ i = r
      <4>1. Writes(w) /\ p.at = i
        BY <1>3, <3>1
      <4>2. /\ ~Ignored(subscriptions[i], b) /\ b.kind # "other"
            /\ subscriptions'[i] = Changed(subscriptions[i], b)
        BY <3>1, <4>1, SerialCommit
      <4>3. b.created > subscriptions[i].stamp
        BY <1>2, <1>3, <3>1, <4>2 DEF Ignored
      <4>4. \A f \in Applied(i) : Body[f].created <= subscriptions[i].stamp
        BY <2>2, <3>1
      <4>5. \A f \in AppliedNow(i) : Body[f].created <= b.created
        <5>1. \A f \in Applied(i) : Body[f].created \in Nat
          BY <2>3, <3>1, EventTypes
        <5> QED
          BY <1>2, <1>3, <2>1, <3>1, <4>3, <4>4, <5>1
      <4>6. /\ subscriptions'[i].stamp = b.created /\ subscriptions'[i].status = StatusAfter(b)
            /\ b.kind = "deleted" => subscriptions'[i].cancelled_at = b.created
        BY <4>2 DEF Changed
      <4> QED
        BY <1>2, <2>1, <3>1, <4>5, <4>6
    <3>2. CASE i \in 1 .. n /\ i # r
      <4>1. subscriptions'[i] = subscriptions[i]
        BY <3>2, SerialCommit
      <4>2. i \in 1 .. n + 1
        BY <1>3, <3>2
      <4>3. AppliedNow(i) = Applied(i)
        BY <2>1, <3>2, <4>2
      <4> QED
        BY <2>2, <3>2, <4>1, <4>3
    <3>3. CASE i \notin 1 .. n
      <4>1. i = n + 1 /\ Writes(w) /\ p.at = 0 /\ r = i
        BY <1>3, <2>5, <3>3, SerialCommit
      <4>2. AppliedNow(i) = {job[w]}
        BY <1>3, <2>1, <2>4, <4>1
      <4>3. /\ b.kind = "upsert" /\ subscriptions'[i].stamp = b.created
            /\ subscriptions'[i].status = b.status
        BY <4>1, SerialCommit
      <4>4. StatusAfter(b) = b.status
        BY <4>3 DEF StatusAfter
      <4> QED
        BY <1>2, <4>2, <4>3, <4>4
    <3> QED
      BY <3>1, <3>2, <3>3
  <2> QED
    BY <2>5 DEF RowTellsNewest, AppliedNow
<1>10. \A v \in Worker : FreshPlan(v)'
  <2>1. \A v \in Worker : pc'[v] = "reply"
    BY <1>1 DEF OneWorker, TypeOK
  <2> QED
    BY <2>1 DEF FreshPlan, Planned
<1> QED
  BY <1>7, <1>8, <1>9, <1>10 DEF SerialSafe

LEMMA InitSerialSafe == Init => SerialSafe
<1> SUFFICES ASSUME Init PROVE SerialSafe
  OBVIOUS
<1>1. subscriptions = << >> /\ log = << >> /\ \A w \in Worker : pc[w] = "idle"
  BY DEF Init
<1> QED
  BY <1>1 DEF SerialSafe, OneSubscriptionPerTenant, RowTellsNewest, LoggedRows, FreshPlan, Planned

LEMMA SerialSafeKept == OneWorker /\ TypeOK /\ SerialSafe /\ [Next]_vars => SerialSafe'
<1> SUFFICES ASSUME OneWorker, TypeOK, SerialSafe, [Next]_vars PROVE SerialSafe'
  OBVIOUS
<1>1. CASE UNCHANGED vars
  <2>1. UNCHANGED <<subscriptions, log, pc, job, write>>
    BY <1>1 DEF vars, store
  <2> QED
    BY <2>1, FreshPlansStay DEF SerialSafe, OneSubscriptionPerTenant, RowTellsNewest, LoggedRows
<1>2. ASSUME NEW w \in Worker, Step(w) PROVE SerialSafe'
  BY <1>2, QuietSerial, LoadSerial, CommitSerial DEF Step
<1> QED
  BY <1>1, <1>2, QuietSerial DEF Next

\* What the theorems about a single worker rest on.
LEMMA SerialInvariance ==
    ASSUME OneWorker PROVE Spec => [](TypeOK /\ SerialSafe)
<1>1. Init => TypeOK /\ SerialSafe
  BY InitTypeOK, InitSerialSafe
<1>2. TypeOK /\ SerialSafe /\ [Next]_vars => (TypeOK /\ SerialSafe)'
  BY TypesKept, SerialSafeKept
<1> QED
  BY <1>1, <1>2, PTL DEF Spec

\* In a single server process the out-of-order guards of WebhookService work: whatever
\* the order of delivery, a row shows the newest event that was written to it.
THEOREM RowsTellTheNewest ==
    ASSUME OneWorker PROVE Spec => []RowTellsNewest
<1>1. SerialSafe => RowTellsNewest
  BY DEF SerialSafe
<1> QED
  BY <1>1, SerialInvariance, PTL

\* In a single server process a tenant never gets a second subscription row, although
\* nothing in the schema forbids one.
THEOREM OneRowPerTenant ==
    ASSUME OneWorker PROVE Spec => []OneSubscriptionPerTenant
<1>1. SerialSafe => OneSubscriptionPerTenant
  BY DEF SerialSafe
<1> QED
  BY <1>1, SerialInvariance, PTL

\* A row that changes is changed by a commit that applies the worker's event to it.
LEMMA RowChanges ==
    ASSUME TypeOK, SerialSafe, [Next]_vars, NEW i \in DOMAIN subscriptions,
           subscriptions'[i] # subscriptions[i]
    PROVE  \E w \in Worker :
              /\ pc[w] = "commit" /\ BodyOf(w) \in EventBody
              /\ ~Ignored(subscriptions[i], BodyOf(w)) /\ BodyOf(w).kind # "other"
              /\ subscriptions'[i] = Changed(subscriptions[i], BodyOf(w))
<1>1. PICK w \in Worker : Commit(w)
  BY RowsStay
<1>2. pc[w] = "commit" /\ BodyOf(w) \in EventBody
  BY <1>1, BodyTypes DEF Commit
<1> QED
  BY <1>1, <1>2, RowTypes, SerialCommit

\* In a single server process no handler writes an event over a newer one.
THEOREM NewerIsKept ==
    ASSUME OneWorker PROVE Spec => OnlyNewerApplied
<1>1. TypeOK /\ SerialSafe /\ [Next]_vars =>
          [ \A i \in DOMAIN subscriptions :
               subscriptions'[i] # subscriptions[i]
                 => subscriptions'[i].stamp > subscriptions[i].stamp ]_vars
  <2> SUFFICES ASSUME TypeOK, SerialSafe, [Next]_vars, NEW i \in DOMAIN subscriptions,
                      subscriptions'[i] # subscriptions[i]
               PROVE  subscriptions'[i].stamp > subscriptions[i].stamp
    OBVIOUS
  <2>1. PICK b \in EventBody : /\ ~Ignored(subscriptions[i], b)
                               /\ subscriptions'[i] = Changed(subscriptions[i], b)
    BY RowChanges
  <2>2. b.created \in Nat /\ subscriptions[i].stamp \in Nat
    BY RowTypes DEF EventBody
  <2> QED
    BY <2>1, <2>2 DEF Ignored, Changed
<1> QED
  BY <1>1, SerialInvariance, PTL DEF Spec, OnlyNewerApplied

\* In a single server process an invoice event never revives a subscription that
\* customer.subscription.deleted cancelled.
THEOREM CancelledStaysCancelled ==
    ASSUME OneWorker PROVE Spec => OnlyUpsertRevives
<1>1. TypeOK /\ SerialSafe /\ [Next]_vars =>
          [ \A i \in DOMAIN subscriptions :
               subscriptions[i].status = "cancelled" /\ subscriptions'[i].status # "cancelled"
                 => \E w \in Worker : pc[w] = "commit" /\ BodyOf(w).kind = "upsert" ]_vars
  <2> SUFFICES ASSUME TypeOK, SerialSafe, [Next]_vars, NEW i \in DOMAIN subscriptions,
                      subscriptions[i].status = "cancelled",
                      subscriptions'[i].status # "cancelled"
               PROVE  \E w \in Worker : pc[w] = "commit" /\ BodyOf(w).kind = "upsert"
    OBVIOUS
  <2>1. PICK w \in Worker :
            /\ pc[w] = "commit" /\ BodyOf(w) \in EventBody
            /\ ~Ignored(subscriptions[i], BodyOf(w)) /\ BodyOf(w).kind # "other"
            /\ subscriptions'[i] = Changed(subscriptions[i], BodyOf(w))
    BY RowChanges
  <2>2. BodyOf(w).kind \in {"upsert", "deleted"}
    BY <2>1 DEF EventBody, Ignored, Invoice
  <2>3. BodyOf(w).kind # "deleted"
    BY <2>1 DEF Changed, StatusAfter
  <2> QED
    BY <2>1, <2>2, <2>3
<1> QED
  BY <1>1, SerialInvariance, PTL DEF Spec, OnlyUpsertRevives
-----------------------------------------------------------------------------
(* That no upsert is lost, when a single worker handles the events and a   *)
(* tenant has one customer.                                                *)

\* A processed upsert that left its tenant no row is of a customer that another tenant has.
UpsertsCount ==
    \A e \in Event : LET b == Body[e] IN
        records[e] = "processed" /\ b.kind = "upsert" /\ b.claims # NoTenant =>
            \/ \E u \in Tenant \ {b.claims} : customer[u] = b.customer
            \/ \E i \in OfTenant(b.claims) : subscriptions[i].stamp >= b.created

\* So is one that is going to leave its tenant none.
UpsertCounted(w) ==
    LET b == BodyOf(w)  p == write[w] IN
    pc[w] \in Planned /\ b.kind = "upsert" /\ b.claims # NoTenant =>
        \/ \E u \in Tenant \ {b.claims} : customer[u] = b.customer
        \/ \E i \in OfTenant(b.claims) : subscriptions[i].stamp >= b.created
        \/ Writes(w) /\ p.new.tenant = b.claims

UpsertsSafe == UpsertsCount /\ \A w \in Worker : UpsertCounted(w)

\* What has been counted of an event stays.
LEMMA CountedStays ==
    ASSUME TypeOK, TypeOK', RowsSafe, SerialSafe, [Next]_vars, NEW e \in Event
    PROVE  LET b == Body[e] IN
           /\ \A u \in Tenant : customer[u] = b.customer => customer'[u] = b.customer
           /\ \A i \in OfTenant(b.claims) : subscriptions[i].stamp >= b.created =>
                 i \in OfTenant(b.claims)' /\ subscriptions'[i].stamp >= b.created
<1> DEFINE b == Body[e]
<1>1. \A u \in Tenant : customer[u] = b.customer => customer'[u] = b.customer
  BY EventTypes, LinksStay
<1>2. ASSUME NEW i \in OfTenant(b.claims), subscriptions[i].stamp >= b.created
      PROVE  i \in OfTenant(b.claims)' /\ subscriptions'[i].stamp >= b.created
  <2>1. i \in DOMAIN subscriptions /\ subscriptions[i].tenant = b.claims
    BY DEF OfTenant
  <2>2. i \in OfTenant(b.claims)'
    BY <2>1, TenantsStay DEF OfTenant
  <2>3. CASE subscriptions'[i] = subscriptions[i]
    BY <1>2, <2>2, <2>3
  <2>4. CASE subscriptions'[i] # subscriptions[i]
    <3>1. PICK c \in EventBody : /\ ~Ignored(subscriptions[i], c)
                                 /\ subscriptions'[i] = Changed(subscriptions[i], c)
      BY <2>1, <2>4, RowChanges
    <3>2. c.created \in Nat /\ subscriptions[i].stamp \in Nat /\ b.created \in Nat
      BY <2>1, RowTypes, EventTypes DEF EventBody
    <3>3. ~(c.created <= subscriptions[i].stamp) /\ subscriptions'[i].stamp = c.created
      BY <3>1 DEF Ignored, Changed
    <3> QED
      BY <1>2, <2>2, <3>2, <3>3
  <2> QED
    BY <2>3, <2>4
<1> QED
  BY <1>1, <1>2

LEMMA CountedPlansStay ==
    ASSUME TypeOK, TypeOK', RowsSafe, SerialSafe, UpsertsSafe, [Next]_vars, NEW w \in Worker,
           pc'[w] \in Planned => pc[w] \in Planned /\ job'[w] = job[w] /\ write'[w] = write[w]
    PROVE  UpsertCounted(w)'
<1> SUFFICES ASSUME pc'[w] \in Planned PROVE UpsertCounted(w)'
  BY DEF UpsertCounted
<1>1. /\ job[w] \in Event /\ BodyOf(w) = Body[job[w]] /\ BodyOf(w)' = BodyOf(w)
      /\ (Writes(w)' <=> Writes(w)) /\ UpsertCounted(w)
  BY BodyTypes DEF BodyOf, Planned, Writes, UpsertsSafe
<1> QED
  BY <1>1, CountedStays DEF UpsertCounted

\* A step that records no event keeps the upserts counted.
LEMMA UpsertsStay ==
    ASSUME TypeOK, TypeOK', RowsSafe, SerialSafe, UpsertsSafe, [Next]_vars, UNCHANGED records
    PROVE  UpsertsCount'
<1> SUFFICES ASSUME NEW e \in Event, records[e] = "processed", Body[e].kind = "upsert",
                    Body[e].claims # NoTenant
             PROVE  \/ \E u \in Tenant \ {Body[e].claims} : customer'[u] = Body[e].customer
                    \/ \E i \in OfTenant(Body[e].claims)' :
                          subscriptions'[i].stamp >= Body[e].created
  BY DEF UpsertsCount
<1>1. \/ \E u \in Tenant \ {Body[e].claims} : customer[u] = Body[e].customer
      \/ \E i \in OfTenant(Body[e].claims) : subscriptions[i].stamp >= Body[e].created
  BY DEF UpsertsSafe, UpsertsCount
<1> QED
  BY <1>1, CountedStays

LEMMA QuietUpserts ==
    ASSUME TypeOK, TypeOK', RowsSafe, SerialSafe, UpsertsSafe, [Next]_vars,
           \/ LinkCustomer
           \/ \E w \in Worker : \/ \E e \in Event : Deliver(w, e)
                                \/ Lookup(w) \/ Claim(w) \/ Flush(w) \/ Reply(w)
                                \/ Rollback(w) \/ Raise(w) \/ Crash(w)
    PROVE  UpsertsSafe'
<1>1. UNCHANGED records
  BY DEF LinkCustomer, Deliver, Lookup, Claim, Flush, Reply, Rollback, Raise, Crash, store
<1>2. \A v \in Worker : pc'[v] \in Planned =>
          pc[v] \in Planned /\ job'[v] = job[v] /\ write'[v] = write[v]
  <2>1. CASE LinkCustomer
    BY <2>1 DEF LinkCustomer
  <2>2. ASSUME NEW w \in Worker,
               \/ \E e \in Event : Deliver(w, e)
               \/ Lookup(w) \/ Claim(w) \/ Flush(w) \/ Reply(w)
               \/ Rollback(w) \/ Raise(w) \/ Crash(w),
               NEW v \in Worker, pc'[v] \in Planned
        PROVE  pc[v] \in Planned /\ job'[v] = job[v] /\ write'[v] = write[v]
    BY <2>2 DEF TypeOK, Planned, Deliver, Lookup, Claim, Flush, Reply, Rollback, Raise, Crash,
                Finish, Goto
  <2> QED
    BY <2>1, <2>2
<1> QED
  BY <1>1, <1>2, UpsertsStay, CountedPlansStay DEF UpsertsSafe

\* A handler of an upsert that no other tenant's customer takes away finds the row of the
\* tenant that the metadata names, or makes one.
LEMMA LoadUpserts ==
    ASSUME OneWorker, OneCustomerPerTenant, TypeOK, TypeOK', RowsSafe, SerialSafe, UpsertsSafe,
           [Next]_vars, NEW w \in Worker, Load(w)
    PROVE  UpsertsSafe'
<1> DEFINE b == BodyOf(w)  p == write'[w]  t == b.claims
<1>1. UNCHANGED <<records, subscriptions, customer, job>> /\ pc[w] # "idle"
  BY DEF Load, store
<1>2. b \in EventBody /\ b' = b /\ b = Body[job[w]] /\ job[w] \in Event
  BY <1>1, BodyTypes DEF BodyOf
<1>3. ASSUME b.kind = "upsert", t # NoTenant, \A u \in Tenant \ {t} : customer[u] # b.customer
      PROVE  \/ \E i \in OfTenant(t) : subscriptions[i].stamp >= b.created
             \/ p # NoWrite /\ p.new.tenant = t
  <2>1. Resolve(b) = t
    BY <1>2, <1>3, ResolveFinds
  <2>2. \A i \in Candidates(b) : i \in DOMAIN subscriptions /\ subscriptions[i].tenant = t
    <3> SUFFICES ASSUME NEW i \in Candidates(b), subscriptions[i].sub = b.sub
                 PROVE  subscriptions[i].tenant = t
      BY <1>2, <2>1, CandidatesAreRows
    <3>1. i \in 1 .. Len(subscriptions)
      BY <1>2, CandidatesAreRows
    <3>2. subscriptions[i].tenant \in Tenant /\ i \in DOMAIN subscriptions
      BY <3>1, RowTypes
    <3>3. customer[subscriptions[i].tenant] = b.customer
      BY <1>2, <3>2, RowsAreTheirs DEF RowsFollowCustomers
    <3> QED
      BY <1>3, <3>2, <3>3
  <2>3. ASSUME NEW i \in Candidates(b), Ignored(subscriptions[i], b)
        PROVE  \E j \in OfTenant(t) : subscriptions[j].stamp >= b.created
    <3>1. i \in DOMAIN subscriptions /\ i \in OfTenant(t)
      BY <2>2 DEF OfTenant
    <3>2. b.created <= subscriptions[i].stamp
      BY <1>3, <2>3 DEF Ignored, Invoice
    <3>3. b.created \in Nat /\ subscriptions[i].stamp \in Nat
      BY <1>2, <3>1, RowTypes, EventTypes
    <3> QED
      BY <3>1, <3>2, <3>3
  <2>4. ASSUME NEW i \in Candidates(b),
               p = [at |-> i, old |-> subscriptions[i], new |-> Changed(subscriptions[i], b)]
        PROVE  p # NoWrite /\ p.new.tenant = t
    <3>1. p.new.tenant = t
      BY <2>2, <2>4 DEF Changed
    <3>2. i \in 1 .. Len(subscriptions) /\ subscriptions[i] \in Row
      BY <1>2, CandidatesAreRows, RowTypes
    <3>3. p \in Write
      BY <1>2, <1>3, <2>4, <3>2, ChangedIsRow DEF Write
    <3> QED
      BY <3>1, <3>3, NullAssumption
  <2>5. CASE p = [at |-> 0, old |-> NewRow(b), new |-> NewRow(b)]
    <3>1. p.new.tenant = t
      BY <2>1, <2>5 DEF NewRow
    <3>2. NewRow(b) \in Row
      BY <1>2, <1>3, <2>1 DEF NewRow, Row, EventBody
    <3>3. p \in Write
      BY <2>5, <3>2 DEF Write
    <3> QED
      BY <3>1, <3>3, NullAssumption
  <2> QED
    BY <1>3, <2>1, <2>3, <2>4, <2>5, LoadPlans
<1>4. OfTenant(t)' = OfTenant(t)
  BY <1>1, <1>2 DEF OfTenant
<1>5. UpsertCounted(w)'
  BY <1>1, <1>2, <1>3, <1>4 DEF UpsertCounted, Writes
<1>6. \A v \in Worker : UpsertCounted(v)'
  BY <1>5 DEF OneWorker
<1> QED
  BY <1>1, <1>6, UpsertsStay DEF UpsertsSafe

LEMMA CommitUpserts ==
    ASSUME OneWorker, TypeOK, TypeOK', RowsSafe, SerialSafe, UpsertsSafe,
           [Next]_vars, NEW w \in Worker, Commit(w)
    PROVE  UpsertsSafe'
<1> DEFINE b == BodyOf(w)  p == write[w]  n == Len(subscriptions)
<1>1. /\ pc[w] = "commit" /\ pc' = [pc EXCEPT ![w] = "reply"]
      /\ records' = [records EXCEPT ![job[w]] = "processed"]
  BY DEF Commit, Goto
<1>2. b = Body[job[w]] /\ job[w] \in Event /\ b' = b
  BY <1>1, BodyTypes DEF BodyOf, Commit
<1>3. ASSUME b.kind = "upsert", b.claims # NoTenant, Writes(w), p.new.tenant = b.claims
      PROVE  \E i \in OfTenant(b.claims)' : subscriptions'[i].stamp >= b.created
  <2>1. b.created \in Nat
    BY <1>2, EventTypes
  <2>2. CASE p.at = 0
    <3>1. n + 1 \in DOMAIN subscriptions' /\ subscriptions'[n + 1] = p.new /\ p.new.stamp = b.created
      BY <1>3, <2>2, SerialCommit, RowTypes
    <3>2. n + 1 \in OfTenant(b.claims)'
      BY <1>2, <1>3, <3>1 DEF OfTenant
    <3> QED
      BY <2>1, <3>1, <3>2
  <2>3. CASE p.at # 0
    <3>1. p.at \in 1 .. n /\ p.at \in DOMAIN subscriptions /\ p.at \in DOMAIN subscriptions'
      BY <1>3, <2>3, PlanTypes, RowTypes, TenantsStay
    <3>2. subscriptions'[p.at] = Changed(subscriptions[p.at], b)
      BY <1>3, <3>1, SerialCommit
    <3>3. subscriptions[p.at].tenant = b.claims
      BY <1>1, <1>3, <2>3 DEF SerialSafe, FreshPlan, Planned, RowsSafe, PlanFits
    <3>4. subscriptions'[p.at].tenant = b.claims /\ subscriptions'[p.at].stamp = b.created
      BY <3>2, <3>3 DEF Changed
    <3>5. p.at \in OfTenant(b.claims)'
      BY <1>2, <3>1, <3>4 DEF OfTenant
    <3> QED
      BY <2>1, <3>4, <3>5
  <2> QED
    BY <2>2, <2>3
<1>4. UpsertsCount'
  <2> SUFFICES ASSUME NEW e \in Event, records'[e] = "processed", Body[e].kind = "upsert",
                      Body[e].claims # NoTenant
               PROVE  \/ \E u \in Tenant \ {Body[e].claims} : customer'[u] = Body[e].customer
                      \/ \E i \in OfTenant(Body[e].claims)' :
                            subscriptions'[i].stamp >= Body[e].created
    BY DEF UpsertsCount
  <2>1. \/ \E u \in Tenant \ {Body[e].claims} : customer[u] = Body[e].customer
        \/ \E i \in OfTenant(Body[e].claims) : subscriptions[i].stamp >= Body[e].created
        \/ e = job[w] /\ Writes(w) /\ p.new.tenant = b.claims
    <3>1. CASE e = job[w]
      BY <1>1, <1>2, <3>1 DEF UpsertsSafe, UpsertCounted, Planned
    <3>2. CASE e # job[w]
      BY <1>1, <3>2 DEF TypeOK, UpsertsSafe, UpsertsCount
    <3> QED
      BY <3>1, <3>2
  <2> QED
    BY <1>2, <1>3, <2>1, CountedStays
<1>5. \A v \in Worker : UpsertCounted(v)'
  <2>1. \A v \in Worker : pc'[v] = "reply"
    BY <1>1 DEF OneWorker, TypeOK
  <2> QED
    BY <2>1 DEF UpsertCounted, Planned
<1> QED
  BY <1>4, <1>5 DEF UpsertsSafe

LEMMA UpsertsSafeKept ==
    OneWorker /\ OneCustomerPerTenant /\ TypeOK /\ TypeOK' /\ RowsSafe /\ SerialSafe
        /\ UpsertsSafe /\ [Next]_vars => UpsertsSafe'
<1> SUFFICES ASSUME OneWorker, OneCustomerPerTenant, TypeOK, TypeOK', RowsSafe, SerialSafe,
                    UpsertsSafe, [Next]_vars
             PROVE  UpsertsSafe'
  OBVIOUS
<1>1. CASE UNCHANGED vars
  <2>1. UNCHANGED <<records, pc, job, write>>
    BY <1>1 DEF vars, store
  <2> QED
    BY <2>1, UpsertsStay, CountedPlansStay DEF UpsertsSafe
<1>2. ASSUME NEW w \in Worker, Step(w) PROVE UpsertsSafe'
  BY <1>2, QuietUpserts, LoadUpserts, CommitUpserts DEF Step
<1> QED
  BY <1>1, <1>2, QuietUpserts DEF Next

\* In a single server process no customer.subscription.created or .updated is lost: once
\* it is processed, the tenant that its metadata names and that has its customer has a
\* row at least as new, whichever of the checkout's link, the events' order and the
\* fallback to the metadata came first.
THEOREM UpsertsAreNotLost ==
    ASSUME OneWorker, OneCustomerPerTenant PROVE Spec => []EveryUpsertCounts
<1> DEFINE Safe == TypeOK /\ RowsSafe /\ SerialSafe /\ UpsertsSafe
<1>1. Init => Safe
  <2>1. Init => UpsertsSafe
    BY DEF Init, UpsertsSafe, UpsertsCount, UpsertCounted, Planned
  <2> QED
    BY <2>1, InitTypeOK, InitRowsSafe, InitSerialSafe
<1>2. Safe /\ [Next]_vars => Safe'
  BY TypesKept, RowsSafeKept, SerialSafeKept, UpsertsSafeKept
<1>3. Safe => EveryUpsertCounts
  <2> SUFFICES ASSUME Safe, NEW e \in Event, records[e] = "processed",
                      Body[e].kind = "upsert", Body[e].claims # NoTenant,
                      customer[Body[e].claims] = Body[e].customer
               PROVE  \E i \in OfTenant(Body[e].claims) : subscriptions[i].stamp >= Body[e].created
    BY DEF EveryUpsertCounts
  <2>1. \A u \in Tenant \ {Body[e].claims} : customer[u] # Body[e].customer
    BY EventTypes DEF RowsSafe, CustomersDiffer
  <2> QED
    BY <2>1 DEF UpsertsSafe, UpsertsCount
<1> QED
  BY <1>1, <1>2, <1>3, PTL DEF Spec
-----------------------------------------------------------------------------
(* That a single worker implements the ledger of subscriptions, when a     *)
(* tenant has one customer.                                                *)

LEMMA BookOfRows ==
    ASSUME NEW rows \in Seq(Row),
           \A i, j \in DOMAIN rows : rows[i].tenant = rows[j].tenant => i = j
    PROVE  LET book == BookOf(rows) IN
           /\ book = [t \in DOMAIN book |-> book[t]]
           /\ DOMAIN book = {rows[i].tenant : i \in DOMAIN rows}
           /\ \A i \in DOMAIN rows :
                 /\ rows[i].tenant \in DOMAIN book
                 /\ book[rows[i].tenant] =
                       [sub |-> rows[i].sub, status |-> rows[i].status,
                        stamp |-> rows[i].stamp, cancelled_at |-> rows[i].cancelled_at]
<1> DEFINE book == BookOf(rows)
<1>1. /\ DOMAIN book = {rows[i].tenant : i \in DOMAIN rows}
      /\ book = [t \in DOMAIN book |-> book[t]]
  BY DEF BookOf
<1>2. ASSUME NEW i \in DOMAIN rows
      PROVE  /\ rows[i].tenant \in DOMAIN book
             /\ book[rows[i].tenant] =
                   [sub |-> rows[i].sub, status |-> rows[i].status,
                    stamp |-> rows[i].stamp, cancelled_at |-> rows[i].cancelled_at]
  <2>1. (CHOOSE j \in DOMAIN rows : rows[j].tenant = rows[i].tenant) = i
    OBVIOUS
  <2>2. rows[i].tenant \in DOMAIN book
    BY <1>1
  <2> QED
    BY <1>1, <2>1, <2>2 DEF BookOf
<1> QED
  BY <1>1, <1>2

\* A row that changes, or comes, is an entry in the book of its tenant.
LEMMA BookWithRow ==
    ASSUME NEW rows \in Seq(Row), NEW now \in Seq(Row), NEW k \in DOMAIN now,
           \A i, j \in DOMAIN rows : rows[i].tenant = rows[j].tenant => i = j,
           \A i, j \in DOMAIN now : now[i].tenant = now[j].tenant => i = j,
           DOMAIN now = DOMAIN rows \cup {k},
           \A i \in DOMAIN rows \ {k} : now[i] = rows[i],
           k \in DOMAIN rows => now[k].tenant = rows[k].tenant
    PROVE  LET t == now[k].tenant IN
           /\ BookOf(now) = [u \in DOMAIN BookOf(now) |-> BookOf(now)[u]]
           /\ DOMAIN BookOf(now) = DOMAIN BookOf(rows) \cup {t}
           /\ BookOf(now)[t] = [sub |-> now[k].sub, status |-> now[k].status,
                                stamp |-> now[k].stamp, cancelled_at |-> now[k].cancelled_at]
           /\ \A u \in DOMAIN BookOf(now) \ {t} : BookOf(now)[u] = BookOf(rows)[u]
<1> DEFINE t == now[k].tenant  old == BookOf(rows)  new == BookOf(now)
           E == [sub |-> now[k].sub, status |-> now[k].status,
                 stamp |-> now[k].stamp, cancelled_at |-> now[k].cancelled_at]
<1>1. /\ DOMAIN old = {rows[i].tenant : i \in DOMAIN rows}
      /\ \A i \in DOMAIN rows :
            old[rows[i].tenant] =
                 [sub |-> rows[i].sub, status |-> rows[i].status,
                  stamp |-> rows[i].stamp, cancelled_at |-> rows[i].cancelled_at]
  BY BookOfRows
<1>2. /\ new = [u \in DOMAIN new |-> new[u]]
      /\ DOMAIN new = {now[i].tenant : i \in DOMAIN now}
      /\ \A i \in DOMAIN now :
            new[now[i].tenant] =
                 [sub |-> now[i].sub, status |-> now[i].status,
                  stamp |-> now[i].stamp, cancelled_at |-> now[i].cancelled_at]
  BY BookOfRows
<1>3. new[t] = E
  BY <1>2
<1>4. ASSUME NEW i \in DOMAIN rows \ {k}
      PROVE  now[i].tenant = rows[i].tenant /\ new[rows[i].tenant] = old[rows[i].tenant]
  <2>1. now[i] = rows[i] /\ i \in DOMAIN now
    OBVIOUS
  <2>2. new[now[i].tenant] = [sub |-> now[i].sub, status |-> now[i].status,
                              stamp |-> now[i].stamp, cancelled_at |-> now[i].cancelled_at]
    BY <1>2, <2>1
  <2>3. old[rows[i].tenant] = [sub |-> rows[i].sub, status |-> rows[i].status,
                               stamp |-> rows[i].stamp, cancelled_at |-> rows[i].cancelled_at]
    BY <1>1
  <2> QED
    BY <2>1, <2>2, <2>3
<1>5. DOMAIN new = DOMAIN old \cup {t}
  BY <1>1, <1>2
<1>6. ASSUME NEW u \in DOMAIN new, u # t PROVE new[u] = old[u]
  <2>1. PICK i \in DOMAIN now : now[i].tenant = u
    BY <1>2
  <2>2. i \in DOMAIN rows \ {k}
    BY <1>6, <2>1
  <2> QED
    BY <1>4, <2>1, <2>2
<1> QED
  BY <1>2, <1>3, <1>5, <1>6

\* What the ledger's book says is what the rows say.
LEMMA BookIsRows ==
    ASSUME TypeOK, SerialSafe
    PROVE  LET book == BookOf(subscriptions) IN
           /\ book = [t \in DOMAIN book |-> book[t]]
           /\ \A t \in DOMAIN book : \E i \in DOMAIN subscriptions : subscriptions[i].tenant = t
           /\ \A i \in DOMAIN subscriptions :
                 /\ subscriptions[i].tenant \in DOMAIN book
                 /\ book[subscriptions[i].tenant].sub = subscriptions[i].sub
                 /\ book[subscriptions[i].tenant].status = subscriptions[i].status
                 /\ book[subscriptions[i].tenant].stamp = subscriptions[i].stamp
                 /\ book[subscriptions[i].tenant].cancelled_at = subscriptions[i].cancelled_at
<1> DEFINE book == BookOf(subscriptions)
<1>1. subscriptions \in Seq(Row)
  BY DEF TypeOK
<1>2. \A i, j \in DOMAIN subscriptions : subscriptions[i].tenant = subscriptions[j].tenant => i = j
  BY DEF SerialSafe, OneSubscriptionPerTenant
<1>3. /\ book = [t \in DOMAIN book |-> book[t]]
      /\ DOMAIN book = {subscriptions[i].tenant : i \in DOMAIN subscriptions}
      /\ \A i \in DOMAIN subscriptions :
            /\ subscriptions[i].tenant \in DOMAIN book
            /\ book[subscriptions[i].tenant] =
                  [sub |-> subscriptions[i].sub, status |-> subscriptions[i].status,
                   stamp |-> subscriptions[i].stamp, cancelled_at |-> subscriptions[i].cancelled_at]
  BY <1>1, <1>2, BookOfRows
<1>4. \A t \in DOMAIN book : \E i \in DOMAIN subscriptions : subscriptions[i].tenant = t
  BY <1>3
<1>5. ASSUME NEW i \in DOMAIN subscriptions
      PROVE  /\ book[subscriptions[i].tenant].sub = subscriptions[i].sub
             /\ book[subscriptions[i].tenant].status = subscriptions[i].status
             /\ book[subscriptions[i].tenant].stamp = subscriptions[i].stamp
             /\ book[subscriptions[i].tenant].cancelled_at = subscriptions[i].cancelled_at
  <2> HIDE DEF book
  <2>1. book[subscriptions[i].tenant] =
           [sub |-> subscriptions[i].sub, status |-> subscriptions[i].status,
            stamp |-> subscriptions[i].stamp, cancelled_at |-> subscriptions[i].cancelled_at]
    BY <1>3
  <2> QED
    BY <2>1
<1>6. book = [t \in DOMAIN book |-> book[t]] /\ \A i \in DOMAIN subscriptions : subscriptions[i].tenant \in DOMAIN book
  BY <1>3
<1> QED
  BY <1>4, <1>5, <1>6, Zenon

\* A tenant that has a row has a customer.
LEMMA SubscribersAreLinked ==
    ASSUME TypeOK, RowsSafe, NEW i \in DOMAIN subscriptions
    PROVE  subscriptions[i].tenant \in Tenant /\ customer[subscriptions[i].tenant] # NoCustomer
BY RowTypes, EventTypes DEF RowsSafe, RowsAreAbout

\* _resolve_tenant finds the one owner of an event.
LEMMA OwnerIsResolved ==
    ASSUME RowsSafe, NEW e \in Event
    PROVE  LET b == Body[e] IN
           Ledger!Owners(b) = IF Resolve(b) = NoTenant THEN {} ELSE {Resolve(b)}
<1> DEFINE b == Body[e]  holders == {t \in Tenant : customer[t] = b.customer}
<1>1. b.customer # NoCustomer /\ b.claims \in Tenant \cup {NoTenant}
  BY EventTypes
<1>2. \A t, u \in holders : t = u
  BY <1>1 DEF RowsSafe, CustomersDiffer
<1>3. CASE holders = {}
  <2>1. Resolve(b) = b.claims
    BY <1>3 DEF Resolve
  <2> QED
    BY <1>1, <1>3, <2>1, NullAssumption DEF Ledger!Owners
<1>4. ASSUME NEW h \in holders, b.claims \in {h, NoTenant}
      PROVE  Ledger!Owners(b) = IF Resolve(b) = NoTenant THEN {} ELSE {Resolve(b)}
  <2>1. Resolve(b) = CHOOSE t \in holders : TRUE
    BY <1>2, <1>4 DEF Resolve
  <2>2. Resolve(b) = h
    BY <1>2, <2>1
  <2>3. \A t \in Tenant : t \in Ledger!Owners(b) <=> t = h
    BY <1>2, <1>4 DEF Ledger!Owners
  <2>4. Ledger!Owners(b) \subseteq Tenant
    BY DEF Ledger!Owners
  <2> QED
    BY <2>2, <2>3, <2>4, NullAssumption
<1>5. ASSUME NEW h \in holders, b.claims \notin {h, NoTenant}
      PROVE  Ledger!Owners(b) = IF Resolve(b) = NoTenant THEN {} ELSE {Resolve(b)}
  <2>1. Resolve(b) = NoTenant
    BY <1>2, <1>5 DEF Resolve
  <2>2. \A t \in Tenant : t \notin Ledger!Owners(b)
    BY <1>2, <1>5 DEF Ledger!Owners
  <2>3. Ledger!Owners(b) \subseteq Tenant
    BY DEF Ledger!Owners
  <2> QED
    BY <2>1, <2>2, <2>3
<1> QED
  BY <1>3, <1>4, <1>5

LEMMA SubscribersHaveRows ==
    ASSUME TypeOK, SerialSafe, NEW s, NEW t
    PROVE  t \in Ledger!Subscribers(s) <=> \E i \in WithSub(s) : t = subscriptions[i].tenant
BY BookIsRows DEF Ledger!Subscribers, WithSub

\* A handler's candidate is the row of the tenant that the event concerns.
LEMMA ConcernedHaveCandidates ==
    ASSUME OneCustomerPerTenant, TypeOK, RowsSafe, SerialSafe, NEW e \in Event
    PROVE  LET b == Body[e] IN
           /\ \A i \in Candidates(b) :
                 /\ i \in DOMAIN subscriptions
                 /\ subscriptions[i].tenant \in Ledger!Concerned(b)
                 /\ \A j \in Candidates(b) : j = i
           /\ \A t \in Ledger!Concerned(b), i \in DOMAIN subscriptions :
                 subscriptions[i].tenant = t => i \in Candidates(b)
           /\ b.kind = "upsert" => Ledger!Concerned(b) = IF Resolve(b) = NoTenant THEN {}
                                                         ELSE {Resolve(b)}
<1> DEFINE b == Body[e]  t == Resolve(b)
<1>1. b \in EventBody
  BY EventTypes
<1>2. \A i, j \in DOMAIN subscriptions : subscriptions[i].tenant = subscriptions[j].tenant => i = j
  BY DEF SerialSafe, OneSubscriptionPerTenant
<1>3. \A i \in Candidates(b) : i \in DOMAIN subscriptions
  BY <1>1, CandidatesAreRows
<1>4. ASSUME NEW i \in WithSub(b.sub), NEW j \in WithSub(b.sub) PROVE i = j
  <2>1. /\ i \in DOMAIN subscriptions /\ subscriptions[i].sub = b.sub
        /\ j \in DOMAIN subscriptions /\ subscriptions[j].sub = b.sub
    BY DEF WithSub
  <2>2. subscriptions[i].tenant \in Tenant /\ subscriptions[j].tenant \in Tenant
    BY <2>1, SubscribersAreLinked
  <2>3. subscriptions[i].tenant = subscriptions[j].tenant
    BY <2>1, <2>2, RowsAreTheirs DEF RowsFollowCustomers
  <2> QED
    BY <1>2, <2>1, <2>3
<1>5. Ledger!Owners(b) = IF t = NoTenant THEN {} ELSE {t}
  BY OwnerIsResolved
<1>6. CASE b.kind = "upsert"
  <2>1. Ledger!Concerned(b) = Ledger!Owners(b)
    BY <1>6 DEF Ledger!Concerned, Ledger!Invoice
  <2>2. ASSUME NEW i \in Candidates(b) PROVE subscriptions[i].tenant = t /\ t # NoTenant
    <3>1. /\ i \in DOMAIN subscriptions /\ t # NoTenant
          /\ subscriptions[i].sub = b.sub \/ subscriptions[i].tenant = t
      BY <1>1, <1>6, CandidatesAreRows
    <3>2. CASE subscriptions[i].sub = b.sub
      <4>1. /\ subscriptions[i].tenant \in Tenant
            /\ customer[subscriptions[i].tenant] = b.customer
        BY <3>1, <3>2, SubscribersAreLinked, RowsAreTheirs DEF RowsFollowCustomers
      <4>2. customer[t] = b.customer /\ t \in Tenant
        BY <1>1, <3>1, <4>1, ResolveFinds
      <4> QED
        BY <3>1, <3>2, <4>2, RowsAreTheirs DEF RowsFollowCustomers
    <3> QED
      BY <3>1, <3>2
  <2>3. ASSUME t # NoTenant, NEW i \in DOMAIN subscriptions, subscriptions[i].tenant = t
        PROVE  i \in Candidates(b)
    <3>1. i \in OfTenant(t)
      BY <2>3 DEF OfTenant
    <3>2. PICK j \in Candidates(b) : TRUE
      BY <1>1, <1>6, <2>3, <3>1, CandidatesAreRows
    <3>3. i = j
      BY <1>2, <1>3, <2>2, <2>3, <3>2
    <3> QED
      BY <3>2, <3>3
  <2> QED
    BY <1>2, <1>3, <1>5, <2>1, <2>2, <2>3
<1>7. CASE b.kind = "deleted"
  <2>1. CASE WithSub(b.sub) # {}
    <3>1. Candidates(b) = WithSub(b.sub)
      BY <1>7, <2>1 DEF Candidates
    <3>2. Ledger!Concerned(b) = Ledger!Subscribers(b.sub)
      BY <1>7, <2>1, SubscribersHaveRows DEF Ledger!Concerned, Ledger!Invoice
    <3> QED
      BY <1>2, <1>3, <1>4, <1>7, <3>1, <3>2, SubscribersHaveRows
  <2>2. CASE WithSub(b.sub) = {}
    <3>1. Candidates(b) = OfTenant(t)
      BY <1>7, <2>2 DEF Candidates
    <3>2. Ledger!Subscribers(b.sub) = {}
      BY <2>2, SubscribersHaveRows
    <3>3. Ledger!Concerned(b) = Ledger!Owners(b)
      BY <1>7, <3>2 DEF Ledger!Concerned, Ledger!Invoice
    <3>4. \A i \in DOMAIN subscriptions : subscriptions[i].tenant \in Tenant
      BY SubscribersAreLinked
    <3> QED
      BY <1>2, <1>5, <1>7, <3>1, <3>3, <3>4, NullAssumption DEF OfTenant
  <2> QED
    BY <2>1, <2>2
<1>8. CASE b.kind \in {"paid", "unpaid"}
  <2>1. Candidates(b) = WithSub(b.sub)
    BY <1>8 DEF Candidates
  <2>2. Ledger!Concerned(b) = Ledger!Subscribers(b.sub)
    BY <1>8 DEF Ledger!Concerned, Ledger!Invoice
  <2> QED
    BY <1>2, <1>3, <1>4, <1>8, <2>1, <2>2, SubscribersHaveRows
<1>9. CASE b.kind = "other"
  BY <1>9 DEF Candidates, Ledger!Concerned, Ledger!Invoice
<1> QED
  BY <1>1, <1>6, <1>7, <1>8, <1>9 DEF EventBody

\* What a worker has decided is what the ledger allows, unless a checkout gave the
\* customer to another tenant meanwhile: then its flush fails.
Justified(w) ==
    LET b == BodyOf(w)  p == write[w] IN
    pc[w] \in Planned =>
        /\ ~Writes(w) => ~Links(w) /\ Ledger!MayDismiss(b)
        /\ Writes(w) =>
              /\ \/ p.new.tenant \in Ledger!Concerned(b)
                 \/ Links(w) /\ \E u \in Tenant \ {link[w]} : customer[u] = b.customer
              /\ Links(w) => b.kind = "upsert" /\ link[w] = p.new.tenant
              /\ b.kind = "upsert" /\ ~Links(w) => customer[p.new.tenant] = b.customer
              /\ p.at = 0 => p.new.cancelled_at = 0

LedgerSafe == IInv /\ RowsSafe /\ SerialSafe

\* A handler decides to write nothing when there is no row, or the event is stale.
LEMMA LoadDismisses ==
    ASSUME TypeOK, NEW w \in Worker, Load(w), write'[w] = NoWrite
    PROVE  LET b == BodyOf(w) IN
           /\ Candidates(b) = {} \/ \E i \in Candidates(b) : Ignored(subscriptions[i], b)
           /\ b.kind = "upsert" /\ Resolve(b) # NoTenant => Candidates(b) # {}
<1> DEFINE b == BodyOf(w)
<1>1. b \in EventBody
  BY BodyTypes DEF Load
<1>2. ASSUME NEW i \in Candidates(b),
             write' = [write EXCEPT ![w] =
                         IF Ignored(subscriptions[i], b) THEN NoWrite
                         ELSE [at |-> i, old |-> subscriptions[i],
                               new |-> Changed(subscriptions[i], b)]],
             ~Ignored(subscriptions[i], b)
      PROVE  FALSE
  <2>1. write'[w] = [at |-> i, old |-> subscriptions[i], new |-> Changed(subscriptions[i], b)]
    BY <1>2 DEF TypeOK
  <2>2. i \in 1 .. Len(subscriptions) /\ i \in Nat /\ subscriptions[i] \in Row
    BY <1>1, CandidatesAreRows, RowTypes
  <2>3. Changed(subscriptions[i], b) \in Row
    BY <1>1, <2>2, CandidatesAreRows, ChangedIsRow
  <2>4. write'[w] \in Write
    BY <2>1, <2>2, <2>3 DEF Write
  <2> QED
    BY <2>4, NullAssumption
<1>3. ASSUME b.kind = "upsert", Resolve(b) # NoTenant, Candidates(b) = {} PROVE FALSE
  <2>1. Resolve(b) \in Tenant
    BY <1>1, <1>3, ResolveFinds
  <2>2. write'[w] = [at |-> 0, old |-> NewRow(b), new |-> NewRow(b)]
    BY <1>3 DEF Load, TypeOK
  <2>3. NewRow(b) \in Row
    BY <1>1, <2>1 DEF NewRow, Row, EventBody
  <2>4. write'[w] \in Write
    BY <2>2, <2>3 DEF Write
  <2> QED
    BY <2>4, NullAssumption
<1> QED
  BY <1>2, <1>3 DEF Load

\* The ledger depends on the rows and the links.
LEMMA LedgerStays ==
    ASSUME UNCHANGED <<subscriptions, customer>>, NEW b
    PROVE  /\ Ledger!Concerned(b)' = Ledger!Concerned(b)
           /\ Ledger!MayDismiss(b)' <=> Ledger!MayDismiss(b)
BY DEF Ledger!Concerned, Ledger!MayDismiss, Ledger!Stale, Ledger!Owners, Ledger!Subscribers,
       Ledger!Invoice

LEMMA LoadJustified ==
    ASSUME OneCustomerPerTenant, LedgerSafe, LedgerSafe', [Next]_vars,
           NEW w \in Worker, Load(w)
    PROVE  Justified(w)'
<1> USE DEF LedgerSafe, IInv
<1>1. pc[w] # "idle" /\ UNCHANGED <<subscriptions, customer, job>>
  BY DEF Load, store
<1>2. PICK e \in Event : e = job[w]
  BY <1>1, BodyTypes
<1> DEFINE b == Body[e]  p == write'[w]  t == Resolve(b)
<1>3. BodyOf(w) = b /\ BodyOf(w)' = b /\ b \in EventBody
  BY <1>1, <1>2, EventTypes DEF BodyOf
<1>4. Ledger!Concerned(b)' = Ledger!Concerned(b) /\ (Ledger!MayDismiss(b)' <=> Ledger!MayDismiss(b))
  BY <1>1, LedgerStays
<1>5. /\ link'[w] = IF b.kind = "upsert" /\ t # NoTenant /\ customer[t] = NoCustomer
                    THEN t ELSE NoTenant
      /\ t \in Tenant \cup {NoTenant}
  <2>1. t \in Tenant \cup {NoTenant}
    BY <1>3, ResolveFinds
  <2>2. link'[w] = IF BodyOf(w).kind = "upsert" /\ Resolve(BodyOf(w)) # NoTenant
                         /\ customer[Resolve(BodyOf(w))] = NoCustomer
                   THEN Resolve(BodyOf(w)) ELSE NoTenant
    BY LoadPlans
  <2> QED
    BY <1>3, <2>1, <2>2
<1>6. t # NoTenant => customer[t] = b.customer \/ customer[t] = NoCustomer
  <2>1. t # NoTenant => customer[t] = b.customer \/ t = b.claims
    BY <1>3, ResolveFinds
  <2> QED
    BY <2>1 DEF RowsSafe, LinkedAsClaimed
<1>7. \A i \in Candidates(b) : /\ i \in DOMAIN subscriptions
                               /\ subscriptions[i].tenant \in Ledger!Concerned(b)
                               /\ \A j \in Candidates(b) : j = i
  BY ConcernedHaveCandidates
<1>8. \A i \in DOMAIN subscriptions : subscriptions[i].tenant \in Ledger!Concerned(b) =>
                                       i \in Candidates(b)
  BY ConcernedHaveCandidates
<1>9. b.kind = "upsert" => Ledger!Concerned(b) = IF t = NoTenant THEN {} ELSE {t}
  BY ConcernedHaveCandidates
<1>10. b.kind = "upsert" /\ Candidates(b) # {} => link'[w] = NoTenant /\ t # NoTenant /\
                                                   customer[t] = b.customer
  <2> SUFFICES ASSUME b.kind = "upsert", NEW i \in Candidates(b)
               PROVE  link'[w] = NoTenant /\ t # NoTenant /\ customer[t] = b.customer
    OBVIOUS
  <2>1. subscriptions[i].tenant = t /\ t # NoTenant
    BY <1>7, <1>9
  <2>2. customer[t] # NoCustomer
    BY <1>7, <2>1, SubscribersAreLinked
  <2> QED
    BY <1>5, <1>6, <2>1, <2>2
<1>11. CASE p = NoWrite
  <2>1. /\ Candidates(b) = {} \/ \E i \in Candidates(b) : Ignored(subscriptions[i], b)
        /\ b.kind = "upsert" /\ t # NoTenant => Candidates(b) # {}
    BY <1>3, <1>11, LoadDismisses
  <2>2. ASSUME NEW u \in Ledger!Concerned(b)
        PROVE  \/ Ledger!Stale(u, b)
               \/ u \notin DOMAIN BookOf(subscriptions) /\ (b.kind = "upsert" => b.claims = NoTenant)
    <3>1. ASSUME NEW i \in Candidates(b), Ignored(subscriptions[i], b), u = subscriptions[i].tenant
          PROVE  Ledger!Stale(u, b)
      BY <1>7, <3>1, BookIsRows DEF Ledger!Stale, Ledger!Invoice, Ignored, Invoice
    <3>2. u \in DOMAIN BookOf(subscriptions) =>
             \E i \in Candidates(b) : Ignored(subscriptions[i], b) /\ u = subscriptions[i].tenant
      <4> SUFFICES ASSUME u \in DOMAIN BookOf(subscriptions)
                   PROVE  \E i \in Candidates(b) : Ignored(subscriptions[i], b) /\ u = subscriptions[i].tenant
        OBVIOUS
      <4>1. PICK i \in DOMAIN subscriptions : subscriptions[i].tenant = u
        BY BookIsRows
      <4> QED
        BY <1>7, <1>8, <2>1, <2>2, <4>1
    <3>3. b.kind = "upsert" => u \in DOMAIN BookOf(subscriptions)
      BY <1>7, <1>9, <2>1, <2>2, BookIsRows
    <3> QED
      BY <3>1, <3>2, <3>3
  <2>3. Ledger!MayDismiss(b)
    BY <2>2 DEF Ledger!MayDismiss
  <2>4. link'[w] = NoTenant
    BY <1>5, <1>10, <2>1
  <2> QED
    BY <1>3, <1>4, <1>11, <2>3, <2>4 DEF Justified, Writes, Links
<1>12. ASSUME NEW i \in Candidates(b),
              p = [at |-> i, old |-> subscriptions[i], new |-> Changed(subscriptions[i], b)],
              p # NoWrite
       PROVE  Justified(w)'
  <2>1. p.at # 0 /\ p.new.tenant = subscriptions[i].tenant
    BY <1>3, <1>12, CandidatesAreRows DEF Changed
  <2>2. p.new.tenant \in Ledger!Concerned(b)
    BY <1>7, <2>1
  <2>3. link'[w] = NoTenant
    BY <1>5, <1>10
  <2>4. b.kind = "upsert" => customer[p.new.tenant] = b.customer
    BY <1>9, <1>10, <2>2
  <2> QED
    BY <1>1, <1>3, <1>4, <1>12, <2>1, <2>2, <2>3, <2>4 DEF Justified, Links, Writes
<1>13. CASE /\ b.kind = "upsert" /\ t # NoTenant
            /\ p = [at |-> 0, old |-> NewRow(b), new |-> NewRow(b)]
  <2>1. p.new.tenant = t /\ p.new.cancelled_at = 0
    BY <1>13 DEF NewRow
  <2>2. t \in Ledger!Concerned(b)
    BY <1>9, <1>13
  <2>3. p # NoWrite
    <3>1. NewRow(b) \in Row
      BY <1>3, <1>5, <1>13 DEF NewRow, Row, EventBody
    <3>2. p \in Write
      BY <1>13, <3>1 DEF Write
    <3> QED
      BY <3>2, NullAssumption
  <2> QED
    BY <1>1, <1>3, <1>4, <1>5, <1>6, <1>13, <2>1, <2>2, <2>3 DEF Justified, Links, Writes
<1> QED
  BY <1>3, <1>11, <1>12, <1>13, LoadPlans

\* A checkout links a tenant without a row to a customer that nobody has.
LEMMA CheckoutHolds ==
    ASSUME LedgerSafe, LinkCustomer
    PROVE  \E t \in Tenant : \E c \in CreatedFor[t] :
              /\ customer[t] = NoCustomer /\ \A u \in Tenant : customer[u] # c
              /\ customer' = [customer EXCEPT ![t] = c]
              /\ \A u \in Tenant : customer'[u] = IF u = t THEN c ELSE customer[u]
              /\ t \notin DOMAIN BookOf(subscriptions)
<1>1. PICK t \in Tenant : \E c \in CreatedFor[t] :
          /\ customer[t] = NoCustomer /\ \A u \in Tenant : customer[u] # c
          /\ customer' = [customer EXCEPT ![t] = c]
  BY DEF LinkCustomer
<1>2. PICK c \in CreatedFor[t] : /\ \A u \in Tenant : customer[u] # c
                                 /\ customer' = [customer EXCEPT ![t] = c]
  BY <1>1
<1>3. \A u \in Tenant : customer'[u] = IF u = t THEN c ELSE customer[u]
  BY <1>2 DEF LedgerSafe, IInv, TypeOK
<1>4. t \notin DOMAIN BookOf(subscriptions)
  BY <1>1, BookIsRows, SubscribersAreLinked DEF LedgerSafe, IInv
<1> QED
  BY <1>1, <1>2, <1>3, <1>4

LEMMA DismissalsStay ==
    ASSUME LedgerSafe, LinkCustomer, NEW e \in Event, Ledger!MayDismiss(Body[e])
    PROVE  Ledger!MayDismiss(Body[e])'
<1> DEFINE b == Body[e]  book == BookOf(subscriptions)
<1>0. PICK t \in Tenant : \E c \in CreatedFor[t] :
          /\ customer[t] = NoCustomer /\ \A u \in Tenant : customer[u] # c
          /\ \A u \in Tenant : customer'[u] = IF u = t THEN c ELSE customer[u]
          /\ t \notin DOMAIN book
  BY CheckoutHolds
<1>1. PICK c \in CreatedFor[t] :
          /\ customer[t] = NoCustomer /\ \A u \in Tenant : customer[u] # c
          /\ \A u \in Tenant : customer'[u] = IF u = t THEN c ELSE customer[u]
          /\ t \notin DOMAIN book
  BY <1>0
<1>2. UNCHANGED subscriptions
  BY DEF LinkCustomer
<1>3. /\ Ledger!Subscribers(b.sub)' = Ledger!Subscribers(b.sub)
      /\ \A u : Ledger!Stale(u, b)' <=> Ledger!Stale(u, b)
  BY <1>2 DEF Ledger!Subscribers, Ledger!Stale, Ledger!Invoice
<1>4. b.customer # NoCustomer
  BY EventTypes
<1>5. ASSUME NEW u \in Ledger!Owners(b)', u \notin Ledger!Owners(b)
      PROVE  u = t /\ b.claims = NoTenant
  <2>1. u \in Tenant
    BY DEF Ledger!Owners
  <2>2. CASE customer'[u] = b.customer /\ b.claims \in {u, NoTenant}
    <3>1. u = t /\ c = b.customer
      BY <1>1, <1>5, <2>1, <2>2 DEF Ledger!Owners
    <3>2. b.claims # t
      BY <1>1, <1>5, <3>1 DEF Ledger!Owners
    <3> QED
      BY <2>2, <3>1, <3>2
  <2>3. CASE u = b.claims /\ \A v \in Tenant : customer'[v] # b.customer
    <3>1. \A v \in Tenant : customer[v] # b.customer
      BY <1>1, <1>4, <2>3
    <3> QED
      BY <1>5, <2>1, <2>3, <3>1 DEF Ledger!Owners
  <2> QED
    BY <2>2, <2>3 DEF Ledger!Owners
<1>6. ASSUME NEW u \in Ledger!Concerned(b)'
      PROVE  \/ Ledger!Stale(u, b)
             \/ u \notin DOMAIN book /\ (b.kind = "upsert" => b.claims = NoTenant)
  <2>1. \/ u \in Ledger!Concerned(b)
        \/ u \in Ledger!Owners(b)' /\ u \notin Ledger!Owners(b)
    BY <1>3 DEF Ledger!Concerned, Ledger!Invoice
  <2> QED
    BY <1>1, <1>5, <2>1 DEF Ledger!MayDismiss
<1> QED
  BY <1>2, <1>3, <1>6 DEF Ledger!MayDismiss

LEMMA EntriesStay ==
    ASSUME LedgerSafe, LinkCustomer, NEW e \in Event, NEW t \in Ledger!Concerned(Body[e])
    PROVE  LET b == Body[e] IN
           \/ t \in Ledger!Concerned(b)'
           \/ /\ b.kind \in {"upsert", "deleted"} /\ t = b.claims
              /\ customer[t] # b.customer
              /\ \E u \in Tenant \ {t} : customer'[u] = b.customer
<1> DEFINE b == Body[e]
<1>0. PICK x \in Tenant : \E c \in CreatedFor[x] :
          /\ customer[x] = NoCustomer /\ \A u \in Tenant : customer[u] # c
          /\ \A u \in Tenant : customer'[u] = IF u = x THEN c ELSE customer[u]
  BY CheckoutHolds
<1>1. PICK c \in CreatedFor[x] :
          /\ customer[x] = NoCustomer /\ \A u \in Tenant : customer[u] # c
          /\ \A u \in Tenant : customer'[u] = IF u = x THEN c ELSE customer[u]
  BY <1>0
<1>2. UNCHANGED subscriptions
  BY DEF LinkCustomer
<1>3. Ledger!Subscribers(b.sub)' = Ledger!Subscribers(b.sub)
  BY <1>2 DEF Ledger!Subscribers
<1>4. b.customer # NoCustomer
  BY EventTypes
<1>5. CASE t \in Ledger!Owners(b)
  <2>1. t \in Tenant
    BY <1>5 DEF Ledger!Owners
  <2>2. CASE customer[t] = b.customer /\ b.claims \in {t, NoTenant}
    <3>1. customer'[t] = b.customer
      BY <1>1, <1>4, <2>1, <2>2
    <3>2. t \in Ledger!Owners(b)'
      BY <2>1, <2>2, <3>1 DEF Ledger!Owners
    <3> QED
      BY <1>3, <1>5, <3>2 DEF Ledger!Concerned, Ledger!Invoice
  <2>3. CASE t = b.claims /\ \A u \in Tenant : customer[u] # b.customer
    <3>1. \/ t \in Ledger!Owners(b)'
          \/ \E u \in Tenant \ {t} : customer'[u] = b.customer
      BY <1>1, <2>1, <2>3 DEF Ledger!Owners
    <3> QED
      BY <1>3, <1>5, <2>1, <2>3, <3>1 DEF Ledger!Concerned, Ledger!Invoice
  <2> QED
    BY <1>5, <2>2, <2>3 DEF Ledger!Owners
<1>6. CASE t \notin Ledger!Owners(b)
  BY <1>3, <1>6 DEF Ledger!Concerned, Ledger!Invoice
<1> QED
  BY <1>5, <1>6

LEMMA CheckoutJustified ==
    ASSUME LedgerSafe, [Next]_vars, LinkCustomer, NEW w \in Worker, Justified(w)
    PROVE  Justified(w)'
<1> USE DEF LedgerSafe, IInv
<1> SUFFICES ASSUME pc[w] \in Planned PROVE Justified(w)'
  BY DEF Justified, LinkCustomer
<1>1. UNCHANGED <<subscriptions, pc, job, write, link>>
  BY DEF LinkCustomer
<1>2. PICK e \in Event : e = job[w]
  BY BodyTypes DEF Planned
<1> DEFINE b == Body[e]  p == write[w]  t == p.new.tenant
<1>3. BodyOf(w) = b /\ BodyOf(w)' = b /\ b.customer # NoCustomer
  BY <1>1, <1>2, EventTypes DEF BodyOf
<1>4. (Writes(w)' <=> Writes(w)) /\ (Links(w)' <=> Links(w))
  BY <1>1 DEF Writes, Links
<1>5. CASE ~Writes(w)
  <2>1. ~Links(w) /\ Ledger!MayDismiss(b)
    BY <1>3, <1>5 DEF Justified
  <2>2. Ledger!MayDismiss(b)'
    BY <2>1, DismissalsStay
  <2> QED
    BY <1>3, <1>4, <1>5, <2>1, <2>2 DEF Justified
<1>6. CASE Writes(w)
  <2>1. /\ \/ t \in Ledger!Concerned(b)
           \/ Links(w) /\ \E u \in Tenant \ {link[w]} : customer[u] = b.customer
        /\ Links(w) => b.kind = "upsert" /\ link[w] = t
        /\ b.kind = "upsert" /\ ~Links(w) => customer[t] = b.customer
        /\ p.at = 0 => p.new.cancelled_at = 0
    BY <1>3, <1>6 DEF Justified
  <2>2. t \in Tenant
    BY <1>6, PlanTypes
  <2>3. b.kind = "upsert" /\ ~Links(w) => customer'[t] = b.customer
    BY <1>3, <2>1, <2>2, LinksStay
  <2>4. \A u \in Tenant : customer[u] = b.customer => customer'[u] = b.customer
    BY <1>3, LinksStay
  <2>5. CASE t \in Ledger!Concerned(b)
    <3>1. CASE t \in Ledger!Concerned(b)'
      BY <1>1, <1>3, <1>4, <1>6, <2>1, <2>3, <3>1 DEF Justified
    <3>2. CASE /\ b.kind \in {"upsert", "deleted"} /\ t = b.claims
               /\ customer[t] # b.customer
               /\ \E u \in Tenant \ {t} : customer'[u] = b.customer
      <4>1. p.at # 0 => customer[t] = b.customer
        <5> SUFFICES ASSUME p.at # 0 PROVE customer[t] = b.customer
          OBVIOUS
        <5>1. p.at \in DOMAIN subscriptions /\ p.new.tenant = p.old.tenant
          BY <1>6, PlanTypes, RowTypes DEF RowsSafe, PlanFits
        <5>2. subscriptions[p.at].tenant = t
          BY <1>6, <5>1 DEF SerialSafe, FreshPlan
        <5>3. customer[t] # NoCustomer
          BY <5>1, <5>2, SubscribersAreLinked
        <5> QED
          BY <2>2, <3>2, <5>3, NullAssumption DEF RowsSafe, LinkedAsClaimed
      <4>2. b.kind = "upsert"
        BY <1>3, <1>6, <3>2, <4>1 DEF SerialSafe, FreshPlan
      <4>3. Links(w) /\ link[w] = t
        BY <2>1, <3>2, <4>2
      <4> QED
        BY <1>1, <1>3, <1>4, <2>1, <2>3, <3>2, <4>2, <4>3 DEF Justified
    <3> QED
      BY <2>5, <3>1, <3>2, EntriesStay
  <2>6. CASE Links(w) /\ \E u \in Tenant \ {link[w]} : customer[u] = b.customer
    BY <1>1, <1>3, <1>4, <2>1, <2>3, <2>4, <2>6 DEF Justified
  <2> QED
    BY <2>1, <2>5, <2>6
<1> QED
  BY <1>5, <1>6

LEMMA InitJustified == Init => \A w \in Worker : Justified(w)
BY DEF Init, Justified, Planned

LEMMA JustifiedKept ==
    OneWorker /\ OneCustomerPerTenant /\ LedgerSafe /\ LedgerSafe'
        /\ (\A w \in Worker : Justified(w)) /\ [Next]_vars => (\A w \in Worker : Justified(w))'
<1> SUFFICES ASSUME OneWorker, OneCustomerPerTenant, LedgerSafe, LedgerSafe',
                    \A w \in Worker : Justified(w), [Next]_vars, NEW w \in Worker
             PROVE  Justified(w)'
  OBVIOUS
<1>1. CASE LinkCustomer
  BY <1>1, CheckoutJustified
<1>2. CASE Load(w)
  BY <1>2, LoadJustified
<1>3. ASSUME pc'[w] \in Planned => pc[w] \in Planned,
             UNCHANGED <<subscriptions, customer, job, write, link>>
      PROVE  Justified(w)'
  <2> SUFFICES ASSUME pc'[w] \in Planned PROVE Justified(w)'
    BY DEF Justified
  <2>1. PICK e \in Event : e = job[w]
    BY <1>3, BodyTypes DEF Planned, LedgerSafe, IInv
  <2>2. BodyOf(w) = Body[e] /\ BodyOf(w)' = Body[e]
    BY <1>3, <2>1 DEF BodyOf
  <2>3. /\ Ledger!Concerned(Body[e])' = Ledger!Concerned(Body[e])
        /\ Ledger!MayDismiss(Body[e])' <=> Ledger!MayDismiss(Body[e])
    BY <1>3, LedgerStays
  <2> QED
    BY <1>3, <2>2, <2>3 DEF Justified, Writes, Links
<1>4. CASE UNCHANGED vars \/ Flush(w)
  <2>1. /\ pc'[w] \in Planned => pc[w] \in Planned
        /\ UNCHANGED <<subscriptions, customer, job, write, link>>
    BY <1>4 DEF vars, store, Flush, Planned
  <2> QED
    BY <1>3, <2>1
<1>5. CASE \/ \E e \in Event : Deliver(w, e)
           \/ Lookup(w) \/ Claim(w) \/ Commit(w) \/ Reply(w) \/ Rollback(w)
           \/ Raise(w) \/ Crash(w)
  <2>1. pc'[w] \notin Planned
    BY <1>5 DEF LedgerSafe, IInv, TypeOK, Planned, Deliver, Lookup, Claim, Commit, Reply, Rollback,
                Raise, Crash, Finish, Goto
  <2> QED
    BY <2>1 DEF Justified
<1> QED
  BY <1>1, <1>2, <1>4, <1>5 DEF Next, Step, OneWorker

\* What a commit does to the book: it enters the event, or leaves the book alone.
LEMMA CommitBook ==
    ASSUME TypeOK, SerialSafe, SerialSafe', TypeOK', RowsSafe, NEW w \in Worker, Commit(w),
           Writes(w), write[w].at = 0 => write[w].new.cancelled_at = 0,
           NEW e \in Event, e = job[w]
    PROVE  LET t == write[w].new.tenant  book == BookOf(subscriptions) IN
           /\ write[w].at = 0 => t \notin DOMAIN book /\ Body[e].kind = "upsert"
           /\ write[w].at # 0 => t \in DOMAIN book
           /\ ~Ledger!Stale(t, Body[e])
           /\ BookOf(subscriptions)' =
                 [u \in DOMAIN book \cup {t} |-> IF u = t THEN Ledger!Entry(t, Body[e]) ELSE book[u]]
<1> DEFINE b == Body[e]  p == write[w]  t == p.new.tenant  n == Len(subscriptions)
           book == BookOf(subscriptions)  next == BookOf(subscriptions')
<1>1. BodyOf(w) = b /\ b \in EventBody /\ pc[w] = "commit"
  BY EventTypes DEF BodyOf, Commit
<1>2. /\ DOMAIN subscriptions' = IF p.at = 0 THEN 1 .. n + 1 ELSE 1 .. n
      /\ \A i \in 1 .. n : IF p.at = i
                           THEN /\ ~Ignored(subscriptions[i], b) /\ b.kind # "other"
                                /\ subscriptions'[i] = Changed(subscriptions[i], b)
                           ELSE subscriptions'[i] = subscriptions[i]
      /\ p.at = 0 => /\ b.kind = "upsert" /\ OfTenant(t) = {}
                     /\ subscriptions'[n + 1] = p.new
                     /\ p.new.stamp = b.created /\ p.new.status = b.status
  BY <1>1, SerialCommit
<1>3. n \in Nat /\ DOMAIN subscriptions = 1 .. n /\ p.at \in 0 .. n
  BY RowTypes, PlanTypes
<1>4. /\ book = [u \in DOMAIN book |-> book[u]]
      /\ \A u \in DOMAIN book : \E i \in 1 .. n : subscriptions[i].tenant = u
      /\ \A i \in 1 .. n : /\ subscriptions[i].tenant \in DOMAIN book
                           /\ book[subscriptions[i].tenant].sub = subscriptions[i].sub
                           /\ book[subscriptions[i].tenant].status = subscriptions[i].status
                           /\ book[subscriptions[i].tenant].stamp = subscriptions[i].stamp
                           /\ book[subscriptions[i].tenant].cancelled_at = subscriptions[i].cancelled_at
  BY <1>3, BookIsRows
<1> DEFINE k == IF p.at = 0 THEN n + 1 ELSE p.at
<1>5. /\ k \in DOMAIN subscriptions' /\ DOMAIN subscriptions' = DOMAIN subscriptions \cup {k}
      /\ \A i \in DOMAIN subscriptions \ {k} : subscriptions'[i] = subscriptions[i]
      /\ p.at # 0 => subscriptions'[k] = Changed(subscriptions[k], b) /\ ~Ignored(subscriptions[k], b)
      /\ p.at = 0 => subscriptions'[k] = p.new /\ k \notin DOMAIN subscriptions
  BY <1>2, <1>3
<1>6. subscriptions'[k].tenant = t /\ (p.at # 0 => subscriptions[k].tenant = t)
  <2>1. CASE p.at = 0
    BY <1>5, <2>1
  <2>2. CASE p.at # 0
    <3>1. p.new = Changed(subscriptions[k], b) /\ subscriptions'[k] = p.new
      BY <1>1, <1>5, <2>2 DEF SerialSafe, FreshPlan, Planned
    <3> QED
      BY <2>2, <3>1 DEF Changed
  <2> QED
    BY <2>1, <2>2
<1>7. /\ p.at = 0 => t \notin DOMAIN book
      /\ p.at # 0 => /\ t \in DOMAIN book /\ book[t].sub = subscriptions[k].sub
                     /\ book[t].stamp = subscriptions[k].stamp
                     /\ book[t].status = subscriptions[k].status
                     /\ book[t].cancelled_at = subscriptions[k].cancelled_at
  BY <1>2, <1>3, <1>4, <1>6 DEF OfTenant
<1>8. ~Ledger!Stale(t, b)
  BY <1>5, <1>7 DEF Ledger!Stale, Ledger!Invoice, Ignored, Invoice
<1>9. /\ subscriptions'[k].sub = IF b.kind = "upsert" THEN b.sub ELSE book[t].sub
      /\ subscriptions'[k].status = Ledger!StatusAfter(b)
      /\ subscriptions'[k].stamp = b.created
      /\ subscriptions'[k].cancelled_at = IF b.kind = "deleted" THEN b.created
                                          ELSE IF t \in DOMAIN book THEN book[t].cancelled_at ELSE 0
  <2>1. CASE p.at = 0
    <3>1. p.new.sub = b.sub
      BY <1>1, <2>1 DEF RowsSafe, PlanFits, Planned
    <3>2. Ledger!StatusAfter(b) = b.status
      BY <1>2, <2>1 DEF Ledger!StatusAfter
    <3> QED
      BY <1>2, <1>5, <1>7, <2>1, <3>1, <3>2
  <2>2. CASE p.at # 0
    <3>1. StatusAfter(b) = Ledger!StatusAfter(b)
      BY DEF StatusAfter, Ledger!StatusAfter
    <3> QED
      BY <1>5, <1>7, <2>2, <3>1 DEF Changed
  <2> QED
    BY <2>1, <2>2
<1>10. Ledger!Entry(t, b) = [sub |-> subscriptions'[k].sub, status |-> subscriptions'[k].status,
                             stamp |-> subscriptions'[k].stamp,
                             cancelled_at |-> subscriptions'[k].cancelled_at]
  BY <1>9 DEF Ledger!Entry
<1>11. next = [u \in DOMAIN book \cup {t} |-> IF u = t THEN Ledger!Entry(t, b) ELSE book[u]]
  <2>1. PICK rows, now, i, E, bk :
           /\ rows \in Seq(Row) /\ now \in Seq(Row)
           /\ rows = subscriptions /\ now = subscriptions' /\ i = k
           /\ bk = book /\ E = Ledger!Entry(t, b)
    BY DEF TypeOK
  <2> HIDE DEF book, next, k, t, b
  <2>2. /\ \A x, y \in DOMAIN rows : rows[x].tenant = rows[y].tenant => x = y
        /\ \A x, y \in DOMAIN now : now[x].tenant = now[y].tenant => x = y
    BY <2>1 DEF SerialSafe, OneSubscriptionPerTenant
  <2>3. /\ i \in DOMAIN now /\ DOMAIN now = DOMAIN rows \cup {i}
        /\ \A x \in DOMAIN rows \ {i} : now[x] = rows[x]
        /\ i \in DOMAIN rows => now[i].tenant = rows[i].tenant
        /\ now[i].tenant = t
    BY <1>5, <1>6, <2>1
  <2>4. /\ BookOf(now) = [u \in DOMAIN BookOf(now) |-> BookOf(now)[u]]
        /\ DOMAIN BookOf(now) = DOMAIN BookOf(rows) \cup {now[i].tenant}
        /\ BookOf(now)[now[i].tenant] =
              [sub |-> now[i].sub, status |-> now[i].status,
               stamp |-> now[i].stamp, cancelled_at |-> now[i].cancelled_at]
        /\ \A u \in DOMAIN BookOf(now) \ {now[i].tenant} : BookOf(now)[u] = BookOf(rows)[u]
    <3>0. rows \in Seq(Row) /\ now \in Seq(Row)
      BY <2>1
    <3>1. i \in DOMAIN now /\ DOMAIN now = DOMAIN rows \cup {i}
      BY <2>3
    <3>2. \A x \in DOMAIN rows \ {i} : now[x] = rows[x]
      BY <2>3
    <3>3. i \in DOMAIN rows => now[i].tenant = rows[i].tenant
      BY <2>3
    <3> QED
      BY <2>2, <3>0, <3>1, <3>2, <3>3, BookWithRow, Zenon
  <2>5. BookOf(now)[t] = E
    BY <1>10, <2>1, <2>3, <2>4
  <2>6. BookOf(rows) = bk /\ BookOf(now) = next
    BY <2>1 DEF book, next
  <2> QED
    BY <2>1, <2>3, <2>4, <2>5, <2>6
<1> QED
  BY <1>2, <1>7, <1>8, <1>11

LEMMA CommitSettles ==
    ASSUME LedgerSafe, LedgerSafe', NEW w \in Worker, Justified(w), Commit(w)
    PROVE  \E e \in Event : Ledger!Dismiss(e) \/ \E t \in Tenant : Ledger!Enter(e, t)
<1> USE DEF LedgerSafe, IInv
<1>1. PICK e \in Event : e = job[w]
  BY BodyTypes DEF Commit
<1> DEFINE b == Body[e]  p == write[w]  t == p.new.tenant
<1>2. /\ BodyOf(w) = b /\ pc[w] = "commit" /\ UNCHANGED acked
      /\ customer' = [u \in Tenant |-> IF link[w] = u THEN b.customer ELSE customer[u]]
  BY <1>1 DEF BodyOf, Commit
<1>3. e \notin Settled /\ Settled' = Settled \cup {e}
  <2>1. records[e] = "none"
    BY <1>1, <1>2 DEF EventsSafe, OneDeliveryAtATime, Handling
  <2>2. records' = [records EXCEPT ![e] = "processed"]
    BY <1>1 DEF Commit
  <2> QED
    BY <2>1, <2>2 DEF Settled, TypeOK
<1>4. customer = [u \in Tenant |-> customer[u]]
  BY DEF TypeOK
<1>5. CASE ~Writes(w)
  <2>1. ~Links(w) /\ Ledger!MayDismiss(b)
    BY <1>2, <1>5 DEF Justified, Planned
  <2>2. UNCHANGED subscriptions
    BY <1>5 DEF Commit
  <2>3. UNCHANGED customer
    BY <1>2, <1>4, <2>1, NullAssumption DEF Links
  <2> QED
    BY <1>2, <1>3, <2>1, <2>2, <2>3 DEF Ledger!Dismiss, Settled
<1>6. CASE Writes(w)
  <2>1. /\ \/ t \in Ledger!Concerned(b)
           \/ Links(w) /\ \E u \in Tenant \ {link[w]} : customer[u] = b.customer
        /\ Links(w) => b.kind = "upsert" /\ link[w] = t
        /\ b.kind = "upsert" /\ ~Links(w) => customer[t] = b.customer
        /\ p.at = 0 => p.new.cancelled_at = 0
    BY <1>2, <1>6 DEF Justified, Planned
  <2>2. t \in Ledger!Concerned(b) /\ t \in Tenant
    BY <1>2, <1>6, <2>1, PlanTypes DEF RowsSafe, NewLinks
  <2>3. /\ t \in DOMAIN BookOf(subscriptions) \/ b.kind = "upsert"
        /\ ~Ledger!Stale(t, b)
        /\ BookOf(subscriptions)' =
              [u \in DOMAIN BookOf(subscriptions) \cup {t} |->
                  IF u = t THEN Ledger!Entry(t, b) ELSE BookOf(subscriptions)[u]]
    BY <1>1, <1>6, <2>1, CommitBook
  <2>4. customer' = IF b.kind = "upsert" THEN [customer EXCEPT ![t] = b.customer] ELSE customer
    <3>1. CASE b.kind = "upsert"
      BY <1>2, <1>4, <2>1, <2>2, <3>1, NullAssumption DEF Links
    <3>2. CASE b.kind # "upsert"
      BY <1>2, <1>4, <2>1, <3>2, NullAssumption DEF Links
    <3> QED
      BY <3>1, <3>2
  <2>5. PICK x \in Tenant : x = t
    BY <2>2
  <2>6. Ledger!Enter(e, x)
    BY <1>2, <1>3, <2>2, <2>3, <2>4, <2>5 DEF Ledger!Enter, Settled
  <2> QED
    BY <2>6
<1> QED
  BY <1>5, <1>6

\* Every step of one worker, and of a checkout, is a step of the ledger or none.
LEMMA StepSettles ==
    ASSUME LedgerSafe, LedgerSafe', \A w \in Worker : Justified(w), [Next]_vars
    PROVE  [Ledger!LedgerNext]_(Ledger!ledgerVars)
<1> SUFFICES Ledger!LedgerNext \/ UNCHANGED Ledger!ledgerVars
  OBVIOUS
<1>1. CASE UNCHANGED vars
  BY <1>1 DEF vars, store, Ledger!ledgerVars, Settled
<1>2. CASE LinkCustomer
  <2>1. PICK t \in Tenant : \E c \in CreatedFor[t] :
           /\ customer[t] = NoCustomer /\ \A u \in Tenant : customer[u] # c
           /\ customer' = [customer EXCEPT ![t] = c]
    BY <1>2 DEF LinkCustomer
  <2>2. PICK c \in CreatedFor[t] : /\ \A u \in Tenant : customer[u] # c
                                   /\ customer' = [customer EXCEPT ![t] = c]
    BY <2>1
  <2>3. Ledger!Hold(t, c)
    BY <1>2, <2>1, <2>2 DEF Ledger!Hold, LinkCustomer, Settled
  <2> QED
    BY <2>3 DEF Ledger!LedgerNext
<1>3. ASSUME NEW w \in Worker, Commit(w) PROVE Ledger!LedgerNext
  BY <1>3, CommitSettles DEF Ledger!LedgerNext
<1>4. ASSUME NEW w \in Worker, Reply(w) PROVE Ledger!LedgerNext
  <2>1. PICK e \in Event : e = job[w]
    BY <1>4, BodyTypes DEF Reply, LedgerSafe, IInv
  <2>2. records[e] = "processed" /\ acked' = acked \cup {e}
    BY <1>4, <2>1 DEF Reply, LedgerSafe, IInv, EventsSafe, OneDeliveryAtATime
  <2>3. UNCHANGED store
    BY <1>4 DEF Reply
  <2>4. Ledger!Tell(e)
    BY <2>2, <2>3 DEF Ledger!Tell, store, Settled
  <2> QED
    BY <2>4 DEF Ledger!LedgerNext
<1>5. ASSUME NEW w \in Worker,
             \/ \E e \in Event : Deliver(w, e)
             \/ Lookup(w) \/ Claim(w) \/ Load(w) \/ Flush(w) \/ Rollback(w)
             \/ Raise(w) \/ Crash(w)
      PROVE  UNCHANGED Ledger!ledgerVars
  BY <1>5 DEF Deliver, Lookup, Claim, Load, Flush, Rollback, Raise, Crash, store,
              Ledger!ledgerVars, Settled
<1> QED
  BY <1>1, <1>2, <1>3, <1>4, <1>5 DEF Next, Step

\* A single server process implements the ledger of subscriptions: its lookups, claims,
\* reads, flushes, failures and crashes, the redeliveries of Stripe and the checkouts that
\* link customers in between amount to events that are settled once and one at a time.
THEOREM OneWorkerIsALedger ==
    ASSUME OneWorker, OneCustomerPerTenant PROVE Spec => ImplementsLedger
<1> DEFINE Safe == LedgerSafe /\ \A w \in Worker : Justified(w)
<1>1. Init => Safe
  BY InitIInv, InitRowsSafe, InitSerialSafe, InitJustified DEF LedgerSafe
<1>2. Safe /\ [Next]_vars => Safe'
  <2>1. Safe /\ [Next]_vars => LedgerSafe'
    BY IInvKept, RowsSafeKept, SerialSafeKept DEF LedgerSafe, IInv
  <2> QED
    BY <2>1, JustifiedKept
<1>3. Init => Ledger!LedgerInit
  <2> SUFFICES ASSUME Init PROVE Ledger!LedgerInit
    OBVIOUS
  <2>1. subscriptions = << >> /\ DOMAIN subscriptions = {}
    BY DEF Init
  <2>2. BookOf(subscriptions) = << >>
    BY <2>1 DEF BookOf
  <2> QED
    BY <2>2 DEF Init, Ledger!LedgerInit, Settled
<1>4. Safe /\ Safe' /\ [Next]_vars => [Ledger!LedgerNext]_(Ledger!ledgerVars)
  BY StepSettles
<1> HIDE DEF Safe
<1> QED
  BY <1>1, <1>2, <1>3, <1>4, PTL DEF Spec, ImplementsLedger, Ledger!LedgerSpec
====
