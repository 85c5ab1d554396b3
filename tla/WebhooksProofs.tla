---------------------------- MODULE WebhooksProofs ----------------------------
(***************************************************************************)
(* Proofs about Webhooks, for any workers, events, tenants, customers and  *)
(* subscriptions, and any number of faults.                                *)
(*                                                                         *)
(* First what holds of events, whatever they say: one transaction at a     *)
(* time has an event's row, so each is applied once.  Then what holds of   *)
(* rows when a tenant has one customer.  Last, what holds when a single    *)
(* worker handles all events.                                              *)
(***************************************************************************)
EXTENDS Webhooks, FiniteSetTheorems, WellFoundedInduction, TLAPS

Handling == {"load", "flush", "commit"}       \* its transaction has the event's row
Planned  == {"flush", "commit"}               \* its handler has decided what to write

OneDeliveryAtATime ==
    /\ \A w \in Worker : pc[w] \in Handling => records[job[w]] = "none"
    /\ \A w \in Worker : pc[w] = "reply" => records[job[w]] = "processed"
    /\ \A v, w \in Worker :
          v # w /\ pc[v] \in Handling /\ pc[w] \in Handling => job[v] # job[w]

\* The branches of process_webhook_event for a row left 'processing' or 'failed'
\* have nothing to do: no transaction commits one.
RecordsAreFinal == \A e \in Event : records[e] # "failed"

EventsSafe == OneDeliveryAtATime /\ AppliedOnce /\ AckedIsProcessed /\ RecordsAreFinal

IInv == TypeOK /\ EventsSafe
-----------------------------------------------------------------------------
(* Types.                                                                  *)

\* What an UPDATE leaves is a row.
LEMMA WrittenIsRow ==
    ASSUME TypeOK, NEW w \in Worker, Writes(w)
    PROVE  Written(w) \in Row
<1>1. write[w] \in Write /\ write[w].at \in 0 .. Len(subscriptions)
  BY DEF TypeOK, Writes
<1>2. CASE write[w].at = 0
  BY <1>1, <1>2 DEF Written, Write
<1>3. CASE write[w].at # 0
  <2> DEFINE now == subscriptions[write[w].at]
             r == [f \in DOMAIN now |-> IF write[w].new[f] # write[w].old[f]
                                        THEN write[w].new[f] ELSE now[f]]
  <2>1. now \in Row /\ write[w].new \in Row
    BY <1>1, <1>3 DEF TypeOK, Write
  <2>2. r = [tenant |-> r.tenant, sub |-> r.sub, status |-> r.status, stamp |-> r.stamp,
             cancelled_at |-> r.cancelled_at]
    BY <2>1 DEF Row
  <2>3. /\ r.tenant \in Tenant /\ r.sub \in SubId /\ r.status \in Status
        /\ r.stamp \in Nat /\ r.cancelled_at \in Nat
    BY <2>1 DEF Row
  <2>4. r \in Row
    BY <2>2, <2>3 DEF Row
  <2> QED
    BY <1>3, <2>4 DEF Written
<1> QED
  BY <1>2, <1>3

LEMMA BodyTypes ==
    ASSUME TypeOK, NEW w \in Worker, pc[w] # "idle"
    PROVE  /\ job[w] \in Event /\ BodyOf(w) \in EventBody
           /\ BodyOf(w).created \in Nat /\ BodyOf(w).sub \in SubId
           /\ BodyOf(w).status \in Status /\ BodyOf(w).customer \in Customer
           /\ BodyOf(w).claims \in Tenant \cup {NoTenant}
<1>1. job[w] \in Event
  BY DEF TypeOK
<1>2. BodyOf(w) \in EventBody
  BY <1>1, BodyAssumption DEF BodyOf
<1> QED
  BY <1>1, <1>2 DEF EventBody

\* _resolve_tenant finds a tenant that has the customer or, when none has, the one
\* that the metadata names; it never contradicts the metadata.
LEMMA ResolveFinds ==
    ASSUME NEW b \in EventBody
    PROVE  /\ Resolve(b) \in Tenant \cup {NoTenant}
           /\ Resolve(b) # NoTenant =>
                 \/ customer[Resolve(b)] = b.customer
                 \/ Resolve(b) = b.claims /\ \A t \in Tenant : customer[t] # b.customer
           /\ Resolve(b) = NoTenant /\ b.claims # NoTenant =>
                 \E t \in Tenant \ {b.claims} : customer[t] = b.customer
<1> DEFINE holders == {t \in Tenant : customer[t] = b.customer}
<1>1. CASE holders = {}
  <2>1. Resolve(b) = b.claims
    BY <1>1 DEF Resolve
  <2> QED
    BY <1>1, <2>1 DEF EventBody
<1>2. CASE holders # {} /\ b.claims \in holders \cup {NoTenant}
  <2>1. Resolve(b) = CHOOSE t \in holders : TRUE
    BY <1>2 DEF Resolve
  <2>2. Resolve(b) \in holders
    BY <1>2, <2>1
  <2> QED
    BY <2>2, NullAssumption
<1>3. CASE holders # {} /\ b.claims \notin holders \cup {NoTenant}
  <2>1. Resolve(b) = NoTenant
    BY <1>3 DEF Resolve
  <2> QED
    BY <1>3, <2>1
<1> QED
  BY <1>1, <1>2, <1>3

LEMMA MaxExists ==
    ASSUME NEW n \in Nat, NEW S \in SUBSET (1 .. n), S # {}
    PROVE  Max(S) \in S /\ \A i \in S : i <= Max(S)
<1> DEFINE After == {(i + 1) .. n : i \in S}
<1>1. After \subseteq SUBSET (1 .. n) /\ After # {}
  <2>1. \A i \in S : (i + 1) .. n \subseteq 1 .. n
    OBVIOUS
  <2> QED
    BY <2>1
<1>2. IsFiniteSet(1 .. n)
  BY FS_Interval
<1>3. IsWellFoundedOn(StrictSubsetOrdering(1 .. n), SUBSET (1 .. n))
  BY <1>2, FS_StrictSubsetOrderingWellFounded, FS_FiniteSubsetsOfFinite
<1>4. PICK x \in After : \A y \in After : ~(<<y, x>> \in StrictSubsetOrdering(1 .. n))
  BY <1>1, <1>3, WFMin
<1>5. \A y \in After : ~(y \subseteq x /\ y # x)
  BY <1>1, <1>4 DEF StrictSubsetOrdering
<1>6. PICK i \in S : x = (i + 1) .. n
  BY DEF After
<1>7. ASSUME NEW j \in S, j > i PROVE FALSE
  <2>1. (j + 1) .. n \subseteq x /\ j \in x /\ j \notin (j + 1) .. n
    BY <1>6, <1>7
  <2> QED
    BY <1>5, <2>1
<1>8. \A j \in S : i >= j
  BY <1>7
<1> QED
  BY <1>8 DEF Max

\* A handler finds a row that has the event's subscription or belongs to the event's
\* tenant, and none only if there is none.
LEMMA CandidatesAreRows ==
    ASSUME TypeOK, NEW b \in EventBody
    PROVE  /\ \A i \in Candidates(b) :
                 /\ i \in DOMAIN subscriptions /\ i \in 1 .. Len(subscriptions)
                 /\ b.kind # "other"
                 /\ \/ subscriptions[i].sub = b.sub
                    \/ /\ Resolve(b) # NoTenant /\ b.kind \in {"upsert", "deleted"}
                       /\ subscriptions[i].tenant = Resolve(b)
                 /\ b.kind = "upsert" => Resolve(b) # NoTenant
           /\ b.kind = "upsert" /\ Resolve(b) # NoTenant /\ Candidates(b) = {} =>
                 WithSub(b.sub) = {} /\ OfTenant(Resolve(b)) = {}
<1>1. Len(subscriptions) \in Nat /\ DOMAIN subscriptions = 1 .. Len(subscriptions)
  BY DEF TypeOK
<1>2. OfTenant(NoTenant) = {}
  <2>1. \A i \in 1 .. Len(subscriptions) : subscriptions[i] \in Row
    BY DEF TypeOK
  <2>2. \A i \in 1 .. Len(subscriptions) : subscriptions[i].tenant \in Tenant
    BY <2>1 DEF Row
  <2> QED
    BY <1>1, <2>2, NullAssumption DEF OfTenant
<1>3. CASE b.kind = "upsert" /\ Resolve(b) # NoTenant
  <2> DEFINE rows == WithSub(b.sub) \cup OfTenant(Resolve(b))
  <2>1. Candidates(b) = IF rows = {} THEN {} ELSE {Max(rows)}
    BY <1>3 DEF Candidates
  <2>2. rows \subseteq 1 .. Len(subscriptions)
    BY <1>1 DEF WithSub, OfTenant
  <2>3. rows # {} => Max(rows) \in rows
    BY <1>1, <2>2, MaxExists
  <2>4. \A i \in Candidates(b) : i \in rows
    BY <2>1, <2>3
  <2>5. Candidates(b) = {} => rows = {}
    BY <2>1
  <2> HIDE DEF rows
  <2> QED
    BY <1>1, <1>3, <2>2, <2>4, <2>5 DEF WithSub, OfTenant, rows
<1>4. CASE b.kind = "upsert" /\ Resolve(b) = NoTenant
  BY <1>4 DEF Candidates
<1>5. CASE b.kind = "deleted"
  <2>1. Candidates(b) = IF WithSub(b.sub) # {} THEN WithSub(b.sub) ELSE OfTenant(Resolve(b))
    BY <1>5 DEF Candidates
  <2> QED
    BY <1>1, <1>2, <1>5, <2>1 DEF WithSub, OfTenant
<1>6. CASE b.kind \in {"paid", "unpaid"}
  <2>1. Candidates(b) = WithSub(b.sub)
    BY <1>6 DEF Candidates
  <2> QED
    BY <1>1, <1>6, <2>1 DEF WithSub
<1>7. CASE b.kind = "other"
  <2>1. Candidates(b) = {}
    BY <1>7 DEF Candidates
  <2> QED
    BY <1>7, <2>1
<1> QED
  BY <1>3, <1>4, <1>5, <1>6, <1>7 DEF EventBody

LEMMA ChangedIsRow ==
    ASSUME NEW r \in Row, NEW b \in EventBody, b.kind # "other"
    PROVE  Changed(r, b) \in Row
<1>1. StatusAfter(b) \in Status
  BY DEF StatusAfter, EventBody, Status
<1> QED
  BY <1>1 DEF Changed, Row, EventBody

\* What a handler plans: nothing, the change of a row that it found and that is older
\* than the event, or a row for the tenant of a new subscription.
LEMMA LoadPlans ==
    ASSUME TypeOK, NEW w \in Worker, Load(w)
    PROVE  LET b == BodyOf(w)  p == write'[w]  t == Resolve(b) IN
           /\ \/ /\ p = NoWrite
                 /\ b.kind = "upsert" /\ t # NoTenant =>
                       \E i \in Candidates(b) : Ignored(subscriptions[i], b)
              \/ \E i \in Candidates(b) :
                    /\ p = [at |-> i, old |-> subscriptions[i], new |-> Changed(subscriptions[i], b)]
                    /\ ~Ignored(subscriptions[i], b)
              \/ /\ b.kind = "upsert" /\ t # NoTenant /\ Candidates(b) = {}
                 /\ p = [at |-> 0, old |-> NewRow(b), new |-> NewRow(b)]
           /\ link'[w] = IF b.kind = "upsert" /\ t # NoTenant /\ customer[t] = NoCustomer
                         THEN t ELSE NoTenant
           /\ \A v \in Worker \ {w} : write'[v] = write[v] /\ link'[v] = link[v]
BY DEF Load, TypeOK

LEMMA InitTypeOK == Init => TypeOK
<1> SUFFICES ASSUME Init PROVE TypeOK
  OBVIOUS
<1>1. subscriptions \in Seq(Row) /\ log \in Seq([event : Event, row : Nat])
  BY DEF Init
<1>2. faults \in 0 .. MaxFaults
  BY FaultAssumption DEF Init
<1>3. \A w \in Worker : ~Writes(w)
  BY DEF Init, Writes
<1> QED
  BY <1>1, <1>2, <1>3 DEF Init, TypeOK

\* A worker goes on with its event.
LEMMA GoOnTypes ==
    ASSUME TypeOK, NEW w \in Worker, pc[w] # "idle", UNCHANGED <<subscriptions, job, write, link>>,
           NEW l \in {"lookup", "claim", "load", "flush", "commit", "reply", "failed", "rollback"},
           Goto(w, l)
    PROVE  /\ pc' \in [Worker -> {"idle", "lookup", "claim", "load", "flush",
                                  "commit", "reply", "failed", "rollback"}]
           /\ \A v \in Worker : pc'[v] = "idle" <=> job'[v] = NoEvent
           /\ \A v \in Worker : Writes(v)' => write'[v].at \in 0 .. Len(subscriptions')
BY DEF TypeOK, Goto, Writes

LEMMA FinishTypes ==
    ASSUME TypeOK, NEW w \in Worker, Finish(w), UNCHANGED subscriptions
    PROVE  /\ pc' \in [Worker -> {"idle", "lookup", "claim", "load", "flush",
                                  "commit", "reply", "failed", "rollback"}]
           /\ job' \in [Worker -> Event \cup {NoEvent}]
           /\ write' \in [Worker -> Write \cup {NoWrite}]
           /\ link' \in [Worker -> Tenant \cup {NoTenant}]
           /\ \A v \in Worker : pc'[v] = "idle" <=> job'[v] = NoEvent
           /\ \A v \in Worker : Writes(v)' => write'[v].at \in 0 .. Len(subscriptions')
BY DEF TypeOK, Finish, Goto, Writes

LEMMA DeliverTypes ==
    ASSUME TypeOK, NEW w \in Worker, NEW e \in Event, Deliver(w, e)
    PROVE  TypeOK'
<1>1. UNCHANGED <<records, subscriptions, customer, write, link, acked, log, faults>>
  BY DEF Deliver, store
<1> QED
  BY <1>1, NullAssumption DEF Deliver, Goto, TypeOK, Writes

LEMMA ReadTypes ==
    ASSUME TypeOK, NEW w \in Worker, Lookup(w) \/ Claim(w) \/ Flush(w)
    PROVE  TypeOK'
<1>1. /\ UNCHANGED <<records, subscriptions, customer, job, write, link, acked, log, faults>>
      /\ pc[w] # "idle"
      /\ \E l \in {"claim", "load", "commit", "reply", "failed", "rollback"} : Goto(w, l)
  BY DEF Lookup, Claim, Flush, store
<1> QED
  BY <1>1, GoOnTypes DEF TypeOK

LEMMA RaiseTypes ==
    ASSUME TypeOK, NEW w \in Worker, Raise(w)
    PROVE  TypeOK'
<1>1. /\ UNCHANGED <<records, subscriptions, customer, job, write, link, acked, log>>
      /\ pc[w] # "idle" /\ Goto(w, "failed")
  BY DEF Raise, store
<1>2. faults' \in 0 .. MaxFaults
  BY FaultAssumption DEF Raise, TypeOK
<1> QED
  BY <1>1, <1>2, GoOnTypes DEF TypeOK

LEMMA EndTypes ==
    ASSUME TypeOK, NEW w \in Worker, Reply(w) \/ Rollback(w) \/ Crash(w)
    PROVE  TypeOK'
<1>1. UNCHANGED <<records, subscriptions, customer, log>> /\ Finish(w) /\ pc[w] # "idle"
  BY DEF Reply, Rollback, Crash, store
<1>2. acked' \subseteq Event
  BY <1>1 DEF Reply, Rollback, Crash, TypeOK
<1>3. faults' \in 0 .. MaxFaults
  BY FaultAssumption DEF Reply, Rollback, Crash, TypeOK
<1> QED
  BY <1>1, <1>2, <1>3, FinishTypes DEF TypeOK

LEMMA LoadTypes ==
    ASSUME TypeOK, NEW w \in Worker, Load(w)
    PROVE  TypeOK'
<1> DEFINE b == BodyOf(w)
<1>1. /\ UNCHANGED <<records, subscriptions, customer, job, acked, log, faults>>
      /\ pc[w] # "idle" /\ pc' = [pc EXCEPT ![w] = "flush"]
  BY DEF Load, Goto, store
<1>2. b \in EventBody
  BY <1>1, BodyTypes
<1>3. write'[w] # NoWrite => write'[w] \in Write /\ write'[w].at \in 0 .. Len(subscriptions)
  <2>1. CASE \E i \in Candidates(b) : write'[w] = [at |-> i, old |-> subscriptions[i],
                                                   new |-> Changed(subscriptions[i], b)]
    <3>1. PICK i \in Candidates(b) : write'[w] = [at |-> i, old |-> subscriptions[i],
                                                  new |-> Changed(subscriptions[i], b)]
      BY <2>1
    <3>2. i \in 1 .. Len(subscriptions) /\ b.kind # "other"
      BY <1>2, CandidatesAreRows
    <3>3. subscriptions[i] \in Row
      BY <3>2 DEF TypeOK
    <3> QED
      BY <1>2, <3>1, <3>2, <3>3, ChangedIsRow DEF Write
  <2>2. CASE Resolve(b) # NoTenant /\ write'[w] = [at |-> 0, old |-> NewRow(b), new |-> NewRow(b)]
    <3>1. NewRow(b) \in Row
      BY <1>2, <2>2, ResolveFinds DEF NewRow, Row, EventBody
    <3>2. Len(subscriptions) \in Nat
      BY DEF TypeOK
    <3> QED
      BY <2>2, <3>1, <3>2 DEF Write
  <2> QED
    BY <2>1, <2>2, LoadPlans
<1>4. link'[w] \in Tenant \cup {NoTenant}
  BY <1>2, LoadPlans, ResolveFinds
<1>5. /\ write' \in [Worker -> Write \cup {NoWrite}]
      /\ link' \in [Worker -> Tenant \cup {NoTenant}]
  <2>1. \E x : write' = [write EXCEPT ![w] = x]
    BY DEF Load
  <2>2. \E x : link' = [link EXCEPT ![w] = x]
    BY DEF Load
  <2>3. write' \in [Worker -> Write \cup {NoWrite}]
    BY <1>3, <2>1 DEF TypeOK
  <2> QED
    BY <1>4, <2>2, <2>3 DEF TypeOK
<1>6. \A v \in Worker : Writes(v)' => write'[v].at \in 0 .. Len(subscriptions')
  <2>1. \A v \in Worker \ {w} : write'[v] = write[v]
    BY LoadPlans
  <2>2. \A v \in Worker : Writes(v) => write[v].at \in 0 .. Len(subscriptions)
    BY DEF TypeOK
  <2> QED
    BY <1>1, <1>3, <2>1, <2>2 DEF Writes
<1> QED
  BY <1>1, <1>5, <1>6 DEF TypeOK

LEMMA CommitTypes ==
    ASSUME TypeOK, NEW w \in Worker, Commit(w)
    PROVE  TypeOK'
<1>1. /\ UNCHANGED <<job, write, link, acked, faults>> /\ pc[w] # "idle"
      /\ pc' = [pc EXCEPT ![w] = "reply"]
  BY DEF Commit, Goto
<1>2. job[w] \in Event /\ BodyOf(w).customer \in Customer
  BY <1>1, BodyTypes
<1>3. subscriptions \in Seq(Row) /\ Len(subscriptions) \in Nat
  BY DEF TypeOK
<1>4. subscriptions' \in Seq(Row) /\ Len(subscriptions') \in Nat
      /\ Len(subscriptions) <= Len(subscriptions')
  <2>1. CASE ~Writes(w)
    BY <1>3, <2>1 DEF Commit
  <2>2. CASE Writes(w) /\ write[w].at = 0
    <3>1. subscriptions' = Append(subscriptions, Written(w))
      BY <2>2 DEF Commit
    <3> QED
      BY <1>3, <2>2, <3>1, WrittenIsRow
  <2>3. CASE Writes(w) /\ write[w].at # 0
    <3>1. subscriptions' = [subscriptions EXCEPT ![write[w].at] = Written(w)]
      BY <2>3 DEF Commit
    <3>2. write[w].at \in 1 .. Len(subscriptions)
      BY <2>3 DEF TypeOK
    <3> QED
      BY <1>3, <2>3, <3>1, <3>2, WrittenIsRow
  <2> QED
    BY <2>1, <2>2, <2>3
<1>5. log' \in Seq([event : Event, row : Nat])
  <2>1. (IF ~Writes(w) THEN 0 ELSE IF write[w].at = 0 THEN Len(subscriptions) + 1
                                   ELSE write[w].at) \in Nat
    BY <1>3 DEF TypeOK
  <2>2. log \in Seq([event : Event, row : Nat])
    BY DEF TypeOK
  <2> QED
    BY <1>2, <2>1, <2>2 DEF Commit
<1>6. records' \in [Event -> {"none", "processed", "failed"}]
  BY DEF Commit, TypeOK
<1>7. customer' \in [Tenant -> Customer \cup {NoCustomer}]
  BY <1>2 DEF Commit, TypeOK
<1>8. \A v \in Worker : pc'[v] = "idle" <=> job'[v] = NoEvent
  BY <1>1 DEF TypeOK
<1>9. \A v \in Worker : Writes(v)' => write'[v].at \in 0 .. Len(subscriptions')
  BY <1>1, <1>3, <1>4 DEF Writes, TypeOK
<1> QED
  BY <1>1, <1>4, <1>5, <1>6, <1>7, <1>8, <1>9 DEF TypeOK

LEMMA LinkCustomerTypes ==
    ASSUME TypeOK, LinkCustomer
    PROVE  TypeOK'
<1>1. customer' \in [Tenant -> Customer \cup {NoCustomer}]
  <2>1. PICK t \in Tenant : \E c \in CreatedFor[t] : customer' = [customer EXCEPT ![t] = c]
    BY DEF LinkCustomer
  <2>2. CreatedFor[t] \subseteq Customer
    BY CustomerAssumption
  <2> QED
    BY <2>1, <2>2 DEF TypeOK
<1>2. UNCHANGED <<records, subscriptions, pc, job, write, link, acked, log, faults>>
  BY DEF LinkCustomer
<1> QED
  BY <1>1, <1>2 DEF TypeOK, Writes

LEMMA TypesKept == TypeOK /\ [Next]_vars => TypeOK'
<1> SUFFICES ASSUME TypeOK, [Next]_vars PROVE TypeOK'
  OBVIOUS
<1>1. CASE UNCHANGED vars
  BY <1>1 DEF vars, store, TypeOK, Writes
<1>2. ASSUME NEW w \in Worker, Step(w) PROVE TypeOK'
  BY <1>2, ReadTypes, LoadTypes, CommitTypes, EndTypes DEF Step
<1> QED
  BY <1>1, <1>2, DeliverTypes, RaiseTypes, EndTypes, LinkCustomerTypes DEF Next
-----------------------------------------------------------------------------
(* Events.                                                                 *)

\* A step that gives no worker an event's row, and ends no transaction, keeps the
\* transactions apart.
LEMMA NobodyStarts ==
    ASSUME OneDeliveryAtATime, UNCHANGED records,
           \A v \in Worker : pc'[v] \in Handling => pc[v] \in Handling /\ job'[v] = job[v],
           \A v \in Worker : pc'[v] = "reply" => pc[v] = "reply" /\ job'[v] = job[v]
    PROVE  OneDeliveryAtATime'
BY DEF OneDeliveryAtATime

LEMMA SameRecords ==
    ASSUME AppliedOnce, AckedIsProcessed, RecordsAreFinal, UNCHANGED <<records, log, acked>>
    PROVE  AppliedOnce' /\ AckedIsProcessed' /\ RecordsAreFinal'
BY DEF AppliedOnce, AckedIsProcessed, RecordsAreFinal

LEMMA QuietEvents ==
    ASSUME IInv, NEW w \in Worker,
           \/ \E e \in Event : Deliver(w, e)
           \/ Load(w) \/ Flush(w) \/ Rollback(w) \/ Raise(w) \/ Crash(w)
    PROVE  EventsSafe'
<1>1. UNCHANGED <<records, log, acked>>
  BY DEF Deliver, Load, Flush, Rollback, Raise, Crash, store
<1>2. \A v \in Worker : pc'[v] \in Handling => pc[v] \in Handling /\ job'[v] = job[v]
  BY DEF IInv, TypeOK, Handling, Deliver, Load, Flush, Rollback, Raise, Crash, Finish, Goto
<1>3. \A v \in Worker : pc'[v] = "reply" => pc[v] = "reply" /\ job'[v] = job[v]
  BY DEF IInv, TypeOK, Deliver, Load, Flush, Rollback, Raise, Crash, Finish, Goto
<1> QED
  BY <1>1, <1>2, <1>3, NobodyStarts, SameRecords DEF IInv, EventsSafe

LEMMA LookupEvents ==
    ASSUME IInv, NEW w \in Worker, Lookup(w)
    PROVE  EventsSafe'
<1>1. UNCHANGED <<records, job, log, acked>> /\ pc[w] = "lookup"
  BY DEF Lookup, store
<1>2. job[w] \in Event
  BY <1>1 DEF IInv, TypeOK
<1>3. records[job[w]] \in {"none", "processed"}
  BY <1>2 DEF IInv, TypeOK, EventsSafe, RecordsAreFinal
<1>4. pc' = [pc EXCEPT ![w] = IF records[job[w]] = "none" THEN "claim" ELSE "reply"]
  BY DEF Lookup, Goto
<1>5. OneDeliveryAtATime'
  BY <1>1, <1>3, <1>4 DEF IInv, TypeOK, EventsSafe, OneDeliveryAtATime, Handling
<1> QED
  BY <1>1, <1>5, SameRecords DEF IInv, EventsSafe

\* The INSERT of the event's row succeeds only when nobody else has one.
LEMMA ClaimEvents ==
    ASSUME IInv, NEW w \in Worker, Claim(w)
    PROVE  EventsSafe'
<1>1. /\ UNCHANGED <<records, job, log, acked>>
      /\ \A v \in Worker \ {w} : ~(job[v] = job[w] /\ pc[v] \in Handling)
      /\ pc' = [pc EXCEPT ![w] = IF records[job[w]] = "none" THEN "load" ELSE "rollback"]
  BY DEF Claim, Goto, store, Handling
<1>2. OneDeliveryAtATime'
  BY <1>1 DEF IInv, TypeOK, EventsSafe, OneDeliveryAtATime, Handling
<1> QED
  BY <1>1, <1>2, SameRecords DEF IInv, EventsSafe

LEMMA ReplyEvents ==
    ASSUME IInv, NEW w \in Worker, Reply(w)
    PROVE  EventsSafe'
<1>1. /\ UNCHANGED <<records, log>> /\ acked' = acked \cup {job[w]}
      /\ records[job[w]] = "processed"
  BY DEF Reply, store, IInv, EventsSafe, OneDeliveryAtATime
<1>2. \A v \in Worker : pc'[v] \in Handling => pc[v] \in Handling /\ job'[v] = job[v]
  BY DEF IInv, TypeOK, Handling, Reply, Finish, Goto
<1>3. \A v \in Worker : pc'[v] = "reply" => pc[v] = "reply" /\ job'[v] = job[v]
  BY DEF IInv, TypeOK, Reply, Finish, Goto
<1>4. AppliedOnce' /\ AckedIsProcessed' /\ RecordsAreFinal'
  BY <1>1 DEF IInv, EventsSafe, AppliedOnce, AckedIsProcessed, RecordsAreFinal
<1> QED
  BY <1>1, <1>2, <1>3, <1>4, NobodyStarts DEF IInv, EventsSafe

\* A commit records an event that had no record.
LEMMA CommitEvents ==
    ASSUME IInv, NEW w \in Worker, Commit(w)
    PROVE  EventsSafe'
<1>1. /\ UNCHANGED <<job, acked>> /\ pc[w] = "commit"
      /\ pc' = [pc EXCEPT ![w] = "reply"]
      /\ records' = [records EXCEPT ![job[w]] = "processed"]
  BY DEF Commit, Goto
<1>2. job[w] \in Event /\ records[job[w]] = "none"
  BY <1>1 DEF IInv, TypeOK, EventsSafe, OneDeliveryAtATime, Handling
<1>3. \A e \in Event : records'[e] = IF e = job[w] THEN "processed" ELSE records[e]
  BY <1>1 DEF IInv, TypeOK
<1>4. OneDeliveryAtATime'
  <2>1. \A v \in Worker : pc'[v] = IF v = w THEN "reply" ELSE pc[v]
    BY <1>1 DEF IInv, TypeOK
  <2>2. \A v \in Worker : v # w /\ pc[v] \in Handling => job[v] # job[w]
    BY <1>1 DEF IInv, EventsSafe, OneDeliveryAtATime, Handling
  <2>3. \A v \in Worker : pc[v] # "idle" => job[v] \in Event
    BY DEF IInv, TypeOK
  <2> QED
    BY <1>1, <1>2, <1>3, <2>1, <2>2, <2>3 DEF IInv, EventsSafe, OneDeliveryAtATime, Handling
<1>5. AppliedOnce'
  <2>1. PICK r : log' = Append(log, r) /\ r.event = job[w]
    BY DEF Commit
  <2>2. log \in Seq([event : Event, row : Nat]) /\ Len(log) \in Nat /\ DOMAIN log = 1 .. Len(log)
    BY DEF IInv, TypeOK
  <2>3. /\ DOMAIN log' = 1 .. Len(log) + 1
        /\ \A n \in 1 .. Len(log) : log'[n] = log[n]
        /\ log'[Len(log) + 1].event = job[w]
    BY <2>1, <2>2
  <2>4. \A n \in 1 .. Len(log) : log[n].event # job[w]
    BY <1>2, <2>2 DEF IInv, EventsSafe, AppliedOnce
  <2>5. \A m, n \in DOMAIN log' : log'[m].event = log'[n].event => m = n
    BY <2>2, <2>3, <2>4 DEF IInv, EventsSafe, AppliedOnce
  <2>6. \A e \in Event : records'[e] = "processed" <=> \E n \in DOMAIN log' : log'[n].event = e
    <3> SUFFICES ASSUME NEW e \in Event
                 PROVE  records'[e] = "processed" <=> \E n \in DOMAIN log' : log'[n].event = e
      OBVIOUS
    <3>1. CASE e = job[w]
      BY <1>3, <2>2, <2>3, <3>1
    <3>2. CASE e # job[w]
      <4>1. records[e] = "processed" <=> \E n \in 1 .. Len(log) : log[n].event = e
        BY <2>2 DEF IInv, EventsSafe, AppliedOnce
      <4> QED
        BY <1>3, <2>2, <2>3, <3>2, <4>1
    <3> QED
      BY <3>1, <3>2
  <2> QED
    BY <2>5, <2>6 DEF AppliedOnce
<1>6. AckedIsProcessed' /\ RecordsAreFinal'
  BY <1>1, <1>3 DEF IInv, TypeOK, EventsSafe, AckedIsProcessed, RecordsAreFinal
<1> QED
  BY <1>4, <1>5, <1>6 DEF EventsSafe

LEMMA LinkCustomerEvents ==
    ASSUME IInv, LinkCustomer
    PROVE  EventsSafe'
<1>1. UNCHANGED <<records, pc, job, log, acked>>
  BY DEF LinkCustomer
<1> QED
  BY <1>1, NobodyStarts, SameRecords DEF IInv, EventsSafe

LEMMA InitIInv == Init => IInv
<1> SUFFICES ASSUME Init PROVE EventsSafe
  BY InitTypeOK DEF IInv
<1>1. OneDeliveryAtATime
  BY DEF Init, OneDeliveryAtATime, Handling
<1> QED
  BY <1>1 DEF Init, EventsSafe, AppliedOnce, AckedIsProcessed, RecordsAreFinal

LEMMA IInvKept == IInv /\ [Next]_vars => IInv'
<1> SUFFICES ASSUME IInv, [Next]_vars PROVE EventsSafe'
  BY TypesKept DEF IInv
<1>1. CASE UNCHANGED vars
  <2>1. UNCHANGED <<records, pc, job, log, acked>>
    BY <1>1 DEF vars, store
  <2> QED
    BY <2>1, NobodyStarts, SameRecords DEF IInv, EventsSafe
<1>2. ASSUME NEW w \in Worker, Step(w) PROVE EventsSafe'
  BY <1>2, LookupEvents, ClaimEvents, QuietEvents, CommitEvents, ReplyEvents DEF Step
<1> QED
  BY <1>1, <1>2, QuietEvents, LinkCustomerEvents DEF Next

\* What the whole of Webhooks keeps, however many workers handle events and whatever the
\* events say: every variable has its type, one transaction at a time holds an event's
\* webhook_events row, and what is committed about events agrees with what was done.
THEOREM Invariance == Spec => []IInv
BY InitIInv, IInvKept, PTL DEF Spec

\* The type invariant: among others, a worker has an event exactly while it handles one,
\* and an UPDATE is of a row that exists.
THEOREM TypeCorrect == Spec => []TypeOK
BY Invariance, PTL DEF IInv

\* process_webhook_event applies an event once: however many workers get a delivery of it,
\* and wherever they fail, exactly the processed events were committed, one time each.
THEOREM EventsAreAppliedOnce == Spec => []AppliedOnce
BY Invariance, PTL DEF IInv, EventsSafe

\* The webhook route answers 200 only when the event is durably processed, so Stripe
\* never stops retrying an event that was lost.
THEOREM AcknowledgedIsProcessed == Spec => []AckedIsProcessed
BY Invariance, PTL DEF IInv, EventsSafe

\* No transaction commits the 'failed' row that process_webhook_event writes, because
\* the exception it raises makes the route roll back.
THEOREM NoFailedRecord == Spec => []RecordsAreFinal
BY Invariance, PTL DEF IInv, EventsSafe
====
