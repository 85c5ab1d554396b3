----------------------------- MODULE UsageLedger -----------------------------
(***************************************************************************)
(* What the metering core promises, with the database taken away.          *)
(*                                                                         *)
(* A tenant's quota of one usage type in one billing period is a set of    *)
(* numbered units.  Recording a usage event sells some units that nobody   *)
(* owns yet to one operation - a (tenant, idempotency key) pair - and an   *)
(* operation buys once.  Nothing is ever resold, returned or re-priced,    *)
(* and a caller is told of a sale only after it is made.  There are no     *)
(* threads, locks, savepoints or retries here: Metering has those, and is  *)
(* shown to implement this module.                                         *)
(***************************************************************************)
EXTENDS Naturals, FiniteSets

CONSTANTS
    Tenant, Key,        \* an operation is a tenant's idempotency key
    Payload,            \* request bodies, up to their SHA-256 hash
    UsageType,          \* 'api_call', 'token'
    Period,             \* billing months
    TypeOf, Quantity,   \* what a payload asks for
    Quotas,             \* the sizes a quota can be opened with
    NotSold, NotOpen

VARIABLES
    sold,               \* per operation, what it bought
    quota,              \* per account, its size once the first unit is sold
    told                \* the sales callers have been told of

ledgerVars == <<sold, quota, told>>

Operation == Tenant \X Key
Account   == Tenant \X UsageType \X Period

Sale == [payload : Payload, period : Period, units : SUBSET Nat]

SoldOf(a) ==
    {o \in Operation : /\ sold[o] # NotSold
                       /\ a = <<o[1], TypeOf[sold[o].payload], sold[o].period>>}

UnitsSold(a) == UNION {sold[o].units : o \in SoldOf(a)}

LedgerInit ==
    /\ sold  = [o \in Operation |-> NotSold]
    /\ quota = [a \in Account |-> NotOpen]
    /\ told  = {}

\* An operation that bought nothing yet buys as many free units as its payload
\* asks for.  The first sale of a period fixes the size of the account.
Sell(o, p, d) ==
    LET a == <<o[1], TypeOf[p], d>> IN
    /\ sold[o] = NotSold
    /\ \E size \in Quotas : \E units \in SUBSET (1 .. size) :
          /\ quota[a] \in {NotOpen, size}
          /\ Cardinality(units) = Quantity[p]
          /\ units \cap UnitsSold(a) = {}
          /\ sold'  = [sold EXCEPT ![o] = [payload |-> p, period |-> d, units |-> units]]
          /\ quota' = [quota EXCEPT ![a] = size]
    /\ UNCHANGED told

Tell(o) ==
    /\ sold[o] # NotSold
    /\ told' = told \cup {<<o, sold[o]>>}
    /\ UNCHANGED <<sold, quota>>

LedgerNext ==
    \E o \in Operation : \/ Tell(o)
                         \/ \E p \in Payload, d \in Period : Sell(o, p, d)

LedgerSpec == LedgerInit /\ [][LedgerNext]_ledgerVars
==============================================================================
