------------------------------ MODULE ServerProofs ------------------------------
(***************************************************************************)
(* Proofs about Server, for any number of requests and of tenants, and any *)
(* sizes of the pools.                                                     *)
(*                                                                         *)
(* Where a request is tells whether its session has a connection, and only *)
(* a request past all its waiting for connections, threads and rows has a  *)
(* lock.  So those who wait for a lock wait for somebody who can go on, but *)
(* for the refused request that needs the loop to do so.                   *)
(***************************************************************************)
EXTENDS Server, FiniteSetTheorems, TLAPS

ThreadLabel == {"connect", "authed", "route", "decide", "stripe", "open", "closed"}

HookLabel == {"hook_connect", "hook", "hook_commit"}

Label == {"new", "arrived", "ready", "teardown", "ended"} \cup ThreadLabel \cup HookLabel

InHouse == {r \in Request : pc[r] \notin {"new", "ended"}}

\* A request is served with authentication, and a connection, from its route on.
Served(r) == kind[r] \notin Hook \cup {"health"}

HasConnection(r) ==
    \/ pc[r] \in {"authed", "decide", "stripe", "open", "teardown", "hook", "hook_commit"}
    \/ pc[r] \in {"ready", "route"} /\ Served(r)

Rightful(r) ==
    /\ r \in conn <=> HasConnection(r)
    /\ pc[r] \in HookLabel => kind[r] \in Hook
    /\ pc[r] \in {"connect", "authed", "decide", "stripe"} => Served(r)
    /\ pc[r] = "route" => kind[r] \notin Hook
    /\ lock[r] # "none" => pc[r] \in {"decide", "stripe", "open", "teardown", "hook_commit"}

\* The loop is in the middle of one webhook, or of none.
OneHook == \A r, s \in Request : pc[r] \in HookLabel /\ pc[s] \in HookLabel => r = s

\* Who has the row of its tenant FOR UPDATE has it alone.
LocksFit ==
    \A r, s \in Request :
        r # s /\ tenant[r] = tenant[s] /\ lock[r] = "update" => lock[s] = "none"

IInv ==
    /\ TypeOK /\ OneHook /\ LocksFit /\ IsFiniteSet(InHouse)
    /\ \A r \in Request : Rightful(r)

\* The guards of Step: r can go on now.
CanStep(r) ==
    \/ pc[r] = "arrived" /\ LoopFree /\ FreeThread
    \/ pc[r] = "ready" /\ LoopFree /\ (kind[r] \notin Hook => FreeThread)
    \/ pc[r] \in {"authed", "open", "closed"} /\ LoopFree
    \/ pc[r] \in {"connect", "hook_connect"}
    \/ pc[r] = "route" /\ (kind[r] = "health" \/ Blockers(r) = {})
    \/ pc[r] = "hook" /\ Blockers(r) = {}
    \/ pc[r] \in {"decide", "stripe", "teardown", "hook_commit"}

\* The process does not come to a halt: while a request is in the house one of them can
\* go on, unless the loop is hung.
SomebodyGoesOn == InHouse # {} => Hung \/ \E r \in Request : CanStep(r)
-----------------------------------------------------------------------------
(* The lemmas.                                                             *)

LEMMA InThreadLabels == InThread = {r \in Request : pc[r] \in ThreadLabel}
BY DEF InThread, ThreadLabel

LEMMA Finite ==
    ASSUME IInv
    PROVE  /\ conn \subseteq InHouse /\ InThread \subseteq InHouse
           /\ IsFiniteSet(conn) /\ IsFiniteSet(InThread)
           /\ Cardinality(conn) \in Nat /\ Cardinality(InThread) \in Nat
           /\ Threads \in Nat \ {0} /\ Connections \in Nat \ {0}
<1>1. conn \subseteq InHouse
  BY DEF IInv, TypeOK, Rightful, HasConnection, InHouse
<1>2. InThread \subseteq InHouse
  BY DEF InThread, InHouse
<1> QED
  BY <1>1, <1>2, FS_Subset, FS_CardinalityType, PoolAssumption DEF IInv

LEMMA LoopIsFree == LoopFree <=> \A r \in Request : pc[r] \notin HookLabel
BY DEF LoopFree, HookLabel

LEMMA LockNames == \A r \in Request : Wanted(r) \in {"none", "share", "update"}
BY DEF Wanted

\* One more member, or none, and only when there is room for it.
LEMMA OneMore ==
    ASSUME NEW S, NEW T, NEW x, NEW n \in Nat, IsFiniteSet(S), T \subseteq S \cup {x},
           Cardinality(S) <= n, x \in S \/ x \notin T \/ Cardinality(S) < n
    PROVE  Cardinality(T) <= n
<1>1. Cardinality(S) \in Nat /\ IsFiniteSet(S \cup {x})
  BY FS_CardinalityType, FS_AddElement
<1>2. CASE x \in S \/ x \notin T
  <2>1. T \subseteq S
    BY <1>2
  <2>2. IsFiniteSet(T) /\ Cardinality(T) <= Cardinality(S) /\ Cardinality(T) \in Nat
    BY <2>1, FS_Subset, FS_CardinalityType
  <2> QED
    BY <1>1, <2>2
<1>3. CASE Cardinality(S) < n /\ x \notin S
  <2>1. Cardinality(S \cup {x}) = Cardinality(S) + 1
    BY <1>3, FS_AddElement
  <2>2. IsFiniteSet(T) /\ Cardinality(T) <= Cardinality(S \cup {x}) /\ Cardinality(T) \in Nat
    BY <1>1, FS_Subset, FS_CardinalityType
  <2> QED
    BY <1>1, <1>3, <2>1, <2>2
<1> QED
  BY <1>2, <1>3

\* A step of one request keeps the invariant when it takes a thread, a connection, a lock
\* or the loop only when it is free.
LEMMA StepKeeps ==
    ASSUME IInv, NEW r \in Request, NEW l \in Label, Goto(r, l), UNCHANGED <<kind, tenant>>,
           conn' \subseteq Request,
           lock' \in [Request -> {"none", "share", "update"}],
           \A q \in Request \ {r} : lock'[q] = lock[q] /\ (q \in conn' <=> q \in conn),
           Rightful(r)',
           l \in ThreadLabel => pc[r] \in ThreadLabel \/ FreeThread,
           r \in conn' => r \in conn \/ FreeConnection,
           l \in HookLabel => pc[r] \in HookLabel \/ LoopFree,
           \/ lock'[r] \in {lock[r], "none"}
           \/ lock'[r] = Wanted(r) /\ Blockers(r) = {}
    PROVE  IInv'
<1>1. /\ pc \in [Request -> Label] /\ pc' \in [Request -> Label] /\ pc'[r] = l
      /\ \A q \in Request \ {r} : pc'[q] = pc[q]
      /\ kind' \in [Request -> Kind] /\ tenant' \in [Request -> Tenant]
      /\ Cardinality(conn) <= Connections /\ Cardinality(InThread) <= Threads
      /\ kind' = kind /\ tenant' = tenant /\ conn \subseteq Request
  BY DEF IInv, TypeOK, Goto, Label, ThreadLabel, HookLabel
<1>2. \A q \in Request : Rightful(q)'
  BY <1>1 DEF IInv, Rightful, HasConnection, Served
<1>3. IsFiniteSet(InHouse')
  <2>1. InHouse' \subseteq InHouse \cup {r}
    BY <1>1 DEF InHouse
  <2> QED
    BY <2>1, FS_AddElement, FS_Subset DEF IInv
<1>4. Cardinality(conn') <= Connections
  <2>1. conn' \subseteq conn \cup {r}
    BY <1>1
  <2>2. r \in conn \/ r \notin conn' \/ Cardinality(conn) < Connections
    BY DEF FreeConnection
  <2> QED
    BY <1>1, <2>1, <2>2, Finite, OneMore
<1>5. Cardinality(InThread') <= Threads
  <2>1. InThread' \subseteq InThread \cup {r}
    BY <1>1 DEF InThread
  <2>2. r \in InThread \/ r \notin InThread' \/ Cardinality(InThread) < Threads
    BY <1>1, InThreadLabels DEF FreeThread, InThread, ThreadLabel
  <2> QED
    BY <1>1, <2>1, <2>2, Finite, OneMore
<1>6. \A q \in Request : /\ lock'[q] # "none" => q \in conn'
                         /\ pc'[q] \in {"new", "arrived", "ended"} => q \notin conn'
  BY <1>2 DEF Rightful, HasConnection
<1>7. TypeOK'
  BY <1>1, <1>4, <1>5, <1>6 DEF TypeOK, Label, ThreadLabel, HookLabel
<1>8. OneHook'
  BY <1>1, LoopIsFree DEF IInv, OneHook
<1>9. LocksFit'
  <2> SUFFICES ASSUME NEW p \in Request, NEW q \in Request, p # q, tenant[p] = tenant[q],
                      lock'[p] = "update"
               PROVE  lock'[q] = "none"
    BY <1>1 DEF LocksFit
  <2>1. CASE lock'[r] \in {lock[r], "none"}
    BY <2>1 DEF IInv, LocksFit
  <2>2. CASE lock'[r] = Wanted(r) /\ Blockers(r) = {}
    <3>1. \A s \in Request \ {r} : tenant[s] = tenant[r] =>
             /\ Wanted(r) = "update" => lock[s] = "none"
             /\ Wanted(r) = "share" => lock[s] # "update"
      BY <2>2 DEF Blockers
    <3> QED
      BY <2>2, <3>1, LockNames DEF IInv, LocksFit
  <2> QED
    BY <2>1, <2>2
<1> QED
  BY <1>2, <1>3, <1>7, <1>8, <1>9 DEF IInv
-----------------------------------------------------------------------------
(* The steps.                                                              *)

LEMMA InitIInv == Init => IInv
<1> SUFFICES ASSUME Init PROVE IInv
  OBVIOUS
<1>1. InHouse = {} /\ InThread = {} /\ conn = {} /\ IsFiniteSet({}) /\ Cardinality({}) = 0
  BY FS_EmptySet DEF Init, InHouse, InThread
<1>2. TypeOK
  <2>1. Cardinality(conn) <= Connections /\ Cardinality(InThread) <= Threads
    BY <1>1, PoolAssumption
  <2> QED
    BY <1>1, <2>1 DEF Init, TypeOK
<1>3. OneHook /\ LocksFit /\ \A r \in Request : Rightful(r)
  BY DEF Init, OneHook, LocksFit, Rightful, HasConnection, HookLabel
<1> QED
  BY <1>1, <1>2, <1>3 DEF IInv

\* What the invariant says of one request.
LEMMA RequestIs ==
    ASSUME IInv, NEW r \in Request
    PROVE  /\ Rightful(r) /\ pc[r] \in Label /\ kind[r] \in Kind /\ conn \subseteq Request
           /\ lock \in [Request -> {"none", "share", "update"}]
BY DEF IInv, TypeOK, Label, ThreadLabel, HookLabel

\* Where a step of the loop leads.
LEMMA LoopStep ==
    ASSUME IInv, NEW r \in Request,
           Arrive(r) \/ Dispatch(r) \/ Authenticated(r) \/ Enter(r) \/ Finish(r)
    PROVE  IInv'
<1>1. /\ UNCHANGED <<kind, tenant, conn, lock>> /\ Rightful(r) /\ LoopFree
      /\ conn \subseteq Request /\ lock \in [Request -> {"none", "share", "update"}]
  BY RequestIs DEF Arrive, Dispatch, Authenticated, Enter, Finish
<1>2. PICK l \in Label :
          /\ Goto(r, l)
          /\ r \in conn <=> HasConnection(r)
          /\ l \in ThreadLabel => pc[r] \in ThreadLabel \/ FreeThread
          /\ \/ pc[r] = "new" /\ l = "arrived"
             \/ pc[r] = "arrived" /\ l = "ready" /\ ~Served(r)
             \/ pc[r] = "arrived" /\ l \in {"connect", "closed"} /\ Served(r)
             \/ pc[r] = "authed" /\ l = "ready" /\ Served(r)
             \/ pc[r] = "ready" /\ l = "hook_connect" /\ kind[r] \in Hook
             \/ pc[r] = "ready" /\ l = "route" /\ kind[r] \notin Hook
             \/ pc[r] = "open" /\ l = "teardown"
             \/ pc[r] = "closed" /\ l = "ended"
  <2>1. CASE Arrive(r)
    BY <1>1, <2>1 DEF Arrive, Rightful, Label, ThreadLabel
  <2>2. CASE Dispatch(r)
    BY <1>1, <2>2 DEF Dispatch, Rightful, Served, Label, ThreadLabel
  <2>3. CASE Authenticated(r)
    BY <1>1, <2>3 DEF Authenticated, Rightful, Label, ThreadLabel
  <2>4. CASE Enter(r)
    BY <1>1, <2>4 DEF Enter, Rightful, Label, ThreadLabel, HookLabel
  <2>5. CASE Finish(r)
    BY <1>1, <2>5 DEF Finish, Rightful, Label, ThreadLabel
  <2> QED
    BY <2>1, <2>2, <2>3, <2>4, <2>5
<1>3. pc'[r] = l
  BY <1>2 DEF Goto, IInv, TypeOK
<1>4. Rightful(r)'
  BY <1>1, <1>2, <1>3 DEF Rightful, HasConnection, Served, HookLabel
<1> QED
  BY <1>1, <1>2, <1>4, StepKeeps

LEMMA ConnectKeeps ==
    ASSUME IInv, NEW r \in Request, Connect(r)
    PROVE  IInv'
<1>1. /\ FreeConnection /\ conn' = conn \cup {r} /\ UNCHANGED <<kind, tenant, lock>>
      /\ Rightful(r) /\ conn \subseteq Request
      /\ lock \in [Request -> {"none", "share", "update"}]
  BY RequestIs DEF Connect
<1>2. PICK l \in Label :
          /\ Goto(r, l)
          /\ \/ pc[r] = "connect" /\ l = "authed"
             \/ pc[r] = "route" /\ kind[r] = "health" /\ l = "open"
             \/ pc[r] = "hook_connect" /\ l = "hook"
  BY DEF Connect, Label, ThreadLabel, HookLabel
<1>3. pc'[r] = l
  BY <1>2 DEF Goto, IInv, TypeOK
<1>4. Rightful(r)'
  BY <1>1, <1>2, <1>3 DEF Rightful, HasConnection, Served, HookLabel
<1> QED
  BY <1>1, <1>2, <1>4, StepKeeps DEF ThreadLabel, HookLabel

LEMMA PoolTimeoutKeeps ==
    ASSUME IInv, NEW r \in Request, PoolTimeout(r)
    PROVE  IInv'
<1>1. /\ UNCHANGED <<kind, tenant, conn, lock>> /\ Rightful(r) /\ conn \subseteq Request
      /\ lock \in [Request -> {"none", "share", "update"}]
  BY RequestIs DEF PoolTimeout
<1>2. PICK l \in Label :
          /\ Goto(r, l)
          /\ \/ pc[r] = "connect" /\ l = "closed"
             \/ pc[r] = "route" /\ kind[r] = "health" /\ l = "closed"
             \/ pc[r] = "hook_connect" /\ l = "ended"
  BY DEF PoolTimeout, Label, ThreadLabel
<1>3. pc'[r] = l
  BY <1>2 DEF Goto, IInv, TypeOK
<1>4. Rightful(r)'
  BY <1>1, <1>2, <1>3 DEF Rightful, HasConnection, Served, HookLabel, Hook
<1> QED
  BY <1>1, <1>2, <1>4, StepKeeps DEF ThreadLabel, HookLabel

LEMMA ExecuteKeeps ==
    ASSUME IInv, NEW r \in Request, Execute(r) \/ HookExecute(r)
    PROVE  IInv'
<1>1. /\ TakeLock(r) /\ UNCHANGED <<kind, tenant, conn>>
      /\ Rightful(r) /\ conn \subseteq Request /\ kind[r] \in Kind
      /\ lock \in [Request -> {"none", "share", "update"}]
  BY RequestIs DEF Execute, HookExecute
<1>2. PICK l \in Label :
          /\ Goto(r, l)
          /\ \/ pc[r] = "route" /\ kind[r] # "health" /\ l \in {"stripe", "decide"}
             \/ pc[r] = "hook" /\ l = "hook_commit"
  BY DEF Execute, HookExecute, Label, ThreadLabel, HookLabel
<1>3. pc'[r] = l
  BY <1>2 DEF Goto, IInv, TypeOK
<1>4. /\ lock' \in [Request -> {"none", "share", "update"}] /\ lock'[r] = Wanted(r)
      /\ Blockers(r) = {} /\ \A q \in Request \ {r} : lock'[q] = lock[q]
  BY <1>1, LockNames DEF TakeLock
<1>5. Rightful(r)'
  BY <1>1, <1>2, <1>3 DEF Rightful, HasConnection, Served, HookLabel
<1> QED
  BY <1>1, <1>2, <1>4, <1>5, StepKeeps DEF ThreadLabel, HookLabel

\* A session that is given back, or kept for its teardown.
LEMMA ReleaseKeeps ==
    ASSUME IInv, NEW r \in Request,
           CommitOrRaise(r) \/ StripeReturns(r) \/ Teardown(r) \/ HookCommit(r)
    PROVE  IInv'
<1>1. /\ UNCHANGED <<kind, tenant>> /\ Rightful(r) /\ conn \subseteq Request
      /\ lock \in [Request -> {"none", "share", "update"}]
  BY RequestIs DEF CommitOrRaise, StripeReturns, Teardown, HookCommit
<1>2. CASE pc[r] = "decide" /\ Goto(r, "open") /\ UNCHANGED <<conn, lock>>
  <2>1. pc'[r] = "open"
    BY <1>2 DEF Goto, IInv, TypeOK
  <2>2. Rightful(r)'
    BY <1>1, <1>2, <2>1 DEF Rightful, HasConnection, HookLabel
  <2> QED
    BY <1>1, <1>2, <2>2, StepKeeps DEF Label, ThreadLabel, HookLabel
<1>3. ASSUME Release(r), NEW l \in {"closed", "ended"}, Goto(r, l),
             pc[r] \in {"decide", "stripe"} \/ l = "ended"
      PROVE  IInv'
  <2>1. pc'[r] = l
    BY <1>3 DEF Goto, IInv, TypeOK
  <2>2. /\ lock' \in [Request -> {"none", "share", "update"}] /\ lock'[r] = "none"
        /\ \A q \in Request \ {r} : lock'[q] = lock[q] /\ (q \in conn' <=> q \in conn)
        /\ r \notin conn' /\ conn' \subseteq Request
    BY <1>1, <1>3 DEF Release
  <2>3. Rightful(r)'
    BY <1>1, <1>3, <2>1, <2>2 DEF Rightful, HasConnection, HookLabel
  <2> QED
    BY <1>1, <1>3, <2>2, <2>3, StepKeeps DEF Label, ThreadLabel, HookLabel
<1> QED
  BY <1>2, <1>3 DEF CommitOrRaise, StripeReturns, Teardown, HookCommit

LEMMA IInvKept == IInv /\ [Next]_vars => IInv'
<1> SUFFICES ASSUME IInv, [Next]_vars PROVE IInv'
  OBVIOUS
<1>1. CASE UNCHANGED vars
  BY <1>1 DEF vars, IInv, TypeOK, OneHook, LocksFit, InHouse, InThread, Rightful, HasConnection,
              Served
<1>2. ASSUME NEW r \in Request, Arrive(r) \/ Step(r) PROVE IInv'
  BY <1>2, LoopStep, ConnectKeeps, PoolTimeoutKeeps, ExecuteKeeps, ReleaseKeeps DEF Step
<1> QED
  BY <1>1, <1>2 DEF Next

\* The sessions with a connection are all of other requests than one that gets none.
LEMMA NoneLeft ==
    ASSUME IInv, NEW r \in Request, PoolTimeout(r)
    PROVE  Cardinality(InHouse) > Connections
<1>1. r \in InHouse /\ r \notin conn
  BY RequestIs DEF PoolTimeout, InHouse, Rightful, HasConnection, Served
<1>2. /\ IsFiniteSet(InHouse) /\ IsFiniteSet(InHouse \ {r}) /\ Cardinality(InHouse) \in Nat
      /\ Cardinality(InHouse \ {r}) = Cardinality(InHouse) - 1
  BY <1>1, FS_RemoveElement, FS_CardinalityType DEF IInv
<1>3. conn \subseteq InHouse \ {r}
  BY <1>1, Finite
<1>4. Cardinality(conn) <= Cardinality(InHouse) - 1
  BY <1>2, <1>3, FS_Subset
<1>5. ~(Cardinality(conn) < Connections)
  BY DEF PoolTimeout, FreeConnection
<1> QED
  BY <1>2, <1>4, <1>5, Finite

\* Who has a lock can go on once the loop is free, so that a waiter for a row waits for
\* one that can.
LEMMA BlockersGoOn ==
    ASSUME IInv, NEW r \in Request, Blockers(r) # {}
    PROVE  \/ \E s \in Request : CanStep(s)
           \/ ~LoopFree /\ \E s \in Blockers(r) : pc[s] = "open"
<1>1. PICK s \in Blockers(r) : s \in Request /\ lock[s] # "none"
  BY DEF Blockers
<1>2. pc[s] \in {"decide", "stripe", "open", "teardown", "hook_commit"}
  BY <1>1, RequestIs DEF Rightful
<1> QED
  BY <1>1, <1>2 DEF CanStep

LEMMA NoHalt == IInv => SomebodyGoesOn
<1> SUFFICES ASSUME IInv, NEW r \in InHouse, ~Hung, \A s \in Request : ~CanStep(s)
             PROVE  FALSE
  BY DEF SomebodyGoesOn, InHouse
<1>1. LoopFree
  <2> SUFFICES ASSUME NEW h \in Request, pc[h] \in HookLabel PROVE FALSE
    BY LoopIsFree
  <2>1. pc[h] = "hook" /\ Blockers(h) # {}
    BY DEF HookLabel, CanStep
  <2>2. PICK s \in Blockers(h) : pc[s] = "open"
    BY <2>1, BlockersGoOn
  <2> QED
    BY <2>1, <2>2 DEF Hung, Blockers
<1>2. ASSUME NEW q \in Request PROVE q \notin InThread
  <2>1. pc[q] # "route"
    BY <1>1, BlockersGoOn DEF CanStep
  <2> QED
    BY <1>1, <2>1 DEF InThread, CanStep
<1>3. FreeThread
  <2>1. InThread = {}
    BY <1>2 DEF InThread
  <2> QED
    BY <2>1, FS_EmptySet, PoolAssumption DEF FreeThread
<1>4. r \in Request /\ pc[r] \in {"arrived", "ready", "teardown"} \cup ThreadLabel \cup HookLabel
  BY RequestIs DEF InHouse, Label
<1> QED
  BY <1>1, <1>2, <1>3, <1>4, LoopIsFree, InThreadLabels DEF CanStep

\* What the whole of Server keeps, for any burst of requests: where a request is decides
\* whether it has a connection and may have a lock, one webhook is on the loop, and a
\* tenant's row that is locked FOR UPDATE is locked by one session.
THEOREM Invariance == Spec => []IInv
BY InitIInv, IInvKept, PTL DEF Spec

\* The type invariant: among others, no more connections and threads are in use than the
\* pools have, a lock is held by a session with a connection, and a request that is
\* answered has given its connection back.
THEOREM TypeCorrect == Spec => []TypeOK
BY Invariance, PTL DEF IInv

\* Threads, connections, row locks and the loop are never waited for in a circle, but
\* for one: a webhook on the loop waits for the row of a refused request whose session
\* get_db closes only when the loop gets round to it.
THEOREM NoOtherHalt == Spec => []SomebodyGoesOn
BY Invariance, NoHalt, PTL

\* get_db's session gives its connection back in every way a request can end, so that the
\* pool fails a request only when more are being served than it has connections.
THEOREM PoolSuffices == Spec => PoolIsEnough
<1>1. IInv /\ [Next]_vars =>
        [\A r \in Request :
            PoolTimeout(r) =>
               Cardinality({s \in Request : pc[s] \notin {"new", "ended"}}) > Connections]_vars
  BY NoneLeft DEF InHouse
<1> QED
  BY <1>1, Invariance, PTL DEF Spec, PoolIsEnough
====
