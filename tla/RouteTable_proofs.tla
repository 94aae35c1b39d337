------------------------- MODULE RouteTable_proofs --------------------------
(***************************************************************************)
(* The properties of RouteTable, for any number of containers, addresses,  *)
(* routes and requests.                                                    *)
(***************************************************************************)
EXTENDS RouteTable, BackendPool_proofs

-----------------------------------------------------------------------------
(* Types. *)

LEMMA NewTargetType ==
  ASSUME NEW c \in Containers, NEW a \in Addresses, NEW h \in BOOLEAN
  PROVE  /\ NewTarget(a, c, 1, h) \in Target
         /\ NewTarget(a, c, 1, h).addr = a
         /\ NewTarget(a, c, 1, h).cid = c
  BY DEF NewTarget, Target

LEMMA DrainedType ==
  ASSUME TypeOK, NEW p \in PoolId, NEW c
  PROVE  Drained(p, c) \in Pool
  BY PoolRemoveType DEF TypeOK, Drained

\* Every variable keeps its type through every step.
THEOREM TypeCorrect == Spec => []TypeOK
<1>1. Init => TypeOK
  <2> <<>> \in Pool
    BY DEF Pool
  <2> QED BY ConstantsAssumption DEF Init, TypeOK, Idle, EngineState, RequestState
<1>2. TypeOK /\ [Next]_vars => TypeOK'
  <2> SUFFICES ASSUME TypeOK, [Next]_vars PROVE TypeOK'
    OBVIOUS
  <2> USE ConstantsAssumption
  <2>1. ASSUME NEW c \in Containers, NEW h \in BOOLEAN, NEW a \in MayUse[c],
               AddRoute(c, a, h)
        PROVE  TypeOK'
    <3> DEFINE k == RouteOf[c]
               p == IF routes[k] # None THEN routes[k] ELSE allocated + 1
    <3>1. a \in Addresses /\ k \in Keys
      BY DEF TypeOK
    <3>2. /\ p \in PoolId
          /\ pools' = [pools EXCEPT ![p] = PoolAdd(@, NewTarget(a, c, 1, h))]
          /\ routes' = [routes EXCEPT ![k] = p]
          /\ allocated' = IF routes[k] # None THEN allocated ELSE allocated + 1
      BY <2>1 DEF AddRoute, Upsert
    <3>3. PoolAdd(pools[p], NewTarget(a, c, 1, h)) \in Pool
      BY <3>1, <3>2, NewTargetType, PoolAddType DEF TypeOK
    <3>4. pools' \in [PoolId -> Pool]
      BY <3>2, <3>3 DEF TypeOK
    <3>5. routes' \in [Keys -> PoolId \cup {None}]
      BY <3>1, <3>2 DEF TypeOK
    <3>6. allocated' \in 0 .. MaxPools
      BY <3>2 DEF TypeOK, PoolId
    <3>7. engine' \in EngineState /\ containers' \in [Containers -> Addresses \cup {None}]
      BY <2>1, <3>1 DEF AddRoute, EngineState, TypeOK
    <3>8. moved' \subseteq Containers /\ shadowed' \subseteq Containers
      BY <2>1 DEF AddRoute, TypeOK
    <3>9. QED
      BY <2>1, <3>4, <3>5, <3>6, <3>7, <3>8 DEF AddRoute, TypeOK
  <2>2. ASSUME NEW c \in Containers, RemoveRoute(c)
        PROVE  TypeOK'
    <3>1. pools' \in [PoolId -> Pool]
      BY <2>2, DrainedType DEF RemoveRoute, RemoveByContainer
    <3>2. routes' \in [Keys -> PoolId \cup {None}]
      BY <2>2 DEF RemoveRoute, RemoveByContainer, TypeOK
    <3>3. engine' \in EngineState
      BY <2>2 DEF RemoveRoute, EngineState
    <3>4. QED
      BY <2>2, <3>1, <3>2, <3>3 DEF RemoveRoute, RemoveByContainer, TypeOK
  <2>3. CASE RegisterCheck
    BY <2>3 DEF RegisterCheck, TypeOK, EngineState, Idle, tableVars
  <2>4. CASE SweepChecks
    BY <2>4 DEF SweepChecks, TypeOK, EngineState, Idle, tableVars
  <2>5. ASSUME NEW a \in Addresses, NEW h \in BOOLEAN, SetBackendHealth(a, h)
        PROVE  TypeOK'
    <3>1. pools' \in [PoolId -> Pool]
      BY <2>5, MarkProperties DEF SetBackendHealth, TypeOK
    <3>2. QED BY <2>5, <3>1 DEF SetBackendHealth, TypeOK
  <2>6. ASSUME NEW r \in Requests, RequestStep(r)
        PROVE  TypeOK'
    <3>1. ASSUME NEW k \in Keys, MatchRoute(r, k) PROVE TypeOK'
      BY <3>1 DEF MatchRoute, TypeOK, RequestState, tableVars
    <3>2. CASE CheckHealthy(r)
      <4>1. reqs[r] \in [pc: {"matched"}, key: Keys, pool: PoolId]
        BY <3>2 DEF CheckHealthy, TypeOK, RequestState
      <4>2. reqs' \in [Requests -> RequestState]
        BY <3>2, <4>1 DEF CheckHealthy, TypeOK, RequestState
      <4>3. QED BY <3>2, <4>2 DEF CheckHealthy, TypeOK, tableVars
    <3>3. CASE LoadChain(r)
      <4>1. reqs[r] \in [pc: {"chain"}, key: Keys, pool: PoolId]
        BY <3>3 DEF LoadChain, TypeOK, RequestState
      <4>2. reqs' \in [Requests -> RequestState]
        BY <3>3, <4>1 DEF LoadChain, TypeOK, RequestState
      <4>3. QED BY <3>3, <4>2 DEF LoadChain, TypeOK, tableVars
    <3>4. CASE StoreChain(r)
      <4>1. reqs[r] \in [pc: {"store"}, key: Keys, pool: PoolId]
        BY <3>4 DEF StoreChain, TypeOK, RequestState
      <4>2. reqs' \in [Requests -> RequestState] /\ chains' \in [Keys -> PoolId \cup {None}]
        BY <3>4, <4>1 DEF StoreChain, TypeOK, RequestState
      <4>3. QED BY <3>4, <4>2 DEF StoreChain, TypeOK, tableVars
    <3>5. CASE SelectBackend(r)
      <4>1. PICK i \in HealthyAt(pools[reqs[r].pool]) :
              reqs' = [reqs EXCEPT ![r] =
                         [pc |-> "sent", key |-> reqs[r].key, pool |-> reqs[r].pool,
                          addr |-> pools[reqs[r].pool][i].addr]]
        BY <3>5 DEF SelectBackend
      <4>2. reqs[r].key \in Keys /\ reqs[r].pool \in PoolId
        BY <3>5 DEF SelectBackend, TypeOK, RequestState
      <4>3. pools[reqs[r].pool][i].addr \in Addresses
        BY <4>2, PoolElements DEF TypeOK, HealthyAt, Target
      <4>4. reqs' \in [Requests -> RequestState]
        BY <4>1, <4>2, <4>3 DEF TypeOK, RequestState
      <4>5. QED BY <3>5, <4>4 DEF SelectBackend, TypeOK, tableVars
    <3>6. CASE RefuseRequest(r)
      BY <3>6 DEF RefuseRequest, TypeOK, RequestState, tableVars
    <3>7. CASE FinishRequest(r)
      BY <3>7 DEF FinishRequest, TypeOK, RequestState, tableVars
    <3>8. QED
      BY <2>6, <3>1, <3>2, <3>3, <3>4, <3>5, <3>6, <3>7 DEF RequestStep
  <2>7. CASE UNCHANGED vars
    BY <2>7 DEF vars, tableVars, TypeOK
  <2>8. QED
    BY <2>1, <2>2, <2>3, <2>4, <2>5, <2>6, <2>7 DEF Next, EngineStep
<1>3. QED BY <1>1, <1>2, PTL DEF Spec

-----------------------------------------------------------------------------
(* The shape of the table. *)

\* A container that is added ends up in the pool of its own route, and only
\* there; the pool of a route that did not exist starts out empty.
LEMMA UpsertServing ==
  ASSUME TypeOK, PoolsWellFormed, NEW k \in Keys, NEW t \in Target, Upsert(k, t)
  PROVE  /\ Serving(k)' = PoolAdd(Serving(k), t)
         /\ \A j \in Keys \ {k} : Serving(j)' = Serving(j)
<1> USE ConstantsAssumption
<1> DEFINE p == IF routes[k] # None THEN routes[k] ELSE allocated + 1
<1>1. /\ p \in PoolId
      /\ pools' = [pools EXCEPT ![p] = PoolAdd(@, t)]
      /\ routes' = [routes EXCEPT ![k] = p]
  BY DEF Upsert
<1>2. pools[p] = Serving(k)
  <2>1. CASE routes[k] # None
    BY <2>1 DEF Serving, LivePool
  <2>2. CASE routes[k] = None
    <3>1. allocated \in Nat /\ allocated + 1 # None
      BY <1>1, <2>2 DEF TypeOK
    <3>2. \A j \in Keys : routes[j] # None => routes[j] \in Nat /\ routes[j] <= allocated
      BY DEF PoolsWellFormed, LivePoolsServe, TypeOK, PoolId
    <3>3. ~Live(allocated + 1)
      BY <3>1, <3>2 DEF Live
    <3>4. QED BY <1>1, <2>2, <3>3 DEF Serving, PoolsWellFormed, PoolsOwned
  <2>3. QED BY <2>1, <2>2
<1>3. Serving(k)' = PoolAdd(Serving(k), t)
  BY <1>1, <1>2 DEF TypeOK, Serving, LivePool
<1>4. ASSUME NEW j \in Keys \ {k}, routes[j] # None
      PROVE  routes[j] # p
  <2>1. routes[j] <= allocated /\ routes[j] \in Nat /\ allocated \in Nat
    BY <1>4 DEF PoolsWellFormed, LivePoolsServe, TypeOK, PoolId
  <2>2. routes[k] # None => routes[k] # routes[j]
    BY <1>4 DEF PoolsWellFormed, PoolsOwned, OwnedBy
  <2>3. QED BY <2>1, <2>2
<1>5. ASSUME NEW j \in Keys \ {k}
      PROVE  Serving(j)' = Serving(j)
  <2>1. routes'[j] = routes[j]
    BY <1>1 DEF TypeOK
  <2>2. routes[j] # None => pools'[routes[j]] = pools[routes[j]]
    BY <1>1, <1>4 DEF TypeOK
  <2>3. QED BY <2>1, <2>2 DEF Serving, LivePool
<1>6. QED BY <1>3, <1>5

\* Removing a container removes it from every route's pool.
LEMMA RemoveServing ==
  ASSUME TypeOK, NEW c, RemoveByContainer(c)
  PROVE  \A k \in Keys : Serving(k)' = PoolRemove(Serving(k), c)
<1> USE ConstantsAssumption
<1> SUFFICES ASSUME NEW k \in Keys PROVE Serving(k)' = PoolRemove(Serving(k), c)
  OBVIOUS
<1>1. CASE routes[k] # None
  <2>1. Drained(routes[k], c) = PoolRemove(pools[routes[k]], c)
    BY <1>1 DEF Drained, Live
  <2>2. pools'[routes[k]] = Drained(routes[k], c)
    BY <1>1 DEF RemoveByContainer, TypeOK
  <2>3. routes'[k] = IF Drained(routes[k], c) # <<>> THEN routes[k] ELSE None
    BY <1>1 DEF RemoveByContainer
  <2>4. QED BY <1>1, <2>1, <2>2, <2>3 DEF Serving, LivePool
<1>2. CASE routes[k] = None
  <2>1. PoolRemove(<<>>, c) = <<>>
    BY DEF PoolRemove
  <2>2. QED BY <1>2, <2>1 DEF RemoveByContainer, Serving
<1>3. QED BY <1>1, <1>2

\* A health notification marks the address in a route's pool, or leaves it alone.
LEMMA HealthServing ==
  ASSUME TypeOK, NEW a, NEW h \in BOOLEAN, SetBackendHealth(a, h)
  PROVE  \A k \in Keys : Serving(k)' \in {Serving(k), Mark(Serving(k), a, h)}
<1> USE ConstantsAssumption
<1> SUFFICES ASSUME NEW k \in Keys
             PROVE  Serving(k)' \in {Serving(k), Mark(Serving(k), a, h)}
  OBVIOUS
<1>1. CASE routes[k] # None
  <2>1. pools'[routes[k]] \in {pools[routes[k]], Mark(pools[routes[k]], a, h)}
    BY <1>1 DEF SetBackendHealth, TypeOK
  <2>2. QED BY <1>1, <2>1 DEF SetBackendHealth, Serving, LivePool
<1>2. CASE routes[k] = None
  <2>1. <<>> \in Pool
    BY DEF Pool
  <2>2. Mark(<<>>, a, h) = <<>>
    BY <2>1, MarkProperties
  <2>3. QED BY <1>2, <2>2 DEF SetBackendHealth, Serving
<1>3. QED BY <1>1, <1>2

LEMMA ServingType ==
  ASSUME TypeOK, NEW k \in Keys
  PROVE  Serving(k) \in Pool
  BY DEF TypeOK, Serving, LivePool, Pool

\* Every live route serves a non-empty pool of distinct addresses that is no
\* other route's, and what a request or a cached chain holds on to is a pool
\* of the key's own or one that has left the table empty.
LEMMA ShapeStep == TypeOK /\ PoolsWellFormed /\ [Next]_vars => PoolsWellFormed'
<1> SUFFICES ASSUME TypeOK, PoolsWellFormed, [Next]_vars PROVE PoolsWellFormed'
  OBVIOUS
<1> USE ConstantsAssumption
<1>1. ASSUME NEW c \in Containers, NEW h \in BOOLEAN, NEW a \in MayUse[c],
             AddRoute(c, a, h)
      PROVE  PoolsWellFormed'
  <2> DEFINE k == RouteOf[c]
             t == NewTarget(a, c, 1, h)
             p == IF routes[k] # None THEN routes[k] ELSE allocated + 1
  <2>1. k \in Keys /\ t \in Target
    BY NewTargetType
  <2>2. /\ Upsert(k, t)
        /\ p \in PoolId
        /\ pools' = [pools EXCEPT ![p] = PoolAdd(@, t)]
        /\ routes' = [routes EXCEPT ![k] = p]
        /\ allocated' = IF routes[k] # None THEN allocated ELSE allocated + 1
        /\ chains' = chains /\ reqs' = reqs
    BY <1>1 DEF AddRoute, Upsert
  <2>3. /\ allocated \in Nat /\ allocated' \in Nat /\ allocated <= allocated'
        /\ p \in Nat /\ p <= allocated'
    <3>1. allocated \in Nat /\ allocated + 1 > allocated
      BY DEF TypeOK
    <3>2. routes[k] # None => routes[k] \in Nat /\ routes[k] <= allocated
      BY <2>1 DEF PoolsWellFormed, LivePoolsServe, TypeOK, PoolId
    <3>3. QED BY <2>2, <3>1, <3>2
  <2>4. LivePoolsServe'
    <3> SUFFICES ASSUME NEW j \in Keys, routes'[j] # None
                 PROVE  /\ routes'[j] <= allocated'
                        /\ LivePool(j)' # <<>>
                        /\ DistinctAddresses(LivePool(j)')
      BY DEF LivePoolsServe, DistinctAddresses
    <3>1. LivePool(j)' = Serving(j)'
      BY DEF Serving
    <3>2. CASE j = k
      <4>1. Serving(k) \in Pool /\ DistinctAddresses(Serving(k))
        BY <2>1, ServingType DEF PoolsWellFormed, LivePoolsServe, Serving, DistinctAddresses
      <4>2. Serving(k)' = PoolAdd(Serving(k), t)
        BY <2>1, <2>2, UpsertServing
      <4>3. QED
        BY <2>1, <2>2, <2>3, <3>1, <3>2, <4>1, <4>2, PoolAddType, PoolAddDistinct DEF TypeOK
    <3>3. CASE j # k
      <4>1. routes'[j] = routes[j]
        BY <2>2, <3>3 DEF TypeOK
      <4>2. Serving(j)' = Serving(j) /\ Serving(j) = LivePool(j)
        BY <2>1, <2>2, <3>3, <4>1, UpsertServing DEF Serving
      <4>3. routes[j] \in Nat /\ routes[j] <= allocated
        BY <4>1 DEF PoolsWellFormed, LivePoolsServe, TypeOK, PoolId
      <4>4. QED BY <2>3, <3>1, <4>1, <4>2, <4>3 DEF PoolsWellFormed, LivePoolsServe
    <3>4. QED BY <3>2, <3>3
  <2>5. \A j \in Keys : routes[j] # None => routes[j] \in Nat /\ routes[j] <= allocated
    BY DEF PoolsWellFormed, LivePoolsServe, TypeOK, PoolId
  <2>6. ASSUME NEW q \in PoolId, NEW j \in Keys, q <= allocated, OwnedBy(q, j)
        PROVE  OwnedBy(q, j)'
    \* A pool handed out before this step gets no new owner.
    <3>1. q # allocated + 1
      BY <2>3, <2>6 DEF PoolId
    <3>2. \A i \in Keys : routes'[i] = q => routes[i] = q
      BY <2>1, <2>2, <3>1 DEF TypeOK
    <3>3. QED BY <2>6, <3>2 DEF OwnedBy
  <2>7. PoolsOwned'
    <3>1. ASSUME NEW j \in Keys, routes'[j] # None PROVE OwnedBy(routes[j], j)'
      <4>1. CASE routes[j] # None
        <5>1. routes'[j] = routes[j] /\ routes[j] \in PoolId /\ routes[j] <= allocated
          BY <2>2, <2>5, <4>1 DEF TypeOK
        <5>2. OwnedBy(routes[j], j)
          BY <4>1 DEF PoolsWellFormed, PoolsOwned
        <5>3. \A i \in Keys : routes'[i] = routes[j] => i = j
          BY <2>6, <5>1, <5>2 DEF OwnedBy
        <5>4. QED BY <5>1, <5>3 DEF OwnedBy
      <4>2. CASE routes[j] = None
        <5>1. j = k /\ routes'[j] = allocated + 1
          BY <2>1, <2>2, <3>1, <4>2 DEF TypeOK
        <5>2. \A i \in Keys : routes'[i] = allocated + 1 => i = k
          BY <2>1, <2>2, <2>3, <2>5, <4>2, <5>1 DEF TypeOK
        <5>3. QED BY <5>1, <5>2 DEF OwnedBy
      <4>3. QED BY <4>1, <4>2
    <3>2. ASSUME NEW q \in PoolId, ~Live(q)' PROVE pools'[q] = <<>>
      <4>1. q # p
        BY <2>1, <2>2, <3>2 DEF Live, TypeOK
      <4>2. ~Live(q)
        BY <2>1, <2>2, <3>2, <4>1 DEF Live, TypeOK
      <4>3. QED BY <2>2, <4>1, <4>2 DEF PoolsWellFormed, PoolsOwned, TypeOK
    <3>3. QED BY <3>1, <3>2 DEF PoolsOwned
  <2>8. HeldPoolsOwned'
    <3>1. ASSUME NEW j \in Keys, chains'[j] # None
          PROVE  chains'[j] <= allocated' /\ OwnedBy(chains[j], j)'
      <4>1. chains[j] \in PoolId /\ chains[j] <= allocated /\ OwnedBy(chains[j], j)
        BY <2>2, <3>1 DEF TypeOK, PoolsWellFormed, HeldPoolsOwned
      <4>2. \A i \in Keys : routes'[i] = chains[j] => i = j
        BY <2>6, <4>1 DEF OwnedBy
      <4>3. QED BY <2>2, <2>3, <4>1, <4>2 DEF OwnedBy, PoolId
    <3>2. ASSUME NEW r \in Requests, reqs'[r].pc # "idle"
          PROVE  reqs'[r].pool <= allocated' /\ OwnedBy(reqs[r].pool, reqs[r].key)'
      <4>1. /\ reqs[r].pool \in PoolId /\ reqs[r].key \in Keys
            /\ reqs[r].pool <= allocated /\ OwnedBy(reqs[r].pool, reqs[r].key)
        BY <2>2, <3>2 DEF TypeOK, RequestState, PoolsWellFormed, HeldPoolsOwned
      <4>2. \A i \in Keys : routes'[i] = reqs[r].pool => i = reqs[r].key
        BY <2>6, <4>1 DEF OwnedBy
      <4>3. QED BY <2>2, <2>3, <4>1, <4>2 DEF OwnedBy, PoolId
    <3>3. QED BY <3>1, <3>2 DEF HeldPoolsOwned
  <2>9. QED BY <2>4, <2>7, <2>8 DEF PoolsWellFormed
<1>2. ASSUME NEW c \in Containers, RemoveRoute(c)
      PROVE  PoolsWellFormed'
  <2>1. \A j \in Keys : routes'[j] = routes[j] \/ routes'[j] = None
    BY <1>2 DEF RemoveRoute, RemoveByContainer
  <2>2. \A j \in Keys : Serving(j)' = PoolRemove(Serving(j), c)
    BY <1>2, RemoveServing DEF RemoveRoute
  <2>3. LivePoolsServe'
    <3> SUFFICES ASSUME NEW j \in Keys, routes'[j] # None
                 PROVE  /\ routes'[j] <= allocated'
                        /\ LivePool(j)' # <<>>
                        /\ DistinctAddresses(LivePool(j)')
      BY DEF LivePoolsServe, DistinctAddresses
    <3>1. routes'[j] = routes[j] /\ routes[j] # None /\ routes[j] \in PoolId
      BY <2>1 DEF TypeOK
    <3>2. /\ Drained(routes[j], c) # <<>>
          /\ LivePool(j)' = Drained(routes[j], c)
      BY <1>2, <3>1 DEF RemoveRoute, RemoveByContainer, LivePool
    <3>3. LivePool(j)' = PoolRemove(LivePool(j), c)
      BY <3>1, <3>2 DEF Drained, Live, LivePool
    <3>4. LivePool(j) \in Pool
      BY <3>1 DEF LivePool, TypeOK
    <3>5. QED
      BY <1>2, <3>1, <3>2, <3>3, <3>4, PoolRemoveDistinct
      DEF RemoveRoute, RemoveByContainer, PoolsWellFormed, LivePoolsServe
  <2>4. PoolsOwned'
    <3>1. ASSUME NEW j \in Keys, routes'[j] # None PROVE OwnedBy(routes[j], j)'
      BY <2>1, <3>1 DEF PoolsWellFormed, PoolsOwned, OwnedBy
    <3>2. ASSUME NEW q \in PoolId, ~Live(q)' PROVE pools'[q] = <<>>
      <4>1. pools'[q] = Drained(q, c)
        BY <1>2 DEF RemoveRoute, RemoveByContainer
      <4>2. CASE Live(q)
        BY <1>2, <3>2, <4>1, <4>2 DEF RemoveRoute, RemoveByContainer, Live
      <4>3. CASE ~Live(q)
        BY <4>1, <4>3 DEF Drained, PoolsWellFormed, PoolsOwned
      <4>4. QED BY <4>2, <4>3
    <3>3. QED BY <3>1, <3>2 DEF PoolsOwned
  <2>5. HeldPoolsOwned'
    BY <1>2, <2>1
    DEF RemoveRoute, RemoveByContainer, PoolsWellFormed, HeldPoolsOwned, OwnedBy, TypeOK, RequestState
  <2>6. QED BY <2>3, <2>4, <2>5 DEF PoolsWellFormed
<1>3. ASSUME NEW a \in Addresses, NEW h \in BOOLEAN, SetBackendHealth(a, h)
      PROVE  PoolsWellFormed'
  <2>1. UNCHANGED <<routes, allocated, chains, reqs>>
    BY <1>3 DEF SetBackendHealth
  <2>2. ASSUME NEW j \in Keys, routes[j] # None
        PROVE  LivePool(j)' # <<>> /\ DistinctAddresses(LivePool(j)')
    <3>1. LivePool(j)' \in {LivePool(j), Mark(LivePool(j), a, h)}
      BY <1>3, <2>1, <2>2 DEF SetBackendHealth, LivePool, TypeOK
    <3>2. LivePool(j) \in Pool /\ LivePool(j) # <<>> /\ DistinctAddresses(LivePool(j))
      BY <2>2 DEF LivePool, TypeOK, PoolsWellFormed, LivePoolsServe
    <3>3. QED BY <3>1, <3>2, MarkProperties, MarkDistinct
  <2>3. LivePoolsServe'
    BY <2>1, <2>2 DEF PoolsWellFormed, LivePoolsServe, DistinctAddresses
  <2>4. PoolsOwned'
    BY <1>3, <2>1 DEF SetBackendHealth, PoolsWellFormed, PoolsOwned, OwnedBy, Live
  <2>5. HeldPoolsOwned'
    BY <2>1 DEF PoolsWellFormed, HeldPoolsOwned, OwnedBy
  <2>6. QED BY <2>3, <2>4, <2>5 DEF PoolsWellFormed
<1>4. ASSUME UNCHANGED <<routes, pools, allocated>>, HeldPoolsOwned'
      PROVE  PoolsWellFormed'
  BY <1>4 DEF PoolsWellFormed, LivePoolsServe, PoolsOwned, OwnedBy, Live, LivePool, DistinctAddresses
<1>5. ASSUME UNCHANGED <<routes, pools, allocated, chains, reqs>>
      PROVE  PoolsWellFormed'
  BY <1>5 DEF PoolsWellFormed, LivePoolsServe, PoolsOwned, HeldPoolsOwned, OwnedBy, Live,
              LivePool, DistinctAddresses
<1>6. ASSUME NEW r \in Requests, RequestStep(r)
      PROVE  PoolsWellFormed'
  <2>1. UNCHANGED <<routes, pools, allocated>>
    BY <1>6
    DEF RequestStep, MatchRoute, CheckHealthy, LoadChain, StoreChain, SelectBackend,
        RefuseRequest, FinishRequest, tableVars
  <2> SUFFICES HeldPoolsOwned'
    BY <1>4, <2>1
  <2>2. ASSUME NEW k \in Keys, MatchRoute(r, k)
        PROVE  HeldPoolsOwned'
    BY <2>2 DEF MatchRoute, tableVars, TypeOK, PoolsWellFormed, LivePoolsServe, PoolsOwned,
                HeldPoolsOwned, OwnedBy
  <2>3. CASE CheckHealthy(r)
    <3>1. reqs[r] \in [pc: {"matched"}, key: Keys, pool: PoolId]
      BY <2>3 DEF CheckHealthy, TypeOK, RequestState
    <3>2. /\ chains' = chains
          /\ \A s \in Requests : reqs'[s].pc # "idle" =>
               /\ reqs[s].pc # "idle"
               /\ reqs'[s].pool = reqs[s].pool /\ reqs'[s].key = reqs[s].key
      BY <2>3, <3>1 DEF CheckHealthy, TypeOK
    <3>3. QED BY <2>1, <3>2 DEF PoolsWellFormed, HeldPoolsOwned, OwnedBy
  <2>4. CASE LoadChain(r)
    <3>1. reqs[r] \in [pc: {"chain"}, key: Keys, pool: PoolId]
      BY <2>4 DEF LoadChain, TypeOK, RequestState
    <3>2. /\ chains' = chains
          /\ \A s \in Requests : reqs'[s].pc # "idle" =>
               /\ reqs[s].pc # "idle" /\ reqs'[s].key = reqs[s].key
               /\ \/ reqs'[s].pool = reqs[s].pool
                  \/ chains[reqs[s].key] # None /\ reqs'[s].pool = chains[reqs[s].key]
      BY <2>4, <3>1 DEF LoadChain, TypeOK
    <3>3. \A s \in Requests : reqs[s].pc # "idle" => reqs[s].key \in Keys
      BY DEF TypeOK, RequestState
    <3>4. QED BY <2>1, <3>2, <3>3 DEF PoolsWellFormed, HeldPoolsOwned, OwnedBy
  <2>5. CASE StoreChain(r)
    <3>1. reqs[r] \in [pc: {"store"}, key: Keys, pool: PoolId]
      BY <2>5 DEF StoreChain, TypeOK, RequestState
    <3>2. /\ chains' = [chains EXCEPT ![reqs[r].key] = reqs[r].pool]
          /\ \A s \in Requests : reqs'[s].pc # "idle" =>
               /\ reqs[s].pc # "idle"
               /\ reqs'[s].pool = reqs[s].pool /\ reqs'[s].key = reqs[s].key
      BY <2>5, <3>1 DEF StoreChain, TypeOK
    <3>3. QED BY <2>1, <3>1, <3>2 DEF PoolsWellFormed, HeldPoolsOwned, OwnedBy, TypeOK
  <2>6. CASE SelectBackend(r)
    <3>1. reqs[r].pc = "serve" /\ chains' = chains
      BY <2>6 DEF SelectBackend
    <3>2. \A s \in Requests : reqs'[s].pc # "idle" =>
            /\ reqs[s].pc # "idle"
            /\ reqs'[s].pool = reqs[s].pool /\ reqs'[s].key = reqs[s].key
      BY <2>6, <3>1 DEF SelectBackend, TypeOK
    <3>3. QED BY <2>1, <3>1, <3>2 DEF PoolsWellFormed, HeldPoolsOwned, OwnedBy
  <2>7. CASE RefuseRequest(r)
    BY <2>1, <2>7 DEF RefuseRequest, PoolsWellFormed, HeldPoolsOwned, OwnedBy, TypeOK
  <2>8. CASE FinishRequest(r)
    BY <2>1, <2>8 DEF FinishRequest, PoolsWellFormed, HeldPoolsOwned, OwnedBy, TypeOK
  <2>9. QED
    BY <1>6, <2>2, <2>3, <2>4, <2>5, <2>6, <2>7, <2>8 DEF RequestStep
<1>7. CASE RegisterCheck \/ SweepChecks \/ UNCHANGED vars
  BY <1>5, <1>7 DEF RegisterCheck, SweepChecks, vars, tableVars
<1>8. QED BY <1>1, <1>2, <1>3, <1>6, <1>7 DEF Next, EngineStep

THEOREM ShapeCorrect == Spec => []PoolsWellFormed
<1>1. Init => PoolsWellFormed
  BY DEF Init, PoolsWellFormed, LivePoolsServe, PoolsOwned, HeldPoolsOwned
<1>2. QED BY <1>1, ShapeStep, TypeCorrect, PTL DEF Spec

LEMMA NewTargetIs ==
  ASSUME NEW c \in Containers, NEW a \in MayUse[c], NEW h \in BOOLEAN
  PROVE  /\ RouteOf[c] \in Keys /\ a \in Addresses
         /\ NewTarget(a, c, 1, h) \in Target
         /\ NewTarget(a, c, 1, h).addr = a
         /\ NewTarget(a, c, 1, h).cid = c
  BY NewTargetType, ConstantsAssumption

LEMMA ServingDistinct ==
  ASSUME TypeOK, PoolsWellFormed, NEW k \in Keys
  PROVE  Serving(k) \in Pool /\ DistinctAddresses(Serving(k))
  BY ServingType DEF PoolsWellFormed, LivePoolsServe, Serving, DistinctAddresses

-----------------------------------------------------------------------------
(* The table against the registry of containers. *)

\* No backend is left in the table for a container that is gone, was moved away
\* from the route, or is registered elsewhere.
LEMMA NoOrphanStep ==
  TypeOK /\ PoolsWellFormed /\ NoOrphanBackend /\ [Next]_vars => NoOrphanBackend'
<1> SUFFICES ASSUME TypeOK, PoolsWellFormed, NoOrphanBackend, [Next]_vars
             PROVE  NoOrphanBackend'
  OBVIOUS
<1> USE ConstantsAssumption
<1>1. ASSUME NEW c \in Containers, NEW h \in BOOLEAN, NEW a \in MayUse[c],
             AddRoute(c, a, h)
      PROVE  NoOrphanBackend'
  <2> DEFINE t == NewTarget(a, c, 1, h)
  <2>1. /\ Upsert(RouteOf[c], t)
        /\ containers' = [containers EXCEPT ![c] = a]
        /\ moved' = moved \cup {d \in {c} : containers[d] \notin {None, a}}
    BY <1>1 DEF AddRoute
  <2>2. /\ Serving(RouteOf[c])' = PoolAdd(Serving(RouteOf[c]), t)
        /\ \A j \in Keys \ {RouteOf[c]} : Serving(j)' = Serving(j)
    BY <2>1, NewTargetIs, UpsertServing
  <2>3. ASSUME NEW j \in Keys, NEW u \in TargetsOf(j),
               j # RouteOf[c] \/ u.addr # a, u.cid \notin moved'
        PROVE  containers'[u.cid] = u.addr /\ RouteOf[u.cid] = j
    <3>1. u \in Target
      BY ServingType, PoolElements DEF TargetsOf
    <3>2. containers[u.cid] = u.addr /\ RouteOf[u.cid] = j
      BY <2>1, <2>3 DEF NoOrphanBackend
    <3>3. u.cid \in Containers /\ u.addr \in Addresses
      BY <3>1 DEF Target
    <3>4. u.cid # c
      BY <2>1, <2>3, <3>2, <3>3
    <3>5. QED BY <2>1, <3>2, <3>3, <3>4 DEF TypeOK
  <2>4. ASSUME NEW u \in TargetsOf(RouteOf[c])', u.cid \notin moved'
        PROVE  containers'[u.cid] = u.addr /\ RouteOf[u.cid] = RouteOf[c]
    <3>1. \/ u.addr = a /\ u.cid = c
          \/ u \in TargetsOf(RouteOf[c]) /\ u.addr # a
      BY <2>2, NewTargetIs, ServingDistinct, AddedTargets DEF TargetsOf
    <3>2. QED BY <2>1, <2>3, <2>4, <3>1, NewTargetIs DEF TypeOK
  <2>5. ASSUME NEW j \in Keys \ {RouteOf[c]} PROVE TargetsOf(j)' = TargetsOf(j)
    BY <2>2 DEF TargetsOf
  <2>6. QED BY <2>3, <2>4, <2>5 DEF NoOrphanBackend
<1>2. ASSUME NEW c \in Containers, RemoveRoute(c)
      PROVE  NoOrphanBackend'
  <2>1. /\ moved' = moved
        /\ containers' = [containers EXCEPT ![c] = None]
        /\ \A k \in Keys : Serving(k)' = PoolRemove(Serving(k), c)
    BY <1>2, RemoveServing DEF RemoveRoute
  <2>2. ASSUME NEW k \in Keys, NEW u \in TargetsOf(k)', u.cid \notin moved
        PROVE  containers'[u.cid] = u.addr /\ RouteOf[u.cid] = k
    <3>1. u \in TargetsOf(k)
      BY <2>1, <2>2, ServingType, PoolRemoveSubset DEF TargetsOf
    <3>2. containers[u.cid] = u.addr /\ RouteOf[u.cid] = k
      BY <2>2, <3>1 DEF NoOrphanBackend
    <3>3. u.cid # c
      <4> SUFFICES ASSUME u.cid = c PROVE FALSE
        OBVIOUS
      <4>1. \A m \in DOMAIN Serving(k) : Serving(k)[m].cid = c => Serving(k)[m].addr = containers[c]
        BY <2>2 DEF NoOrphanBackend, TargetsOf
      <4>2. \A i \in DOMAIN PoolRemove(Serving(k), c) : PoolRemove(Serving(k), c)[i].cid # c
        BY <4>1, ServingDistinct, PoolRemoveLast DEF DistinctAddresses
      <4>3. QED BY <2>1, <2>2, <4>2 DEF TargetsOf
    <3>4. QED BY <2>1, <3>2, <3>3 DEF TypeOK
  <2>3. QED BY <2>1, <2>2 DEF NoOrphanBackend
<1>3. ASSUME NEW a \in Addresses, NEW h \in BOOLEAN, SetBackendHealth(a, h)
      PROVE  NoOrphanBackend'
  <2>1. /\ UNCHANGED <<containers, moved>>
        /\ \A k \in Keys : Serving(k)' \in {Serving(k), Mark(Serving(k), a, h)}
    BY <1>3, HealthServing DEF SetBackendHealth
  <2>2. ASSUME NEW k \in Keys, NEW u \in TargetsOf(k)'
        PROVE  \E v \in TargetsOf(k) : u.addr = v.addr /\ u.cid = v.cid
    BY <2>1, <2>2, ServingType, MarkProperties DEF TargetsOf
  <2>3. QED BY <2>1, <2>2 DEF NoOrphanBackend
<1>4. ASSUME UNCHANGED <<containers, routes, pools, moved>>
      PROVE  NoOrphanBackend'
  BY <1>4 DEF NoOrphanBackend, TargetsOf, Serving, LivePool
<1>5. ASSUME NEW r \in Requests, RequestStep(r)
      PROVE  NoOrphanBackend'
  BY <1>4, <1>5
  DEF RequestStep, MatchRoute, CheckHealthy, LoadChain, StoreChain, SelectBackend,
      RefuseRequest, FinishRequest, tableVars
<1>6. CASE RegisterCheck \/ SweepChecks \/ UNCHANGED vars
  BY <1>4, <1>6 DEF RegisterCheck, SweepChecks, vars, tableVars
<1>7. QED BY <1>1, <1>2, <1>3, <1>5, <1>6 DEF Next, EngineStep

THEOREM OrphanFree == Spec => []NoOrphanBackend
<1>1. Init => NoOrphanBackend
  BY DEF Init, NoOrphanBackend, TargetsOf, Serving
<1>2. QED BY <1>1, NoOrphanStep, TypeCorrect, ShapeCorrect, PTL DEF Spec

\* A registered container that has not been taken over is served.
LEMMA RegisteredStep ==
  TypeOK /\ PoolsWellFormed /\ RegisteredIsServed /\ [Next]_vars => RegisteredIsServed'
<1> SUFFICES ASSUME TypeOK, PoolsWellFormed, RegisteredIsServed, [Next]_vars
             PROVE  RegisteredIsServed'
  OBVIOUS
<1> USE ConstantsAssumption
<1>1. ASSUME NEW c \in Containers, NEW h \in BOOLEAN, NEW a \in MayUse[c],
             AddRoute(c, a, h)
      PROVE  RegisteredIsServed'
  <2> DEFINE k == RouteOf[c]
             t == NewTarget(a, c, 1, h)
  <2>1. /\ Upsert(k, t)
        /\ containers' = [containers EXCEPT ![c] = a]
        /\ shadowed' = (shadowed \ {c}) \cup
             {d \in Containers \ {c} : \E u \in TargetsOf(k) : u.addr = a /\ u.cid = d}
    BY <1>1 DEF AddRoute
  <2>2. /\ Serving(k)' = PoolAdd(Serving(k), t)
        /\ \A j \in Keys \ {k} : Serving(j)' = Serving(j)
    BY <2>1, NewTargetIs, UpsertServing
  <2>3. \E u \in TargetsOf(k)' : u.cid = c /\ u.addr = a
    BY <2>2, NewTargetIs, ServingDistinct, AddKeeps DEF TargetsOf
  <2>4. ASSUME NEW d \in Containers, d # c, containers'[d] # None, d \notin shadowed'
        PROVE  \E u \in TargetsOf(RouteOf[d])' : u.cid = d /\ u.addr = containers'[d]
    <3>1. PICK u \in TargetsOf(RouteOf[d]) : u.cid = d /\ u.addr = containers[d]
      BY <2>1, <2>4 DEF RegisteredIsServed, Registered, TypeOK
    <3>2. containers'[d] = containers[d]
      BY <2>1, <2>4 DEF TypeOK
    <3>3. CASE RouteOf[d] # k
      BY <2>2, <3>1, <3>2, <3>3 DEF TargetsOf
    <3>4. CASE RouteOf[d] = k
      <4>1. u.addr # a
        BY <2>1, <2>4, <3>1, <3>4
      <4>2. u \in TargetsOf(k)'
        BY <2>2, <3>1, <3>4, <4>1, NewTargetIs, ServingDistinct, AddKeeps DEF TargetsOf
      <4>3. QED BY <3>1, <3>2, <3>4, <4>2
    <3>5. QED BY <3>3, <3>4
  <2>5. QED BY <2>1, <2>3, <2>4 DEF RegisteredIsServed, Registered, TypeOK
<1>2. ASSUME NEW c \in Containers, RemoveRoute(c)
      PROVE  RegisteredIsServed'
  <2>1. /\ shadowed' = shadowed
        /\ containers' = [containers EXCEPT ![c] = None]
        /\ \A k \in Keys : Serving(k)' = PoolRemove(Serving(k), c)
    BY <1>2, RemoveServing DEF RemoveRoute
  <2>2. ASSUME NEW d \in Containers, containers'[d] # None, d \notin shadowed
        PROVE  \E u \in TargetsOf(RouteOf[d])' : u.cid = d /\ u.addr = containers'[d]
    <3>1. d # c /\ containers'[d] = containers[d]
      BY <2>1, <2>2 DEF TypeOK
    <3>2. PICK u \in TargetsOf(RouteOf[d]) : u.cid = d /\ u.addr = containers[d]
      BY <2>2, <3>1 DEF RegisteredIsServed, Registered
    <3>3. u \in TargetsOf(RouteOf[d])'
      BY <2>1, <3>1, <3>2, ServingType, PoolRemoveKeeps DEF TargetsOf
    <3>4. QED BY <3>1, <3>2, <3>3
  <2>3. QED BY <2>1, <2>2 DEF RegisteredIsServed, Registered
<1>3. ASSUME NEW a \in Addresses, NEW h \in BOOLEAN, SetBackendHealth(a, h)
      PROVE  RegisteredIsServed'
  <2>1. /\ UNCHANGED <<containers, shadowed>>
        /\ \A k \in Keys : Serving(k)' \in {Serving(k), Mark(Serving(k), a, h)}
    BY <1>3, HealthServing DEF SetBackendHealth
  <2>2. ASSUME NEW k \in Keys, NEW v \in TargetsOf(k)
        PROVE  \E u \in TargetsOf(k)' : u.addr = v.addr /\ u.cid = v.cid
    BY <2>1, <2>2, ServingType, MarkProperties DEF TargetsOf
  <2>3. QED BY <2>1, <2>2 DEF RegisteredIsServed, Registered
<1>4. ASSUME UNCHANGED <<containers, routes, pools, shadowed>>
      PROVE  RegisteredIsServed'
  BY <1>4 DEF RegisteredIsServed, Registered, TargetsOf, Serving, LivePool
<1>5. ASSUME NEW r \in Requests, RequestStep(r)
      PROVE  RegisteredIsServed'
  BY <1>4, <1>5
  DEF RequestStep, MatchRoute, CheckHealthy, LoadChain, StoreChain, SelectBackend,
      RefuseRequest, FinishRequest, tableVars
<1>6. CASE RegisterCheck \/ SweepChecks \/ UNCHANGED vars
  BY <1>4, <1>6 DEF RegisterCheck, SweepChecks, vars, tableVars
<1>7. QED BY <1>1, <1>2, <1>3, <1>5, <1>6 DEF Next, EngineStep

THEOREM ServedCorrect == Spec => []RegisteredIsServed
<1>1. Init => RegisteredIsServed
  BY DEF Init, RegisteredIsServed, Registered
<1>2. QED BY <1>1, RegisteredStep, TypeCorrect, ShapeCorrect, PTL DEF Spec

-----------------------------------------------------------------------------
(* The health checker's registrations. *)

\* The checker probes exactly what the table serves, between engine operations.
LEMMA ChecksStep ==
  TypeOK /\ PoolsWellFormed /\ ChecksMatchTable /\ [Next]_vars => ChecksMatchTable'
<1> SUFFICES ASSUME TypeOK, PoolsWellFormed, ChecksMatchTable, [Next]_vars
             PROVE  ChecksMatchTable'
  OBVIOUS
<1> USE ConstantsAssumption
<1>1. ASSUME NEW c \in Containers, NEW h \in BOOLEAN, NEW a \in MayUse[c],
             AddRoute(c, a, h)
      PROVE  ChecksMatchTable'
  <2>1. /\ Upsert(RouteOf[c], NewTarget(a, c, 1, h))
        /\ engine = Idle /\ engine' = [op |-> "register", addr |-> a] /\ checks' = checks
    BY <1>1 DEF AddRoute
  <2>2. /\ AddressesOf(Serving(RouteOf[c]))' = AddressesOf(Serving(RouteOf[c])) \cup {a}
        /\ \A j \in Keys \ {RouteOf[c]} : AddressesOf(Serving(j))' = AddressesOf(Serving(j))
    <3>1. /\ Serving(RouteOf[c])' = PoolAdd(Serving(RouteOf[c]), NewTarget(a, c, 1, h))
          /\ \A j \in Keys \ {RouteOf[c]} : Serving(j)' = Serving(j)
      BY <2>1, NewTargetIs, UpsertServing
    <3>2. AddressesOf(PoolAdd(Serving(RouteOf[c]), NewTarget(a, c, 1, h)))
            = AddressesOf(Serving(RouteOf[c])) \cup {a}
      BY NewTargetIs, ServingDistinct, AddKeeps
    <3>3. QED BY <3>1, <3>2 DEF AddressesOf
  <2>3. BackendAddresses' = BackendAddresses \cup {a}
    BY <2>2 DEF BackendAddresses
  <2>4. QED BY <2>1, <2>3 DEF ChecksMatchTable, Idle
<1>2. ASSUME NEW c \in Containers, RemoveRoute(c)
      PROVE  ChecksMatchTable'
  <2>1. /\ engine = Idle /\ engine' = [op |-> "sweep"] /\ checks' = checks
        /\ \A k \in Keys : Serving(k)' = PoolRemove(Serving(k), c)
    BY <1>2, RemoveServing DEF RemoveRoute
  <2>2. ASSUME NEW k \in Keys PROVE AddressesOf(Serving(k)') \subseteq AddressesOf(Serving(k))
    BY <2>1, ServingType, PoolRemoveSubset DEF AddressesOf
  <2>3. BackendAddresses' \subseteq BackendAddresses
    BY <2>2 DEF BackendAddresses, AddressesOf
  <2>4. QED BY <2>1, <2>3 DEF ChecksMatchTable, Idle
<1>3. ASSUME NEW a \in Addresses, NEW h \in BOOLEAN, SetBackendHealth(a, h)
      PROVE  ChecksMatchTable'
  <2>1. /\ UNCHANGED <<engine, checks>>
        /\ \A k \in Keys : Serving(k)' \in {Serving(k), Mark(Serving(k), a, h)}
    BY <1>3, HealthServing DEF SetBackendHealth
  <2>2. ASSUME NEW k \in Keys PROVE AddressesOf(Serving(k))' = AddressesOf(Serving(k))
    BY <2>1, ServingType, MarkProperties DEF AddressesOf
  <2>3. BackendAddresses' = BackendAddresses
    BY <2>2 DEF BackendAddresses
  <2>4. QED BY <2>1, <2>3 DEF ChecksMatchTable
<1>4. ASSUME UNCHANGED <<routes, pools>>
      PROVE  BackendAddresses' = BackendAddresses
  BY <1>4 DEF BackendAddresses, AddressesOf, Serving, LivePool
<1>5. ASSUME NEW r \in Requests, RequestStep(r)
      PROVE  ChecksMatchTable'
  <2>1. UNCHANGED <<routes, pools, engine, checks>>
    BY <1>5
    DEF RequestStep, MatchRoute, CheckHealthy, LoadChain, StoreChain, SelectBackend,
        RefuseRequest, FinishRequest, tableVars
  <2>2. QED BY <1>4, <2>1 DEF ChecksMatchTable
<1>6. CASE RegisterCheck
  <2>1. /\ engine.op = "register" /\ engine' = Idle
        /\ checks' = checks \cup {engine.addr} /\ UNCHANGED <<routes, pools>>
    BY <1>6 DEF RegisterCheck, tableVars
  <2>2. QED BY <1>4, <2>1 DEF ChecksMatchTable, Idle
<1>7. CASE SweepChecks
  <2>1. /\ engine.op = "sweep" /\ engine' = Idle
        /\ checks' = checks \cap BackendAddresses /\ UNCHANGED <<routes, pools>>
    BY <1>7 DEF SweepChecks, tableVars
  <2>2. QED BY <1>4, <2>1 DEF ChecksMatchTable, Idle
<1>8. CASE UNCHANGED vars
  BY <1>4, <1>8 DEF ChecksMatchTable, vars, tableVars
<1>9. QED BY <1>1, <1>2, <1>3, <1>5, <1>6, <1>7, <1>8 DEF Next, EngineStep

THEOREM ChecksCorrect == Spec => []ChecksMatchTable
<1>1. Init => ChecksMatchTable
  BY DEF Init, ChecksMatchTable, Idle, BackendAddresses, Serving, AddressesOf
<1>2. QED BY <1>1, ChecksStep, TypeCorrect, ShapeCorrect, PTL DEF Spec

-----------------------------------------------------------------------------
(* What a step may never do. *)

\* A request is sent only to a backend its own route serves at that moment.
THEOREM SentCorrect == Spec => SentWithinRoute
<1> DEFINE Sent ==
      \A r \in Requests :
        reqs'[r].pc = "sent" /\ reqs[r].pc # "sent" =>
          \E t \in TargetsOf(reqs[r].key) : t.addr = reqs'[r].addr /\ t.healthy
<1>1. TypeOK /\ PoolsWellFormed /\ [Next]_vars => [Sent]_vars
  <2> SUFFICES ASSUME TypeOK, PoolsWellFormed, Next,
                      NEW r \in Requests, reqs'[r].pc = "sent", reqs[r].pc # "sent"
               PROVE  \E t \in TargetsOf(reqs[r].key) : t.addr = reqs'[r].addr /\ t.healthy
    OBVIOUS
  <2>1. SelectBackend(r)
    <3>1. reqs'[r] # reqs[r]
      OBVIOUS
    <3>2. ~EngineStep /\ \A a \in Addresses, h \in BOOLEAN : ~SetBackendHealth(a, h)
      BY <3>1 DEF EngineStep, AddRoute, RemoveRoute, RegisterCheck, SweepChecks, SetBackendHealth
    <3>3. PICK s \in Requests : RequestStep(s)
      BY <3>2 DEF Next
    <3>4. s = r
      BY <3>1, <3>3
      DEF RequestStep, MatchRoute, CheckHealthy, LoadChain, StoreChain, SelectBackend,
          RefuseRequest, FinishRequest, TypeOK
    <3>5. \A k \in Keys : ~MatchRoute(r, k)
      BY DEF MatchRoute, TypeOK
    <3>6. ~CheckHealthy(r) /\ ~LoadChain(r) /\ ~StoreChain(r)
      <4> DEFINE Held(pc) == [pc: {pc}, key: Keys, pool: PoolId]
      <4>1. /\ reqs[r].pc = "matched" => reqs[r] \in Held("matched")
            /\ reqs[r].pc = "chain" => reqs[r] \in Held("chain")
            /\ reqs[r].pc = "store" => reqs[r] \in Held("store")
        BY DEF TypeOK, RequestState
      <4>2. CASE CheckHealthy(r)
        BY <4>1, <4>2 DEF CheckHealthy, TypeOK
      <4>3. CASE LoadChain(r)
        BY <4>1, <4>3 DEF LoadChain, TypeOK
      <4>4. CASE StoreChain(r)
        BY <4>1, <4>4 DEF StoreChain, TypeOK
      <4>5. QED BY <4>2, <4>3, <4>4
    <3>7. ~RefuseRequest(r) /\ ~FinishRequest(r)
      BY DEF RefuseRequest, FinishRequest, TypeOK
    <3>8. QED BY <3>3, <3>4, <3>5, <3>6, <3>7 DEF RequestStep
  <2> DEFINE p == reqs[r].pool
             k == reqs[r].key
  <2>2. p \in PoolId /\ k \in Keys /\ reqs[r].pc # "idle"
    BY <2>1 DEF SelectBackend, TypeOK, RequestState
  <2>3. PICK i \in HealthyAt(pools[p]) : reqs'[r].addr = pools[p][i].addr
    BY <2>1 DEF SelectBackend, TypeOK
  <2>4. i \in DOMAIN pools[p] /\ pools[p][i].healthy
    BY DEF HealthyAt
  <2>5. Live(p)
    BY <2>2, <2>4 DEF PoolsWellFormed, PoolsOwned
  <2>6. routes[k] = p
    BY <2>2, <2>5 DEF Live, PoolsWellFormed, HeldPoolsOwned, OwnedBy
  <2>7. Serving(k) = pools[p]
    BY <2>2, <2>6, ConstantsAssumption DEF Serving, LivePool
  <2>8. QED BY <2>3, <2>4, <2>7 DEF TargetsOf
<1>2. QED BY <1>1, TypeCorrect, ShapeCorrect, PTL DEF Spec, SentWithinRoute

\* Adding or removing a container leaves every other target untouched.
THEOREM SiblingsCorrect == Spec => SiblingsUndisturbed
<1> DEFINE Undisturbed ==
      \A c \in Containers :
        containers'[c] # containers[c] =>
          \A k \in Keys : \A t \in TargetsOf(k) :
            t.cid # c /\ t.addr # containers'[c] => t \in TargetsOf(k)'
<1>1. TypeOK /\ PoolsWellFormed /\ [Next]_vars => [Undisturbed]_vars
  <2> SUFFICES ASSUME TypeOK, PoolsWellFormed, Next,
                      NEW c \in Containers, containers'[c] # containers[c],
                      NEW k \in Keys, NEW t \in TargetsOf(k),
                      t.cid # c, t.addr # containers'[c]
               PROVE  t \in TargetsOf(k)'
    OBVIOUS
  <2> USE ConstantsAssumption
  <2>1. \/ \E h \in BOOLEAN : \E a \in MayUse[c] : AddRoute(c, a, h)
        \/ RemoveRoute(c)
    <3>1. \A d \in Containers \ {c} : ~RemoveRoute(d) /\ \A h \in BOOLEAN, a \in MayUse[d] : ~AddRoute(d, a, h)
      BY DEF RemoveRoute, AddRoute, TypeOK
    <3>2. ~RegisterCheck /\ ~SweepChecks /\ \A a \in Addresses, h \in BOOLEAN : ~SetBackendHealth(a, h)
      BY DEF RegisterCheck, SweepChecks, SetBackendHealth, tableVars
    <3>3. \A r \in Requests : ~RequestStep(r)
      BY DEF RequestStep, MatchRoute, CheckHealthy, LoadChain, StoreChain, SelectBackend,
             RefuseRequest, FinishRequest, tableVars
    <3>4. QED BY <3>1, <3>2, <3>3 DEF Next, EngineStep
  <2>2. CASE RemoveRoute(c)
    <3>1. Serving(k)' = PoolRemove(Serving(k), c)
      BY <2>2, RemoveServing DEF RemoveRoute
    <3>2. QED BY <3>1, ServingType, PoolRemoveKeeps DEF TargetsOf
  <2>3. ASSUME NEW h \in BOOLEAN, NEW a \in MayUse[c], AddRoute(c, a, h)
        PROVE  t \in TargetsOf(k)'
    <3>1. /\ Upsert(RouteOf[c], NewTarget(a, c, 1, h))
          /\ containers'[c] = a
      BY <2>3 DEF AddRoute, TypeOK
    <3>2. CASE k = RouteOf[c]
      <4>1. Serving(k)' = PoolAdd(Serving(k), NewTarget(a, c, 1, h))
        BY <3>1, <3>2, NewTargetIs, UpsertServing
      <4>2. QED BY <3>1, <4>1, NewTargetIs, ServingDistinct, AddKeeps DEF TargetsOf
    <3>3. CASE k # RouteOf[c]
      <4>1. Serving(k)' = Serving(k)
        BY <3>1, <3>3, NewTargetIs, UpsertServing
      <4>2. QED BY <4>1 DEF TargetsOf
    <3>4. QED BY <3>2, <3>3
  <2>4. QED BY <2>1, <2>2, <2>3
<1>2. QED BY <1>1, TypeCorrect, ShapeCorrect, PTL DEF Spec, SiblingsUndisturbed

-----------------------------------------------------------------------------
(* The table implements the directory of backends. *)

\* Every container in the table is there on the route its labels ask for.
OnRoute == \A k \in Keys : \A t \in TargetsOf(k) : RouteOf[t.cid] = k

LEMMA OnRouteStep ==
  TypeOK /\ PoolsWellFormed /\ OnRoute /\ [Next]_vars => OnRoute'
<1> SUFFICES ASSUME TypeOK, PoolsWellFormed, OnRoute, [Next]_vars
             PROVE  OnRoute'
  OBVIOUS
<1> USE ConstantsAssumption
<1>1. ASSUME NEW c \in Containers, NEW h \in BOOLEAN, NEW a \in MayUse[c],
             AddRoute(c, a, h)
      PROVE  OnRoute'
  <2>1. /\ Serving(RouteOf[c])' = PoolAdd(Serving(RouteOf[c]), NewTarget(a, c, 1, h))
        /\ \A j \in Keys \ {RouteOf[c]} : Serving(j)' = Serving(j)
    BY <1>1, NewTargetIs, UpsertServing DEF AddRoute
  <2>2. ASSUME NEW u \in TargetsOf(RouteOf[c])' PROVE RouteOf[u.cid] = RouteOf[c]
    <3>1. u.cid = c \/ u \in TargetsOf(RouteOf[c])
      BY <2>1, NewTargetIs, ServingDistinct, AddedTargets DEF TargetsOf
    <3>2. QED BY <3>1 DEF OnRoute
  <2>3. ASSUME NEW j \in Keys \ {RouteOf[c]} PROVE TargetsOf(j)' = TargetsOf(j)
    BY <2>1 DEF TargetsOf
  <2>4. QED BY <2>2, <2>3 DEF OnRoute
<1>2. ASSUME NEW c \in Containers, RemoveRoute(c)
      PROVE  OnRoute'
  <2>1. \A k \in Keys : Serving(k)' = PoolRemove(Serving(k), c)
    BY <1>2, RemoveServing DEF RemoveRoute
  <2>2. ASSUME NEW k \in Keys, NEW u \in TargetsOf(k)' PROVE u \in TargetsOf(k)
    BY <2>1, <2>2, ServingType, PoolRemoveSubset DEF TargetsOf
  <2>3. QED BY <2>2 DEF OnRoute
<1>3. ASSUME NEW a \in Addresses, NEW h \in BOOLEAN, SetBackendHealth(a, h)
      PROVE  OnRoute'
  <2>1. \A k \in Keys : Serving(k)' \in {Serving(k), Mark(Serving(k), a, h)}
    BY <1>3, HealthServing
  <2>2. ASSUME NEW k \in Keys, NEW u \in TargetsOf(k)'
        PROVE  \E v \in TargetsOf(k) : u.cid = v.cid
    BY <2>1, <2>2, ServingType, MarkProperties DEF TargetsOf
  <2>3. QED BY <2>2 DEF OnRoute
<1>4. ASSUME UNCHANGED <<routes, pools>> PROVE OnRoute'
  BY <1>4 DEF OnRoute, TargetsOf, Serving, LivePool
<1>5. ASSUME NEW r \in Requests, RequestStep(r) PROVE OnRoute'
  BY <1>4, <1>5
  DEF RequestStep, MatchRoute, CheckHealthy, LoadChain, StoreChain, SelectBackend,
      RefuseRequest, FinishRequest, tableVars
<1>6. CASE RegisterCheck \/ SweepChecks \/ UNCHANGED vars
  BY <1>4, <1>6 DEF RegisterCheck, SweepChecks, vars, tableVars
<1>7. QED BY <1>1, <1>2, <1>3, <1>5, <1>6 DEF Next, EngineStep

\* The entry of the directory that a backend of a route stands for.
EntryOf(k, t) == [key |-> k, addr |-> t.addr, cid |-> t.cid]

\* An entry of the directory is a backend of some route.
LEMMA EntriesAre ==
  ASSUME NEW e
  PROVE  e \in TableEntries <=>
           \E k \in Keys : \E i \in DOMAIN Serving(k) : e = EntryOf(k, Serving(k)[i])
  BY DEF TableEntries, TargetsOf, EntryOf

\* Registering a container is Announce.
LEMMA AddIsAnnounce ==
  ASSUME TypeOK, PoolsWellFormed,
         NEW c \in Containers, NEW h \in BOOLEAN, NEW a \in MayUse[c], AddRoute(c, a, h)
  PROVE  Dir!Announce(c, a)
<1> DEFINE k == RouteOf[c]
           t == NewTarget(a, c, 1, h)
           p == Serving(k)
           new == [key |-> k, addr |-> a, cid |-> c]
<1>1. /\ k \in Keys /\ t \in Target /\ t.addr = a /\ t.cid = c
      /\ p \in Pool /\ DistinctAddresses(p)
  BY NewTargetIs, ServingDistinct
<1>2. /\ Serving(k)' = PoolAdd(p, t)
      /\ \A j \in Keys \ {k} : Serving(j)' = Serving(j)
  BY <1>1, UpsertServing DEF AddRoute
<1> HIDE DEF t, p
<1>3. ASSUME NEW e \in TableEntries'
      PROVE  e = new \/ e \in {d \in TableEntries : d.key # k \/ d.addr # a}
  <2>1. PICK j \in Keys : \E i \in DOMAIN Serving(j)' : e = EntryOf(j, Serving(j)'[i])
    BY <1>3 DEF TableEntries, TargetsOf, EntryOf
  <2>2. PICK i \in DOMAIN Serving(j)' : e = EntryOf(j, Serving(j)'[i])
    BY <2>1
  <2>3. CASE j # k
    BY <1>2, <2>2, <2>3, EntriesAre DEF EntryOf
  <2>4. CASE j = k
    <3>1. \/ PoolAdd(p, t)[i].addr = t.addr /\ PoolAdd(p, t)[i].cid = t.cid
          \/ \E m \in DOMAIN p : PoolAdd(p, t)[i] = p[m] /\ p[m].addr # t.addr
      BY <1>1, <1>2, <2>2, <2>4, AddedTargets
    <3>2. CASE PoolAdd(p, t)[i].addr = t.addr /\ PoolAdd(p, t)[i].cid = t.cid
      BY <1>1, <1>2, <2>2, <2>4, <3>2 DEF EntryOf
    <3>3. CASE \E m \in DOMAIN p : PoolAdd(p, t)[i] = p[m] /\ p[m].addr # t.addr
      <4>1. PICK m \in DOMAIN p : PoolAdd(p, t)[i] = p[m] /\ p[m].addr # t.addr
        BY <3>3
      <4>2. e = EntryOf(k, Serving(k)[m]) /\ m \in DOMAIN Serving(k)
        BY <1>2, <2>2, <2>4, <4>1 DEF p
      <4>3. e \in TableEntries /\ e.addr # a
        BY <1>1, <4>1, <4>2, EntriesAre DEF EntryOf, p
      <4>4. QED BY <4>3
    <3>4. QED BY <3>1, <3>2, <3>3
  <2>5. QED BY <2>3, <2>4
<1>4. new \in TableEntries'
  <2>1. PICK i \in DOMAIN PoolAdd(p, t) :
          PoolAdd(p, t)[i].addr = t.addr /\ PoolAdd(p, t)[i].cid = t.cid
    BY <1>1, AddKeeps
  <2>2. i \in DOMAIN Serving(k)' /\ new = EntryOf(k, Serving(k)'[i])
    BY <1>1, <1>2, <2>1 DEF EntryOf
  <2>3. QED BY <1>1, <2>2 DEF TableEntries, TargetsOf, EntryOf
<1>5. ASSUME NEW e \in TableEntries, e.key # k \/ e.addr # a
      PROVE  e \in TableEntries'
  <2>1. PICK j \in Keys : \E m \in DOMAIN Serving(j) : e = EntryOf(j, Serving(j)[m])
    BY EntriesAre
  <2>2. PICK m \in DOMAIN Serving(j) : e = EntryOf(j, Serving(j)[m])
    BY <2>1
  <2>3. \E i \in DOMAIN Serving(j)' : e = EntryOf(j, Serving(j)'[i])
    <3>1. CASE j # k
      BY <1>2, <2>2, <3>1
    <3>2. CASE j = k
      <4>1. m \in DOMAIN p /\ p[m].addr # t.addr /\ e = EntryOf(k, p[m])
        BY <1>1, <1>5, <2>2, <3>2 DEF EntryOf, p
      <4>2. \E i \in DOMAIN PoolAdd(p, t) : PoolAdd(p, t)[i] = p[m]
        BY <1>1, <4>1, AddKeeps
      <4>3. QED BY <1>2, <3>2, <4>1, <4>2
    <3>3. QED BY <3>1, <3>2
  <2>4. QED BY <2>3 DEF TableEntries, TargetsOf, EntryOf
<1>6. TableEntries' = {d \in TableEntries : d.key # k \/ d.addr # a} \cup {new}
  BY <1>3, <1>4, <1>5
<1>7. QED BY <1>6 DEF Dir!Announce

\* Removing one is Withdraw: whatever is left of a container is one entry less.
LEMMA RemoveIsWithdraw ==
  ASSUME TypeOK, PoolsWellFormed, OnRoute, NEW c \in Containers, RemoveRoute(c)
  PROVE  Dir!Withdraw(c)
<1> DEFINE k == RouteOf[c]
           p == Serving(k)
<1>1. k \in Keys /\ p \in Pool /\ DistinctAddresses(p)
  BY ConstantsAssumption, ServingDistinct
<1>2. \A j \in Keys : Serving(j)' = PoolRemove(Serving(j), c)
  BY RemoveServing DEF RemoveRoute
<1>3. ASSUME NEW j \in Keys \ {k} PROVE Serving(j)' = Serving(j)
  <2>1. \A i \in DOMAIN Serving(j) : Serving(j)[i].cid # c
    BY <1>3 DEF OnRoute, TargetsOf
  <2>2. QED BY <1>2, <1>3, <2>1, ServingType, PoolRemoveNone
<1>4. ASSUME NEW e \in TableEntries, e.cid = c
      PROVE  e.key = k /\ \E m \in DOMAIN p : p[m].cid = c /\ e = EntryOf(k, p[m])
  <2>1. PICK j \in Keys : \E m \in DOMAIN Serving(j) : e = EntryOf(j, Serving(j)[m])
    BY EntriesAre
  <2>2. PICK m \in DOMAIN Serving(j) : e = EntryOf(j, Serving(j)[m])
    BY <2>1
  <2>3. Serving(j)[m].cid = c /\ j = k
    BY <1>4, <2>2 DEF EntryOf, OnRoute, TargetsOf
  <2>4. QED BY <2>2, <2>3 DEF EntryOf
<1>5. CASE \A n \in DOMAIN p : p[n].cid # c
  <2>1. \A j \in Keys : Serving(j)' = Serving(j)
    BY <1>1, <1>2, <1>3, <1>5, PoolRemoveNone
  <2>2. TableEntries' = TableEntries
    BY <2>1 DEF TableEntries, TargetsOf
  <2>3. Dir!EntriesOf(c) = {}
    BY <1>4, <1>5 DEF Dir!EntriesOf
  <2>4. QED BY <2>2, <2>3 DEF Dir!Withdraw
<1>6. CASE \E n \in DOMAIN p : p[n].cid = c
  <2>1. PICK m \in DOMAIN p :
          /\ p[m].cid = c
          /\ \A i \in DOMAIN PoolRemove(p, c) :
               \E j \in DOMAIN p \ {m} : PoolRemove(p, c)[i] = p[j]
          /\ \A j \in DOMAIN p \ {m} :
               \E i \in DOMAIN PoolRemove(p, c) : PoolRemove(p, c)[i] = p[j]
    BY <1>1, <1>6, PoolRemoveOne
  <2> DEFINE gone == EntryOf(k, p[m])
  <2>2. gone \in TableEntries /\ gone.cid = c
    BY <1>1, <2>1, EntriesAre DEF EntryOf
  <2>3. ASSUME NEW e \in TableEntries' PROVE e \in TableEntries \ {gone}
    <3>1. PICK j \in Keys : \E i \in DOMAIN Serving(j)' : e = EntryOf(j, Serving(j)'[i])
      BY <2>3 DEF TableEntries, TargetsOf, EntryOf
    <3>2. PICK i \in DOMAIN Serving(j)' : e = EntryOf(j, Serving(j)'[i])
      BY <3>1
    <3>3. CASE j # k
      BY <1>3, <3>2, <3>3, EntriesAre DEF EntryOf
    <3>4. CASE j = k
      <4>1. PICK n \in DOMAIN p \ {m} : e = EntryOf(k, p[n])
        BY <1>2, <2>1, <3>2, <3>4
      <4>2. p[n].addr # p[m].addr
        BY <1>1, <4>1 DEF DistinctAddresses
      <4>3. QED BY <1>1, <4>1, <4>2, EntriesAre DEF EntryOf
    <3>5. QED BY <3>3, <3>4
  <2>4. ASSUME NEW e \in TableEntries, e # gone PROVE e \in TableEntries'
    <3>1. PICK j \in Keys : \E n \in DOMAIN Serving(j) : e = EntryOf(j, Serving(j)[n])
      BY <2>4, EntriesAre
    <3>2. PICK n \in DOMAIN Serving(j) : e = EntryOf(j, Serving(j)[n])
      BY <3>1
    <3>3. \E i \in DOMAIN Serving(j)' : e = EntryOf(j, Serving(j)'[i])
      <4>1. CASE j # k
        BY <1>3, <3>2, <4>1
      <4>2. CASE j = k
        <5>1. n \in DOMAIN p \ {m}
          BY <2>4, <3>2, <4>2
        <5>2. QED BY <1>2, <2>1, <3>2, <4>2, <5>1
      <4>3. QED BY <4>1, <4>2
    <3>4. QED BY <3>3 DEF TableEntries, TargetsOf, EntryOf
  <2>5. TableEntries' = TableEntries \ {gone}
    BY <2>3, <2>4
  <2>6. gone \in Dir!EntriesOf(c)
    BY <2>2 DEF Dir!EntriesOf
  <2>7. QED BY <2>5, <2>6 DEF Dir!Withdraw
<1>7. QED BY <1>5, <1>6

\* The table implements the directory of backends: every step of the control
\* plane, requests and health notifications included, is one registration, one
\* withdrawal, or leaves the directory as it is (Table.Upsert and
\* RemoveByContainer in internal/router/table.go).
THEOREM TableIsDirectory == Spec => ImplementsDirectory
<1>1. Init => Dir!Init
  BY DEF Init, Dir!Init, TableEntries, TargetsOf, Serving
<1>2. TypeOK /\ PoolsWellFormed /\ OnRoute /\ [Next]_vars => [Dir!Next]_TableEntries
  <2> SUFFICES ASSUME TypeOK, PoolsWellFormed, OnRoute, [Next]_vars
               PROVE  [Dir!Next]_TableEntries
    OBVIOUS
  <2>1. ASSUME NEW c \in Containers, NEW h \in BOOLEAN, NEW a \in MayUse[c],
               AddRoute(c, a, h)
        PROVE  Dir!Next
    BY <2>1, AddIsAnnounce, NewTargetIs DEF Dir!Next
  <2>2. ASSUME NEW c \in Containers, RemoveRoute(c)
        PROVE  Dir!Next
    BY <2>2, RemoveIsWithdraw DEF Dir!Next
  <2>3. ASSUME NEW a \in Addresses, NEW h \in BOOLEAN, SetBackendHealth(a, h)
        PROVE  UNCHANGED TableEntries
    <3>1. \A k \in Keys : Serving(k)' \in {Serving(k), Mark(Serving(k), a, h)}
      BY <2>3, HealthServing
    <3>2. ASSUME NEW k \in Keys
          PROVE  /\ DOMAIN Serving(k)' = DOMAIN Serving(k)
                 /\ \A i \in DOMAIN Serving(k) :
                      EntryOf(k, Serving(k)'[i]) = EntryOf(k, Serving(k)[i])
      BY <2>3, <3>1, ServingType, MarkProperties DEF EntryOf
    <3>3. ASSUME NEW e
          PROVE  e \in TableEntries' <=> e \in TableEntries
      <4>1. e \in TableEntries' <=>
              \E k \in Keys : \E i \in DOMAIN Serving(k)' : e = EntryOf(k, Serving(k)'[i])
        BY DEF TableEntries, TargetsOf, EntryOf
      <4>2. QED BY <3>2, <4>1, EntriesAre
    <3>4. QED BY <3>3
  <2>4. ASSUME UNCHANGED <<routes, pools>> PROVE UNCHANGED TableEntries
    BY <2>4 DEF TableEntries, TargetsOf, Serving, LivePool
  <2>5. ASSUME NEW r \in Requests, RequestStep(r) PROVE UNCHANGED TableEntries
    BY <2>4, <2>5
    DEF RequestStep, MatchRoute, CheckHealthy, LoadChain, StoreChain, SelectBackend,
        RefuseRequest, FinishRequest, tableVars
  <2>6. CASE RegisterCheck \/ SweepChecks \/ UNCHANGED vars
    BY <2>4, <2>6 DEF RegisterCheck, SweepChecks, vars, tableVars
  <2>7. QED BY <2>1, <2>2, <2>3, <2>5, <2>6 DEF Next, EngineStep
<1>3. Init => OnRoute
  BY DEF Init, OnRoute, TargetsOf, Serving
<1>4. QED
  BY <1>1, <1>2, <1>3, OnRouteStep, TypeCorrect, ShapeCorrect, PTL
  DEF Spec, ImplementsDirectory, Dir!Spec

=============================================================================
