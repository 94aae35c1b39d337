----------------------------- MODULE RouteTable -----------------------------
(***************************************************************************)
(* The routing control plane and the way a request reaches a pool:         *)
(*                                                                         *)
(*   - the discovery engine's registry of containers, and the route sink   *)
(*     of cmd/dockrouter/main.go that turns each change of the registry    *)
(*     into a change of the route table and of the health checker's        *)
(*     registrations;                                                      *)
(*   - the route table (internal/router/table.go) and its backend pools;   *)
(*   - the per-route cache of middleware chains                            *)
(*     (internal/router/route_middleware.go), whose innermost handler      *)
(*     holds on to the route it was first built for;                       *)
(*   - requests on their way through Router.ServeHTTP.                     *)
(*                                                                         *)
(* The engine changes the table under Engine.mu, so one engine operation   *)
(* runs at a time; requests and health notifications run between any two   *)
(* of its steps.  A route is looked up here by its key: the path trees and *)
(* the matching of hosts are a matter of their own.                        *)
(***************************************************************************)
EXTENDS BackendPool

CONSTANTS
  Keys,       \* route keys: what RouteKey(host, path) returns
  Requests,   \* requests in flight
  RouteOf,    \* the key a container's labels ask for; labels never change
  MayUse,     \* the addresses a container may be found at
  MaxPools,   \* bound: pools allocated in a behaviour
  None        \* a Go nil, or a missing map entry

PoolId == 1 .. MaxPools

ASSUME ConstantsAssumption ==
  /\ RouteOf \in [Containers -> Keys]
  /\ MayUse \in [Containers -> SUBSET Addresses]
  /\ MaxPools \in Nat
  /\ None \notin PoolId
  /\ None \notin Addresses

VARIABLES
  containers,  \* Engine.containers: the address a container is registered at
  routes,      \* Table.routes: the pool of each route
  pools,       \* the heap of backend pools
  allocated,   \* how many pools the heap has handed out
  checks,      \* Checker.checks: the addresses being probed
  engine,      \* the sink operation that holds Engine.mu, and what is left of it
  chains,      \* chainCache: the pool the route's cached chain serves from
  reqs,        \* where each request is
  moved,       \* history: containers registered again at another address
  shadowed     \* history: containers whose pool entry another one took over

tableVars == <<containers, routes, pools, allocated, moved, shadowed>>
vars == <<tableVars, checks, engine, chains, reqs>>

Idle == [op |-> "idle"]

EngineState ==
  [op: {"idle", "sweep"}] \cup [op: {"register"}, addr: Addresses]

\* "chain" is the point between the health check and BuildChain, "store" the
\* point inside BuildChain between a cache miss and the Store.
RequestState ==
  [pc: {"idle"}]
    \cup [pc: {"matched", "chain", "store", "serve"}, key: Keys, pool: PoolId]
    \cup [pc: {"sent"}, key: Keys, pool: PoolId, addr: Addresses]

TypeOK ==
  /\ containers \in [Containers -> Addresses \cup {None}]
  /\ routes \in [Keys -> PoolId \cup {None}]
  /\ pools \in [PoolId -> Pool]
  /\ allocated \in 0 .. MaxPools
  /\ checks \subseteq Addresses
  /\ engine \in EngineState
  /\ chains \in [Keys -> PoolId \cup {None}]
  /\ reqs \in [Requests -> RequestState]
  /\ moved \subseteq Containers
  /\ shadowed \subseteq Containers

Init ==
  /\ containers = [c \in Containers |-> None]
  /\ routes = [k \in Keys |-> None]
  /\ pools = [p \in PoolId |-> <<>>]
  /\ allocated = 0
  /\ checks = {}
  /\ engine = Idle
  /\ chains = [k \in Keys |-> None]
  /\ reqs = [r \in Requests |-> [pc |-> "idle"]]
  /\ moved = {}
  /\ shadowed = {}

-----------------------------------------------------------------------------
(* The table. *)

\* The pool of a live route, and the pools of every live route.
LivePool(k) == pools[routes[k]]

Live(p) == \E k \in Keys : routes[k] = p

\* What the table serves on a key: nothing where there is no route.
Serving(k) == IF routes[k] = None THEN <<>> ELSE LivePool(k)

TargetsOf(k) == {Serving(k)[i] : i \in DOMAIN Serving(k)}

\* BackendAddresses: every address some route serves.
BackendAddresses == UNION {AddressesOf(Serving(k)) : k \in Keys}

\* Mutant: the route of the newest replica replaces the one there was.
UpsertReplaces(k, t) ==
  /\ allocated < MaxPools
  /\ pools' = [pools EXCEPT ![allocated + 1] = <<t>>]
  /\ routes' = [routes EXCEPT ![k] = allocated + 1]
  /\ allocated' = allocated + 1

\* Table.Upsert: the pool of an existing route is kept; only a new route takes
\* the pool it comes with.
Upsert(k, t) ==
  LET fresh == allocated + 1
      p     == IF routes[k] # None THEN routes[k] ELSE fresh
  IN  /\ p \in PoolId
      /\ pools' = [pools EXCEPT ![p] = PoolAdd(@, t)]
      /\ routes' = [routes EXCEPT ![k] = p]
      /\ allocated' = IF routes[k] # None THEN allocated ELSE fresh

\* What is left of pool p once container c is removed from the table.
Drained(p, c) == IF Live(p) THEN PoolRemove(pools[p], c) ELSE pools[p]

\* Mutant: a drained route is dropped, and its pool is left as it was.
RemoveByContainerKeepsPool(c) ==
  /\ pools' = [p \in PoolId |-> IF Drained(p, c) = <<>> THEN pools[p] ELSE Drained(p, c)]
  /\ routes' = [k \in Keys |->
                  IF routes[k] # None /\ Drained(routes[k], c) # <<>>
                  THEN routes[k] ELSE None]
  /\ UNCHANGED allocated

\* Mutant: a route goes with any of its replicas.
RemoveByContainerDropsRoute(c) ==
  /\ pools' = [p \in PoolId |-> Drained(p, c)]
  /\ routes' = [k \in Keys |->
                  IF routes[k] # None /\ Drained(routes[k], c) = pools[routes[k]]
                  THEN routes[k] ELSE None]
  /\ UNCHANGED allocated

\* Table.RemoveByContainer: a route goes once its pool is empty.
RemoveByContainer(c) ==
  /\ pools' = [p \in PoolId |-> Drained(p, c)]
  /\ routes' = [k \in Keys |->
                  IF routes[k] # None /\ Drained(routes[k], c) # <<>>
                  THEN routes[k] ELSE None]
  /\ UNCHANGED allocated

-----------------------------------------------------------------------------
(* The engine and its route sink, one operation at a time under Engine.mu. *)

\* A container is found, by Sync when it is new or has changed and on every
\* start or health event, at address a; h is Docker's view of its health.
AddRoute(c, a, h) ==
  /\ engine = Idle
  /\ Upsert(RouteOf[c], NewTarget(a, c, 1, h))
  /\ containers' = [containers EXCEPT ![c] = a]
  /\ engine' = [op |-> "register", addr |-> a]
  /\ moved' = moved \cup {d \in {c} : containers[d] \notin {None, a}}
  /\ shadowed' =
       (shadowed \ {c}) \cup
         {d \in Containers \ {c} : \E t \in TargetsOf(RouteOf[c]) : t.addr = a /\ t.cid = d}
  /\ UNCHANGED <<checks, chains, reqs>>

\* The sink registers the backend with the health checker after the Upsert.
RegisterCheck ==
  /\ engine.op = "register"
  /\ checks' = checks \cup {engine.addr}
  /\ engine' = Idle
  /\ UNCHANGED <<tableVars, chains, reqs>>

\* A registered container has stopped, or Sync no longer lists it.
RemoveRoute(c) ==
  /\ engine = Idle
  /\ containers[c] # None
  /\ RemoveByContainer(c)
  /\ containers' = [containers EXCEPT ![c] = None]
  /\ engine' = [op |-> "sweep"]
  /\ UNCHANGED <<checks, chains, reqs, moved, shadowed>>

\* Mutant: the sink forgets the stale checks.
SweepNothing ==
  /\ engine.op = "sweep"
  /\ engine' = Idle
  /\ UNCHANGED <<tableVars, checks, chains, reqs>>

\* The sink drops the checks of addresses no route serves any more.  Of its two
\* snapshots, of the table and of the checks, neither can change between them: both
\* are written under Engine.mu only, which this operation holds.
SweepChecks ==
  /\ engine.op = "sweep"
  /\ checks' = checks \cap BackendAddresses
  /\ engine' = Idle
  /\ UNCHANGED <<tableVars, chains, reqs>>

\* Table.SetBackendHealth, called back by the health checker.  A probe may
\* still be under way when its check is dropped, so any address may come.  It goes
\* through the routes one at a time, each pool with its own lock, and a request may
\* read in between: a step is what it does at one route, and steps of one call are
\* not tied together, which only allows more.
SetBackendHealth(a, h) ==
  \E k \in Keys :
    /\ pools' = [p \in PoolId |-> IF p = routes[k] THEN Mark(pools[p], a, h) ELSE pools[p]]
    /\ UNCHANGED <<containers, routes, allocated, checks, engine, chains, reqs,
                   moved, shadowed>>

-----------------------------------------------------------------------------
(* Requests: Router.ServeHTTP, RouteMiddlewareBuilder.BuildChain and the    *)
(* handler made by createProxyHandler, up to its first choice of a backend. *)

\* The table lookup returns a pointer to the route: the request keeps its pool.
MatchRoute(r, k) ==
  /\ reqs[r].pc = "idle"
  /\ routes[k] # None
  /\ reqs' = [reqs EXCEPT ![r] = [pc |-> "matched", key |-> k, pool |-> routes[k]]]
  /\ UNCHANGED <<tableVars, checks, engine, chains>>

\* HealthyCount() = 0 is answered with 503 before any chain is looked up.
CheckHealthy(r) ==
  /\ reqs[r].pc = "matched"
  /\ reqs' = [reqs EXCEPT ![r] =
                IF HealthyCount(pools[reqs[r].pool]) = 0
                THEN [pc |-> "idle"]
                ELSE [@ EXCEPT !.pc = "chain"]]
  /\ UNCHANGED <<tableVars, checks, engine, chains>>

\* Mutant: the result of the cache lookup is used without looking at ok.
LoadChainUnchecked(r) ==
  /\ reqs[r].pc = "chain"
  /\ reqs' = [reqs EXCEPT ![r].pc = "serve", ![r].pool = chains[reqs[r].key]]
  /\ UNCHANGED <<tableVars, checks, engine, chains>>

\* A cached chain is run as it is: with the pool of the route it was made for.
LoadChain(r) ==
  /\ reqs[r].pc = "chain"
  /\ LET k == reqs[r].key
     IN  reqs' = [reqs EXCEPT ![r] =
                    IF chains[k] # None
                    THEN [@ EXCEPT !.pc = "serve", !.pool = chains[k]]
                    ELSE [@ EXCEPT !.pc = "store"]]
  /\ UNCHANGED <<tableVars, checks, engine, chains>>

\* A miss builds a chain around this request's own route and stores it, over
\* whatever another request has stored in the meantime.
StoreChain(r) ==
  /\ reqs[r].pc = "store"
  /\ chains' = [chains EXCEPT ![reqs[r].key] = reqs[r].pool]
  /\ reqs' = [reqs EXCEPT ![r].pc = "serve"]
  /\ UNCHANGED <<tableVars, checks, engine>>

\* Select picks among the healthy targets of the pool the chain captured.
SelectBackend(r) ==
  /\ reqs[r].pc = "serve"
  /\ LET p == pools[reqs[r].pool]
     IN  \E i \in HealthyAt(p) :
           reqs' = [reqs EXCEPT ![r] =
                      [pc |-> "sent", key |-> reqs[r].key,
                       pool |-> reqs[r].pool, addr |-> p[i].addr]]
  /\ UNCHANGED <<tableVars, checks, engine, chains>>

\* Select found no healthy target: 503.
RefuseRequest(r) ==
  /\ reqs[r].pc = "serve"
  /\ HealthyCount(pools[reqs[r].pool]) = 0
  /\ reqs' = [reqs EXCEPT ![r] = [pc |-> "idle"]]
  /\ UNCHANGED <<tableVars, checks, engine, chains>>

\* The proxied exchange is over.
FinishRequest(r) ==
  /\ reqs[r].pc = "sent"
  /\ reqs' = [reqs EXCEPT ![r] = [pc |-> "idle"]]
  /\ UNCHANGED <<tableVars, checks, engine, chains>>

-----------------------------------------------------------------------------
EngineStep ==
  \/ \E c \in Containers, h \in BOOLEAN : \E a \in MayUse[c] : AddRoute(c, a, h)
  \/ \E c \in Containers : RemoveRoute(c)
  \/ RegisterCheck
  \/ SweepChecks

RequestStep(r) ==
  \/ \E k \in Keys : MatchRoute(r, k)
  \/ CheckHealthy(r)
  \/ LoadChain(r)
  \/ StoreChain(r)
  \/ SelectBackend(r)
  \/ RefuseRequest(r)
  \/ FinishRequest(r)

Next ==
  \/ EngineStep
  \/ \E a \in Addresses, h \in BOOLEAN : SetBackendHealth(a, h)
  \/ \E r \in Requests : RequestStep(r)

Spec == Init /\ [][Next]_vars

-----------------------------------------------------------------------------
(* Properties. *)

Registered == {c \in Containers : containers[c] # None}

\* A live route has a backend, and no two of its backends have one address.
LivePoolsServe ==
  \A k \in Keys : routes[k] # None =>
    /\ routes[k] <= allocated
    /\ LivePool(k) # <<>>
    /\ DistinctAddresses(LivePool(k))

\* No two routes share a pool, and a pool out of the table is empty.
OwnedBy(p, k) == \A j \in Keys : routes[j] = p => j = k

PoolsOwned ==
  /\ \A k \in Keys : routes[k] # None => OwnedBy(routes[k], k)
  /\ \A p \in PoolId : ~Live(p) => pools[p] = <<>>

\* The pool a cached chain or a request holds on to may be out of the table,
\* but it is never another route's.
HeldPoolsOwned ==
  /\ \A k \in Keys : chains[k] # None =>
       chains[k] <= allocated /\ OwnedBy(chains[k], k)
  /\ \A r \in Requests : reqs[r].pc # "idle" =>
       reqs[r].pool <= allocated /\ OwnedBy(reqs[r].pool, reqs[r].key)

\* The shape of the table and of what is kept of it outside its lock.
PoolsWellFormed == LivePoolsServe /\ PoolsOwned /\ HeldPoolsOwned

\* A backend in the table belongs to a registered container, at the address it
\* is registered at and on the route it asked for, unless the container has
\* been registered at several addresses (RemoveByContainer takes one away).
NoOrphanBackend ==
  \A k \in Keys : \A t \in TargetsOf(k) :
    t.cid \notin moved => containers[t.cid] = t.addr /\ RouteOf[t.cid] = k

\* A registered container is served by its route at its address, unless
\* another container with the same route and address has taken its entry over
\* (Add keys targets by address, Remove by container).
RegisteredIsServed ==
  \A c \in Registered \ shadowed :
    \E t \in TargetsOf(RouteOf[c]) : t.cid = c /\ t.addr = containers[c]

\* Whenever the engine is between operations the health checker probes exactly
\* the addresses the table serves, and while it registers one, all the others.
ChecksMatchTable ==
  /\ engine = Idle => checks = BackendAddresses
  /\ engine.op = "register" => checks \cup {engine.addr} = BackendAddresses
  /\ engine.op = "sweep" => BackendAddresses \subseteq checks

\* Whatever cached chain it runs through, a request is only ever sent to a
\* backend that the table, at that moment, serves on the key it asked for.
SentWithinRoute ==
  [][\A r \in Requests :
       reqs'[r].pc = "sent" /\ reqs[r].pc # "sent" =>
         \E t \in TargetsOf(reqs[r].key) : t.addr = reqs'[r].addr /\ t.healthy]_vars

\* Adding or removing a replica leaves every other container's backend where it
\* was, with its health, its failure count and its open connections.
SiblingsUndisturbed ==
  [][\A c \in Containers :
       containers'[c] # containers[c] =>
         \A k \in Keys : \A t \in TargetsOf(k) :
           t.cid # c /\ t.addr # containers'[c] => t \in TargetsOf(k)']_vars

-----------------------------------------------------------------------------
(* The table implements the directory of backends. *)

\* The table as its users see it: who is behind which address of which route.
TableEntries ==
  UNION {{[key |-> k, addr |-> t.addr, cid |-> t.cid] : t \in TargetsOf(k)} : k \in Keys}

Dir == INSTANCE Directory WITH entries <- TableEntries

\* Whatever the pools, the copies of routes, the checks, the requests and the
\* health notifications do, the table changes only by whole registrations and
\* withdrawals: every operation of the engine is one atomic step of the
\* directory and every other step leaves it alone.
ImplementsDirectory == Dir!Spec

-----------------------------------------------------------------------------
(* What the repository says of the code and the code does not do. *)

\* BuildChain's comment: a chain found in the cache ends in the same proxy
\* handler this request would have built, that of the route in the table.
CachedChainIsCurrent ==
  \A k \in Keys :
    chains[k] # None /\ routes[k] # None => chains[k] = routes[k]

\* RemoveByContainer's comment: it removes a container's backend from every
\* route the container serves.
RemovedContainerLeavesTable ==
  [][\A c \in Containers :
       containers[c] # None /\ containers'[c] = None =>
         \A k \in Keys : \A t \in TargetsOf(k)' : t.cid # c]_vars

=============================================================================
