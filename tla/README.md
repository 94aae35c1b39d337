# A TLA+ model of DockRouter

DockRouter is a reverse proxy that finds its backends by watching Docker. It
keeps a table of routes, each with a pool of backends, probes the backends, and
streams every request to one of them, going on to another as long as nothing has
reached the client. Almost everything it does is concurrent: the discovery engine
changes the table, the health checker changes the marks in it, requests read and
change both, and each of them lets its lock go between two steps. The modules in
this directory say what the shared state is, which step changes it, and what holds
whatever the order of the steps.

## Inventory

| Component | State | Operations | Talks to |
|---|---|---|---|
| backend pool, `router/backend.go` | targets in order of arrival, each with mark, failure count, open connections; a counter | `Add`, `Remove`, `Select`, `MarkHealthy`, `MarkUnhealthy`, `RecordRequest`, `CompleteRequest`, `RecordSuccess`, `RecordFailure` | called by the table and by requests |
| route table, `router/table.go` | routes by key, path trees per host | `Upsert`, `RemoveByContainer`, `SetBackendHealth`, `BackendAddresses`, `Match` | called by the sink, the checker's callback, requests |
| route sink and registry, `main.go`, `discovery/reconciler.go` | containers by id | `AddRoute`, `RemoveRoute` | called under `Engine.mu`; calls the table, then the checker, starts certificates |
| chain cache, `router/route_middleware.go` | a chain of handlers per route, each with limiter and breaker | `BuildChain` | holds on to the pool a chain was built for |
| request handler, `router/router.go`, `failover.go` | locals of the loop, what the client has been sent | `ServeHTTP`, `createProxyHandler`, `makeReplayable` | pool, proxy |
| health checker, `health/checker.go` | a state machine per address | `Register`, `Unregister`, `checkAll`, `checkOne` | calls the table back outside its lock |
| discovery engine, `discovery/` | event stream, ticker | `Sync`, `handleEvent`, `onContainerStart`, `onContainerStop` | Docker, sink |
| certificate manager, `tls/` | certificates in memory and on disk, domains being provisioned, challenge tokens | `GetCertificate`, `EnsureCertificate`, `provisionCertificate`, `Renew`, `checkRenewals` | ACME, store, HTTP handler |
| path trees, `router/radix.go` | a radix tree per host | `Insert`, `Match`, `Delete` | table |
| breaker, limiter, `middleware/` | state and counts, token buckets | `allow`, `recordFailure`, `recordSuccess`, `cleanup` | in the chain of a route |
| event hub, shutdown, `admin/sse.go`, `main.go` | clients, two bounded channels | `Run`, `Send`, `Handler`, `Stop`, `shutdown` | every publisher of events |

What makes them correct, in a sentence each: the table serves exactly what is
registered, the checker probes exactly what the table serves, and changes to one
replica leave the others alone; a request goes only to its own route's backends,
to each at most once, and nothing is sent twice to the client; a backend is in
rotation when the checker thinks it serves, and the checker comes to think so of
one that does; the registry comes to agree with Docker; a name is served the
certificate last obtained for it, and one that is due is renewed; a path finds its
longest registered prefix; a client gets no more than its limit, and a breaker opens
on a row of failures and closes again; every client of the hub is dropped once it has
gone, and shutting down ends (these last two are not modelled).

What is hard to test is listed in `PROJECT.json` under `hazards`, each at its line
with the properties that cover it. A hazard that the code does not stand up to, and that
a history variable or a premise therefore takes out of a property, has no property there
but a note that names the exception.

## Modules

`BackendPool` holds the operations of one pool as operators on its value, a
sequence of targets: membership, marks and ejection change under the pool's write
lock and counters by one atomic operation, so each operator is one step of the
modules that use it. It has no variables. Go's loops stop at the first target that
matches; `FirstAt` says so. `Selectable` is the set of positions `Select` may
return: one for the deterministic strategies, all healthy ones for random.

`RouteTable` is the control plane and the way of a request to its first backend.
`containers` is the engine's registry, `routes` and `pools` the table (pools are a
heap, since cached chains and requests keep pointers to pools that have left the
table), `checks` the addresses registered with the checker, `chains` the chain
cache, `reqs` the requests. `AddRoute` and `RemoveRoute` are two steps each, the
table first and the checker after (`RegisterCheck`, `SweepChecks`), since requests
and probes run in between; `engine` says which half is left, and stands for
`Engine.mu`. The two snapshots `SweepChecks` compares are taken in one step: under
`Engine.mu` nothing changes either in between. `SetBackendHealth` marks one route's
pool in a step, as the code locks them in turn; the steps of one call are not tied
together, which allows more than the code does. A request is the steps `MatchRoute`, `CheckHealthy`, `LoadChain` or
`StoreChain`, `SelectBackend`.

`Failover` takes over where `RouteTable` stops: requests that share one pool, each
in the loop of `createProxyHandler`. `pc` is the place between two of its calls
into the pool. The exchange with a backend is one step with every outcome it can
have: `Answered`, `Failed` before anything was written, `FailedCommitted` after an
interim response or a hijack, `Unwound` when `ReverseProxy` panics because the
copying broke off. Meanwhile `ProbeResult`, `ContainerFound`, `ContainerUp` and
`ContainerDown` change the pool as the checker and the engine do. `Upsert` sets the
strategy and adds the target under two locks of the pool and one of the table:
`ContainerFound` and `ContainerUp`, with `joining` in between, when requests may still
choose and no other operation on the table may come (`TableUnlocked`).

`HealthRotation` composes the pool's marks with their three writers: the checker,
Docker's view written by `AddRoute`, and ejection by failed requests. `heap` holds
the `HealthCheck` objects, because a probe (`probes`) keeps a pointer to its own
and may finish after `Unregister`; `notes` are the goroutines that have let the
lock go and not called back yet. `StartProbe`, `Settle` and `Notify` are the three
parts of a probe; `Passed` and `Failed` are the state machine. `Register` gives a check
that exists the thresholds of the container that is registered now and leaves its state
alone (`Retune`): `Tunings` lists what the containers at an address ask for, one after
the other, and `turn` says how far an address has come. The state is then one that the
old thresholds led to; `retuned` marks the address until a probe passes, which is when
state and counters agree again whatever the two thresholds are. An object nothing points
at is made to look like new (`Collected`), which is what garbage comes to.

`Directory` is what the table promises to the rest of the router: one entry per
route and address, naming the container behind it; a container is announced at an
address, which takes the place of whatever stood there, or withdrawn, which takes
one of its entries away. `RouteTable!ImplementsDirectory` says that the table with
its pools, checks, half-finished operations and requests does this and nothing else
(`entries` is mapped to the targets of the live pools); it is checked and proved.

`Discovery` is the engine between Docker and the table, written over `Directory`
instead of the table's details. `docker` changes whenever it likes. A container's
labels may name its address (`dr.address`), or its port, or leave both to be found out
(`BuildInfo`); its health is one state here, what the two fields the code reads of it
(`State.Healthy` and `State.Status`) come to. A `Sync` is the
steps `SyncList` (before `Engine.mu`), `SyncContainer` for each listed container,
`SyncRemove`, `SyncDone`; the watcher is `Inspect` (before the lock) and `Commit`,
or `OnStop`. `stream` and `events` are the bounded life of an event stream: what
happens while none is open is lost, and one that fails with anything but an end of
file is `"stuck"`, since the decoder returns its error for ever and the channel is
never closed. `Start` runs the first `Sync` alone; if that fails, nothing ever runs,
which is why the run allows a deadlock.

`PathTree` is the radix tree of each host and the matching of hosts: `insert` with
its splits, `delete` with the compaction it does and the one it leaves out, `match`
with the order of its candidates, `Table.Match` with the exact host first and
wildcards in the random order of a map. A path is a sequence of characters, because
the tree splits labels between any two of them. A tree is a function from places to
nodes: the place of a node is the path that leads to it, its parent's place and its own
label put together, and stands for the pointer to it. Children are named by their
places, so where the code compares a label with what is left of a path, the model
compares two places that begin with the same one; splitting and compacting then change
which places there are and who names them, and copy no subtree. The walks of `insert`,
`delete`, `match` and `List` are recursive functions on the places. Routes are named by the container whose labels they
carry, so a lookup that returns an old route object shows. Paths that end in two
slashes are left out (`SlotsAreKeys`): `RouteKey` cuts off one slash and the tree
both, so two keys would share one place. The theorems have the same limit.

`Certificates` is `internal/tls` with what sets it going. `tasks` are the goroutines
that order certificates: the ones `AddRoute` starts for a host and its alternative
names, one for every call of it (`Calls`), the one a handshake starts (one per name), the
scheduler's. They go through `Ensure` or `Forget`, `Order`, `Authz`, `Trigger`,
`Validated` for each name in whatever order the server lists them, `Obtain`, `SaveCert`,
`SaveKey`, `Load`, `Put`, `Alias`. The ACME server is outside: it keeps one authorization
per name and hands it to every order, as servers do for one account, so two orders can
take each other's token away. `account` is how far `Initialize` got when the process
started, for nothing calls it again: with no key the first order ends the process
(`OrderPanics`), with a key and no account every order is refused (`OrderRefused`). Since
the key is not kept, a start of the process has a new account and no authorizations. A
certificate may be issued at once (`Obtain`) or later (`IssuedLater`), and then the order
fails, since the code polls the wrong address. `shake` is one handshake between reading a
pair and storing it. Choices: what memory has never satisfies `EnsureCertificate`, since
`Leaf` is nil in a pair loaded by a program whose `go.mod` says 1.22; of a certificate its
age is modelled and not the names it covers; time passes only while no goroutine is under
way (weeks against minutes); a nonce used up by another goroutine is a request that fails;
files that are cut short half-way are not told apart from those that belong to another key.

`Limits` is the circuit breaker and, inside it, the rate limiter of one route. A
request asks the breaker once and tells it the result once, and the breaker may have
changed state any number of times in between. Time is two clocks that do not depend
on each other: `WindowPasses` for the breaker, `Tick` for the buckets, which hold
`Unit` units per token and gain one per tick. `debt` is what a client got and has not
waited off, so `debt <= Most` says of every stretch of time what a sliding count
would. `pause` is the time since a client last asked: after more than `IdleMax` of it,
the five minutes of `cleanup`, its bucket may be gone and its debt is forgotten, so the
bound is one over stretches without such a pause. With a limit by the hour that is less
than its label says, and a finding; with one by the second or the minute it is no less,
which `ShortWindowsCorrect` proves. Failures beyond the threshold are not counted
further, since nothing looks at them.

`MCRouteTable`, `MCFailover`, `MCHealthRotation`, `MCDiscovery`, `MCPathTree`,
`MCCertificates` and `MCLimits` give the constants values for TLC.
`BackendPool_proofs`, `RouteTable_proofs`, `Failover_proofs`, `Limits_proofs`,
`HealthRotation_proofs`, `Discovery_proofs`, `Certificates_proofs` and `PathTree_proofs`
hold the proofs.
Operators whose comment begins with "Mutant" are deliberate mistakes that
show a property can fail.

### How they fit together

`RouteTable` is used by requests (`SelectBackend`, then `Failover`) and by the checker
(`HealthRotation`); `Discovery` drives it, through `Directory`. `PathTree` is the
lookup that `RouteTable` takes as one step by key: `TreesHoldTheTable` and
`RequestsFindTheirRoute` are what justifies that. `Limits` stands between the chain
`RouteTable` finds and the handler of `Failover`. `Certificates` shares nothing with
the others but the moment `AddRoute` starts it.

## Runs

| Run | Question | Instance |
|---|---|---|
| `route_table` | Does the table serve what is registered, and do requests stay on their route? | 3 containers on 2 routes, two of them replicas that share an address or move, 2 requests, 2 pools |
| `stale_chain` | Does a cached chain end in the route's pool? It does not. | same |
| `orphan_backend` | Does a removed container leave the table? It need not. | same |
| `failover` | Once per backend, whole bodies, honest counts, a last backend kept, nothing after a response has begun, and an end | 2 requests, 2 backends and a third that may come, all five strategies |
| `retry_body` | Does a retry always have a body to send? It does not. | same |
| `active_leak` | Is the connection count that of the requests under way? It is not. | same |
| `health_rotation` | Does the mark follow the checker and the checker the backend? | 1 backend followed, 1 other, 2 overlapping probes, 2 check objects, thresholds that change once |
| `put_back` | Does a backend that answers its probes come back into rotation? It need not. | 1 backend followed, no overlap, no replacement, containers without a Docker health check |
| `discovery` | When is the registry right, what do events alone give, and does it come right again? | 2 replicas, one with a published port, one that names its address and is removed when it stops; 2 IPs; 3 changes, 1 fault |
| `path_tree` | Does every request find the longest registered prefix of its host, whatever came and went? | 9 containers on 3 hosts, two of them overlapping wildcards; 5 hosts and 90 paths asked for; all orders of arrival and departure |
| `certificates` | Do files stay a pair, tokens stay while they are needed, renewals reach memory, and are due certificates renewed once the server works? | a host that clients ask for, an alternative name, one `AddRoute` at a time; faults, crashes and half-finished initializations without a bound |
| `limits` | Does a client get more than its limit between long pauses, does the breaker open and close on the right results, and for good? | 2 clients with room for one bucket, 2 requests, threshold 2, 3 successes |

### Bounds

*`route_table`.* Two pools are the least at which a route drains and comes back with
a new one, and at which two routes exist; three containers give a route with two
replicas and a second route; two requests race for one cache entry. `MaxPools`
bounds how often a drained route may return. Weights and strategies play no part
and are left out (weight 1).

*`failover`.* Two requests and `PassiveEjectThreshold` = 3: earlier requests are
taken to have left two failures on each backend (`EarlierFails`), so that two
simultaneous failures reach the threshold on both, which is the interesting case.
`MaxDisturbed` = 1 lets the checker or the engine step in once, at any place; the
third address lets a backend appear between two attempts. `CounterMod` = 6 keeps
the round-robin counter modulo a multiple of every count and total weight that
occurs. `MaxFails` = 4 is one above the threshold.

*`health_rotation`.* The containers at the followed address ask for a threshold and a
recovery of 2 first and of 1 from some time on, which is the least at which a change of
them leaves a state that does not fit: one failure is Degraded under the first and must be
Unhealthy under the second. `MaxCount` = 2 saturates the two counters at the largest number
anything compares them with. `MaxProbes` = 2 is the least at which probes overlap and
notifications change places, `MaxChecks` = 2 the least at which a probe outlives its
registration. The backend's behaviour (`Turn`), restarts, ejections and Docker's events are
not bounded. Backends that are not followed have marks that change at any time, which is
all that ejection asks of them. With these thresholds a failure degrades a check at once,
from any state, as it does with the default of 3; larger ones, with which one failure
changes nothing, and changes between them back and forth are left to the proof, which is
for any sequence of thresholds.

*`discovery`.* Two replicas are the least at which one may get the other's address
or stand in its place; three changes give a stop and a start at a new address, under
a `Sync` as well, with one left for the other replica. One fault is a failed call or
a broken stream; a second one would only repeat the first, since a stuck stream never
ends and a lost event is a change without a stream, which costs no fault. The set of
containers that run at the start is free. The address that one replica's labels name is
one the other may be given, so they may take it from each other. No container of the
instance declares its port: the proofs are for any labels.

*`path_tree`.* The paths branch at a slash and within a segment, one is the prefix of
another, the root has a route, and two replicas write one path differently; the
requested paths are all those of up to three characters and some longer ones. Each
container is in or out, so the state space is all subsets with all trees that any
history leaves.

*`certificates`.* One host and one alternative name give every pair of goroutines
that can meet on a name. Requests, validations and writes fail, certificates are issued
later and the process crashes as often as they like: nothing bounds it. `Calls` has one
element: a second goroutine of `AddRoute` does what the one of a handshake does beside
the first, and makes the instance more than twenty times as large. Clients ask for the host alone, so an
alias is made and not looked up (the alternative name is not in `Stored`). The safety
proofs are for any calls and any names asked for.

*`limits`.* `MaxBuckets` = 1 and two clients let every request evict the other's
bucket. `MaxSize` = 1 and `Unit` = 2 make a refill take two ticks, so a request comes
with half a token. `IdleMax` = 2 is less than it takes to wait off what a client may get
(`Most` = 4), as with an hourly limit: `cleanup` takes the bucket of a client that has
not waited all of it off. The threshold is below the number of successes, so that the two
counts cannot be mistaken for each other. `debt` is capped one token beyond what may
occur, `pause` where it no longer matters.

### Fairness

`Failover!FairSpec` asks that a request that can take a step takes one: its
goroutine runs, and an exchange ends some way or other (dial and response header
timeouts, or the client going away). It asks nothing of the checker or the engine.
`HealthRotation!FairSpec` asks that the checker's ticker goes on, that the oldest
probe of an address ends (every probe has a timeout), and that a goroutine that has
something to do does it: the callback, and the second half of a sink operation. It
asks nothing of requests, of Docker or of the backends. `OldestProbeEnds` and
`OldestNoteEnds` name these steps by what they do to the queues.
`Discovery!FairSpec` asks that the goroutines run and the poll's ticker goes on, and
that a call that is made again and again is answered (faults are bounded); it asks
nothing of Docker, and nothing of a stream: `Subscribe` is not fair, so what converges
does so by the poll alone. `Certificates!Spec` asks that goroutines run, that the
server validates, that the daily check comes round to a due certificate and that
clients who ask go on asking. What the two properties need beyond that is a premise they
state themselves, `ServerWorks`: faults stop some time; the process then has its account,
because a start of it got one; and the server comes to issue certificates at once. The
last two are there because of two errors in the code (see the findings at `main.go:223`
and `manager.go:274`): TLC refutes both properties without either of them. `Limits!Spec` asks that requests keep coming and are
answered, that not all of those a backend could serve are broken off by their client
(the strong fairness of `Succeeds`), and that the window passes.

### What the violations show

Each of the five is a sentence of a comment or of the README that the code does not
keep; `findings` quotes them. A drained route that returns is answered 503 through
its old chain for good. A container registered at two addresses leaves one of them
behind. A request that saw one healthy backend, and was therefore not buffered, is
retried with a spent body when a second one recovers. A broken-off response counts
as an open connection for ever. A backend ejected by failed requests while its
probes pass never returns. Where such a behaviour would also break a property that
is otherwise true, the property names the exception: `moved` and `shadowed` in
`RouteTable`, `leaked`, `replaced` and `alone` in `Failover`, `drift` and
`retuned` in `HealthRotation`, `missed`, `disturbed` and `entangled` in `Discovery`, `torn`,
`overtaken`, `aliased` and `gaveUp` in `Certificates`, and `evicted` and `pause` in
`Limits` are history variables that no action of the code reads.

Findings that no run of its own shows are in the model all the same: each of the
modules above has the code's behaviour and not the sentence that contradicts it. The
larger ones: a renewal orders a host without its alternative names, which keep the
old certificate; a handshake can put an old certificate back after a renewal
(`overtaken`); an initialization of the ACME client that fails is never repeated, and ends
the process with the first order (`OrderPanics`) or has every order refused
(`OrderRefused`); a certificate that is not issued at once is never obtained
(`IssuedLater`); an event stream that fails otherwise than by its end is
never opened again (`StreamFails`); a container found by an event has no published
port until the next poll; refusals by the limiter close a half-open breaker
(`Refused`); a bucket that `cleanup` took is full again, however long its window (`pause`). One is
left out of the model: two paths that differ in a second slash at their end have two
keys and one place in the tree (`SlotsAreKeys`).

## Proofs

`RouteTable_proofs` proves, for any containers, addresses, keys, requests and any
number of pools, under `ConstantsAssumption` alone, every property of the run
`route_table`:

- `TypeCorrect`. The lemmas of `BackendPool_proofs` say what `PoolAdd`,
  `PoolRemove`, `Mark` keep of a pool: its type, its addresses, its other targets.
- `ShapeCorrect`, by the invariant that live pools are non-empty, have distinct
  addresses and belong to one route, that pools out of the table are empty, and
  that what chains and requests hold on to was handed out and is no other route's.
  The last two parts are what makes it inductive: without them a fresh pool might
  be one that a stale chain still serves from.
- `OrphanFree` and `ServedCorrect`, on top of the shape: where a target came from
  needs to know that its address is in one place of its pool only.
- `ChecksCorrect`, the agreement with the checker in each state of `engine`.
- `SentCorrect`: a pool that is not live is empty, so a request that runs through a
  stale chain finds no backend rather than a wrong one.
- `SiblingsCorrect`, an action property, from the pool lemmas and the shape.
- `TableIsDirectory`, the refinement. Under the mapping a step of the control plane
  is an `Announce`, a `Withdraw` or a stutter. It rests on the shape: since an address
  is in one place of its pool only, `PoolAdd` replaces exactly the entry of that route
  and address, and `PoolRemove`, which takes the first target of a container, takes
  one entry away; a pool that is emptied takes no other entry with it.

`BackendPool_proofs` proves of `Select`, for any pool, weights, counter and hash,
what no run states of its own:

- `SelectionCorrect`: a target is selected whenever one is healthy, never an
  unhealthy one, and only one unless the strategy is random. So the `nil` on
  which the failover loop gives up means that no backend is healthy.
- `FairShares`: among as many consecutive calls as the healthy targets weigh together
  each is selected as often as it weighs, and under round robin once, while the pool
  stays as it is and the counter does not pass 2^64.

Both rest on `TurnsCover`: the weights of the healthy targets, laid end to end in the
order of the slice, cover the numbers below their sum without a gap or an overlap;
round robin is the case where each weighs one. The library's sum is a recursive
function that takes elements as `CHOOSE` does, so `SumExists`, `SumAdds` and
`SumAgrees` show first that such a function exists and that the order does not matter,
by induction over the size of the sets (`NatSetInduction`, stated for a set of numbers
and not for an operator). `WindowCount` carries a window on by one call: the value
that leaves and the one that enters have one remainder.

`Failover_proofs` proves every safety property of the run `failover`, for any
backends, strategies, limit on the attempts and finite set of requests, and for any
number of disturbances, under `FailoverAssumption`:

- `TypeCorrect`, `AttemptsBounded`, `BodySentInFull` and `CommittedStays` rest on
  one invariant, `LocalInv`, about the variables of a single handler at each of its
  points: nothing has reached the client while a backend may still be chosen, the
  attempts are counted by the backends tried, and a request that may go to a second
  backend has its body now and after the exchange to come. A handler owns its
  variables, so a step of one leaves it true of the others, whatever it does to
  the pool. Without it not even the type is inductive: that `attempt` stays within
  `MaxRetries` is known only from the guard two steps earlier.
- `RotationHolds`: a counter's operation keeps every mark but the one that
  `RecordFailure` takes away, which it takes when another is left.
- `ConnectionsAccounted`, by counting the requests at work before and after each
  step. It needs that a pool has no address twice (`TargetsInv`), so that the target
  counted is the one that was chosen, and that a request's backend and a leak are
  at an address that is or was in the pool (`KnownInv`), so that a target that is
  new starts with nobody at work.

`Limits_proofs` proves every safety property of the run `limits` for any finite set of
clients, any requests, thresholds, sizes, rates and windows, under `ConstantsAssumption`,
`ClientsAssumption` and `NoneAssumption`:

- `TypeCorrect`, where the part that needs work is that the limiter never keeps more
  buckets than its bound: at the bound one is taken away before one is made.
- `LimitCorrect`, by two invariants. `DebtInv`: what a client can still get from its bucket
  and what it got add up to no more than `Most`, and a client without a bucket owes nothing,
  unless it was evicted. `PauseInv` is what keeps that true through `cleanup`: a bucket has
  been unused no longer than its client has paused, so `cleanup` takes it only after a pause
  in which the debt is forgotten.
- `ShortWindowsCorrect` says when that forgiving is none. Under `IdleMax >= Most` a debt
  has been waited off by the time the pause would forgive it (`OwedInv`), so `debt` falls
  by one unit in a tick and in no other way: the bound is then one over any stretch of
  time. It has an assumption of its own, which no other theorem uses: limits by the hour,
  such as the `5000/h` of the documentation, do not satisfy it.
- `TripsCorrect` and `ClosesCorrect`, by `BreakerInv`: a closed breaker's count of
  failures is the streak, and a half-open one's count of successes those since it was
  half-opened. Results of requests admitted in another state keep it.

`RouteTable_proofs` and `Failover_proofs` do not use the strategies: whichever
target `Select` returns, the properties above hold.

`HealthRotation_proofs` proves every safety property of the run `health_rotation`, for
any addresses, thresholds and recoveries and any number of overlapping probes, under
`RotationAssumption` (which asks that the backends that are not followed are finitely
many: they make up the pool at the start):

- `TypeCorrect` rests on a pool that has one target for each address (`SoundPool`), so
  that a mark is found where it was set, and on room in the heap for a check whenever
  one is to be registered (`RoomToRegister`).
- `ConsistentCorrect`, that the state of a check and its counters agree. The attempt
  to prove the property as it first stood failed for a good reason: it said that a
  recovering check has passed at least once, and with a threshold of 4 or more a
  failed probe leaves a recovering check recovering with no passes. The run has
  thresholds of 2 and 1, where one failure degrades, and could not show it. The property now
  says what holds for every threshold. What a failure does to a recovering check under
  the default one is among the findings: it goes to Degraded, which counts as in
  rotation, after one pass. A check whose thresholds were changed is left out until a pass,
  which is the first step after which any state agrees with any thresholds.
- `MarkCorrect`: `NewestIsCurrent` says of the notifications under way for an address
  that the last one that was sent carries the check's present state, so that a mark
  that is stale, or was written by a stale notification, is put right before nothing
  is under way; an address at which two notifications have changed places counts as
  drifted. It needs that no two addresses share a check and no probe of one settles on
  another's (`ObjectsApart`).

`Discovery_proofs` proves every safety property of the run `discovery`, for any
containers, labels, addresses, numbers of changes and faults, under
`ConstantsAssumption` and `NoneAssumption`:

- `EventsCorrect`. The invariant (`EventsTell`) is about a container none of whose
  changes was missed: its last event in the channel says whether it runs, and once the
  channel has none of it, what the watcher is about to register is right. That a
  container is registered only if it asks for it (`OnlyEnabled`) covers the events
  that are dropped.
- `RepairsCorrect`, an action property. `Progress` says how far a `Sync` has come: what
  it listed and has looked at is registered as it is, and it holds the lock as soon as
  it has looked at anything. The second half is what keeps the watcher, which works
  between the list and the lock, from undoing what the `Sync` has done.
- `EntriesCorrect`: each of the four writes to the registry goes with its call into the
  table. `Withdraw` takes any one entry of a container away, and this is what makes it
  the right one.

`Certificates_proofs` proves every safety property of the run `certificates`, for any
names, alternative names, names asked for and calls of `AddRoute`, and whatever fails, under
`ConstantsAssumption` and `NoneAssumption`:

- `FilesCorrect`: whoever is between the two writes of a save is the one who wrote
  `cert.pem` (`SaverWrote`), so no two goroutines are there for one domain.
- `TokenCorrect` needs more than the name that is being validated: an authorization that
  an order has triggered, or is about to, and that is not decided has its token unless
  an order for it gave up (`AwaitedHasToken`). An order that finishes takes the token of
  a name that is valid by then, and an order that gets a new authorization for a name
  leaves those that depend on the old one without hope (`Order`), so neither takes a
  token that is waited for.
- `ServedCorrect`, by an invariant about every moment and not only the quiet ones:
  memory has what the disk has or a goroutine is on the way with it (`MemoryFollows`),
  and what is on its way is not due, for weeks do not pass under it (`SavedIsFresh`).

`PathTree_proofs` proves every property of the run `path_tree`, for any containers,
hosts, paths and characters and after any sequence of registrations and removals, under
`PathsAssumption`, `NoneAssumption` and `SlotsAreKeys`:

- A tree by itself. `Stores` says what an operation may do to a radix tree: change the
  route at one place, leave every other place with the route it has, and remain a radix
  tree. Each way through `insert` and `delete` is a lemma of this form: a route is set at
  a node that is there (`SetRoute`), a leaf is added (`AddLeaf`) or a node put in between
  (`AddBetween`; a split is both, one after the other), a leaf is taken away (`Prune`);
  and `CompactKeeps` says that a node without a route can give way to its only child. The
  compaction that the code leaves out costs nothing but space. That siblings differ in
  their first character (in `IsRadix`) is what every one of them needs: at most one child
  can go on as a path does, so the place to change is found by going down once.
- Recursion. What a recursive function of the model computes is argued from its defining
  equation, by taking the deepest place at which it would be wrong (`MatchBelow`,
  `MatchFinds`, `ListFinds`). That there is a function with that equation is the lemma
  `Recursion`: its value at a place depends on places of a lower rank only, where the rank
  is how much of the path is left or, for `List`, how far the place is from the longest
  one (`Bounded`). Neither it nor `Induction`, which is proved from the well-foundedness
  of the natural numbers, takes an operator as a parameter.
- `TypeCorrect`, `MatchCorrect`, `RequestsCorrect` and `TreesCorrect` follow from the
  invariant (`IInv`): the trees are bounded radix trees, and what they hold at the place of
  a key is the route of that key, and nothing anywhere else (`Holds`). That the route at a
  key has that key (`KeyOf(routes[k]) = k`) makes it inductive: `Upsert` and
  `RemoveByContainer` take a route out of its tree by the labels of the container it was
  made from, which need not be the one that comes or goes. `EmptyHoldsNothing` is why a
  tree may be dropped with its host once `IsEmpty` says so. `RequestsCorrect` needs
  `NormalizedTwice`, since `Table.Match` normalizes a path and `RadixTree.Match` does again.

Model-checked only: whatever is liveness (`RequestsEnd`, `RotationFollowsBackend`,
`RegistryConverges`, `DirectoryConverges`, `DueIsRenewed`, `AskedIsServed`, `Recovers`),
which the prover cannot do.

## Plan

Every safety property that a passing run checks is proved. What is left to prove would be
new properties: that the table of `PathTree` is the one `RouteTable` looks keys up in is
argued here (see *How they fit together*) and not stated as a refinement.

## Not modelled

Label parsing beyond its outcome, configuration, logging, metrics, the dashboard and
the filters that keep no state (compression, CORS, basic authentication, IP filters,
redirects): they are functions of one request or of the start-up. Header rewriting,
WebSocket framing and the copying of bytes. JWS signing and encoding in the ACME
client. Certificates of `dr.tls=manual`. The `Poller` type, which nothing starts. The
event hub of the dashboard and the order of start-up and shutdown: the hub reports
what the others did and nothing reads it back. `selectRandom`'s unsynchronised random
source and the admin view's unlocked read of a pool are data races below the level of
the modules: random selection is any healthy backend here, and the view decides
nothing. A chain is cached with its breaker and limiter, which a change of labels
does not reach; `Limits` has one configuration.
