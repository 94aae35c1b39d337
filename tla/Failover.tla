------------------------------ MODULE Failover ------------------------------
(***************************************************************************)
(* The handler made by Router.createProxyHandler: concurrent requests that *)
(* share one backend pool, each trying one backend after another until one *)
(* of them answers.                                                        *)
(*                                                                         *)
(* The pool's mutex is let go between any two steps of a request (the      *)
(* count of healthy backends, Select, RecordRequest, the exchange itself,  *)
(* CompleteRequest, RecordSuccess or RecordFailure), so each is an action  *)
(* here and other requests, the health checker and the discovery engine    *)
(* run in between.  A container lives at the address that names it: what   *)
(* happens when it does not is RouteTable's matter.                        *)
(*                                                                         *)
(* The exchange, httputil.ReverseProxy or the WebSocket proxy, is external *)
(* to the loop and may go any way it can go, a panic that unwinds the      *)
(* handler included: ReverseProxy panics when the copying of a response    *)
(* breaks off, and the Recovery middleware swallows that.                  *)
(***************************************************************************)
EXTENDS BackendPool

CONSTANTS
  Requests,     \* requests in flight
  BodyOf,       \* whether a request has no body, a small or a large one
  HashOf,       \* the hash of a request's client address
  WeightOf,     \* the weight of a backend
  InUse,        \* the strategies the labels of the containers ask for
  MaxRetries,   \* maxRetries of the route: attempts, the first one included
  Order,        \* the order in which the containers were found at first
  EarlierFails, \* the failures in a row earlier requests have left on a backend
  CounterMod,   \* bound: the round-robin counter is kept modulo this
  MaxFails,     \* bound: consecutive failures of one backend
  MaxDisturbed  \* bound: steps of the engine and the health checker

Bodies == {"none", "small", "large"}

ASSUME FailoverAssumption ==
  /\ Containers = Addresses
  /\ IsFiniteSet(Requests)
  /\ BodyOf \in [Requests -> Bodies]
  /\ HashOf \in [Requests -> Nat]
  /\ WeightOf \in [Addresses -> Int]
  /\ InUse \in SUBSET Strategies \ {{}}
  /\ Order \in Seq(Addresses)
  /\ \A i, j \in DOMAIN Order : Order[i] = Order[j] => i = j
  /\ EarlierFails \in SUBSET (0 .. (PassiveEjectThreshold - 1)) \ {{}}
  /\ MaxRetries \in Nat \ {0}
  /\ CounterMod \in Nat \ {0}
  /\ MaxFails \in Nat
  /\ MaxDisturbed \in Nat

VARIABLES
  pool,       \* the route's BackendPool
  strategy,   \* BackendPool.Strategy: that of the container found last
  joining,    \* the address Table.Upsert is about to add to the pool, if any
  rr,         \* BackendPool.rrCounter, modulo CounterMod
  reqs,       \* the handler's local variables, for each request
  disturbed,  \* how many steps the engine and the health checker have taken
  emptied,    \* history: whether one of them took a backend out of rotation
  replaced,   \* history: addresses removed from the pool at some time
  leaked      \* history: requests on a backend whose handler was unwound

vars == <<pool, strategy, joining, rr, reqs, disturbed, emptied, replaced, leaked>>

Points ==
  {"accept", "prepare", "select", "record", "serve", "complete", "account", "done"}

\* What the client has been sent so far.
Responses == {"none", "interim", "partial", "full", "503"}

\* fw.committed.
Committed(q) == q.resp # "none"

\* replay: the body is buffered and GetBody set.  spent: the body has been read
\* or closed by an attempt.  alone is a history variable: the handler saw at
\* most one healthy backend when it decided about buffering.
Request ==
  [pc: Points, attempt: 0 .. MaxRetries, tried: SUBSET Addresses,
   backend: Addresses \cup {""}, failed: BOOLEAN, canRetry: BOOLEAN,
   replay: BOOLEAN, spent: BOOLEAN, resp: Responses, alone: BOOLEAN]

TypeOK ==
  /\ pool \in Pool
  /\ strategy \in Strategies
  /\ joining \subseteq Addresses
  /\ rr \in 0 .. (CounterMod - 1)
  /\ reqs \in [Requests -> Request]
  /\ disturbed \in 0 .. MaxDisturbed
  /\ emptied \in BOOLEAN
  /\ replaced \subseteq Addresses
  /\ leaked \in [Addresses -> Nat]

Arriving ==
  [pc |-> "accept", attempt |-> 0, tried |-> {}, backend |-> "", failed |-> FALSE,
   canRetry |-> TRUE, replay |-> FALSE, spent |-> FALSE, resp |-> "none", alone |-> FALSE]

\* Every container runs and is healthy; some requests may have failed before.
Init ==
  /\ \E fails \in [DOMAIN Order -> EarlierFails] :
       pool = [i \in DOMAIN Order |->
                 [NewTarget(Order[i], Order[i], WeightOf[Order[i]], TRUE)
                    EXCEPT !.fails = fails[i]]]
  /\ strategy \in InUse
  /\ joining = {}
  /\ rr = 0
  /\ reqs = [r \in Requests |-> Arriving]
  /\ disturbed = 0
  /\ emptied = FALSE
  /\ replaced = {}
  /\ leaked = [a \in Addresses |-> 0]

others == <<strategy, joining, disturbed, emptied, replaced>>

At(r, point) == reqs[r].pc = point

\* The next values of a request's local variables.
Becomes(r, new) == reqs' = [reqs EXCEPT ![r] = new]

\* The handler has returned; all that is left is what the client got.
Returned(resp) == [Arriving EXCEPT !.pc = "done", !.resp = resp]

\* handleNoBackend, unless something has reached the client.
GivenUp(q) == Returned(IF Committed(q) THEN q.resp ELSE "503")

-----------------------------------------------------------------------------
(* The steps of a request. *)

\* ServeHTTP: without a healthy backend the request is answered at once.
Accept(r) ==
  /\ At(r, "accept")
  /\ Becomes(r, IF HealthyCount(pool) = 0 THEN GivenUp(reqs[r])
                ELSE [reqs[r] EXCEPT !.pc = "prepare"])
  /\ UNCHANGED <<pool, rr, leaked, others>>

\* Mutant: a body that is too large to replay is taken for one that can be.
PrepareAlways(r) ==
  /\ At(r, "prepare")
  /\ Becomes(r, [reqs[r] EXCEPT !.pc = "select", !.alone = HealthyCount(pool) <= 1,
                   !.replay = BodyOf[r] = "small" /\ HealthyCount(pool) > 1])
  /\ UNCHANGED <<pool, rr, leaked, others>>

\* makeReplayable, called when there is something to fail over to: a small body
\* is buffered, and one that is large or breaks off rules out a retry.
Prepare(r) ==
  /\ At(r, "prepare")
  /\ \E broken \in BOOLEAN :
       LET several == MaxRetries > 1 /\ HealthyCount(pool) > 1
           kept    == BodyOf[r] = "none" \/ (BodyOf[r] = "small" /\ ~broken)
       IN  /\ broken => several /\ BodyOf[r] # "none"
           /\ Becomes(r, [reqs[r] EXCEPT
                            !.pc = "select",
                            !.alone = HealthyCount(pool) <= 1,
                            !.canRetry = several => kept,
                            !.replay = several /\ kept /\ BodyOf[r] # "none",
                            !.spent = broken])
  /\ UNCHANGED <<pool, rr, leaked, others>>

\* The address of the backend Select returns, and the counter it leaves.
Chosen(r, a) ==
  /\ \E i \in Selectable(pool, strategy, rr, HashOf[r]) : pool[i].addr = a
  /\ rr' = IF UsesCounter(strategy) THEN (rr + 1) % CounterMod ELSE rr

Picks(r, a) ==
  [reqs[r] EXCEPT !.pc = "record", !.backend = a, !.tried = @ \cup {a}]

\* Mutant: a backend that has failed this request may be tried again.
SelectUntried(r) ==
  /\ At(r, "select")
  /\ \/ \E a \in Addresses : Chosen(r, a) /\ Becomes(r, Picks(r, a))
     \/ HealthyCount(pool) = 0 /\ Becomes(r, GivenUp(reqs[r])) /\ UNCHANGED rr
  /\ UNCHANGED <<pool, leaked, others>>

\* Mutant: without a healthy backend the loop goes round until there is one.
SelectWaits(r) ==
  /\ At(r, "select")
  /\ \E a \in Addresses :
       /\ Chosen(r, a)
       /\ Becomes(r, IF a \in reqs[r].tried THEN GivenUp(reqs[r]) ELSE Picks(r, a))
  /\ UNCHANGED <<pool, leaked, others>>

\* The loop ends when no backend is healthy and as soon as Select returns one
\* that this request has tried.
Select(r) ==
  /\ At(r, "select")
  /\ \/ \E a \in Addresses :
          /\ Chosen(r, a)
          /\ Becomes(r, IF a \in reqs[r].tried THEN GivenUp(reqs[r]) ELSE Picks(r, a))
     \/ /\ HealthyCount(pool) = 0
        /\ Becomes(r, GivenUp(reqs[r]))
        /\ UNCHANGED rr
  /\ UNCHANGED <<pool, leaked, others>>

\* A retry gets a new reader of a buffered body; one that is not buffered is
\* sent as the last attempt left it.
Record(r) ==
  /\ At(r, "record")
  /\ pool' = RecordRequest(pool, reqs[r].backend)
  /\ Becomes(r, [reqs[r] EXCEPT !.pc = "serve", !.attempt = @ + 1])
  /\ UNCHANGED <<rr, leaked, others>>

\* What an exchange leaves of the request: ReverseProxy closes the body it has
\* been given whatever became of it, and a buffered one is never used up.
Exchanged(r, resp, failed) ==
  [reqs[r] EXCEPT !.pc = "complete", !.resp = resp, !.failed = failed,
                  !.spent = @ \/ (BodyOf[r] # "none" /\ ~reqs[r].replay)]

\* The whole response has been streamed.
Answered(r) ==
  /\ At(r, "serve")
  /\ Becomes(r, Exchanged(r, "full", FALSE))
  /\ UNCHANGED <<pool, rr, leaked, others>>

\* The backend could not be reached, or broke off before its response began.
Failed(r) ==
  /\ At(r, "serve")
  /\ Becomes(r, Exchanged(r, reqs[r].resp, TRUE))
  /\ UNCHANGED <<pool, rr, leaked, others>>

\* An error after something was written: an interim (1xx) response that was
\* passed on, or a WebSocket handshake that failed on the hijacked connection.
FailedCommitted(r) ==
  /\ At(r, "serve")
  /\ \E resp \in {"interim", "partial"} :
       Becomes(r, Exchanged(r, resp, TRUE))
  /\ UNCHANGED <<pool, rr, leaked, others>>

\* The copying of the response broke off, on either side: the panic leaves the
\* loop before CompleteRequest, and nothing is recorded of the attempt.
Unwound(r) ==
  /\ At(r, "serve")
  /\ Becomes(r, Returned("partial"))
  /\ leaked' = [leaked EXCEPT ![reqs[r].backend] = @ + 1]
  /\ UNCHANGED <<pool, rr, others>>

\* Mutant: only a request that went well is completed.
CompleteSuccess(r) ==
  /\ At(r, "complete")
  /\ pool' = IF reqs[r].failed THEN pool ELSE CompleteRequest(pool, reqs[r].backend)
  /\ Becomes(r, [reqs[r] EXCEPT !.pc = "account"])
  /\ UNCHANGED <<rr, leaked, others>>

Complete(r) ==
  /\ At(r, "complete")
  /\ pool' = CompleteRequest(pool, reqs[r].backend)
  /\ Becomes(r, [reqs[r] EXCEPT !.pc = "account"])
  /\ UNCHANGED <<rr, leaked, others>>

Succeed(r) ==
  /\ At(r, "account")
  /\ ~reqs[r].failed
  /\ pool' = RecordSuccess(pool, reqs[r].backend)
  /\ Becomes(r, Returned(reqs[r].resp))
  /\ UNCHANGED <<rr, leaked, others>>

FailsAt(a) == \E i \in DOMAIN pool : FirstAt(pool, i, a) /\ pool[i].fails >= MaxFails

\* Mutant: whether the client has seen part of a response is not looked at.
RetryRegardless(r) ==
  /\ At(r, "account")
  /\ reqs[r].failed
  /\ ~FailsAt(reqs[r].backend)
  /\ pool' = RecordFailure(pool, reqs[r].backend)
  /\ Becomes(r, IF reqs[r].canRetry /\ reqs[r].attempt < MaxRetries
                THEN [reqs[r] EXCEPT !.pc = "select"]
                ELSE GivenUp(reqs[r]))
  /\ UNCHANGED <<rr, leaked, others>>

\* Mutant: one attempt too many.
RetryOnceMore(r) ==
  /\ At(r, "account")
  /\ reqs[r].failed
  /\ ~FailsAt(reqs[r].backend)
  /\ pool' = RecordFailure(pool, reqs[r].backend)
  /\ Becomes(r, IF /\ ~Committed(reqs[r])
                   /\ reqs[r].canRetry
                   /\ reqs[r].attempt <= MaxRetries
                THEN [reqs[r] EXCEPT !.pc = "select"]
                ELSE GivenUp(reqs[r]))
  /\ UNCHANGED <<rr, leaked, others>>

\* The next attempt, unless a response has begun, the body cannot be replayed
\* or the attempts are used up.
Retry(r) ==
  /\ At(r, "account")
  /\ reqs[r].failed
  /\ ~FailsAt(reqs[r].backend)
  /\ pool' = RecordFailure(pool, reqs[r].backend)
  /\ Becomes(r, IF /\ ~Committed(reqs[r])
                   /\ reqs[r].canRetry
                   /\ reqs[r].attempt < MaxRetries
                THEN [reqs[r] EXCEPT !.pc = "select"]
                ELSE GivenUp(reqs[r]))
  /\ UNCHANGED <<rr, leaked, others>>

-----------------------------------------------------------------------------
(* What else happens to the pool meanwhile. *)

\* Bound: so many operations of the engine and the health checker.
Disturb ==
  /\ disturbed < MaxDisturbed
  /\ disturbed' = disturbed + 1

\* Upsert holds the table's lock until it has added its target.
TableUnlocked == joining = {}

\* A probe's result: Table.SetBackendHealth.
ProbeResult(a, h) ==
  /\ TableUnlocked /\ Disturb
  /\ pool' = Mark(pool, a, h)
  /\ emptied' = (emptied \/ ~h)
  /\ UNCHANGED <<strategy, joining, rr, reqs, leaked, replaced>>

\* A container starts, or is looked at again.  Table.Upsert gives the live pool
\* the container's strategy ...
ContainerFound(a) ==
  /\ TableUnlocked /\ Disturb
  /\ strategy' \in InUse
  /\ joining' = {a}
  /\ UNCHANGED <<pool, emptied, rr, reqs, leaked, replaced>>

\* ... and then adds the target, each under the pool's own lock.
ContainerUp(a, h) ==
  /\ a \in joining
  /\ pool' = PoolAdd(pool, NewTarget(a, a, WeightOf[a], h))
  /\ emptied' = (emptied \/ ~h)
  /\ joining' = {}
  /\ UNCHANGED <<strategy, disturbed, rr, reqs, leaked, replaced>>

\* A container stops: Table.RemoveByContainer.
ContainerDown(a) ==
  /\ TableUnlocked /\ Disturb
  /\ a \in AddressesOf(pool)
  /\ pool' = PoolRemove(pool, a)
  /\ emptied' = TRUE
  /\ replaced' = replaced \cup {a}
  /\ UNCHANGED <<strategy, joining, rr, reqs, leaked>>

-----------------------------------------------------------------------------
RequestStep(r) ==
  \/ Accept(r) \/ Prepare(r) \/ Select(r) \/ Record(r)
  \/ Answered(r) \/ Failed(r) \/ FailedCommitted(r) \/ Unwound(r)
  \/ Complete(r) \/ Succeed(r) \/ Retry(r)

Disturbance ==
  \E a \in Addresses :
    \/ \E h \in BOOLEAN : ProbeResult(a, h) \/ ContainerUp(a, h)
    \/ ContainerFound(a) \/ ContainerDown(a)

Finished == \A r \in Requests : At(r, "done")

Next == (\E r \in Requests : RequestStep(r)) \/ Disturbance \/ (Finished /\ UNCHANGED vars)

Spec == Init /\ [][Next]_vars

\* A goroutine that can run does, and an exchange ends some way or other.
FairSpec == Spec /\ \A r \in Requests : WF_vars(RequestStep(r))

-----------------------------------------------------------------------------
(* Properties. *)

\* Once anything has reached the client no other backend sees the request, and
\* no error page is written over what was sent.
CommittedIsFinal ==
  [][\A r \in Requests : Committed(reqs[r]) =>
       /\ reqs'[r].pc \notin {"select", "record", "serve"}
       /\ reqs'[r].resp = reqs[r].resp]_vars

\* However the pool changes between two attempts, a request reaches each
\* backend at most once, and at most MaxRetries of them.
OncePerBackend ==
  \A r \in Requests :
    /\ reqs[r].attempt <= Cardinality(reqs[r].tried)
    /\ Cardinality(reqs[r].tried) <= MaxRetries
    /\ ~At(r, "record") => reqs[r].attempt = Cardinality(reqs[r].tried)

\* An attempt gets the whole body, unless the handler saw a single healthy
\* backend when it looked, or the client's own upload broke off.
FullBody ==
  \A r \in Requests :
    At(r, "serve") /\ reqs[r].attempt > 1 /\ ~reqs[r].alone => ~reqs[r].spent

\* A backend's connection count is the number of requests it is working on and
\* of those whose handler was unwound; unless it was removed meanwhile, when
\* RecordRequest and CompleteRequest may have met different targets.
Working(a) == {r \in Requests : reqs[r].backend = a /\ reqs[r].pc \in {"serve", "complete"}}

ActiveAccounted ==
  \A i \in DOMAIN pool :
    pool[i].addr \notin replaced =>
      pool[i].active = Cardinality(Working(pool[i].addr)) + leaked[pool[i].addr]

\* Failed requests alone, however many and however they interleave, never take
\* the last backend out of rotation.
RotationKept == ~emptied /\ pool # <<>> => HealthyCount(pool) > 0

\* Every request ends, whatever the backends do.
RequestsEnd == \A r \in Requests : <>At(r, "done")

-----------------------------------------------------------------------------
(* What the repository says of the code and the code does not do. *)

\* "Only buffer a body when failover could actually happen": an attempt that is
\* a retry always has the body to send.
RetryHasBody ==
  \A r \in Requests :
    At(r, "serve") /\ reqs[r].attempt > 1 /\ BodyOf[r] # "none" => reqs[r].replay

\* Stats returns the current active connection count of a target.
ActiveIsCurrent ==
  \A i \in DOMAIN pool : pool[i].active = Cardinality(Working(pool[i].addr))

=============================================================================
