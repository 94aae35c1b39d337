------------------------------- MODULE Limits -------------------------------
(***************************************************************************)
(* What stands between a request and the backends of a route: the circuit  *)
(* breaker and, inside it, the rate limiter (circuitbreaker.go and         *)
(* ratelimit.go in internal/middleware, in the order in which BuildChain   *)
(* of internal/router/route_middleware.go wraps them).                     *)
(*                                                                         *)
(* The breaker asks once when a request comes in and is told once when it  *)
(* has been answered, and any number of other requests may do either in    *)
(* between.  A refusal from within, such as the limiter's, is an answer    *)
(* like any other to the breaker, and not a failure.                       *)
(*                                                                         *)
(* Two clocks: the breaker's window passes in one step, and the limiter's  *)
(* time in ticks, in each of which a bucket gains one unit of a token.     *)
(***************************************************************************)
EXTENDS Integers, FiniteSets

CONSTANTS
  Clients,     \* client addresses
  Requests,    \* requests in flight
  Threshold,   \* failures in a row that open the breaker
  SuccessMin,  \* successes that close it again
  MaxSize,     \* tokens in a full bucket
  Unit,        \* units of a token: a bucket gains one per tick
  IdleMax,     \* ticks after which cleanup takes an unused bucket (five minutes)
  MaxBuckets,  \* buckets a limiter keeps
  None         \* a missing map entry

ASSUME ConstantsAssumption ==
  /\ Threshold \in Nat \ {0}
  /\ SuccessMin \in Nat \ {0}
  /\ MaxSize \in Nat \ {0}
  /\ Unit \in Nat \ {0}
  /\ IdleMax \in Nat
  /\ MaxBuckets \in Nat \ {0}

ASSUME ClientsAssumption == IsFiniteSet(Clients)

ASSUME NoneAssumption == None \notin [tokens: Int, idle: Int]

VARIABLES
  breaker,  \* CircuitBreaker: state, failures and successes
  past,     \* whether the window has passed since the last failure
  reqs,     \* where each request is
  buckets,  \* RateLimiter.buckets
  up,       \* whether the backend answers without failures
  streak,   \* history: failures recorded in a row
  good,     \* history: successes in a row since the breaker was half-opened
  debt,     \* history: what a client got, in units, and has not waited off
  pause,    \* history: ticks since a client's last request, as far as they matter
  evicted   \* history: clients that lost a bucket and still have a debt

limiter == <<buckets, debt, pause, evicted>>
record  == <<breaker, past, streak, good>>
vars    == <<limiter, record, reqs, up>>

Least(a, b) == IF a <= b THEN a ELSE b

Full == MaxSize * Unit

\* A full bucket, and the first request, for which no token is taken.
Most == Full + Unit

\* A bucket that was not used for so long is full, and cleanup may take it: how
\* much longer makes no difference.
IdleCap == IF Full <= IdleMax THEN IdleMax + 1 ELSE Full

Bucket == [tokens: 0 .. Full, idle: 0 .. IdleCap]

Present == {c \in Clients : buckets[c] # None}

TypeOK ==
  /\ breaker \in [state: {"closed", "open", "halfopen"},
                  failures: 0 .. Threshold, successes: 0 .. SuccessMin - 1]
  /\ past \in BOOLEAN
  /\ reqs \in [Requests -> {"idle", "backend", "refused"}]
  /\ buckets \in [Clients -> Bucket \cup {None}]
  /\ Cardinality(Present) <= MaxBuckets
  /\ up \in BOOLEAN
  /\ streak \in 0 .. Threshold
  /\ good \in 0 .. SuccessMin
  /\ debt \in [Clients -> 0 .. Most + Unit]
  /\ pause \in [Clients -> 0 .. IdleMax + 1]
  /\ evicted \subseteq Clients

Init ==
  /\ breaker = [state |-> "closed", failures |-> 0, successes |-> 0]
  /\ past = FALSE
  /\ reqs = [r \in Requests |-> "idle"]
  /\ buckets = [c \in Clients |-> None]
  /\ up = TRUE
  /\ streak = 0
  /\ good = 0
  /\ debt = [c \in Clients |-> 0]
  /\ pause = [c \in Clients |-> IdleMax + 1]
  /\ evicted = {}

-----------------------------------------------------------------------------
(* The circuit breaker. *)

\* Mutant: the successes of the last time count again.
HalfOpenedAgain == [breaker EXCEPT !.state = "halfopen"]

HalfOpened == [breaker EXCEPT !.state = "halfopen", !.successes = 0]

\* Mutant: while half-open, nothing more is let through.
AllowsFirst == breaker.state = "closed" \/ (breaker.state = "open" /\ past)

\* allow: an open breaker turns half-open with the first request after the
\* window, and then lets every request through.
Allows == breaker.state # "open" \/ past

Allow ==
  /\ Allows
  /\ breaker' = IF breaker.state = "open" THEN HalfOpened ELSE breaker
  /\ good' = IF breaker.state = "open" THEN 0 ELSE good

\* recordFailure, in whatever state the breaker is by now.  Beyond Threshold
\* the count of failures decides nothing, and is not kept here.
RecordFailure ==
  LET failures == Least(breaker.failures + 1, Threshold)
  IN  /\ breaker' = [breaker EXCEPT
                       !.failures = failures,
                       !.state = IF @ = "halfopen" \/ failures = Threshold THEN "open" ELSE @]
      /\ past' = FALSE
      /\ streak' = Least(streak + 1, Threshold)
      /\ good' = 0

\* Mutant: a success while closed leaves the failures counted.
RecordSuccessKeepsFailures ==
  /\ breaker' =
       CASE breaker.state # "halfopen" -> breaker
         [] breaker.state = "halfopen" /\ breaker.successes + 1 < SuccessMin ->
              [breaker EXCEPT !.successes = @ + 1]
         [] OTHER -> [state |-> "closed", failures |-> 0, successes |-> 0]
  /\ streak' = 0
  /\ good' = Least(good + 1, SuccessMin)
  /\ UNCHANGED past

\* recordSuccess: an open breaker takes no notice.
RecordSuccess ==
  /\ breaker' =
       CASE breaker.state = "open" -> breaker
         [] breaker.state = "closed" -> [breaker EXCEPT !.failures = 0]
         [] breaker.state = "halfopen" /\ breaker.successes + 1 < SuccessMin ->
              [breaker EXCEPT !.successes = @ + 1]
         [] OTHER -> [state |-> "closed", failures |-> 0, successes |-> 0]
  /\ streak' = 0
  /\ good' = Least(good + 1, SuccessMin)
  /\ UNCHANGED past

-----------------------------------------------------------------------------
(* The rate limiter. *)

\* Mutant: a bucket fills beyond its size.
RefilledOver(b) == b.tokens + b.idle

Refilled(b) == Least(b.tokens + b.idle, Full)

\* Mutant: one bucket more than the limiter may keep.
AtCapacityLate == Cardinality(Present) > MaxBuckets

AtCapacity == Cardinality(Present) >= MaxBuckets

\* The buckets that have not been used for the longest time.
Oldest == {c \in Present : \A d \in Present : buckets[d].idle <= buckets[c].idle}

Charge(c) == debt' = [debt EXCEPT ![c] = Least(@ + Unit, Most + Unit)]

\* allow for a client without a bucket: at the bound the oldest one goes; the
\* new one is full, and the request that made it is free.
NewBucket(c) ==
  /\ buckets[c] = None
  /\ \E gone \in IF AtCapacity THEN {{d} : d \in Oldest} ELSE {{}} :
       /\ buckets' = [d \in Clients |->
                        IF d = c THEN [tokens |-> Full, idle |-> 0]
                        ELSE IF d \in gone THEN None ELSE buckets[d]]
       /\ evicted' = evicted \cup {d \in gone : debt[d] > 0}
  /\ Charge(c)

TakeToken(c) ==
  /\ buckets[c] # None /\ Refilled(buckets[c]) >= Unit
  /\ buckets' = [buckets EXCEPT ![c] = [tokens |-> Refilled(@) - Unit, idle |-> 0]]
  /\ Charge(c)
  /\ UNCHANGED evicted

\* Too few tokens: the bucket is refilled all the same.
NoToken(c) ==
  /\ buckets[c] # None /\ Refilled(buckets[c]) < Unit
  /\ buckets' = [buckets EXCEPT ![c] = [tokens |-> Refilled(@), idle |-> 0]]
  /\ UNCHANGED <<debt, evicted>>

\* cleanup, once a minute: buckets that have not been used for five minutes go.
Cleanup ==
  /\ \E c \in Present : buckets[c].idle > IdleMax
  /\ buckets' = [c \in Clients |->
                   IF c \in Present /\ buckets[c].idle > IdleMax THEN None ELSE buckets[c]]
  /\ UNCHANGED <<record, debt, pause, evicted, reqs, up>>

-----------------------------------------------------------------------------
(* Requests, and what happens around them. *)

\* A request that the breaker lets through comes to the limiter.
Arrive(r, c) ==
  /\ reqs[r] = "idle"
  /\ Allow
  /\ \/ (NewBucket(c) \/ TakeToken(c)) /\ reqs' = [reqs EXCEPT ![r] = "backend"]
     \/ NoToken(c) /\ reqs' = [reqs EXCEPT ![r] = "refused"]
  /\ pause' = [pause EXCEPT ![c] = 0]
  /\ UNCHANGED <<past, streak, up>>

\* The breaker sees 429.
Refused(r) ==
  /\ reqs[r] = "refused"
  /\ RecordSuccess
  /\ reqs' = [reqs EXCEPT ![r] = "idle"]
  /\ UNCHANGED <<limiter, up>>

Succeeds(r) ==
  /\ reqs[r] = "backend"
  /\ RecordSuccess
  /\ reqs' = [reqs EXCEPT ![r] = "idle"]
  /\ UNCHANGED <<limiter, up>>

\* A backend's 5xx, or the proxy's own.
Fails(r) ==
  /\ reqs[r] = "backend" /\ ~up
  /\ RecordFailure
  /\ reqs' = [reqs EXCEPT ![r] = "idle"]
  /\ UNCHANGED <<limiter, up>>

\* A response that breaks off panics through the middleware: nothing is
\* recorded.
Aborts(r) ==
  /\ reqs[r] = "backend"
  /\ reqs' = [reqs EXCEPT ![r] = "idle"]
  /\ UNCHANGED <<limiter, record, up>>

WindowPasses ==
  /\ breaker.state = "open" /\ ~past
  /\ past' = TRUE
  /\ UNCHANGED <<limiter, breaker, streak, good, reqs, up>>

\* One tick of the limiter's clock.  A unit of a client's debt is waited off in
\* each, and all of it in a pause after which cleanup may take its bucket.
Tick ==
  /\ buckets' = [c \in Clients |->
                   IF buckets[c] = None THEN None
                   ELSE [buckets[c] EXCEPT !.idle = Least(@ + 1, IdleCap)]]
  /\ pause' = [c \in Clients |-> Least(pause[c] + 1, IdleMax + 1)]
  /\ debt' = [c \in Clients |->
                IF debt[c] = 0 \/ pause[c] >= IdleMax THEN 0 ELSE debt[c] - 1]
  /\ evicted' = {c \in evicted : debt'[c] > 0}
  /\ UNCHANGED <<record, reqs, up>>

BackendChanges ==
  /\ up' = ~up
  /\ UNCHANGED <<limiter, record, reqs>>

Next ==
  \/ \E r \in Requests :
       \/ \E c \in Clients : Arrive(r, c)
       \/ Refused(r) \/ Succeeds(r) \/ Fails(r) \/ Aborts(r)
  \/ WindowPasses
  \/ Tick
  \/ Cleanup
  \/ BackendChanges

\* Requests keep coming and are answered, not all of them broken off, and time
\* passes.
Fairness ==
  /\ WF_vars(\E r \in Requests, c \in Clients : Arrive(r, c))
  /\ WF_vars(\E r \in Requests : Refused(r))
  /\ SF_vars(\E r \in Requests : Succeeds(r))
  /\ WF_vars(WindowPasses)

Spec == Init /\ [][Next]_vars /\ Fairness

-----------------------------------------------------------------------------
(* What must hold. *)

\* A client gets no more than a full bucket, one free request and what is
\* refilled meanwhile, over any stretch without a pause of more than IdleMax
\* (RateLimiter.allow and cleanup in ratelimit.go): refusals and the requests of
\* others do not add to it, and cleanup only after such a pause.  Whoever had to
\* give up a bucket for another client's starts anew.
LimitHolds == \A c \in Clients \ evicted : debt[c] <= Most

\* A closed breaker opens with the failure that is the Threshold-th in a row,
\* not before and not after, however the requests of other states mix in their
\* results (recordFailure and recordSuccess in circuitbreaker.go).
TripsOnStreak ==
  [][breaker.state = "closed" => (breaker'.state # "closed" <=> streak' = Threshold)]_vars

\* A breaker closes only after "successes needed to close from half-open"
\* (CircuitBreaker.successMin), all of them since the window last passed and with
\* no failure in between.
ClosesAfterSuccesses ==
  [][breaker.state # "closed" /\ breaker'.state = "closed" => good' = SuccessMin]_vars

\* Once the backend stays up the breaker closes for good, whatever was in
\* flight when it recovered.
Recovers == <>[]up => <>[](breaker.state = "closed")
=============================================================================
