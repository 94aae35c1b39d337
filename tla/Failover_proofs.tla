-------------------------- MODULE Failover_proofs ---------------------------
(***************************************************************************)
(* The safety properties of Failover, for any number of backends and of    *)
(* concurrent requests, any limit on the attempts and any interference of  *)
(* the health checker and the discovery engine.                            *)
(***************************************************************************)
EXTENDS Failover, BackendPool_proofs

-----------------------------------------------------------------------------
(* What the local variables of a request satisfy at each point.  A handler  *)
(* owns them, so this part of the invariant is that of one request: b is    *)
(* the kind of body it has and q the values of its variables.              *)

\* Nothing has reached the client while a backend may still be chosen.
Uncommitted(q) ==
  q.pc \in {"accept", "prepare", "select", "record", "serve"} => q.resp = "none"

\* The attempts are counted by the backends tried; a backend that is chosen is
\* in tried before its attempt is counted.
AttemptsCounted(q) ==
  /\ IsFiniteSet(q.tried)
  /\ Cardinality(q.tried) = IF q.pc = "record" THEN q.attempt + 1 ELSE q.attempt
  /\ q.pc \in {"select", "record"} => q.attempt < MaxRetries
  /\ q.pc \in {"record", "serve", "complete", "account"} => q.backend \in Addresses

\* A request that may go to a second backend has its body in full, now and
\* after the exchange that is to come.
BodyKept(b, q) ==
  /\ q.pc = "accept" => ~q.spent /\ q.attempt = 0
  /\ q.pc = "prepare" => ~q.spent /\ q.attempt = 0
  /\ q.pc \in {"select", "record", "serve", "complete", "account"}
       /\ ~q.alone /\ MaxRetries > 1 /\ q.canRetry
     => ~q.spent /\ (b = "none" \/ q.replay)
  /\ q.pc \in {"select", "record"} /\ q.attempt > 0 => q.canRetry
  /\ q.pc = "serve" /\ q.attempt > 1 => q.canRetry

LocalInv(b, q) ==
  q \in Request /\ Uncommitted(q) /\ AttemptsCounted(q) /\ BodyKept(b, q)

LocalsInv == \A r \in Requests : LocalInv(BodyOf[r], reqs[r])

-----------------------------------------------------------------------------
(* Each step of a request keeps them. *)

LEMMA ArrivingLocal ==
  /\ Arriving \in Request
  /\ \A b : LocalInv(b, Arriving)
<1>1. MaxRetries \in Nat
  BY FailoverAssumption
<1>2. Arriving \in Request
  BY <1>1 DEF Arriving, Request, Points, Responses
<1>3. IsFiniteSet({}) /\ Cardinality({}) = 0
  BY FS_EmptySet
<1>4. QED
  BY <1>2, <1>3 DEF LocalInv, Uncommitted, AttemptsCounted, BodyKept, Arriving

LEMMA ReturnedLocal ==
  ASSUME NEW b, NEW resp \in Responses
  PROVE  /\ LocalInv(b, Returned(resp))
         /\ Returned(resp).pc = "done"
         /\ Returned(resp).resp = resp
<1> DEFINE n == Returned(resp)
<1>1. ASSUME NEW q \in Request
      PROVE  /\ [q EXCEPT !.pc = "done", !.resp = resp] \in Request
             /\ [q EXCEPT !.pc = "done", !.resp = resp].pc = "done"
             /\ [q EXCEPT !.pc = "done", !.resp = resp].resp = resp
             /\ [q EXCEPT !.pc = "done", !.resp = resp].tried = q.tried
             /\ [q EXCEPT !.pc = "done", !.resp = resp].attempt = q.attempt
  BY DEF Request, Points
<1>2. Arriving.tried = {} /\ Arriving.attempt = 0
  BY DEF Arriving
<1>3. /\ n \in Request /\ n.pc = "done" /\ n.resp = resp
      /\ n.tried = {} /\ n.attempt = 0
  BY <1>1, <1>2, ArrivingLocal DEF Returned
<1>4. IsFiniteSet({}) /\ Cardinality({}) = 0
  BY FS_EmptySet
<1> HIDE DEF n
<1>5. LocalInv(b, n)
  BY <1>3, <1>4 DEF LocalInv, Uncommitted, AttemptsCounted, BodyKept
<1>6. QED BY <1>3, <1>5 DEF n

LEMMA GivenUpLocal ==
  ASSUME NEW b, NEW q \in Request
  PROVE  /\ LocalInv(b, GivenUp(q))
         /\ GivenUp(q).pc = "done"
         /\ Committed(q) => GivenUp(q).resp = q.resp
<1>1. q.resp \in Responses /\ "503" \in Responses
  BY DEF Request, Responses
<1>2. QED BY <1>1, ReturnedLocal DEF GivenUp

LEMMA AcceptLocal ==
  ASSUME NEW b, NEW q, LocalInv(b, q), q.pc = "accept"
  PROVE  LocalInv(b, [q EXCEPT !.pc = "prepare"])
<1> DEFINE n == [q EXCEPT !.pc = "prepare"]
<1>1. q \in Request
  BY DEF LocalInv
<1>2. n \in Request
  BY <1>1 DEF Request, Points
<1>3. /\ n.pc = "prepare" /\ n.attempt = q.attempt /\ n.tried = q.tried
      /\ n.spent = q.spent /\ n.resp = q.resp
  BY <1>1 DEF Request
<1>4. QED
  BY <1>2, <1>3 DEF LocalInv, Uncommitted, AttemptsCounted, BodyKept

\* What Prepare makes of a request that has seen count healthy backends.
LEMMA PrepareLocal ==
  ASSUME NEW b, NEW q, LocalInv(b, q), q.pc = "prepare",
         NEW alone \in BOOLEAN, NEW can \in BOOLEAN, NEW replay \in BOOLEAN,
         NEW broken \in BOOLEAN,
         ~alone /\ MaxRetries > 1 /\ can => ~broken /\ (b = "none" \/ replay)
  PROVE  LocalInv(b, [q EXCEPT !.pc = "select", !.alone = alone, !.canRetry = can,
                               !.replay = replay, !.spent = broken])
<1> DEFINE n == [q EXCEPT !.pc = "select", !.alone = alone, !.canRetry = can,
                          !.replay = replay, !.spent = broken]
<1>1. q \in Request /\ MaxRetries \in Nat \ {0}
  BY FailoverAssumption DEF LocalInv
<1>2. n \in Request
  BY <1>1 DEF Request, Points
<1>3. /\ n.pc = "select" /\ n.attempt = q.attempt /\ n.tried = q.tried
      /\ n.resp = q.resp /\ n.alone = alone /\ n.canRetry = can
      /\ n.replay = replay /\ n.spent = broken
  BY <1>1 DEF Request
<1>4. q.attempt = 0
  BY DEF LocalInv, BodyKept
<1> HIDE DEF n
<1>5. LocalInv(b, n)
  BY <1>1, <1>2, <1>3, <1>4 DEF LocalInv, Uncommitted, AttemptsCounted, BodyKept
<1>6. QED BY <1>5 DEF n

LEMMA PickLocal ==
  ASSUME NEW b, NEW q, LocalInv(b, q), q.pc = "select",
         NEW a \in Addresses, a \notin q.tried
  PROVE  LocalInv(b, [q EXCEPT !.pc = "record", !.backend = a, !.tried = @ \cup {a}])
<1> DEFINE n == [q EXCEPT !.pc = "record", !.backend = a, !.tried = @ \cup {a}]
<1>1. q \in Request /\ q.attempt < MaxRetries
  BY DEF LocalInv, AttemptsCounted
<1>2. n \in Request
  BY <1>1 DEF Request, Points
<1>3. /\ n.pc = "record" /\ n.attempt = q.attempt /\ n.tried = q.tried \cup {a}
      /\ n.resp = q.resp /\ n.alone = q.alone /\ n.canRetry = q.canRetry
      /\ n.replay = q.replay /\ n.spent = q.spent /\ n.backend = a
  BY <1>1 DEF Request
<1>4. IsFiniteSet(q.tried) /\ Cardinality(q.tried) = q.attempt
  BY DEF LocalInv, AttemptsCounted
<1>5. /\ IsFiniteSet(q.tried \cup {a})
      /\ Cardinality(q.tried \cup {a}) = q.attempt + 1
  BY <1>4, FS_AddElement
<1> HIDE DEF n
<1>6. LocalInv(b, n)
  BY <1>1, <1>2, <1>3, <1>5 DEF LocalInv, Uncommitted, AttemptsCounted, BodyKept
<1>7. QED BY <1>6 DEF n

LEMMA RecordLocal ==
  ASSUME NEW b, NEW q, LocalInv(b, q), q.pc = "record"
  PROVE  LocalInv(b, [q EXCEPT !.pc = "serve", !.attempt = @ + 1])
<1> DEFINE n == [q EXCEPT !.pc = "serve", !.attempt = @ + 1]
<1>1. q \in Request /\ MaxRetries \in Nat
  BY FailoverAssumption DEF LocalInv
<1>2. q.attempt \in 0 .. MaxRetries /\ q.attempt < MaxRetries
  BY <1>1 DEF LocalInv, AttemptsCounted, Request
<1>3. q.attempt + 1 \in 0 .. MaxRetries
  BY <1>1, <1>2
<1>4. ASSUME NEW k \in 0 .. MaxRetries
      PROVE  [q EXCEPT !.pc = "serve", !.attempt = k] \in Request
  BY <1>1 DEF Request, Points
<1>5. n \in Request
  BY <1>3, <1>4
<1>6. /\ n.pc = "serve" /\ n.attempt = q.attempt + 1 /\ n.tried = q.tried
      /\ n.resp = q.resp /\ n.alone = q.alone /\ n.canRetry = q.canRetry
      /\ n.replay = q.replay /\ n.spent = q.spent /\ n.backend = q.backend
  BY <1>1 DEF Request
<1> HIDE DEF n
<1>7. LocalInv(b, n)
  BY <1>2, <1>5, <1>6 DEF LocalInv, Uncommitted, AttemptsCounted, BodyKept
<1>8. QED BY <1>7 DEF n

\* resp is what the client has been sent when the exchange is over.
LEMMA ExchangedLocal ==
  ASSUME NEW r \in Requests, LocalInv(BodyOf[r], reqs[r]), At(r, "serve"),
         NEW resp \in Responses, NEW failed \in BOOLEAN
  PROVE  LocalInv(BodyOf[r], Exchanged(r, resp, failed))
<1> DEFINE q == reqs[r]
           b == BodyOf[r]
           spent == q.spent \/ (b # "none" /\ ~q.replay)
           n == [q EXCEPT !.pc = "complete", !.resp = resp, !.failed = failed,
                          !.spent = spent]
<1>1. q \in Request /\ q.pc = "serve" /\ LocalInv(b, q)
  BY DEF LocalInv, At
<1>2. spent \in BOOLEAN
  OBVIOUS
<1>3. Exchanged(r, resp, failed) = n
  BY DEF Exchanged
<1> HIDE DEF q, b
<1>4. ASSUME NEW s \in BOOLEAN
      PROVE  [q EXCEPT !.pc = "complete", !.resp = resp, !.failed = failed,
                       !.spent = s] \in Request
  BY <1>1 DEF Request, Points
<1>5. n \in Request
  BY <1>2, <1>4
<1>6. /\ n.pc = "complete" /\ n.attempt = q.attempt /\ n.tried = q.tried
      /\ n.alone = q.alone /\ n.canRetry = q.canRetry
      /\ n.replay = q.replay /\ n.spent = spent /\ n.backend = q.backend
  BY <1>1, <1>2 DEF Request
<1> HIDE DEF n
<1>7. LocalInv(b, n)
  BY <1>1, <1>5, <1>6 DEF LocalInv, Uncommitted, AttemptsCounted, BodyKept
<1>8. QED BY <1>3, <1>7 DEF b

LEMMA CompleteLocal ==
  ASSUME NEW b, NEW q, LocalInv(b, q), q.pc = "complete"
  PROVE  LocalInv(b, [q EXCEPT !.pc = "account"])
<1> DEFINE n == [q EXCEPT !.pc = "account"]
<1>1. q \in Request
  BY DEF LocalInv
<1>2. n \in Request
  BY <1>1 DEF Request, Points
<1>3. /\ n.pc = "account" /\ n.attempt = q.attempt /\ n.tried = q.tried
      /\ n.resp = q.resp /\ n.alone = q.alone /\ n.canRetry = q.canRetry
      /\ n.replay = q.replay /\ n.spent = q.spent /\ n.backend = q.backend
  BY <1>1 DEF Request
<1> HIDE DEF n
<1>4. LocalInv(b, n)
  BY <1>2, <1>3 DEF LocalInv, Uncommitted, AttemptsCounted, BodyKept
<1>5. QED BY <1>4 DEF n

LEMMA RetryLocal ==
  ASSUME NEW b, NEW q, LocalInv(b, q), q.pc = "account",
         ~Committed(q), q.canRetry, q.attempt < MaxRetries
  PROVE  LocalInv(b, [q EXCEPT !.pc = "select"])
<1> DEFINE n == [q EXCEPT !.pc = "select"]
<1>1. q \in Request
  BY DEF LocalInv
<1>2. n \in Request
  BY <1>1 DEF Request, Points
<1>3. /\ n.pc = "select" /\ n.attempt = q.attempt /\ n.tried = q.tried
      /\ n.resp = q.resp /\ n.alone = q.alone /\ n.canRetry = q.canRetry
      /\ n.replay = q.replay /\ n.spent = q.spent
  BY <1>1 DEF Request
<1> HIDE DEF n
<1>4. LocalInv(b, n)
  BY <1>2, <1>3 DEF LocalInv, Uncommitted, AttemptsCounted, BodyKept, Committed
<1>5. QED BY <1>4 DEF n


-----------------------------------------------------------------------------
(* Types, together with what the requests' variables satisfy. *)

StateInv == TypeOK /\ LocalsInv

LEMMA BecomesInv ==
  ASSUME StateInv, NEW r \in Requests, NEW n, LocalInv(BodyOf[r], n), Becomes(r, n)
  PROVE  reqs' \in [Requests -> Request] /\ LocalsInv'
<1>1. n \in Request
  BY DEF LocalInv
<1>2. reqs \in [Requests -> Request] /\ reqs' = [reqs EXCEPT ![r] = n]
  BY DEF StateInv, TypeOK, Becomes
<1>3. reqs' \in [Requests -> Request]
  BY <1>1, <1>2
<1>4. ASSUME NEW s \in Requests PROVE LocalInv(BodyOf[s], reqs'[s])
  BY <1>2 DEF StateInv, LocalsInv
<1>5. QED BY <1>3, <1>4 DEF LocalsInv

\* A step of a request changes nothing but the pool, the counter, the history
\* of leaks and that request's variables, whose new value is one of these.
LEMMA RequestStepLocal ==
  ASSUME StateInv, NEW r \in Requests, RequestStep(r)
  PROVE  \E n : LocalInv(BodyOf[r], n) /\ Becomes(r, n)
<1> DEFINE q == reqs[r]
           b == BodyOf[r]
<1>1. LocalInv(b, q) /\ q \in Request
  BY DEF StateInv, LocalsInv, LocalInv
<1>2. LocalInv(b, GivenUp(q))
  BY <1>1, GivenUpLocal
<1>3. CASE Accept(r)
  <2>1. q.pc = "accept"
    BY <1>3 DEF Accept, At
  <2>2. LocalInv(b, [q EXCEPT !.pc = "prepare"])
    BY <1>1, <2>1, AcceptLocal
  <2>3. \/ Becomes(r, GivenUp(q))
        \/ Becomes(r, [q EXCEPT !.pc = "prepare"])
    BY <1>3 DEF Accept
  <2>4. QED BY <1>2, <2>2, <2>3
<1>4. CASE Prepare(r)
  <2> DEFINE several == MaxRetries > 1 /\ HealthyCount(pool) > 1
             kept(broken) == BodyOf[r] = "none" \/ (BodyOf[r] = "small" /\ ~broken)
             alone == HealthyCount(pool) <= 1
             can(broken) == several => kept(broken)
             replay(broken) == several /\ kept(broken) /\ BodyOf[r] # "none"
  <2>1. PICK broken \in BOOLEAN :
          /\ broken => several /\ BodyOf[r] # "none"
          /\ Becomes(r, [q EXCEPT !.pc = "select", !.alone = alone,
                           !.canRetry = can(broken), !.replay = replay(broken),
                           !.spent = broken])
    BY <1>4 DEF Prepare
  <2>2. HealthyCount(pool) \in Int
    BY HealthyCountType DEF StateInv, TypeOK
  <2>3. q.pc = "prepare"
    BY <1>4 DEF Prepare, At
  <2>4. ~alone /\ MaxRetries > 1 /\ can(broken)
          => ~broken /\ (b = "none" \/ replay(broken))
    <3>1. ~alone => HealthyCount(pool) > 1
      BY <2>2
    <3> HIDE DEF alone
    <3>2. QED BY <2>1, <3>1
  <2>5. alone \in BOOLEAN /\ can(broken) \in BOOLEAN /\ replay(broken) \in BOOLEAN
    OBVIOUS
  <2> HIDE DEF alone, can, replay, q, b
  <2>6. LocalInv(b, [q EXCEPT !.pc = "select", !.alone = alone,
                              !.canRetry = can(broken), !.replay = replay(broken),
                              !.spent = broken])
    BY <1>1, <2>3, <2>4, <2>5, PrepareLocal
  <2>7. QED BY <2>1, <2>6 DEF b
<1>5. CASE Select(r)
  <2>1. q.pc = "select"
    BY <1>5 DEF Select, At
  <2>2. \/ Becomes(r, GivenUp(q))
        \/ \E a \in Addresses : a \notin q.tried /\ Becomes(r, Picks(r, a))
    BY <1>5 DEF Select
  <2>3. ASSUME NEW a \in Addresses, a \notin q.tried PROVE LocalInv(b, Picks(r, a))
    BY <1>1, <2>1, <2>3, PickLocal DEF Picks
  <2>4. QED BY <1>2, <2>2, <2>3
<1>6. CASE Record(r)
  BY <1>1, <1>6, RecordLocal DEF Record, At
<1>7. CASE Answered(r) \/ Failed(r) \/ FailedCommitted(r)
  <2>1. At(r, "serve")
    BY <1>7 DEF Answered, Failed, FailedCommitted
  <2>2. \E resp \in Responses, failed \in BOOLEAN : Becomes(r, Exchanged(r, resp, failed))
    <3>1. q.resp \in Responses
      BY <1>1 DEF Request
    <3>2. QED BY <1>7, <3>1 DEF Answered, Failed, FailedCommitted, Responses
  <2>3. QED BY <1>1, <2>1, <2>2, ExchangedLocal
<1>8. CASE Unwound(r)
  <2>1. "partial" \in Responses
    BY DEF Responses
  <2>2. QED BY <1>8, <2>1, ReturnedLocal DEF Unwound
<1>9. CASE Complete(r)
  BY <1>1, <1>9, CompleteLocal DEF Complete, At
<1>10. CASE Succeed(r)
  <2>1. q.resp \in Responses
    BY <1>1 DEF Request
  <2>2. QED BY <1>10, <2>1, ReturnedLocal DEF Succeed
<1>11. CASE Retry(r)
  <2>1. q.pc = "account"
    BY <1>11 DEF Retry, At
  <2>2. \/ Becomes(r, GivenUp(q))
        \/ /\ ~Committed(q) /\ q.canRetry /\ q.attempt < MaxRetries
           /\ Becomes(r, [q EXCEPT !.pc = "select"])
    BY <1>11 DEF Retry
  <2>3. QED BY <1>1, <1>2, <2>1, <2>2, RetryLocal
<1>12. QED
  BY <1>3, <1>4, <1>5, <1>6, <1>7, <1>8, <1>9, <1>10, <1>11 DEF RequestStep


LEMMA NewTargetType ==
  ASSUME NEW a \in Addresses, NEW h \in BOOLEAN
  PROVE  /\ NewTarget(a, a, WeightOf[a], h) \in Target
         /\ NewTarget(a, a, WeightOf[a], h).addr = a
         /\ NewTarget(a, a, WeightOf[a], h).cid = a
         /\ NewTarget(a, a, WeightOf[a], h).healthy = h
         /\ NewTarget(a, a, WeightOf[a], h).active = 0
<1>1. a \in Containers /\ WeightOf[a] \in Int
  BY FailoverAssumption
<1>2. QED BY <1>1 DEF NewTarget, Target

\* The pool before the first request: a target for each container, in order.
LEMMA InitPool ==
  ASSUME Init
  PROVE  /\ pool \in Pool
         /\ DOMAIN pool = DOMAIN Order
         /\ \A i \in DOMAIN pool : /\ pool[i].addr = Order[i]
                                   /\ pool[i].cid = Order[i]
                                   /\ pool[i].healthy
                                   /\ pool[i].active = 0
<1>1. PICK fails \in [DOMAIN Order -> EarlierFails] :
        pool = [i \in DOMAIN Order |->
                  [NewTarget(Order[i], Order[i], WeightOf[Order[i]], TRUE)
                     EXCEPT !.fails = fails[i]]]
  BY DEF Init
<1>2. /\ Len(Order) \in Nat /\ DOMAIN Order = 1 .. Len(Order)
      /\ \A i \in DOMAIN Order : Order[i] \in Addresses
  BY FailoverAssumption
<1>3. EarlierFails \subseteq Nat
  BY FailoverAssumption
<1>4. ASSUME NEW i \in DOMAIN Order
      PROVE  /\ pool[i] \in Target
             /\ pool[i].addr = Order[i] /\ pool[i].cid = Order[i]
             /\ pool[i].healthy /\ pool[i].active = 0
  <2> DEFINE t == NewTarget(Order[i], Order[i], WeightOf[Order[i]], TRUE)
  <2>1. /\ t \in Target /\ t.addr = Order[i] /\ t.cid = Order[i]
        /\ t.healthy /\ t.active = 0
    BY <1>2, NewTargetType
  <2>2. pool[i] = [t EXCEPT !.fails = fails[i]] /\ fails[i] \in Nat
    BY <1>1, <1>3
  <2> HIDE DEF t
  <2>3. QED BY <2>1, <2>2 DEF Target
<1>5. pool = [i \in 1 .. Len(Order) |-> pool[i]]
  BY <1>1, <1>2
<1>6. pool \in Pool
  BY <1>2, <1>4, <1>5, PoolFunction
<1>7. DOMAIN pool = DOMAIN Order
  BY <1>1
<1>8. QED BY <1>4, <1>6, <1>7

LEMMA InitInv == Init => StateInv
<1> SUFFICES ASSUME Init PROVE StateInv
  OBVIOUS
<1>1. pool \in Pool
  BY InitPool
<1>2. reqs \in [Requests -> Request] /\ LocalsInv
  BY ArrivingLocal DEF Init, LocalsInv
<1>3. strategy \in Strategies /\ rr \in 0 .. (CounterMod - 1) /\ disturbed \in 0 .. MaxDisturbed
  BY FailoverAssumption DEF Init
<1>4. /\ emptied \in BOOLEAN /\ replaced \subseteq Addresses /\ leaked \in [Addresses -> Nat]
      /\ joining \subseteq Addresses
  BY DEF Init
<1>5. QED BY <1>1, <1>2, <1>3, <1>4 DEF StateInv, TypeOK

LEMMA RequestStepInv ==
  ASSUME StateInv, NEW r \in Requests, RequestStep(r)
  PROVE  StateInv'
<1>1. reqs' \in [Requests -> Request] /\ LocalsInv'
  BY RequestStepLocal, BecomesInv
<1>2. pool' \in Pool
  <2>1. \/ pool' = pool
        \/ \E a \in Addresses \cup {""} :
             \/ pool' = RecordRequest(pool, a)
             \/ pool' = CompleteRequest(pool, a)
             \/ pool' = RecordSuccess(pool, a)
             \/ pool' = RecordFailure(pool, a)
    <3>1. reqs[r].backend \in Addresses \cup {""}
      BY DEF StateInv, TypeOK, Request
    <3>2. QED
      BY <3>1 DEF RequestStep, Accept, Prepare, Select, Record, Answered, Failed,
         FailedCommitted, Unwound, Complete, Succeed, Retry
  <2>2. pool \in Pool
    BY DEF StateInv, TypeOK
  <2>3. QED
    BY <2>1, <2>2, RecordRequestInPlace, CompleteRequestInPlace,
       RecordSuccessInPlace, RecordFailureInPlace
<1>3. rr' \in 0 .. (CounterMod - 1)
  <2>1. rr' = rr \/ rr' = (rr + 1) % CounterMod
    BY DEF RequestStep, Accept, Prepare, Select, Chosen, Record, Answered, Failed,
       FailedCommitted, Unwound, Complete, Succeed, Retry
  <2>2. rr \in 0 .. (CounterMod - 1) /\ CounterMod \in Nat \ {0}
    BY FailoverAssumption DEF StateInv, TypeOK
  <2>3. QED BY <2>1, <2>2
<1>4. leaked' \in [Addresses -> Nat]
  <2>1. leaked \in [Addresses -> Nat]
    BY DEF StateInv, TypeOK
  <2>2. leaked' = leaked \/ leaked' = [leaked EXCEPT ![reqs[r].backend] = @ + 1]
    BY DEF RequestStep, Accept, Prepare, Select, Record, Answered, Failed,
       FailedCommitted, Unwound, Complete, Succeed, Retry
  <2>3. QED BY <2>1, <2>2
<1>5. UNCHANGED others
  BY ZenonT(60) DEF RequestStep, Accept, Prepare, Select, Record, Answered, Failed,
     FailedCommitted, Unwound, Complete, Succeed, Retry
<1>6. QED
  BY <1>1, <1>2, <1>3, <1>4, <1>5 DEF StateInv, TypeOK, others

\* What the engine and the health checker may do to the pool.
LEMMA DisturbanceInv ==
  ASSUME StateInv, Disturbance
  PROVE  StateInv' /\ UNCHANGED <<reqs, leaked>>
<1>1. UNCHANGED <<reqs, leaked, rr>>
  BY DEF Disturbance, ProbeResult, ContainerFound, ContainerUp, ContainerDown
<1>2. pool' \in Pool
  <2>1. pool \in Pool
    BY DEF StateInv, TypeOK
  <2>2. \E a \in Addresses, h \in BOOLEAN :
          \/ pool' = pool
          \/ pool' = Mark(pool, a, h)
          \/ pool' = PoolAdd(pool, NewTarget(a, a, WeightOf[a], h))
          \/ pool' = PoolRemove(pool, a)
    BY DEF Disturbance, ProbeResult, ContainerFound, ContainerUp, ContainerDown
  <2>3. QED
    BY <2>1, <2>2, MarkProperties, NewTargetType, PoolAddType, PoolRemoveType
<1>3. strategy' \in Strategies
  BY FailoverAssumption
     DEF StateInv, TypeOK, Disturbance, ProbeResult, ContainerFound, ContainerUp, ContainerDown
<1>4. disturbed' \in 0 .. MaxDisturbed
  <2>1. disturbed \in 0 .. MaxDisturbed /\ MaxDisturbed \in Nat
    BY FailoverAssumption DEF StateInv, TypeOK
  <2>2. disturbed' = disturbed \/ (disturbed < MaxDisturbed /\ disturbed' = disturbed + 1)
    BY DEF Disturbance, ProbeResult, ContainerFound, ContainerUp, ContainerDown, Disturb
  <2>3. QED BY <2>1, <2>2
<1>5. emptied' \in BOOLEAN
  BY DEF StateInv, TypeOK, Disturbance, ProbeResult, ContainerFound, ContainerUp, ContainerDown
<1>6. replaced' \subseteq Addresses /\ joining' \subseteq Addresses
  BY DEF StateInv, TypeOK, Disturbance, ProbeResult, ContainerFound, ContainerUp, ContainerDown
<1>7. QED
  BY <1>1, <1>2, <1>3, <1>4, <1>5, <1>6 DEF StateInv, TypeOK, LocalsInv

LEMMA StepInv == StateInv /\ [Next]_vars => StateInv'
<1>1. CASE UNCHANGED vars
  BY <1>1 DEF StateInv, TypeOK, LocalsInv, vars
<1>2. QED
  BY <1>1, RequestStepInv, DisturbanceInv DEF Next

LEMMA InvHolds == Spec => []StateInv
  BY InitInv, StepInv, PTL DEF Spec

\* Every variable keeps its type through every step of createProxyHandler's
\* loop and every change of the pool.
THEOREM TypeCorrect == Spec => []TypeOK
<1>1. StateInv => TypeOK
  BY DEF StateInv
<1>2. QED BY <1>1, InvHolds, PTL

-----------------------------------------------------------------------------
(* What the client and the backends see. *)

\* However the pool changes between two attempts, a request reaches each
\* backend at most once, and at most MaxRetries of them (createProxyHandler).
THEOREM AttemptsBounded == Spec => []OncePerBackend
<1>1. StateInv => OncePerBackend
  <2> SUFFICES ASSUME StateInv, NEW r \in Requests
               PROVE  /\ reqs[r].attempt <= Cardinality(reqs[r].tried)
                      /\ Cardinality(reqs[r].tried) <= MaxRetries
                      /\ ~At(r, "record") => reqs[r].attempt = Cardinality(reqs[r].tried)
    BY DEF OncePerBackend
  <2>1. reqs[r] \in Request /\ AttemptsCounted(reqs[r])
    BY DEF StateInv, LocalsInv, LocalInv
  <2>2. reqs[r].attempt \in 0 .. MaxRetries /\ MaxRetries \in Nat
    BY <2>1, FailoverAssumption DEF Request
  <2>3. QED BY <2>1, <2>2 DEF AttemptsCounted, At
<1>2. QED BY <1>1, InvHolds, PTL

\* A second attempt has the body in full, unless the handler saw only one
\* healthy backend when it decided whether to keep a copy (makeReplayable).
THEOREM BodySentInFull == Spec => []FullBody
<1>1. StateInv => FullBody
  <2> SUFFICES ASSUME StateInv, NEW r \in Requests,
                      At(r, "serve"), reqs[r].attempt > 1, ~reqs[r].alone
               PROVE  ~reqs[r].spent
    BY DEF FullBody
  <2>1. reqs[r] \in Request /\ BodyKept(BodyOf[r], reqs[r])
    BY DEF StateInv, LocalsInv, LocalInv
  <2>2. MaxRetries > 1
    <3>1. reqs[r].attempt \in 0 .. MaxRetries /\ MaxRetries \in Nat
      BY <2>1, FailoverAssumption DEF Request
    <3>2. QED BY <3>1
  <2>3. QED BY <2>1, <2>2 DEF BodyKept, At
<1>2. QED BY <1>1, InvHolds, PTL

\* Once anything has reached the client no other backend sees the request, and
\* no error page is written over what was sent (failoverWriter.committed).
THEOREM CommittedStays == Spec => CommittedIsFinal
<1>1. StateInv /\ StateInv' /\ [Next]_vars =>
        [\A r \in Requests : Committed(reqs[r]) =>
           /\ reqs'[r].pc \notin {"select", "record", "serve"}
           /\ reqs'[r].resp = reqs[r].resp]_vars
  <2> SUFFICES ASSUME StateInv, Next, NEW r \in Requests, Committed(reqs[r])
               PROVE  /\ reqs'[r].pc \notin {"select", "record", "serve"}
                      /\ reqs'[r].resp = reqs[r].resp
    OBVIOUS
  <2>1. /\ LocalInv(BodyOf[r], reqs[r]) /\ reqs[r] \in Request
        /\ reqs \in [Requests -> Request]
    BY DEF StateInv, TypeOK, LocalsInv, LocalInv
  <2>2. reqs[r].pc \notin {"accept", "prepare", "select", "record", "serve"}
    BY <2>1 DEF LocalInv, Uncommitted, Committed
  <2>3. CASE reqs'[r] = reqs[r]
    BY <2>2, <2>3
  <2>4. CASE Complete(r)
    <3>1. reqs'[r] = [reqs[r] EXCEPT !.pc = "account"]
      BY <2>1, <2>4 DEF Complete, Becomes
    <3>2. QED BY <2>1, <3>1 DEF Request
  <2>5. CASE Succeed(r)
    <3>1. reqs'[r] = Returned(reqs[r].resp) /\ reqs[r].resp \in Responses
      BY <2>1, <2>5 DEF Succeed, Becomes, Request
    <3>2. QED BY <3>1, ReturnedLocal
  <2>6. CASE Retry(r)
    <3>1. reqs'[r] = GivenUp(reqs[r])
      BY <2>1, <2>6 DEF Retry, Becomes
    <3>2. QED BY <2>1, <3>1, GivenUpLocal
  <2>7. \/ reqs'[r] = reqs[r]
        \/ RequestStep(r)
    <3>1. ASSUME NEW s \in Requests, s # r, RequestStep(s)
          PROVE  reqs'[r] = reqs[r]
      <4>1. PICK n : Becomes(s, n)
        BY <3>1, RequestStepLocal
      <4>2. QED BY <2>1, <3>1, <4>1 DEF Becomes
    <3>2. QED BY <3>1, DisturbanceInv DEF Next, vars
  <2>8. QED
    BY <2>2, <2>3, <2>4, <2>5, <2>6, <2>7 DEF RequestStep, Accept, Prepare, Select,
       Record, Answered, Failed, FailedCommitted, Unwound, At
<1>2. QED BY <1>1, InvHolds, PTL DEF Spec, CommittedIsFinal


-----------------------------------------------------------------------------
(* Passive ejection. *)

\* What a step of a request does to the pool.
LEMMA RequestStepPool ==
  ASSUME StateInv, NEW r \in Requests, RequestStep(r)
  PROVE  \/ Record(r) /\ pool' = RecordRequest(pool, reqs[r].backend)
         \/ Complete(r) /\ pool' = CompleteRequest(pool, reqs[r].backend)
         \/ Succeed(r) /\ pool' = RecordSuccess(pool, reqs[r].backend)
         \/ Retry(r) /\ pool' = RecordFailure(pool, reqs[r].backend)
         \/ Unwound(r) /\ pool' = pool
         \/ /\ Accept(r) \/ Prepare(r) \/ Select(r) \/ Answered(r) \/ Failed(r)
                 \/ FailedCommitted(r)
            /\ pool' = pool
  BY ZenonT(60) DEF RequestStep, Accept, Prepare, Select, Record, Answered, Failed,
     FailedCommitted, Unwound, Complete, Succeed, Retry

\* A counter's operation leaves every target at its address, in its container,
\* and a healthy target is left if there was one.
LEMMA RequestStepTargets ==
  ASSUME StateInv, NEW r \in Requests, RequestStep(r)
  PROVE  /\ DOMAIN pool' = DOMAIN pool
         /\ \A i \in DOMAIN pool : /\ pool'[i].addr = pool[i].addr
                                   /\ pool'[i].cid = pool[i].cid
         /\ (\E i \in DOMAIN pool : pool[i].healthy)
              => \E i \in DOMAIN pool' : pool'[i].healthy
<1> DEFINE a == reqs[r].backend
<1>1. pool \in Pool /\ \A i \in DOMAIN pool : pool[i] \in Target
  BY PoolElements DEF StateInv, TypeOK
<1>2. CASE pool' = pool
  BY <1>2
<1>3. CASE pool' = RecordRequest(pool, a)
  <2>1. DOMAIN pool' = DOMAIN pool
    BY <1>1, <1>3, RecordRequestInPlace
  <2>2. ASSUME NEW i \in DOMAIN pool
        PROVE  /\ pool'[i].addr = pool[i].addr /\ pool'[i].cid = pool[i].cid
               /\ pool'[i].healthy = pool[i].healthy
    <3>1. pool[i] \in Target
      BY <1>1
    <3>2. \/ pool'[i] = pool[i]
          \/ pool'[i] = [pool[i] EXCEPT !.active = @ + 1]
      BY <1>1, <1>3, RecordRequestInPlace
    <3>3. QED BY <3>1, <3>2 DEF Target
  <2>3. QED BY <2>1, <2>2
<1>4. CASE pool' = CompleteRequest(pool, a)
  <2>1. DOMAIN pool' = DOMAIN pool
    BY <1>1, <1>4, CompleteRequestInPlace
  <2>2. ASSUME NEW i \in DOMAIN pool
        PROVE  /\ pool'[i].addr = pool[i].addr /\ pool'[i].cid = pool[i].cid
               /\ pool'[i].healthy = pool[i].healthy
    <3>1. pool[i] \in Target
      BY <1>1
    <3>2. \/ pool'[i] = pool[i]
          \/ pool'[i] = [pool[i] EXCEPT !.active = @ - 1]
      BY <1>1, <1>4, CompleteRequestInPlace
    <3>3. QED BY <3>1, <3>2 DEF Target
  <2>3. QED BY <2>1, <2>2
<1>5. CASE pool' = RecordSuccess(pool, a)
  <2>1. DOMAIN pool' = DOMAIN pool
    BY <1>1, <1>5, RecordSuccessInPlace
  <2>2. ASSUME NEW i \in DOMAIN pool
        PROVE  /\ pool'[i].addr = pool[i].addr /\ pool'[i].cid = pool[i].cid
               /\ pool'[i].healthy = pool[i].healthy
    <3>1. pool[i] \in Target
      BY <1>1
    <3>2. \/ pool'[i] = pool[i]
          \/ pool'[i] = [pool[i] EXCEPT !.fails = 0]
      BY <1>1, <1>5, RecordSuccessInPlace
    <3>3. QED BY <3>1, <3>2 DEF Target
  <2>3. QED BY <2>1, <2>2
<1>6. CASE pool' = RecordFailure(pool, a)
  <2>1. DOMAIN pool' = DOMAIN pool
    BY <1>1, <1>6, RecordFailureInPlace
  <2>2. ASSUME NEW i \in DOMAIN pool
        PROVE  pool'[i].addr = pool[i].addr /\ pool'[i].cid = pool[i].cid
    <3>1. pool[i] \in Target
      BY <1>1
    <3> DEFINE n == pool[i].fails + 1
               h == IF Ejects(pool, i) THEN FALSE ELSE pool[i].healthy
    <3>2. \/ pool'[i] = pool[i]
          \/ pool'[i] = [pool[i] EXCEPT !.fails = n, !.healthy = h]
      BY <1>1, <1>6, RecordFailureInPlace
    <3> HIDE DEF n, h
    <3>3. QED BY <3>1, <3>2 DEF Target
  <2>3. QED BY <1>1, <1>6, <2>1, <2>2, RecordFailureKeepsOne
<1>7. QED BY <1>2, <1>3, <1>4, <1>5, <1>6, RequestStepPool

\* No address twice in the pool, and each container at its address.
TargetsInv ==
  /\ DistinctAddresses(pool)
  /\ \A i \in DOMAIN pool : pool[i].cid = pool[i].addr

PoolInv == StateInv /\ TargetsInv

LEMMA PoolInvHolds == Spec => []PoolInv
<1>1. Init => TargetsInv
  BY InitPool, FailoverAssumption DEF TargetsInv, DistinctAddresses
<1>2. StateInv /\ TargetsInv /\ [Next]_vars => TargetsInv'
  <2> SUFFICES ASSUME StateInv, TargetsInv, [Next]_vars PROVE TargetsInv'
    OBVIOUS
  <2>1. pool \in Pool
    BY DEF StateInv, TypeOK
  <2>2. CASE UNCHANGED vars
    BY <2>2 DEF vars, TargetsInv
  <2>3. ASSUME NEW r \in Requests, RequestStep(r)
        PROVE  TargetsInv'
    BY <2>3, RequestStepTargets DEF TargetsInv, DistinctAddresses
  <2>4. ASSUME NEW a \in Addresses, NEW h \in BOOLEAN, ProbeResult(a, h)
        PROVE  TargetsInv'
    BY <2>1, <2>4, MarkProperties DEF ProbeResult, TargetsInv, DistinctAddresses
  <2>5. ASSUME NEW a \in Addresses, NEW h \in BOOLEAN, ContainerUp(a, h)
        PROVE  TargetsInv'
    <3> DEFINE t == NewTarget(a, a, WeightOf[a], h)
    <3>1. pool' = PoolAdd(pool, t) /\ t \in Target /\ t.addr = a /\ t.cid = a
      BY <2>5, NewTargetType DEF ContainerUp
    <3> HIDE DEF t
    <3>2. DistinctAddresses(pool')
      BY <2>1, <3>1, PoolAddDistinct DEF TargetsInv
    <3>3. \A i \in DOMAIN pool' : pool'[i].cid = pool'[i].addr
      BY <2>1, <3>1, AddedTargets DEF TargetsInv
    <3>4. QED BY <3>2, <3>3 DEF TargetsInv
  <2>6. ASSUME NEW a \in Addresses, ContainerDown(a)
        PROVE  TargetsInv'
    BY <2>1, <2>6, PoolRemoveDistinct, PoolRemoveSubset DEF ContainerDown, TargetsInv
  <2>7. ASSUME NEW a \in Addresses, ContainerFound(a)
        PROVE  TargetsInv'
    BY <2>7 DEF ContainerFound, TargetsInv, DistinctAddresses
  <2>8. QED
    BY <2>2, <2>3, <2>4, <2>5, <2>6, <2>7 DEF Next, Disturbance
<1>3. QED BY <1>1, <1>2, InvHolds, PTL DEF Spec, PoolInv

\* Failed requests alone, however many and however they interleave, never take
\* the last backend out of rotation (BackendPool.RecordFailure).
THEOREM RotationHolds == Spec => []RotationKept
<1> DEFINE Some == \E i \in DOMAIN pool : pool[i].healthy
           Kept == ~emptied /\ pool # <<>> => Some
<1>1. Init => Kept
  <2> SUFFICES ASSUME Init, pool # <<>> PROVE Some
    OBVIOUS
  <2>1. DOMAIN pool # {}
    BY InitPool, PoolElements DEF Pool
  <2>2. QED BY <2>1, InitPool
<1>2. PoolInv /\ Kept /\ [Next]_vars => Kept'
  <2> SUFFICES ASSUME StateInv, TargetsInv, Kept, [Next]_vars PROVE Kept'
    BY DEF PoolInv
  <2>1. pool \in Pool /\ DistinctAddresses(pool)
    BY DEF StateInv, TypeOK, TargetsInv
  <2>2. CASE UNCHANGED vars
    BY <2>2 DEF vars
  <2>3. ASSUME NEW r \in Requests, RequestStep(r)
        PROVE  Kept'
    <3>1. emptied' = emptied
      BY <2>3 DEF RequestStep, Accept, Prepare, Select, Record, Answered, Failed,
         FailedCommitted, Unwound, Complete, Succeed, Retry, others
    <3>2. pool' \in Pool
      BY <2>3, RequestStepInv DEF StateInv, TypeOK
    <3>3. pool' # <<>> => pool # <<>>
      BY <2>1, <2>3, <3>2, RequestStepTargets DEF Pool
    <3>4. QED BY <2>3, <3>1, <3>3, RequestStepTargets
  <2>4. ASSUME NEW a \in Addresses, NEW h \in BOOLEAN, ProbeResult(a, h)
        PROVE  Kept'
    <3> SUFFICES ASSUME ~emptied', pool' # <<>> PROVE Some'
      OBVIOUS
    <3>1. ~emptied /\ h /\ pool' = MarkHealthy(pool, a)
      BY <2>4 DEF ProbeResult, Mark
    <3>2. pool # <<>>
      BY <2>1, <2>4, MarkProperties DEF ProbeResult
    <3>3. PICK i \in DOMAIN pool : pool[i].healthy
      BY <3>1, <3>2
    <3>4. i \in DOMAIN pool' /\ pool'[i].healthy
      <4>1. pool[i] \in Target
        BY <2>1, PoolElements
      <4>2. /\ i \in DOMAIN pool'
            /\ \/ pool'[i] = pool[i]
               \/ pool'[i] = [pool[i] EXCEPT !.healthy = TRUE, !.fails = 0]
        BY <3>1 DEF MarkHealthy
      <4>3. QED BY <3>3, <4>1, <4>2 DEF Target
    <3>5. QED BY <3>4
  <2>5. ASSUME NEW a \in Addresses, NEW h \in BOOLEAN, ContainerUp(a, h)
        PROVE  Kept'
    <3> SUFFICES ASSUME ~emptied' PROVE Some'
      OBVIOUS
    <3>1. h /\ pool' = PoolAdd(pool, NewTarget(a, a, WeightOf[a], h))
      BY <2>5 DEF ContainerUp
    <3>2. QED BY <2>1, <3>1, NewTargetType, PoolAddHealthy
  <2>6. ASSUME NEW a \in Addresses, ContainerDown(a)
        PROVE  Kept'
    BY <2>6 DEF ContainerDown
  <2>7. ASSUME NEW a \in Addresses, ContainerFound(a)
        PROVE  Kept'
    BY <2>7 DEF ContainerFound
  <2>8. QED
    BY <2>2, <2>3, <2>4, <2>5, <2>6, <2>7 DEF Next, Disturbance
<1>3. PoolInv /\ Kept => RotationKept
  <2>1. PoolInv => pool \in Pool
    BY DEF PoolInv, StateInv, TypeOK
  <2>2. QED BY <2>1, HealthyCountType DEF RotationKept
<1> HIDE DEF Kept
<1>4. QED BY <1>1, <1>2, <1>3, PoolInvHolds, PTL DEF Spec


-----------------------------------------------------------------------------
(* Connection counts. *)

\* The addresses that are or were in the pool: those a request may have been
\* given, and whose counters may differ from zero.
Known == AddressesOf(pool) \cup replaced

KnownInv ==
  /\ \A r \in Requests :
       reqs[r].pc \in {"record", "serve", "complete"} => reqs[r].backend \in Known
  /\ \A a \in Addresses : leaked[a] # 0 => a \in Known

AccountInv == KnownInv /\ ActiveAccounted

Count(a) == Cardinality(Working(a)) + leaked[a]

Works(q, a) == q.backend = a /\ q.pc \in {"serve", "complete"}

\* The requests that work on an address before and after a step of r.
LEMMA WorkingBecomes ==
  ASSUME StateInv, NEW r \in Requests, NEW n, Becomes(r, n), NEW a
  PROVE  /\ IsFiniteSet(Working(a))
         /\ Cardinality(Working(a)) \in Nat
         /\ (Works(n, a) <=> Works(reqs[r], a))
              => Cardinality(Working(a)') = Cardinality(Working(a))
         /\ Works(n, a) /\ ~Works(reqs[r], a)
              => Cardinality(Working(a)') = Cardinality(Working(a)) + 1
         /\ ~Works(n, a) /\ Works(reqs[r], a)
              => Cardinality(Working(a)') = Cardinality(Working(a)) - 1
<1>1. IsFiniteSet(Working(a))
  BY FailoverAssumption, FS_Subset DEF Working
<1>2. reqs \in [Requests -> Request] /\ reqs' = [reqs EXCEPT ![r] = n]
  BY DEF StateInv, TypeOK, Becomes
<1>3. /\ \A s \in Requests : s # r => reqs'[s] = reqs[s]
      /\ reqs'[r] = n
  BY <1>2
<1>4. /\ Working(a) = {s \in Requests : Works(reqs[s], a)}
      /\ Working(a)' = {s \in Requests : Works(reqs'[s], a)}
  BY DEF Working, Works
<1>5. Cardinality(Working(a)) \in Nat
  BY <1>1, FS_CardinalityType
<1>6. ASSUME (Works(n, a) <=> Works(reqs[r], a))
      PROVE  Working(a)' = Working(a)
  BY <1>3, <1>4, <1>6
<1>7. ASSUME Works(n, a), ~Works(reqs[r], a)
      PROVE  Cardinality(Working(a)') = Cardinality(Working(a)) + 1
  <2>1. Working(a)' = Working(a) \cup {r} /\ r \notin Working(a)
    BY <1>3, <1>4, <1>7
  <2>2. Cardinality(Working(a) \cup {r}) = Cardinality(Working(a)) + 1
    BY <1>1, <2>1, FS_AddElement
  <2>3. QED BY <2>1, <2>2
<1>8. ASSUME ~Works(n, a), Works(reqs[r], a)
      PROVE  Cardinality(Working(a)') = Cardinality(Working(a)) - 1
  <2>1. Working(a)' = Working(a) \ {r} /\ r \in Working(a)
    BY <1>3, <1>4, <1>8
  <2>2. Cardinality(Working(a) \ {r}) = Cardinality(Working(a)) - 1
    BY <1>1, <2>1, FS_RemoveElement
  <2>3. QED BY <2>1, <2>2
<1>9. QED BY <1>1, <1>5, <1>6, <1>7, <1>8

\* Neither a request's work nor a counter changes at these steps.
LEMMA QuietStep ==
  ASSUME StateInv, NEW r \in Requests, NEW n, Becomes(r, n),
         \A a : Works(n, a) <=> Works(reqs[r], a), leaked' = leaked,
         NEW a
  PROVE  Count(a)' = Count(a)
<1>1. Cardinality(Working(a)') = Cardinality(Working(a))
  BY WorkingBecomes
<1>2. QED BY <1>1 DEF Count

\* Where these steps leave a request.
LEMMA StepPoint ==
  ASSUME StateInv, NEW r \in Requests,
         Accept(r) \/ Prepare(r) \/ Select(r) \/ Succeed(r) \/ Retry(r)
  PROVE  \/ reqs'[r].pc \in {"prepare", "select", "done"}
         \/ reqs'[r].pc = "record" /\ Select(r)
<1> DEFINE q == reqs[r]
<1>1. /\ q \in Request
      /\ \A n : Becomes(r, n) => reqs'[r] = n
  BY DEF StateInv, TypeOK, Becomes
<1>2. GivenUp(q).pc = "done"
  BY <1>1, GivenUpLocal
<1>3. CASE Accept(r)
  <2>1. \/ reqs'[r] = GivenUp(q)
        \/ reqs'[r] = [q EXCEPT !.pc = "prepare"]
    BY <1>1, <1>3 DEF Accept
  <2>2. QED BY <1>1, <1>2, <2>1 DEF Request
<1>4. CASE Prepare(r)
  <2>1. ASSUME NEW alone, NEW can, NEW replay, NEW broken
        PROVE  [q EXCEPT !.pc = "select", !.alone = alone, !.canRetry = can,
                         !.replay = replay, !.spent = broken].pc = "select"
    BY <1>1 DEF Request
  <2> DEFINE several == MaxRetries > 1 /\ HealthyCount(pool) > 1
             kept(broken) == BodyOf[r] = "none" \/ (BodyOf[r] = "small" /\ ~broken)
             alone == HealthyCount(pool) <= 1
             can(broken) == several => kept(broken)
             replay(broken) == several /\ kept(broken) /\ BodyOf[r] # "none"
  <2>2. PICK broken \in BOOLEAN :
          Becomes(r, [q EXCEPT !.pc = "select", !.alone = alone,
                        !.canRetry = can(broken), !.replay = replay(broken),
                        !.spent = broken])
    BY <1>4 DEF Prepare
  <2> DEFINE n == [q EXCEPT !.pc = "select", !.alone = alone,
                     !.canRetry = can(broken), !.replay = replay(broken),
                     !.spent = broken]
  <2>3. n.pc = "select"
    BY <2>1
  <2>4. Becomes(r, n)
    BY <2>2
  <2> HIDE DEF n
  <2>5. QED BY <1>1, <2>3, <2>4
<1>5. CASE Select(r)
  <2>1. \/ reqs'[r] = GivenUp(q)
        \/ \E a \in Addresses : reqs'[r] = Picks(r, a)
    BY <1>1, <1>5 DEF Select
  <2>2. \A a : Picks(r, a).pc = "record"
    BY <1>1 DEF Picks, Request
  <2>3. QED BY <1>2, <1>5, <2>1, <2>2
<1>6. CASE Succeed(r)
  <2>1. reqs'[r] = Returned(q.resp) /\ q.resp \in Responses
    BY <1>1, <1>6 DEF Succeed, Request
  <2>2. QED BY <2>1, ReturnedLocal
<1>7. CASE Retry(r)
  <2>1. \/ reqs'[r] = GivenUp(q)
        \/ reqs'[r] = [q EXCEPT !.pc = "select"]
    BY <1>1, <1>7 DEF Retry
  <2>2. QED BY <1>1, <1>2, <2>1 DEF Request
<1>8. QED BY <1>3, <1>4, <1>5, <1>6, <1>7

\* What each step of a request does to the number that its backend works on.
LEMMA StepCount ==
  ASSUME StateInv, NEW r \in Requests, RequestStep(r), NEW a \in Addresses
  PROVE  /\ Count(a) \in Nat
         /\ Record(r) => Count(a)' = IF a = reqs[r].backend THEN Count(a) + 1 ELSE Count(a)
         /\ Complete(r) => Count(a)' = IF a = reqs[r].backend THEN Count(a) - 1 ELSE Count(a)
         /\ ~Record(r) /\ ~Complete(r) => Count(a)' = Count(a)
<1> DEFINE q == reqs[r]
<1>1. /\ q \in Request /\ LocalInv(BodyOf[r], q)
      /\ leaked \in [Addresses -> Nat]
  BY DEF StateInv, TypeOK, LocalsInv
<1>2. Count(a) \in Nat
  <2>1. IsFiniteSet(Working(a))
    BY FailoverAssumption, FS_Subset DEF Working
  <2>2. Cardinality(Working(a)) \in Nat
    BY <2>1, FS_CardinalityType
  <2>3. QED BY <1>1, <2>2 DEF Count
<1>3. Cardinality(Working(a)) \in Nat /\ leaked[a] \in Nat
  BY <1>1, FailoverAssumption, FS_Subset, FS_CardinalityType DEF Working
<1>4. CASE Record(r)
  <2> DEFINE n == [q EXCEPT !.pc = "serve", !.attempt = @ + 1]
  <2>1. Becomes(r, n) /\ q.pc = "record" /\ leaked' = leaked
    BY <1>4 DEF Record, At
  <2>2. n.pc = "serve" /\ n.backend = q.backend
    BY <1>1 DEF Request
  <2> HIDE DEF n
  <2>3. /\ Works(n, a) <=> a = q.backend
        /\ ~Works(q, a)
    BY <2>1, <2>2 DEF Works
  <2>4. Cardinality(Working(a)') =
          IF a = q.backend THEN Cardinality(Working(a)) + 1 ELSE Cardinality(Working(a))
    <3>1. CASE a = q.backend
      BY <2>1, <2>3, <3>1, WorkingBecomes
    <3>2. CASE a # q.backend
      BY <2>1, <2>3, <3>2, WorkingBecomes
    <3>3. QED BY <3>1, <3>2
  <2>5. ~Complete(r)
    BY <2>1 DEF Complete, At
  <2>6. QED BY <1>2, <1>3, <1>4, <2>1, <2>4, <2>5 DEF Count
<1>5. CASE Complete(r)
  <2> DEFINE n == [q EXCEPT !.pc = "account"]
  <2>1. Becomes(r, n) /\ q.pc = "complete" /\ leaked' = leaked
    BY <1>5 DEF Complete, At
  <2>2. n.pc = "account"
    BY <1>1 DEF Request
  <2> HIDE DEF n
  <2>3. /\ ~Works(n, a)
        /\ Works(q, a) <=> a = q.backend
    BY <2>1, <2>2 DEF Works
  <2>4. Cardinality(Working(a)') =
          IF a = q.backend THEN Cardinality(Working(a)) - 1 ELSE Cardinality(Working(a))
    <3>1. CASE a = q.backend
      BY <2>1, <2>3, <3>1, WorkingBecomes
    <3>2. CASE a # q.backend
      BY <2>1, <2>3, <3>2, WorkingBecomes
    <3>3. QED BY <3>1, <3>2
  <2>5. ~Record(r)
    BY <2>1 DEF Record, At
  <2>6. QED BY <1>2, <1>3, <1>5, <2>1, <2>4, <2>5 DEF Count
<1>6. CASE Unwound(r)
  <2> DEFINE n == Returned("partial")
  <2>1. /\ Becomes(r, n) /\ q.pc = "serve"
        /\ leaked' = [leaked EXCEPT ![q.backend] = @ + 1]
    BY <1>6 DEF Unwound, At
  <2>2. n.pc = "done"
    BY ReturnedLocal DEF Responses
  <2> HIDE DEF n
  <2>3. /\ ~Works(n, a)
        /\ Works(q, a) <=> a = q.backend
    BY <2>1, <2>2 DEF Works
  <2>4. Cardinality(Working(a)') =
          IF a = q.backend THEN Cardinality(Working(a)) - 1 ELSE Cardinality(Working(a))
    <3>1. CASE a = q.backend
      BY <2>1, <2>3, <3>1, WorkingBecomes
    <3>2. CASE a # q.backend
      BY <2>1, <2>3, <3>2, WorkingBecomes
    <3>3. QED BY <3>1, <3>2
  <2>5. leaked'[a] = IF a = q.backend THEN leaked[a] + 1 ELSE leaked[a]
    BY <1>1, <2>1
  <2>6. Count(a)' = Cardinality(Working(a)') + leaked'[a]
    BY DEF Count
  <2>7. Count(a)' = Count(a)
    BY <1>3, <2>4, <2>5, <2>6 DEF Count
  <2>8. ~Record(r) /\ ~Complete(r)
    BY <2>1 DEF Record, Complete, At
  <2>9. QED BY <1>2, <2>7, <2>8
<1>7. CASE ~Record(r) /\ ~Complete(r) /\ ~Unwound(r)
  <2>1. leaked' = leaked
    BY <1>7 DEF RequestStep, Accept, Prepare, Select, Answered, Failed,
       FailedCommitted, Succeed, Retry
  <2>2. PICK n : LocalInv(BodyOf[r], n) /\ Becomes(r, n)
    BY RequestStepLocal
  <2>3. n = reqs'[r]
    BY <2>2 DEF StateInv, TypeOK, Becomes
  <2>4. CASE Answered(r) \/ Failed(r) \/ FailedCommitted(r)
    <3>1. /\ q.pc = "serve"
          /\ \E resp, failed : Becomes(r, Exchanged(r, resp, failed))
      BY <2>4 DEF Answered, Failed, FailedCommitted, At
    <3>2. PICK resp, failed : n = Exchanged(r, resp, failed)
      BY <2>3, <3>1 DEF StateInv, TypeOK, Becomes
    <3>3. n.pc = "complete" /\ n.backend = q.backend
      BY <1>1, <3>2 DEF Exchanged, Request
    <3>4. \A b : Works(n, b) <=> Works(q, b)
      BY <3>1, <3>3 DEF Works
    <3>5. QED BY <1>2, <1>7, <2>1, <2>2, <3>4, QuietStep
  <2>5. CASE Accept(r) \/ Prepare(r) \/ Select(r) \/ Succeed(r) \/ Retry(r)
    <3>1. q.pc \in {"accept", "prepare", "select", "account"}
      BY <2>5 DEF Accept, Prepare, Select, Succeed, Retry, At
    <3>2. n.pc \in {"prepare", "select", "record", "done"}
      BY <2>3, <2>5, StepPoint
    <3>3. \A b : Works(n, b) <=> Works(q, b)
      BY <3>1, <3>2 DEF Works
    <3>4. QED BY <1>2, <1>7, <2>1, <2>2, <3>3, QuietStep
  <2>6. QED BY <1>7, <2>4, <2>5 DEF RequestStep
<1>8. QED BY <1>4, <1>5, <1>6, <1>7


\* A backend is given to a request from the pool, and kept until it is counted
\* off.
LEMMA StepBackend ==
  ASSUME StateInv, KnownInv, NEW r \in Requests, RequestStep(r),
         reqs'[r].pc \in {"record", "serve", "complete"}
  PROVE  reqs'[r].backend \in Known
<1> DEFINE q == reqs[r]
<1>1. /\ q \in Request
      /\ \A n : Becomes(r, n) => reqs'[r] = n
  BY DEF StateInv, TypeOK, LocalsInv, LocalInv, Becomes
<1>2. q.pc \in {"record", "serve", "complete"} => q.backend \in Known
  BY DEF KnownInv
<1>3. CASE Select(r)
  <2>1. \/ reqs'[r] = GivenUp(q)
        \/ \E a \in Addresses :
             a \in AddressesOf(pool) /\ reqs'[r] = Picks(r, a)
    <3>1. ASSUME NEW a, Chosen(r, a) PROVE a \in AddressesOf(pool)
      BY <3>1 DEF Chosen, Selectable, HealthyAt, AddressesOf
    <3>2. QED BY <1>1, <1>3, <3>1 DEF Select
  <2>2. GivenUp(q).pc = "done"
    BY <1>1, GivenUpLocal
  <2>3. \A a : Picks(r, a).backend = a
    BY <1>1 DEF Picks, Request
  <2>4. QED BY <2>1, <2>2, <2>3 DEF Known
<1>4. CASE Record(r)
  <2>1. q.pc = "record" /\ reqs'[r] = [q EXCEPT !.pc = "serve", !.attempt = @ + 1]
    BY <1>1, <1>4 DEF Record, At
  <2>2. reqs'[r].backend = q.backend
    BY <1>1, <2>1 DEF Request
  <2>3. QED BY <1>2, <2>1, <2>2
<1>5. CASE Answered(r) \/ Failed(r) \/ FailedCommitted(r)
  <2>1. /\ q.pc = "serve"
        /\ \E resp, failed : Becomes(r, Exchanged(r, resp, failed))
    BY <1>5 DEF Answered, Failed, FailedCommitted, At
  <2>2. PICK resp, failed : reqs'[r] = Exchanged(r, resp, failed)
    BY <1>1, <2>1
  <2>3. reqs'[r].backend = q.backend
    BY <1>1, <2>2 DEF Exchanged, Request
  <2>4. QED BY <1>2, <2>1, <2>3
<1>6. CASE Unwound(r)
  <2>1. reqs'[r] = Returned("partial")
    BY <1>1, <1>6 DEF Unwound
  <2>2. QED BY <2>1, ReturnedLocal DEF Responses
<1>7. CASE Complete(r)
  <2>1. reqs'[r] = [q EXCEPT !.pc = "account"]
    BY <1>1, <1>7 DEF Complete
  <2>2. QED BY <1>1, <2>1 DEF Request
<1>8. CASE Accept(r) \/ Prepare(r) \/ Succeed(r) \/ Retry(r)
  <2>1. reqs'[r].pc \in {"prepare", "select", "done"}
    <3>1. ~Select(r)
      BY <1>8 DEF Accept, Prepare, Select, Succeed, Retry, At
    <3>2. QED BY <1>8, <3>1, StepPoint
  <2>2. QED BY <2>1
<1>9. QED BY <1>3, <1>4, <1>5, <1>6, <1>7, <1>8 DEF RequestStep

\* The counters of the pool after a step of a request.
LEMMA StepActive ==
  ASSUME StateInv, TargetsInv, NEW r \in Requests, RequestStep(r),
         NEW i \in DOMAIN pool
  PROVE  /\ pool[i].active \in Int
         /\ Record(r) => pool'[i].active =
              IF pool[i].addr = reqs[r].backend THEN pool[i].active + 1
                                                ELSE pool[i].active
         /\ Complete(r) => pool'[i].active =
              IF pool[i].addr = reqs[r].backend THEN pool[i].active - 1
                                                ELSE pool[i].active
         /\ ~Record(r) /\ ~Complete(r) => pool'[i].active = pool[i].active
<1> DEFINE a == reqs[r].backend
<1>1. pool \in Pool /\ pool[i] \in Target /\ DOMAIN pool = 1 .. Len(pool)
  BY PoolElements DEF StateInv, TypeOK
<1>2. pool[i].active \in Int /\ pool[i].fails \in Nat
  BY <1>1 DEF Target
<1>3. FirstAt(pool, i, a) <=> pool[i].addr = a
  BY <1>1 DEF TargetsInv, DistinctAddresses, FirstAt
<1>4. CASE Record(r)
  <2>1. pool'[i] = IF FirstAt(pool, i, a) THEN [pool[i] EXCEPT !.active = @ + 1]
                                          ELSE pool[i]
    BY <1>1, <1>4, RecordRequestInPlace DEF Record
  <2>2. ~Complete(r)
    BY <1>4 DEF Record, Complete, At
  <2>3. ASSUME pool[i].addr = a PROVE pool'[i].active = pool[i].active + 1
    <3>1. pool'[i] = [pool[i] EXCEPT !.active = @ + 1]
      BY <1>3, <2>1, <2>3
    <3>2. QED BY <1>1, <3>1 DEF Target
  <2>4. ASSUME pool[i].addr # a PROVE pool'[i].active = pool[i].active
    BY <1>3, <2>1, <2>4
  <2>5. QED BY <1>2, <1>4, <2>2, <2>3, <2>4
<1>5. CASE Complete(r)
  <2>1. pool'[i] = IF FirstAt(pool, i, a) THEN [pool[i] EXCEPT !.active = @ - 1]
                                          ELSE pool[i]
    BY <1>1, <1>5, CompleteRequestInPlace DEF Complete
  <2>2. ~Record(r)
    BY <1>5 DEF Record, Complete, At
  <2>3. ASSUME pool[i].addr = a PROVE pool'[i].active = pool[i].active - 1
    <3>1. pool'[i] = [pool[i] EXCEPT !.active = @ - 1]
      BY <1>3, <2>1, <2>3
    <3>2. QED BY <1>1, <3>1 DEF Target
  <2>4. ASSUME pool[i].addr # a PROVE pool'[i].active = pool[i].active
    BY <1>3, <2>1, <2>4
  <2>5. QED BY <1>2, <1>5, <2>2, <2>3, <2>4
<1>6. CASE ~Record(r) /\ ~Complete(r)
  <2> DEFINE n == pool[i].fails + 1
             h == IF Ejects(pool, i) THEN FALSE ELSE pool[i].healthy
  <2>1. \/ pool'[i] = pool[i]
        \/ pool'[i] = [pool[i] EXCEPT !.fails = 0]
        \/ pool'[i] = [pool[i] EXCEPT !.fails = n, !.healthy = h]
    <3>1. \/ pool' = pool
          \/ pool' = RecordSuccess(pool, a)
          \/ pool' = RecordFailure(pool, a)
      BY <1>6, RequestStepPool
    <3>2. RecordSuccess(pool, a)[i] =
            IF FirstAt(pool, i, a) THEN [pool[i] EXCEPT !.fails = 0] ELSE pool[i]
      BY <1>1, RecordSuccessInPlace
    <3>3. RecordFailure(pool, a)[i] =
            IF FirstAt(pool, i, a) THEN [pool[i] EXCEPT !.fails = n, !.healthy = h]
                                   ELSE pool[i]
      BY <1>1, RecordFailureInPlace
    <3> HIDE DEF n, h
    <3>4. QED BY <3>1, <3>2, <3>3
  <2> HIDE DEF n, h
  <2>2. pool'[i].active = pool[i].active
    BY <1>1, <2>1 DEF Target
  <2>3. QED BY <1>2, <1>6, <2>2
<1>7. QED BY <1>4, <1>5, <1>6

LEMMA RequestStepAccounts ==
  ASSUME PoolInv, AccountInv, NEW r \in Requests, RequestStep(r)
  PROVE  AccountInv'
<1>1. StateInv /\ TargetsInv /\ KnownInv /\ ActiveAccounted
  BY DEF PoolInv, AccountInv
<1>2. /\ DOMAIN pool' = DOMAIN pool
      /\ \A i \in DOMAIN pool : pool'[i].addr = pool[i].addr
      /\ replaced' = replaced
  <2>1. replaced' = replaced
    BY DEF RequestStep, Accept, Prepare, Select, Record, Answered, Failed,
       FailedCommitted, Unwound, Complete, Succeed, Retry, others
  <2>2. QED BY <1>1, <2>1, RequestStepTargets
<1>3. Known' = Known
  BY <1>2 DEF Known, AddressesOf
<1>4. ActiveAccounted'
  <2> SUFFICES ASSUME NEW i \in DOMAIN pool, NEW a, a = pool[i].addr, a \notin replaced
               PROVE  pool'[i].active = Count(a)'
    BY <1>2 DEF ActiveAccounted, Count
  <2>1. a \in Addresses
    BY <1>1, PoolElements DEF StateInv, TypeOK, Target
  <2>2. pool[i].active = Count(a)
    BY <1>1 DEF ActiveAccounted, Count
  <2>3. CASE Record(r)
    BY <1>1, <2>1, <2>2, <2>3, StepCount, StepActive
  <2>4. CASE Complete(r)
    BY <1>1, <2>1, <2>2, <2>4, StepCount, StepActive
  <2>5. CASE ~Record(r) /\ ~Complete(r)
    BY <1>1, <2>1, <2>2, <2>5, StepCount, StepActive
  <2>6. QED BY <2>3, <2>4, <2>5
<1>5. KnownInv'
  <2>1. ASSUME NEW s \in Requests, reqs'[s].pc \in {"record", "serve", "complete"}
        PROVE  reqs'[s].backend \in Known
    <3>1. CASE reqs'[s] = reqs[s]
      BY <1>1, <2>1, <3>1 DEF KnownInv
    <3>2. CASE s = r
      BY <1>1, <2>1, <3>2, StepBackend DEF KnownInv
    <3>3. reqs'[s] = reqs[s] \/ s = r
      <4>1. PICK n : Becomes(r, n)
        BY <1>1, RequestStepLocal
      <4>2. QED BY <1>1, <4>1 DEF StateInv, TypeOK, Becomes
    <3>4. QED BY <3>1, <3>2, <3>3
  <2>2. ASSUME NEW a \in Addresses, leaked'[a] # 0
        PROVE  a \in Known
    <3>1. CASE leaked' = leaked
      BY <1>1, <2>2, <3>1 DEF KnownInv
    <3>2. CASE Unwound(r)
      <4>1. reqs[r].backend \in Known
        BY <1>1, <3>2 DEF Unwound, At, KnownInv
      <4>2. a # reqs[r].backend => leaked'[a] = leaked[a]
        BY <1>1, <3>2 DEF Unwound, StateInv, TypeOK
      <4>3. QED BY <1>1, <2>2, <4>1, <4>2 DEF KnownInv
    <3>3. QED
      BY <3>1, <3>2 DEF RequestStep, Accept, Prepare, Select, Record, Answered,
         Failed, FailedCommitted, Complete, Succeed, Retry
  <2>3. QED BY <1>3, <2>1, <2>2 DEF KnownInv
<1>6. QED BY <1>4, <1>5 DEF AccountInv


\* Membership and marks: what is kept keeps its counter, what is new starts at
\* zero, and what goes is remembered in replaced.
LEMMA DisturbanceAccounts ==
  ASSUME PoolInv, AccountInv, Disturbance
  PROVE  AccountInv'
<1>1. StateInv /\ TargetsInv /\ KnownInv /\ ActiveAccounted /\ pool \in Pool
  BY DEF PoolInv, AccountInv, StateInv, TypeOK
<1>2. reqs' = reqs /\ leaked' = leaked
  BY <1>1, DisturbanceInv
<1>3. ASSUME NEW a PROVE Count(a)' = Count(a)
  BY <1>2 DEF Count, Working
<1>4. ASSUME Known \subseteq Known' PROVE KnownInv'
  BY <1>1, <1>2, <1>4 DEF KnownInv
<1>5. ASSUME NEW a \in Addresses, a \notin Known PROVE Count(a) = 0
  <2>1. leaked[a] = 0
    BY <1>1, <1>5 DEF KnownInv
  <2>2. Working(a) = {}
    BY <1>1, <1>5 DEF KnownInv, Working
  <2>3. Cardinality(Working(a)) = 0
    BY <2>2, FS_EmptySet
  <2>4. QED BY <2>1, <2>3 DEF Count
<1>6. ASSUME NEW a \in Addresses, NEW h \in BOOLEAN, ProbeResult(a, h)
      PROVE  AccountInv'
  <2>1. pool' = Mark(pool, a, h) /\ replaced' = replaced
    BY <1>6 DEF ProbeResult
  <2>2. /\ DOMAIN pool' = DOMAIN pool
        /\ \A i \in DOMAIN pool : /\ pool'[i].addr = pool[i].addr
                                  /\ pool'[i].active = pool[i].active
    BY <1>1, <2>1, MarkProperties, MarkActive
  <2>3. Known' = Known
    BY <2>1, <2>2 DEF Known, AddressesOf
  <2>4. ActiveAccounted'
    <3> SUFFICES ASSUME NEW i \in DOMAIN pool, NEW b, b = pool[i].addr, b \notin replaced
                 PROVE  pool'[i].active = Count(b)'
      BY <2>1, <2>2 DEF ActiveAccounted, Count
    <3>1. QED BY <1>1, <1>3, <2>2 DEF ActiveAccounted, Count
  <2>5. QED BY <1>4, <2>3, <2>4 DEF AccountInv
<1>7. ASSUME NEW a \in Addresses, NEW h \in BOOLEAN, ContainerUp(a, h)
      PROVE  AccountInv'
  <2> DEFINE t == NewTarget(a, a, WeightOf[a], h)
  <2>1. /\ pool' = PoolAdd(pool, t) /\ replaced' = replaced
        /\ t \in Target /\ t.addr = a /\ t.active = 0
    BY <1>7, NewTargetType DEF ContainerUp
  <2> HIDE DEF t
  <2>2. AddressesOf(pool') = AddressesOf(pool) \cup {a}
    BY <1>1, <2>1, AddKeeps DEF TargetsInv
  <2>3. Known \subseteq Known'
    BY <2>1, <2>2 DEF Known
  <2>4. ActiveAccounted'
    <3> SUFFICES ASSUME NEW i \in DOMAIN pool', NEW b, b = pool'[i].addr, b \notin replaced
                 PROVE  pool'[i].active = Count(b)'
      BY <2>1 DEF ActiveAccounted, Count
    <3>1. \/ \E m \in DOMAIN pool : /\ pool'[i].addr = pool[m].addr
                                    /\ pool'[i].active = pool[m].active
          \/ a \notin AddressesOf(pool) /\ pool'[i] = t
      BY <1>1, <2>1, PoolAddActive
    <3>2. CASE a \notin AddressesOf(pool) /\ pool'[i] = t
      BY <1>3, <1>5, <2>1, <3>2 DEF Known
    <3>3. ASSUME NEW m \in DOMAIN pool,
                 pool'[i].addr = pool[m].addr, pool'[i].active = pool[m].active
          PROVE  pool'[i].active = Count(b)'
      BY <1>1, <1>3, <3>3 DEF ActiveAccounted, Count
    <3>4. QED BY <3>1, <3>2, <3>3
  <2>5. QED BY <1>4, <2>3, <2>4 DEF AccountInv
<1>8. ASSUME NEW a \in Addresses, ContainerDown(a)
      PROVE  AccountInv'
  <2>1. pool' = PoolRemove(pool, a) /\ replaced' = replaced \cup {a}
    BY <1>8 DEF ContainerDown
  <2>2. AddressesOf(pool) \subseteq AddressesOf(pool') \cup {a}
    <3> SUFFICES ASSUME NEW m \in DOMAIN pool, pool[m].addr # a
                 PROVE  pool[m].addr \in AddressesOf(pool')
      BY DEF AddressesOf
    <3>1. pool[m].cid # a
      BY <1>1 DEF TargetsInv
    <3>2. QED BY <1>1, <2>1, <3>1, PoolRemoveKeeps DEF AddressesOf
  <2>3. Known \subseteq Known'
    BY <2>1, <2>2 DEF Known
  <2>4. ActiveAccounted'
    <3> SUFFICES ASSUME NEW i \in DOMAIN pool', NEW b, b = pool'[i].addr, b \notin replaced'
                 PROVE  pool'[i].active = Count(b)'
      BY DEF ActiveAccounted, Count
    <3>1. PICK m \in DOMAIN pool : pool'[i] = pool[m]
      BY <1>1, <2>1, PoolRemoveSubset
    <3>2. QED BY <1>1, <1>3, <2>1, <3>1 DEF ActiveAccounted, Count
  <2>5. QED BY <1>4, <2>3, <2>4 DEF AccountInv
<1>9. ASSUME NEW a \in Addresses, ContainerFound(a)
      PROVE  AccountInv'
  <2>1. pool' = pool /\ replaced' = replaced
    BY <1>9 DEF ContainerFound
  <2>2. Known' = Known
    BY <2>1 DEF Known, AddressesOf
  <2>3. ActiveAccounted'
    <3> SUFFICES ASSUME NEW i \in DOMAIN pool, NEW b, b = pool[i].addr, b \notin replaced
                 PROVE  pool[i].active = Count(b)'
      BY <2>1 DEF ActiveAccounted, Count
    <3>1. QED BY <1>1, <1>3 DEF ActiveAccounted, Count
  <2>4. QED BY <1>4, <2>2, <2>3 DEF AccountInv
<1>10. QED BY <1>6, <1>7, <1>8, <1>9 DEF Disturbance

\* A backend's connection count is the number of requests it is working on and
\* of those whose handler was unwound; unless it was removed meanwhile, when
\* RecordRequest and CompleteRequest may have met different targets
\* (BackendTarget.activeConns).
THEOREM ConnectionsAccounted == Spec => []ActiveAccounted
<1>1. Init => AccountInv
  <2> SUFFICES ASSUME Init PROVE AccountInv
    OBVIOUS
  <2>1. \A r \in Requests : reqs[r].pc = "accept"
    BY DEF Init, Arriving
  <2>2. \A a : Working(a) = {}
    BY <2>1 DEF Working
  <2>3. \A a : Cardinality(Working(a)) = 0
    BY <2>2, FS_EmptySet
  <2>4. \A a \in Addresses : leaked[a] = 0
    BY DEF Init
  <2>5. KnownInv
    BY <2>1, <2>4 DEF KnownInv
  <2>6. ASSUME NEW i \in DOMAIN pool
        PROVE  pool[i].active = 0 /\ pool[i].addr \in Addresses
    BY InitPool, PoolElements DEF Target
  <2>7. ActiveAccounted
    BY <2>3, <2>4, <2>6 DEF ActiveAccounted
  <2>8. QED BY <2>5, <2>7 DEF AccountInv
<1>2. PoolInv /\ AccountInv /\ [Next]_vars => AccountInv'
  <2> SUFFICES ASSUME PoolInv, AccountInv, [Next]_vars PROVE AccountInv'
    OBVIOUS
  <2>1. CASE UNCHANGED vars
    BY <2>1 DEF vars, AccountInv, KnownInv, Known, ActiveAccounted, Working
  <2>2. QED
    BY <2>1, RequestStepAccounts, DisturbanceAccounts DEF Next
<1>3. AccountInv => ActiveAccounted
  BY DEF AccountInv
<1>4. QED BY <1>1, <1>2, <1>3, PoolInvHolds, PTL DEF Spec


=============================================================================
