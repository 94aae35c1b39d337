---------------------------- MODULE BackendPool ----------------------------
(***************************************************************************)
(* The operations of a backend pool, internal/router/backend.go, as        *)
(* operators on the value of one pool: the slice of its targets in the     *)
(* order they were added.  Membership, health marks and ejection change    *)
(* under the pool's write lock, and each counter by one atomic operation,  *)
(* so each operator here is one step of a module that keeps pools in a     *)
(* variable.  Select runs under the read lock: only its least-connections  *)
(* scan reads counters that may move meanwhile, and is taken as one step.  *)
(***************************************************************************)
EXTENDS Integers, Sequences, FiniteSets, FiniteSetsExt

CONSTANTS
  Containers,   \* container identifiers
  Addresses     \* backend addresses, "ip:port"

Strategies ==
  {"RoundRobin", "Random", "IPHash", "LeastConn", "WeightedRoundRobin"}

\* A backend is ejected at this many consecutive proxy failures.
PassiveEjectThreshold == 3

\* The fields of BackendTarget that the code reads back: the request and
\* failure totals and LastCheck are statistics only.
Target == [addr: Addresses, cid: Containers, weight: Int,
           healthy: BOOLEAN, fails: Nat, active: Int]

Pool == Seq(Target)

NewTarget(a, c, w, h) ==
  [addr |-> a, cid |-> c, weight |-> w, healthy |-> h, fails |-> 0, active |-> 0]

-----------------------------------------------------------------------------
(* Lookup.  Every loop of the pool stops at the first target that matches. *)

AddressesOf(p) == {p[i].addr : i \in DOMAIN p}

FirstAt(p, i, a) ==
  /\ p[i].addr = a
  /\ \A j \in 1 .. (i - 1) : p[j].addr # a

HealthyAt(p) == {i \in DOMAIN p : p[i].healthy}

HealthyCount(p) == Cardinality(HealthyAt(p))

\* No two targets of a pool have one address.
DistinctAddresses(p) ==
  \A i, j \in DOMAIN p : p[i].addr = p[j].addr => i = j

-----------------------------------------------------------------------------
(* Membership. *)

\* Mutant: a slice that is only ever appended to.
PoolAddAppends(p, t) == Append(p, t)

\* An address already pooled keeps its counters; the new container owns it.
PoolAdd(p, t) ==
  IF t.addr \in AddressesOf(p)
  THEN [i \in DOMAIN p |->
          IF FirstAt(p, i, t.addr)
          THEN [p[i] EXCEPT !.cid = t.cid, !.weight = t.weight,
                            !.healthy = t.healthy]
          ELSE p[i]]
  ELSE Append(p, t)

\* Mutant: the slice is cut one place too far, Targets[:i+1] and Targets[i+2:].
PoolRemoveNext(p, c) ==
  IF \E i \in DOMAIN p : p[i].cid = c
  THEN [i \in 1 .. (Len(p) - 1) |->
          IF \A j \in 1 .. (i - 1) : p[j].cid # c THEN p[i] ELSE p[i + 1]]
  ELSE p

\* Only the first target of the container goes: those before it stay where
\* they are and those after it move down one place.
PoolRemove(p, c) ==
  IF \E i \in DOMAIN p : p[i].cid = c
  THEN [i \in 1 .. (Len(p) - 1) |->
          IF \A j \in 1 .. i : p[j].cid # c THEN p[i] ELSE p[i + 1]]
  ELSE p

-----------------------------------------------------------------------------
(* Health marks and passive ejection. *)

MarkHealthy(p, a) ==
  [i \in DOMAIN p |->
     IF FirstAt(p, i, a) THEN [p[i] EXCEPT !.healthy = TRUE, !.fails = 0]
                         ELSE p[i]]

MarkUnhealthy(p, a) ==
  [i \in DOMAIN p |->
     IF FirstAt(p, i, a) THEN [p[i] EXCEPT !.healthy = FALSE] ELSE p[i]]

Mark(p, a, healthy) == IF healthy THEN MarkHealthy(p, a) ELSE MarkUnhealthy(p, a)

RecordRequest(p, a) ==
  [i \in DOMAIN p |->
     IF FirstAt(p, i, a) THEN [p[i] EXCEPT !.active = @ + 1] ELSE p[i]]

\* Nothing stops the counter at zero.
CompleteRequest(p, a) ==
  [i \in DOMAIN p |->
     IF FirstAt(p, i, a) THEN [p[i] EXCEPT !.active = @ - 1] ELSE p[i]]

\* Mutant: a success makes up for one failure.
RecordSuccessDecrements(p, a) ==
  [i \in DOMAIN p |->
     IF FirstAt(p, i, a) THEN [p[i] EXCEPT !.fails = @ - 1] ELSE p[i]]

\* The failure counter is cleared; the target's health is left alone.
RecordSuccess(p, a) ==
  [i \in DOMAIN p |->
     IF FirstAt(p, i, a) THEN [p[i] EXCEPT !.fails = 0] ELSE p[i]]

\* Mutant: the last healthy backend may go too.
EjectsAny(p, i) ==
  /\ p[i].fails + 1 >= PassiveEjectThreshold
  /\ p[i].healthy

Ejects(p, i) ==
  /\ p[i].fails + 1 >= PassiveEjectThreshold
  /\ p[i].healthy
  /\ HealthyCount(p) > 1

RecordFailure(p, a) ==
  [i \in DOMAIN p |->
     IF FirstAt(p, i, a)
     THEN [p[i] EXCEPT !.fails = @ + 1,
                       !.healthy = IF Ejects(p, i) THEN FALSE ELSE @]
     ELSE p[i]]

-----------------------------------------------------------------------------
(* Selection.  Selectable is the set of positions Select may return: one    *)
(* when the strategy is deterministic, none when no target is healthy.     *)

\* Position of a healthy target in the slice Select filters, from 0.
Rank(p, i) == Cardinality({j \in HealthyAt(p) : j < i})

\* A weight of zero or less counts as one.
EffectiveWeight(t) == IF t.weight <= 0 THEN 1 ELSE t.weight

TotalWeight(p, S) == MapThenSumSet(LAMBDA i : EffectiveWeight(p[i]), S)

\* Weight of the healthy targets before position i.
WeightBefore(p, i) == TotalWeight(p, {j \in HealthyAt(p) : j < i})

\* Whether the counter's value n selects position i in turn.
TurnOf(p, i, n) == Rank(p, i) = n % HealthyCount(p)

WeightedTurnOf(p, i, n) ==
  LET pos == n % TotalWeight(p, HealthyAt(p))
  IN  /\ WeightBefore(p, i) <= pos
      /\ pos < WeightBefore(p, i) + EffectiveWeight(p[i])

\* The first of the targets with the fewest active connections.
LeastLoaded(p, i) ==
  \A j \in HealthyAt(p) :
    p[i].active < p[j].active \/ (p[i].active = p[j].active /\ i <= j)

\* rr is the value the shared counter had before this call, hash the hash of
\* the client's address.
Selectable(p, strategy, rr, hash) ==
  {i \in HealthyAt(p) :
     CASE strategy = "RoundRobin"         -> TurnOf(p, i, rr)
       [] strategy = "Random"             -> TRUE
       [] strategy = "IPHash"             -> TurnOf(p, i, hash)
       [] strategy = "LeastConn"          -> LeastLoaded(p, i)
       [] strategy = "WeightedRoundRobin" -> WeightedTurnOf(p, i, rr)}

UsesCounter(strategy) == strategy \in {"RoundRobin", "WeightedRoundRobin"}

=============================================================================
