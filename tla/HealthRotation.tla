--------------------------- MODULE HealthRotation ---------------------------
(***************************************************************************)
(* Who decides whether a backend is in rotation.  The mark in the pool,    *)
(* BackendTarget.Healthy, has several writers:                             *)
(*                                                                         *)
(*   - the health checker (internal/health/checker.go), which keeps a      *)
(*     state machine of its own for each address and calls the route table *)
(*     back, outside its lock, when a state CHANGES;                       *)
(*   - the discovery engine, which writes Docker's view of the container   *)
(*     whenever it adds the route again;                                   *)
(*   - failed requests, which eject a backend (RecordFailure).             *)
(*                                                                         *)
(* A probe runs in a goroutine that holds a pointer to its HealthCheck: it *)
(* outlives the registration it was started for, and may report of a       *)
(* container that is gone to the one that took over its address.           *)
(***************************************************************************)
EXTENDS BackendPool, SequencesExt

CONSTANTS
  Checked,     \* the addresses followed here; the others are just backends
  Tunings,     \* thresholds of the containers that come to an address, in turn
  DockerSays,  \* what Docker may say of the health of a container that runs
  MaxProbes,   \* bound: goroutines of one address at a time
  MaxChecks,   \* bound: HealthCheck objects that something points at
  MaxCount,    \* bound: ConsecFail and ConsecPass count no further than this
  MaxFails     \* bound: consecutive request failures of one backend

CheckId == 1 .. MaxChecks

\* checkOne replaces a threshold that makes no sense.
ThresholdOf(n) == IF Tunings[n].threshold <= 0 THEN 3 ELSE Tunings[n].threshold

RecoveryOf(n) == Tunings[n].recovery

ASSUME RotationAssumption ==
  /\ Containers = Addresses
  /\ Checked \subseteq Addresses
  /\ IsFiniteSet(Addresses \ Checked)
  /\ Tunings \in Seq([threshold: Int, recovery: Int]) /\ Tunings # <<>>
  /\ DockerSays \subseteq BOOLEAN
  /\ MaxProbes \in Nat \ {0}
  /\ MaxChecks \in Nat \ {0}
  /\ MaxFails \in Nat
  /\ MaxCount \in Nat \ {0, 1}
  /\ \A n \in DOMAIN Tunings :
       ThresholdOf(n) <= MaxCount /\ RecoveryOf(n) <= MaxCount

None == 0

VARIABLES
  pool,      \* the backend pool of the route
  up,        \* whether the container at an address answers probes
  heap,      \* the HealthCheck objects
  checks,    \* Checker.checks: the object registered for an address, or None
  probes,    \* probes under way, oldest first: the object, the answer so far
  notes,     \* goroutines between unlock and callback, as they unlocked
  engine,    \* the sink operation that holds Engine.mu, and its address
  turn,      \* which of the Tunings the container at an address asks for
  drift,     \* history: who else has touched the mark since the checker did
  retuned    \* history: addresses whose check got other thresholds and no pass since

vars == <<pool, up, heap, checks, probes, notes, engine, turn, drift, retuned>>
checker == <<heap, checks, probes, notes>>

States == {"Unknown", "Healthy", "Degraded", "Unhealthy", "Recovering"}

Check == [state: States, fails: 0 .. MaxCount, passes: 0 .. MaxCount,
          tuning: DOMAIN Tunings]

Fresh(n) == [state |-> "Unknown", fails |-> 0, passes |-> 0, tuning |-> n]

\* Go collects an object that nothing points at; here it is made anew.
Garbage == Fresh(1)

\* "marked": another writer has changed the mark since the checker's last
\* notification.  "overtaken": two notifications changed places.
Drift == {"none", "marked", "overtaken"}

TypeOK ==
  /\ pool \in Pool
  /\ up \in [Checked -> BOOLEAN]
  /\ heap \in [CheckId -> Check]
  /\ checks \in [Checked -> CheckId \cup {None}]
  /\ probes \in [Checked -> Seq([check: CheckId, seen: BOOLEAN])]
  /\ notes \in [Checked -> Seq([check: CheckId, healthy: BOOLEAN])]
  /\ engine \in [op: {"idle"}] \cup [op: {"register", "sweep"}, addr: Checked]
  /\ turn \in [Checked -> DOMAIN Tunings]
  /\ drift \in [Checked -> Drift]
  /\ retuned \subseteq Checked
  /\ \A a \in Checked : Len(probes[a]) + Len(notes[a]) <= MaxProbes

Idle == [op |-> "idle"]

\* The backends that are not followed are in the pool from the start.
Init ==
  /\ \E s \in SetToSeqs(Addresses \ Checked) :
       pool = [i \in DOMAIN s |-> NewTarget(s[i], s[i], 1, TRUE)]
  /\ up \in [Checked -> BOOLEAN]
  /\ heap = [k \in CheckId |-> Garbage]
  /\ checks = [a \in Checked |-> None]
  /\ probes = [a \in Checked |-> <<>>]
  /\ notes = [a \in Checked |-> <<>>]
  /\ engine = Idle
  /\ drift = [a \in Checked |-> "none"]
  /\ turn = [a \in Checked |-> 1]
  /\ retuned = {}

InRotation(a) == \E i \in DOMAIN pool : pool[i].addr = a /\ pool[i].healthy

\* What the history says once something other than the checker has changed
\* pool into p: nothing is forgotten of an address that was overtaken.
Marked(p) ==
  [a \in Checked |->
     IF InRotation(a) # (\E i \in DOMAIN p : p[i].addr = a /\ p[i].healthy)
          /\ drift[a] = "none"
     THEN "marked" ELSE drift[a]]

-----------------------------------------------------------------------------
(* The state machine of a HealthCheck. *)

Counted(n) == IF n < MaxCount THEN n + 1 ELSE n

\* Mutant: a pass while recovering does not count.
PassedFromStart(k) ==
  [state  |-> CASE k.state = "Unknown" -> "Healthy"
                [] k.state = "Unhealthy" ->
                     IF RecoveryOf(k.tuning) <= 1
                     THEN "Healthy" ELSE "Recovering"
                [] k.state = "Degraded" /\ Counted(k.passes) >= 2 -> "Healthy"
                [] OTHER -> k.state,
   fails  |-> 0,
   passes |-> Counted(k.passes),
   tuning |-> k.tuning]

Passed(k) ==
  [state  |-> CASE k.state = "Unknown" -> "Healthy"
                [] k.state \in {"Unhealthy", "Recovering"} ->
                     IF RecoveryOf(k.tuning) <= 0 \/ Counted(k.passes) >= RecoveryOf(k.tuning)
                     THEN "Healthy" ELSE "Recovering"
                [] k.state = "Degraded" /\ Counted(k.passes) >= 2 -> "Healthy"
                [] OTHER -> k.state,
   fails  |-> 0,
   passes |-> Counted(k.passes),
   tuning |-> k.tuning]

\* What n failures in a row make of a state, that of a check that was recovering
\* included.
StateAfter(n, k) ==
  CASE n >= ThresholdOf(k.tuning) -> "Unhealthy"
    [] n < ThresholdOf(k.tuning) /\ n >= ThresholdOf(k.tuning) \div 2 -> "Degraded"
    [] OTHER -> k.state

\* Mutant: a failure does not end a run of passes.
FailedKeepsPasses(k) ==
  [state  |-> StateAfter(Counted(k.fails), k),
   fails  |-> Counted(k.fails),
   passes |-> k.passes,
   tuning |-> k.tuning]

Failed(k) ==
  [state  |-> StateAfter(Counted(k.fails), k),
   fails  |-> Counted(k.fails),
   passes |-> 0,
   tuning |-> k.tuning]

\* The callback of cmd/dockrouter/main.go: what a state means for the pool.
Serves(state) == state \in {"Healthy", "Degraded"}

-----------------------------------------------------------------------------
(* The checker. *)

\* Objects that something still points at.
InUse ==
  {k \in CheckId :
     \E a \in Checked :
       \/ k = checks[a]
       \/ \E i \in DOMAIN probes[a] : k = probes[a][i].check
       \/ \E i \in DOMAIN notes[a] : k = notes[a][i].check}

\* What nothing points at after a step is garbage, and looks like new.
Collected(h) ==
  LET used == InUse'
  IN  [k \in CheckId |-> IF k \in used THEN h[k] ELSE Garbage]

\* checkAll finds the check of an address due and starts checkOne.  Another
\* probe of it may be under way: an interval may be shorter than a timeout.
StartProbe(a) ==
  /\ checks[a] # None
  /\ Len(probes[a]) + Len(notes[a]) < MaxProbes
  /\ probes' = [probes EXCEPT ![a] = Append(@, [check |-> checks[a], seen |-> up[a]])]
  /\ UNCHANGED <<pool, up, heap, checks, notes, engine, turn, drift, retuned>>

\* Mutant: the checker reports only what it calls a recovery or an outage.
SettleExtremes(a, i) ==
  LET k == probes[a][i].check
  IN  /\ UNCHANGED <<pool, up, checks, engine, turn, drift>>
      /\ probes' = [probes EXCEPT ![a] = RemoveAt(@, i)]
      /\ \E healthy \in {probes[a][i].seen, up[a]} :
           LET new == IF healthy THEN Passed(heap[k]) ELSE Failed(heap[k])
           IN  /\ notes' = IF new.state = heap[k].state \/ new.state \notin {"Healthy", "Unhealthy"}
                           THEN notes
                           ELSE [notes EXCEPT ![a] =
                                   Append(@, [check |-> k, healthy |-> Serves(new.state)])]
               /\ heap' = Collected([heap EXCEPT ![k] = new])
               /\ retuned' = IF healthy /\ checks[a] = k THEN retuned \ {a} ELSE retuned

\* checkOne under the lock: the answer is that of some moment since the probe
\* began, and the object may have lost its registration.
Settle(a, i) ==
  LET k == probes[a][i].check
  IN  /\ UNCHANGED <<pool, up, checks, engine, turn, drift>>
      /\ probes' = [probes EXCEPT ![a] = RemoveAt(@, i)]
      /\ \E healthy \in {probes[a][i].seen, up[a]} :
           LET new == IF healthy THEN Passed(heap[k]) ELSE Failed(heap[k])
           IN  /\ notes' = IF new.state = heap[k].state
                           THEN notes
                           ELSE [notes EXCEPT ![a] =
                                   Append(@, [check |-> k, healthy |-> Serves(new.state)])]
               /\ heap' = Collected([heap EXCEPT ![k] = new])
               /\ retuned' = IF healthy /\ checks[a] = k THEN retuned \ {a} ELSE retuned

\* The callback, Table.SetBackendHealth, knows the address and nothing else.
Notify(a, i) ==
  LET n     == notes[a][i]
      early == \E j \in 1 .. (i - 1) : notes[a][j].check = n.check
  IN  /\ pool' = Mark(pool, a, n.healthy)
      /\ notes' = [notes EXCEPT ![a] = RemoveAt(@, i)]
      /\ drift' = IF n.check # checks[a] THEN Marked(pool')
                  ELSE [drift EXCEPT ![a] =
                          IF early \/ @ = "overtaken" THEN "overtaken" ELSE "none"]
      /\ UNCHANGED <<up, checks, probes, engine, turn, retuned>>
      /\ heap' = Collected(heap)

-----------------------------------------------------------------------------
(* The other writers. *)

\* AddRoute, first half, for a container that starts or is looked at again:
\* Upsert, with Docker's view of its health.
AddRoute(a, h) ==
  /\ engine = Idle
  /\ checks[a] # None \/ CheckId \ InUse # {}
  /\ pool' = PoolAdd(pool, NewTarget(a, a, 1, h))
  /\ engine' = [op |-> "register", addr |-> a]
  /\ drift' = IF a \in AddressesOf(pool) THEN Marked(pool') ELSE [drift EXCEPT ![a] = "none"]
  /\ UNCHANGED <<up, checker, turn, retuned>>

\* Register keeps the object of an address it knows, and its state with it, but
\* gives it the thresholds of the container that is registered there now.
Retune(a, n) ==
  /\ heap' = [heap EXCEPT ![checks[a]].tuning = n]
  /\ retuned' = IF heap[checks[a]].tuning = n THEN retuned ELSE retuned \cup {a}
  /\ UNCHANGED checks

NewCheck(a, n) ==
  LET k == CHOOSE k \in CheckId : k \notin InUse
  IN  /\ heap' = [heap EXCEPT ![k] = Fresh(n)]
      /\ checks' = [checks EXCEPT ![a] = k]
      /\ UNCHANGED retuned

\* Second half: the health checker's Register.
Register ==
  /\ engine.op = "register"
  /\ engine' = Idle
  /\ \E n \in {turn[engine.addr], turn[engine.addr] + 1} \cap DOMAIN Tunings :
       /\ turn' = [turn EXCEPT ![engine.addr] = n]
       /\ IF checks[engine.addr] # None THEN Retune(engine.addr, n)
          ELSE NewCheck(engine.addr, n)
  /\ UNCHANGED <<pool, up, probes, notes, drift>>

\* RemoveRoute, first half: the container has stopped.
RemoveRoute(a) ==
  /\ engine = Idle
  /\ a \in AddressesOf(pool)
  /\ pool' = PoolRemove(pool, a)
  /\ engine' = [op |-> "sweep", addr |-> a]
  /\ UNCHANGED <<up, checker, turn, drift, retuned>>

\* Second half: the checks of addresses no route serves are dropped.
Sweep ==
  /\ engine.op = "sweep"
  /\ engine' = Idle
  /\ checks' = [a \in Checked |-> IF a \in AddressesOf(pool) THEN checks[a] ELSE None]
  /\ retuned' = {a \in retuned : checks'[a] # None}
  /\ UNCHANGED <<pool, up, probes, notes, turn, drift>>
  /\ heap' = Collected(heap)

\* A request fails on a backend, whatever its probes say.
RequestFails(a) ==
  /\ \E i \in DOMAIN pool : pool[i].addr = a /\ pool[i].fails < MaxFails
  /\ pool' = RecordFailure(pool, a)
  /\ drift' = Marked(pool')
  /\ UNCHANGED <<up, checker, engine, turn, retuned>>

RequestSucceeds(a) ==
  /\ a \in AddressesOf(pool)
  /\ pool' = RecordSuccess(pool, a)
  /\ UNCHANGED <<up, checker, engine, turn, drift, retuned>>

\* The container starts or ceases to answer.
Turn(a) ==
  /\ up' = [up EXCEPT ![a] = ~@]
  /\ UNCHANGED <<pool, checker, engine, turn, drift, retuned>>

\* What probes of a backend that is not followed report.
OtherNotify(b, h) ==
  /\ pool' = Mark(pool, b, h)
  /\ UNCHANGED <<up, checker, engine, turn, drift, retuned>>

-----------------------------------------------------------------------------
Settling(a) == \E i \in DOMAIN probes[a] : Settle(a, i)
Notifying(a) == \E i \in DOMAIN notes[a] : Notify(a, i)

Next ==
  \/ \E a \in Checked :
       \/ StartProbe(a) \/ Settling(a) \/ Notifying(a)
       \/ \E h \in DockerSays : AddRoute(a, h)
       \/ RemoveRoute(a)
       \/ RequestFails(a) \/ RequestSucceeds(a)
       \/ Turn(a)
  \/ Register \/ Sweep
  \/ \E b \in Addresses \ Checked, h \in BOOLEAN : OtherNotify(b, h)

Spec == Init /\ [][Next]_vars

\* Of what Next allows, these are Settle(a, 1) and Notify(a, 1).
OldestProbeEnds(a) == probes[a] # <<>> /\ probes' = [probes EXCEPT ![a] = Tail(@)]
OldestNoteEnds(a) == notes[a] # <<>> /\ notes' = [notes EXCEPT ![a] = Tail(@)]

\* The ticker runs on, a probe ends within its timeout, and a goroutine that
\* can run does, the engine's among them.
FairSpec ==
  /\ Spec
  /\ \A a \in Checked :
       /\ WF_probes(StartProbe(a))
       /\ WF_probes(OldestProbeEnds(a))
       /\ WF_notes(OldestNoteEnds(a))
  /\ WF_engine(Register \/ Sweep)

-----------------------------------------------------------------------------
(* Properties. *)

Registered(a) == checks[a] # None /\ a \in AddressesOf(pool)

\* No notification of the check of an address is on its way.
Quiet(a) == \A i \in DOMAIN notes[a] : notes[a][i].check # checks[a]

\* Whenever the checker has said all it has to say of an address, the mark in
\* the pool is what its state means, unless another writer came after it.
MarkFollowsState ==
  \A a \in Checked :
    Registered(a) /\ Quiet(a) /\ drift[a] = "none" /\ heap[checks[a]].state # "Unknown" =>
      (InRotation(a) <=> Serves(heap[checks[a]].state))

\* However many probes of an address overlap, and whichever registration they
\* were started for, a check is out of service only while failures in a row
\* have reached the threshold or passes in a row have not made up for them, a
\* degraded check has failed and not passed twice since, and failures in a row
\* that reach half the threshold show in the state.  A check whose thresholds
\* were changed is consistent again from its next pass on.
ConsistentFor(k) ==
  /\ k.fails = 0 \/ k.passes = 0
  /\ k.state = "Unhealthy" <=> k.fails >= ThresholdOf(k.tuning)
  /\ k.state = "Recovering" => k.passes < RecoveryOf(k.tuning)
  /\ k.state = "Degraded" => k.passes < 2
  /\ k.state \in {"Unknown", "Healthy", "Recovering"} /\ k.fails > 0 =>
       k.fails < ThresholdOf(k.tuning) \div 2

ChecksConsistent ==
  \A a \in Checked \ retuned : checks[a] # None => ConsistentFor(heap[checks[a]])

\* The checker follows a backend for good: once nothing else interferes, one
\* that stays up comes into rotation to stay and one that stays down leaves it.
Followed(a) == Registered(a) /\ drift[a] = "none"

RotationFollowsBackend ==
  \A a \in Checked :
    <>[]Followed(a) /\ <>[][up'[a] = up[a]]_vars => <>[](InRotation(a) <=> up[a])

-----------------------------------------------------------------------------
(* What the repository says of the code and the code does not do. *)

\* "A backend that starts failing is taken out of rotation and put back
\* automatically once it recovers", and a passive ejection in particular is
\* undone by the health checker: a registered backend that answers every probe
\* from some time on keeps coming back into rotation.
PutBack ==
  \A a \in Checked :
    <>[](Registered(a) /\ up[a] /\ engine = Idle) => []<>InRotation(a)

=============================================================================
