--------------------------- MODULE Discovery_proofs ---------------------------
(***************************************************************************)
(* Proofs about Discovery, for any containers, labels, addresses and       *)
(* bounds: what a Sync repairs, what the events suffice for, and that the  *)
(* table follows the registry.                                             *)
(***************************************************************************)
EXTENDS Discovery, SequenceTheorems, TLAPS

-----------------------------------------------------------------------------
(* The inductive invariant. *)

\* What may be registered of a container that is as it is now.
Right(c) ==
  IF Up(c) /\ Labels[c].enabled
  THEN {BuildInfo(c, Published[c]), BuildInfo(c, 0)}
  ELSE {None}

\* Only containers that ask for it are registered.
OnlyEnabled ==
  /\ \A c \in Containers : registry[c] # None => Labels[c].enabled
  /\ handler # None => Labels[handler[1]].enabled

\* Only the Sync under way can have been disturbed, and what has disturbed it
\* may be missed.
Disturbances ==
  /\ sync = Idle => disturbed = {}
  /\ disturbed \subseteq missed

\* How far the Sync has come: it holds the lock once it has looked at a
\* container, and what it has looked at is registered as it is.
Progress ==
  sync # Idle =>
    /\ sync.todo \subseteq sync.seen
    /\ \A c \in Containers :
         c \in sync.seen /\ Labels[c].enabled /\ c \notin sync.todo => sync.pc = "locked"
    /\ \A c \in Containers \ disturbed :
         /\ c \in sync.seen <=> Up(c)
         /\ Up(c) /\ Labels[c].enabled /\ c \notin sync.todo =>
              registry[c] = BuildInfo(c, Published[c])
    /\ \A c \in sync.todo : Labels[c].enabled

Last(c, i) ==
  /\ events[i].cid = c
  /\ \A j \in DOMAIN events : j > i => events[j].cid # c

Announced(c) == \E i \in DOMAIN events : events[i].cid = c

\* The last event of a container tells whether it runs, and when the watcher
\* has none left to take, what it is about to register is right.
EventsTell ==
  \A c \in Containers \ missed :
    /\ \A i \in DOMAIN events : Last(c, i) => (events[i].kind = "stop" <=> ~Up(c))
    /\ Labels[c].valid /\ ~Announced(c) /\ handler # None /\ handler[1] = c =>
         handler[2] \in Right(c)

IInv ==
  /\ TypeOK
  /\ OnlyEnabled
  /\ Disturbances
  /\ Progress
  /\ EventsTell
  /\ EventsSuffice
  /\ EntriesFollowRegistry

-----------------------------------------------------------------------------
(* The helpers of the steps. *)

\* What Docker says of a container makes an entry of the registry.
LEMMA BuildInfoType ==
  ASSUME TypeOK, NEW c \in Containers, NEW p \in Ports \cup {0}
  PROVE  BuildInfo(c, p) \in Info /\ BuildInfo(c, p) # None
<1>1. docker[c].ip \in IPs \cup {NoIP}
  BY DEF TypeOK, Running, Stopped
<1>2. PortOf(c, p) \in Ports \cup {DefaultPort}
  <2>1. Labels[c].port \in Ports \cup {0}
    BY ConstantsAssumption
  <2> QED  BY <2>1 DEF PortOf
<1>3. (docker[c].status = "running") \in BOOLEAN
  OBVIOUS
<1>4. BuildInfo(c, p).addr \in Address
  <2>1. [ip |-> docker[c].ip, port |-> PortOf(c, p)] \in Address
    BY <1>1, <1>2 DEF Address
  <2>2. Labels[c].address \in Address \cup {None}
    BY ConstantsAssumption
  <2> QED  BY <2>1, <2>2 DEF BuildInfo
<1>5. BuildInfo(c, p) = [addr |-> BuildInfo(c, p).addr, healthy |-> BuildInfo(c, p).healthy]
  BY DEF BuildInfo
<1>6. BuildInfo(c, p).healthy \in BOOLEAN
  BY <1>3 DEF BuildInfo
<1>7. BuildInfo(c, p) \in Info
  BY <1>4, <1>5, <1>6 DEF Info
<1> QED  BY <1>7, NoneAssumption

\* What is true of Docker stays true while Docker does nothing.
LEMMA SameDocker ==
  ASSUME UNCHANGED docker
  PROVE  \A c : /\ Up(c)' <=> Up(c)
                /\ Right(c)' = Right(c)
                /\ \A p : BuildInfo(c, p)' = BuildInfo(c, p)
<1>1. \A c : Up(c)' <=> Up(c)
  BY DEF Up
<1>2. \A c, p : BuildInfo(c, p)' = BuildInfo(c, p)
  BY DEF BuildInfo
<1>3. \A c : Right(c)' = Right(c)
  BY <1>1, <1>2 DEF Right
<1> QED  BY <1>1, <1>2, <1>3

\* A Sync that is under way has a list.
LEMMA SyncFields ==
  ASSUME TypeOK, sync # Idle
  PROVE  /\ sync \in [pc: {"listed", "locked"}, seen: SUBSET Containers,
                      todo: SUBSET Containers]
         /\ sync.seen \subseteq Containers /\ sync.todo \subseteq Containers
<1>1. sync \in SyncState
  BY DEF TypeOK
<1>2. sync \notin [pc: {"idle"}]
  BY DEF Idle
<1> QED  BY <1>1, <1>2 DEF SyncState

LEMMA CheckedEffect ==
  ASSUME TypeOK, NEW c \in Containers, Checked(c)
  PROVE  /\ sync # Idle /\ sync' # Idle /\ c \in sync.todo
         /\ sync' \in SyncState /\ sync'.pc = "locked"
         /\ sync'.seen = sync.seen /\ sync'.todo = sync.todo \ {c}
<1>1. /\ sync # Idle /\ c \in sync.todo
      /\ sync' = [sync EXCEPT !.pc = "locked", !.todo = @ \ {c}]
  BY DEF Checked
<1>2. sync \in [pc: {"listed", "locked"}, seen: SUBSET Containers, todo: SUBSET Containers]
  BY <1>1, SyncFields
<1>3. /\ sync'.pc = "locked" /\ sync'.seen = sync.seen /\ sync'.todo = sync.todo \ {c}
      /\ sync' \in [pc: {"listed", "locked"}, seen: SUBSET Containers, todo: SUBSET Containers]
  BY <1>1, <1>2
<1>4. sync' # Idle
  BY <1>3 DEF Idle
<1> QED  BY <1>1, <1>3, <1>4 DEF SyncState

\* The table after AddRoute: the container's entry is in the place of the one
\* it had and of the one that stood at its address.
LEMMA RegisterEffect ==
  ASSUME TypeOK, EntriesFollowRegistry,
         NEW c \in Containers, NEW info \in Info, Register(c, info)
  PROVE  /\ registry' \in [Containers -> Info \cup {None}]
         /\ registry'[c] = info /\ info # None
         /\ \A d \in Containers : d # c => registry'[d] = registry[d]
         /\ entries' \subseteq Dir!Entry
         /\ entangled' \subseteq Containers
         /\ EntriesFollowRegistry'
<1> DEFINE e == [key |-> RouteOf[c], addr |-> info.addr, cid |-> c]
<1>1. /\ registry' = [registry EXCEPT ![c] = info]
      /\ entries' = {x \in entries : x.key # RouteOf[c] \/ x.addr # info.addr} \cup {e}
      /\ entangled' = entangled
           \cup {d \in {c} : registry[c] # None /\ registry[c].addr # info.addr}
           \cup {d \in Containers \ {c} :
                   [key |-> RouteOf[c], addr |-> info.addr, cid |-> d] \in entries}
  BY DEF Register, Dir!Announce
<1>2. /\ registry \in [Containers -> Info \cup {None}] /\ entries \subseteq Dir!Entry
      /\ entangled \subseteq Containers
  BY DEF TypeOK
<1>3. info.addr \in Address /\ info # None /\ RouteOf[c] \in Keys
  BY NoneAssumption, ConstantsAssumption DEF Info
<1>4. e \in Dir!Entry /\ e.cid = c /\ e.key = RouteOf[c] /\ e.addr = info.addr
  BY <1>3 DEF Dir!Entry
<1> HIDE DEF e
<1>5. /\ registry' \in [Containers -> Info \cup {None}]
      /\ registry'[c] = info
      /\ \A d \in Containers : d # c => registry'[d] = registry[d]
  BY <1>1, <1>2
<1>6. entries' \subseteq Dir!Entry /\ entangled' \subseteq Containers
  BY <1>1, <1>2, <1>4
<1>7. ASSUME NEW d \in Containers \ entangled'
      PROVE  Dir!EntriesOf(d)' =
               IF registry'[d] = None THEN {}
               ELSE {[key |-> RouteOf[d], addr |-> registry'[d].addr, cid |-> d]}
  <2>1. d \notin entangled
    BY <1>1
  <2>2. {x \in entries : x.cid = d} =
          IF registry[d] = None THEN {}
          ELSE {[key |-> RouteOf[d], addr |-> registry[d].addr, cid |-> d]}
    BY <2>1 DEF EntriesFollowRegistry, Dir!EntriesOf
  <2>3. CASE d = c
    <3>1. registry[c] = None \/ registry[c].addr = info.addr
      BY <1>1, <2>3
    <3>2. \A x \in entries : x.cid = c => x.key = RouteOf[c] /\ x.addr = info.addr
      BY <2>2, <2>3, <3>1
    <3>3. {x \in entries' : x.cid = c} = {e}
      BY <1>1, <1>4, <3>2
    <3> QED  BY <1>3, <1>5, <2>3, <3>3 DEF Dir!EntriesOf, e
  <2>4. CASE d # c
    <3>1. [key |-> RouteOf[c], addr |-> info.addr, cid |-> d] \notin entries
      BY <1>1, <2>4
    <3>2. ASSUME NEW x \in entries, x.cid = d
          PROVE  x.key # RouteOf[c] \/ x.addr # info.addr
      <4>1. x \in [key: Keys, addr: Address, cid: Containers]
        BY <1>2 DEF Dir!Entry
      <4>2. x = [key |-> x.key, addr |-> x.addr, cid |-> x.cid]
        BY <4>1
      <4> QED  BY <3>1, <3>2, <4>2
    <3>3. {x \in entries' : x.cid = d} = {x \in entries : x.cid = d}
      BY <1>1, <1>4, <2>4, <3>2
    <3> QED  BY <1>5, <2>2, <2>4, <3>3 DEF Dir!EntriesOf
  <2> QED  BY <2>3, <2>4
<1>8. EntriesFollowRegistry'
  BY <1>7 DEF EntriesFollowRegistry
<1> QED  BY <1>3, <1>5, <1>6, <1>8

\* The table after RemoveRoute of a container that is registered.
LEMMA UnregisterEffect ==
  ASSUME TypeOK, EntriesFollowRegistry,
         NEW c \in Containers, registry[c] # None, Unregister(c)
  PROVE  /\ registry' \in [Containers -> Info \cup {None}]
         /\ registry'[c] = None
         /\ \A d \in Containers : d # c => registry'[d] = registry[d]
         /\ entries' \subseteq Dir!Entry
         /\ entangled' \subseteq Containers
         /\ EntriesFollowRegistry'
<1>1. /\ registry' = [registry EXCEPT ![c] = None]
      /\ UNCHANGED entangled
      /\ IF {x \in entries : x.cid = c} = {} THEN UNCHANGED entries
         ELSE \E e \in {x \in entries : x.cid = c} : entries' = entries \ {e}
  BY DEF Unregister, Dir!Withdraw, Dir!EntriesOf
<1>2. /\ registry \in [Containers -> Info \cup {None}] /\ entries \subseteq Dir!Entry
      /\ entangled \subseteq Containers
  BY DEF TypeOK
<1>3. /\ registry' \in [Containers -> Info \cup {None}]
      /\ registry'[c] = None
      /\ \A d \in Containers : d # c => registry'[d] = registry[d]
  BY <1>1, <1>2
<1>4. entries' \subseteq Dir!Entry /\ entangled' \subseteq Containers
  BY <1>1, <1>2
<1>5. ASSUME NEW d \in Containers \ entangled'
      PROVE  Dir!EntriesOf(d)' =
               IF registry'[d] = None THEN {}
               ELSE {[key |-> RouteOf[d], addr |-> registry'[d].addr, cid |-> d]}
  <2>1. {x \in entries : x.cid = d} =
          IF registry[d] = None THEN {}
          ELSE {[key |-> RouteOf[d], addr |-> registry[d].addr, cid |-> d]}
    BY <1>1 DEF EntriesFollowRegistry, Dir!EntriesOf
  <2>2. CASE d = c
    <3>1. PICK e : {x \in entries : x.cid = c} = {e}
      BY <2>1, <2>2
    <3>2. {x \in entries' : x.cid = c} = {}
      BY <1>1, <3>1
    <3> QED  BY <1>3, <2>2, <3>2 DEF Dir!EntriesOf
  <2>3. CASE d # c
    <3>1. {x \in entries' : x.cid = d} = {x \in entries : x.cid = d}
      BY <1>1, <2>3
    <3> QED  BY <1>3, <2>1, <2>3, <3>1 DEF Dir!EntriesOf
  <2> QED  BY <2>2, <2>3
<1>6. EntriesFollowRegistry'
  BY <1>5 DEF EntriesFollowRegistry
<1> QED  BY <1>3, <1>4, <1>6

\* The watcher takes the first event: the others keep their order, and the
\* container has none left only if that was its last one.
LEMMA TakeEffect ==
  ASSUME TypeOK, NEW kinds, NEW c \in Containers, Take(kinds, c)
  PROVE  /\ events' \in Seq(Event)
         /\ handler = None
         /\ 1 \in DOMAIN events /\ events[1].kind \in kinds
         /\ \A d, j : j \in DOMAIN events' /\ Last(d, j)' =>
              /\ j + 1 \in DOMAIN events /\ Last(d, j + 1)
              /\ events'[j] = events[j + 1]
         /\ \A d : d # c => (Announced(d)' <=> Announced(d))
         /\ ~Announced(c)' => Last(c, 1)
         /\ Announced(c)
<1>1. /\ handler = None /\ events # <<>> /\ events \in Seq(Event)
      /\ Head(events).kind \in kinds /\ Head(events).cid = c
      /\ events' = Tail(events)
  BY DEF Take, TypeOK
<1>2. /\ Len(events) \in Nat /\ Len(events) >= 1 /\ DOMAIN events = 1 .. Len(events)
      /\ Head(events) = events[1]
      /\ events' \in Seq(Event) /\ DOMAIN events' = 1 .. (Len(events) - 1)
      /\ \A j \in 1 .. (Len(events) - 1) : events'[j] = events[j + 1]
  BY <1>1
<1>3. ASSUME NEW m \in DOMAIN events, m # 1
      PROVE  m - 1 \in DOMAIN events' /\ events'[m - 1] = events[m]
  <2>1. m - 1 \in 1 .. (Len(events) - 1) /\ (m - 1) + 1 = m
    BY <1>2, <1>3
  <2> QED  BY <1>2, <2>1
<1>4. ASSUME NEW d, NEW j \in DOMAIN events', Last(d, j)'
      PROVE  /\ j + 1 \in DOMAIN events /\ Last(d, j + 1)
             /\ events'[j] = events[j + 1]
  <2>1. j + 1 \in DOMAIN events /\ events'[j] = events[j + 1]
    BY <1>2
  <2>2. /\ events'[j].cid = d
        /\ \A m \in DOMAIN events' : m > j => events'[m].cid # d
    BY <1>4 DEF Last
  <2>3. ASSUME NEW m \in DOMAIN events, m > j + 1
        PROVE  events[m].cid # d
    <3>1. m # 1 /\ m - 1 > j
      BY <1>2, <2>3
    <3> QED  BY <1>3, <2>2, <3>1
  <2> QED  BY <2>1, <2>2, <2>3 DEF Last
<1>5. ASSUME NEW d, d # c
      PROVE  Announced(d)' <=> Announced(d)
  <2>1. Announced(d)' => Announced(d)
    <3>1. ASSUME NEW j \in DOMAIN events' PROVE j + 1 \in DOMAIN events
      BY <1>2
    <3> QED  BY <1>2, <3>1 DEF Announced
  <2>2. Announced(d) => Announced(d)'
    BY <1>1, <1>2, <1>3, <1>5 DEF Announced
  <2> QED  BY <2>1, <2>2
<1>6. ASSUME ~Announced(c)'
      PROVE  Last(c, 1)
  <2>1. ASSUME NEW m \in DOMAIN events, m > 1
        PROVE  events[m].cid # c
    BY <1>2, <1>3, <1>6, <2>1 DEF Announced
  <2> QED  BY <1>1, <1>2, <2>1 DEF Last
<1> QED  BY <1>1, <1>2, <1>4, <1>5, <1>6 DEF Announced

-----------------------------------------------------------------------------
(* Every step preserves the invariant. *)

\* EventsSuffice, with the names of this module.
SufficeFor(c) ==
  Labels[c].valid /\ ~Announced(c) /\ ~(handler # None /\ handler[1] = c) =>
    registry[c] \in Right(c)

LEMMA SufficeMeans ==
  EventsSuffice <=> (phase = "watching" => \A c \in Containers \ missed : SufficeFor(c))
BY DEF EventsSuffice, SufficeFor, Pending, Announced, Right

LEMMA SufficeMeansNext ==
  EventsSuffice' <=> (phase' = "watching" => \A c \in Containers \ missed' : SufficeFor(c)')
BY DEF EventsSuffice, SufficeFor, Pending, Announced, Right

LEMMA InitInv == Init => IInv
<1> SUFFICES ASSUME Init PROVE IInv
  OBVIOUS
<1>1. /\ docker \in [Containers -> {d \in Running \cup Stopped : d.status \in {"running", "exited"}}]
      /\ changes = 0 /\ faults = 0 /\ stream = "down" /\ events = <<>> /\ phase = "new"
      /\ registry = [c \in Containers |-> None]
      /\ entries = {} /\ sync = Idle /\ handler = None
      /\ disturbed = {} /\ missed = {} /\ entangled = {}
  BY DEF Init, Dir!Init
<1>2. TypeOK
  <2>1. sync \in SyncState
    BY <1>1 DEF Idle, SyncState
  <2>2. MaxChanges \in Nat /\ MaxFaults \in Nat
    BY ConstantsAssumption
  <2> QED  BY <1>1, <2>1, <2>2 DEF TypeOK
<1>3. OnlyEnabled /\ Disturbances /\ Progress /\ EventsTell /\ EventsSuffice
  BY <1>1 DEF OnlyEnabled, Disturbances, Progress, EventsTell, EventsSuffice
<1>4. EntriesFollowRegistry
  BY <1>1 DEF EntriesFollowRegistry, Dir!EntriesOf
<1> QED  BY <1>2, <1>3, <1>4 DEF IInv

\* A container changes: either its event is sent, behind all the others, or
\* the change is missed.
LEMMA ChangeInv ==
  ASSUME IInv, NEW c \in Containers, NEW d \in Running \cup Stopped,
         NEW kind \in {"start", "stop", "health_status"},
         kind = "stop" <=> d \notin Running,
         Change(c, d, kind)
  PROVE  IInv'
<1> DEFINE e == [kind |-> kind, cid |-> c]
<1>1. /\ changes < MaxChanges /\ changes' = changes + 1
      /\ docker' = [docker EXCEPT ![c] = d]
      /\ events' = IF stream = "open" THEN Append(events, e) ELSE events
      /\ disturbed' = IF sync = Idle THEN {} ELSE disturbed \cup {c}
      /\ missed' = IF stream = "open" /\ sync = Idle THEN missed ELSE missed \cup {c}
      /\ UNCHANGED <<faults, stream, handler, phase, registry, entries, sync, entangled>>
  BY DEF Change
<1>2. TypeOK /\ docker \in [Containers -> Running \cup Stopped] /\ events \in Seq(Event)
  BY DEF IInv, TypeOK
<1>3. e \in Event /\ e.kind = kind /\ e.cid = c
  BY DEF Event
<1> HIDE DEF e
<1>4. /\ docker'[c] = d
      /\ \A b \in Containers : b # c => docker'[b] = docker[b]
      /\ docker' \in [Containers -> Running \cup Stopped]
  BY <1>1, <1>2
<1>5. /\ Up(c)' <=> kind # "stop"
      /\ \A b \in Containers : b # c =>
           /\ Up(b)' <=> Up(b)
           /\ Right(b)' = Right(b)
           /\ \A p : BuildInfo(b, p)' = BuildInfo(b, p)
  <2>1. Up(c)' <=> kind # "stop"
    BY <1>4 DEF Up
  <2>2. ASSUME NEW b \in Containers, b # c
        PROVE  /\ Up(b)' <=> Up(b)
               /\ \A p : BuildInfo(b, p)' = BuildInfo(b, p)
    BY <1>4, <2>2 DEF Up, BuildInfo
  <2>3. \A b \in Containers : b # c => Right(b)' = Right(b)
    BY <2>2 DEF Right
  <2> QED  BY <2>1, <2>2, <2>3
<1>6. /\ Len(events) \in Nat /\ DOMAIN events = 1 .. Len(events)
      /\ events' \in Seq(Event)
      /\ stream # "open" => events' = events
      /\ stream = "open" =>
           /\ DOMAIN events' = 1 .. (Len(events) + 1)
           /\ \A j \in DOMAIN events : events'[j] = events[j]
           /\ events'[Len(events) + 1] = e
  <2>1. Len(events) \in Nat /\ DOMAIN events = 1 .. Len(events)
    BY <1>2
  <2>2. CASE stream # "open"
    BY <1>1, <1>2, <2>1, <2>2
  <2>3. CASE stream = "open"
    <3>1. events' = Append(events, e)
      BY <1>1, <2>3
    <3>2. /\ events' \in Seq(Event) /\ Len(events') = Len(events) + 1
          /\ \A j \in DOMAIN events : events'[j] = events[j]
          /\ events'[Len(events) + 1] = e
      BY <1>2, <1>3, <3>1, AppendProperties
    <3>3. DOMAIN events' = 1 .. (Len(events) + 1)
      BY <3>2
    <3> QED  BY <2>1, <2>3, <3>2, <3>3
  <2> QED  BY <2>2, <2>3
<1>7. TypeOK'
  <2>1. changes' \in 0 .. MaxChanges
    BY <1>1, <1>2, ConstantsAssumption DEF TypeOK
  <2>2. disturbed' \subseteq Containers /\ missed' \subseteq Containers
    BY <1>1, <1>2 DEF TypeOK
  <2> QED  BY <1>1, <1>2, <1>4, <1>6, <2>1, <2>2 DEF TypeOK
<1>8. OnlyEnabled'
  BY <1>1 DEF IInv, OnlyEnabled
<1>9. Disturbances'
  BY <1>1 DEF IInv, Disturbances
<1>10. Progress'
  <2> SUFFICES ASSUME sync # Idle
               PROVE  /\ sync.todo \subseteq sync.seen
                      /\ \A b \in Containers :
                           b \in sync.seen /\ Labels[b].enabled /\ b \notin sync.todo =>
                             sync.pc = "locked"
                      /\ \A b \in Containers \ disturbed' :
                           /\ b \in sync.seen <=> Up(b)'
                           /\ Up(b)' /\ Labels[b].enabled /\ b \notin sync.todo =>
                                registry[b] = BuildInfo(b, Published[b])'
                      /\ \A b \in sync.todo : Labels[b].enabled
    BY <1>1 DEF Progress
  <2>1. \A b \in Containers \ disturbed' : b # c /\ b \notin disturbed
    BY <1>1
  <2>2. \A b \in Containers \ disturbed :
          /\ b \in sync.seen <=> Up(b)
          /\ Up(b) /\ Labels[b].enabled /\ b \notin sync.todo =>
               registry[b] = BuildInfo(b, Published[b])
    BY DEF IInv, Progress
  <2>3. ASSUME NEW b \in Containers \ disturbed'
        PROVE  /\ b \in sync.seen <=> Up(b)'
               /\ Up(b)' /\ Labels[b].enabled /\ b \notin sync.todo =>
                    registry[b] = BuildInfo(b, Published[b])'
    <3>1. BuildInfo(b, Published[b])' = BuildInfo(b, Published[b])
      BY <1>4, <2>1 DEF BuildInfo
    <3> QED  BY <1>5, <2>1, <2>2, <3>1
  <2> QED  BY <2>3 DEF IInv, Progress
<1>11. EventsTell'
  <2> SUFFICES ASSUME NEW b \in Containers \ missed'
               PROVE  /\ \A i \in DOMAIN events' : Last(b, i)' =>
                           (events'[i].kind = "stop" <=> ~Up(b)')
                      /\ Labels[b].valid /\ ~Announced(b)' /\ handler # None
                           /\ handler[1] = b => handler[2] \in Right(b)'
    BY <1>1 DEF EventsTell
  <2>1. b \notin missed
    BY <1>1
  <2>2. /\ \A i \in DOMAIN events : Last(b, i) => (events[i].kind = "stop" <=> ~Up(b))
        /\ Labels[b].valid /\ ~Announced(b) /\ handler # None /\ handler[1] = b =>
             handler[2] \in Right(b)
    BY <2>1 DEF IInv, EventsTell
  <2>3. CASE b = c
    <3>1. stream = "open"
      BY <1>1, <2>3
    <3>2. Len(events) + 1 \in DOMAIN events' /\ events'[Len(events) + 1].cid = c
      BY <1>3, <1>6, <3>1
    <3>3. ASSUME NEW i \in DOMAIN events', Last(b, i)'
          PROVE  i = Len(events) + 1
      <4>1. \A j \in DOMAIN events' : j > i => events'[j].cid # c
        BY <2>3, <3>3 DEF Last
      <4> QED  BY <1>6, <3>1, <3>2, <4>1
    <3>4. Announced(b)'
      BY <2>3, <3>2 DEF Announced
    <3> QED  BY <1>3, <1>5, <1>6, <2>3, <3>1, <3>3, <3>4
  <2>4. CASE b # c
    <3>1. ASSUME NEW i \in DOMAIN events', Last(b, i)'
          PROVE  i \in DOMAIN events /\ events'[i] = events[i] /\ Last(b, i)
      <4>1. /\ events'[i].cid = b
            /\ \A j \in DOMAIN events' : j > i => events'[j].cid # b
        BY <3>1 DEF Last
      <4>2. i \in DOMAIN events /\ events'[i] = events[i]
        BY <1>3, <1>6, <2>4, <4>1
      <4> QED  BY <1>6, <4>1, <4>2 DEF Last
    <3>2. Announced(b) => Announced(b)'
      BY <1>6 DEF Announced
    <3> QED  BY <1>5, <2>2, <2>4, <3>1, <3>2
  <2> QED  BY <2>3, <2>4
<1>12. EventsSuffice'
  <2> SUFFICES ASSUME phase = "watching", NEW b \in Containers \ missed',
                      Labels[b].valid, ~Announced(b)', ~(handler # None /\ handler[1] = b)
               PROVE  registry[b] \in Right(b)'
    BY <1>1, SufficeMeansNext DEF SufficeFor
  <2>1. b # c
    <3>1. CASE b = c
      <4>1. stream = "open"
        BY <1>1, <3>1
      <4>2. Len(events) + 1 \in DOMAIN events' /\ events'[Len(events) + 1].cid = b
        BY <1>3, <1>6, <3>1, <4>1
      <4> QED  BY <4>2 DEF Announced
    <3> QED  BY <3>1
  <2>2. b \notin missed /\ ~Announced(b)
    <3>1. Announced(b) => Announced(b)'
      BY <1>6 DEF Announced
    <3> QED  BY <1>1, <3>1
  <2>3. registry[b] \in Right(b)
    BY <2>2, SufficeMeans DEF IInv, SufficeFor
  <2> QED  BY <1>5, <2>1, <2>3
<1>13. EntriesFollowRegistry'
  BY <1>1 DEF IInv, EntriesFollowRegistry, Dir!EntriesOf
<1> QED  BY <1>7, <1>8, <1>9, <1>10, <1>11, <1>12, <1>13 DEF IInv

\* Docker's steps are such changes.
LEMMA DockerChangesInv ==
  ASSUME IInv, NEW c \in Containers,
         StartContainer(c) \/ StopContainer(c) \/ ChangeHealth(c)
  PROVE  IInv'
<1>1. CASE StartContainer(c)
  <2>1. PICK ip \in Free : Change(c, [status |-> "running", ip |-> ip], "start")
    BY <1>1 DEF StartContainer
  <2>2. [status |-> "running", ip |-> ip] \in Running
    BY DEF Free, Running
  <2> QED  BY <2>1, <2>2, ChangeInv
<1>2. CASE StopContainer(c)
  <2> DEFINE d == [status |-> IF c \in AutoRemove THEN "gone" ELSE "exited", ip |-> NoIP]
  <2>1. Change(c, d, "stop")
    BY <1>2 DEF StopContainer
  <2>2. d \in Stopped /\ d \notin Running
    BY ConstantsAssumption DEF Stopped, Running
  <2> HIDE DEF d
  <2> QED  BY <2>1, <2>2, ChangeInv
<1>3. CASE ChangeHealth(c)
  <2>1. PICK s \in {"running", "unhealthy"} \ {docker[c].status} :
          Change(c, [docker[c] EXCEPT !.status = s], "health_status")
    BY <1>3 DEF ChangeHealth
  <2>2. docker[c] \in Running
    BY <1>3 DEF ChangeHealth, Up
  <2>3. [docker[c] EXCEPT !.status = s] \in Running
    BY <2>2 DEF Running
  <2> QED  BY <2>1, <2>3, ChangeInv
<1> QED  BY <1>1, <1>2, <1>3

\* A step that leaves Docker, the events and the registry alone does not touch
\* what the events tell.
LEMMA TellUnchanged ==
  ASSUME IInv, UNCHANGED <<docker, events, handler, registry>>, missed \subseteq missed',
         phase' = "watching" => phase = "watching"
  PROVE  OnlyEnabled' /\ EventsTell' /\ EventsSuffice'
<1>1. OnlyEnabled'
  BY DEF IInv, OnlyEnabled
<1>2. \A c : Right(c)' = Right(c) /\ (Up(c)' <=> Up(c))
  BY SameDocker
<1>3. EventsTell'
  BY <1>2 DEF IInv, EventsTell, Last, Announced
<1>4. \A c : SufficeFor(c) => SufficeFor(c)'
  BY <1>2 DEF SufficeFor, Announced
<1>5. EventsSuffice'
  BY <1>4, SufficeMeans, SufficeMeansNext DEF IInv
<1> QED  BY <1>1, <1>3, <1>5

\* The stream breaks or is opened, discovery starts, or a list fails.
LEMMA SignalInv ==
  ASSUME IInv, StreamFails \/ Subscribe \/ Start \/ SyncListFails
  PROVE  IInv'
<1>1. UNCHANGED <<docker, events, handler, registry, entries, sync, disturbed, missed,
                  entangled, changes>>
  BY DEF StreamFails, Subscribe, Start, SyncListFails, world, watcher, history
<1>2. phase' = "watching" => phase = "watching"
  BY DEF StreamFails, Subscribe, Start, SyncListFails, watcher, history
<1>3. TypeOK'
  <2>1. faults' \in 0 .. MaxFaults
    BY ConstantsAssumption
       DEF IInv, TypeOK, StreamFails, Subscribe, Start, SyncListFails, Fault, world
  <2>2. stream' \in {"down", "open", "stuck"}
    BY DEF IInv, TypeOK, StreamFails, Subscribe, Start, SyncListFails, watcher
  <2>3. phase' \in {"new", "starting", "watching", "failed"}
    BY DEF IInv, TypeOK, StreamFails, Subscribe, Start, SyncListFails
  <2> QED  BY <1>1, <2>1, <2>2, <2>3 DEF IInv, TypeOK
<1>4. OnlyEnabled' /\ EventsTell' /\ EventsSuffice'
  BY <1>1, <1>2, TellUnchanged
<1>5. Disturbances' /\ EntriesFollowRegistry'
  BY <1>1 DEF IInv, Disturbances, EntriesFollowRegistry, Dir!EntriesOf
<1>6. Progress'
  <2>1. \A c : (Up(c)' <=> Up(c)) /\ \A p : BuildInfo(c, p)' = BuildInfo(c, p)
    BY <1>1, SameDocker
  <2>2. \A c \in Containers : BuildInfo(c, Published[c])' = BuildInfo(c, Published[c])
    BY <1>1 DEF BuildInfo
  <2> QED  BY <1>1, <2>1, <2>2 DEF IInv, Progress
<1> QED  BY <1>3, <1>4, <1>5, <1>6 DEF IInv

\* A Sync begins with what Docker says at that moment.
LEMMA SyncListInv ==
  ASSUME IInv, SyncList
  PROVE  IInv'
<1> DEFINE seen == {c \in Containers : Up(c)}
           todo == {c \in seen : Labels[c].enabled}
<1>1. /\ sync = Idle
      /\ sync' = [pc |-> "listed", seen |-> seen, todo |-> todo]
      /\ UNCHANGED <<docker, changes, faults, stream, events, handler, phase, registry,
                     entries, disturbed, missed, entangled>>
  BY DEF SyncList, world, watcher, history
<1>2. /\ sync'.seen = seen /\ sync'.todo = todo /\ sync' # Idle
      /\ sync' \in SyncState
  BY <1>1 DEF SyncState, Idle
<1>3. TypeOK'
  BY <1>1, <1>2 DEF IInv, TypeOK
<1>4. OnlyEnabled' /\ EventsTell' /\ EventsSuffice'
  BY <1>1, TellUnchanged
<1>5. Disturbances' /\ EntriesFollowRegistry'
  BY <1>1, <1>2 DEF IInv, Disturbances, EntriesFollowRegistry, Dir!EntriesOf
<1>6. Progress'
  <2>1. \A c : Up(c)' <=> Up(c)
    BY <1>1, SameDocker
  <2> QED  BY <1>2, <2>1 DEF Progress
<1> QED  BY <1>3, <1>4, <1>5, <1>6 DEF IInv

\* A Sync comes to a container that runs, or has changed since it was listed.
LEMMA SyncContainerInv ==
  ASSUME IInv, NEW c \in Containers, SyncContainer(c)
  PROVE  IInv'
<1> DEFINE info == BuildInfo(c, Published[c])
<1>1. /\ Checked(c)
      /\ registry[c] = info => UNCHANGED <<registry, entries, entangled>>
      /\ registry[c] # info => Register(c, info)
      /\ UNCHANGED <<docker, changes, faults, stream, events, handler, phase, disturbed, missed>>
  BY DEF SyncContainer, world, watcher
<1>2. /\ TypeOK /\ EntriesFollowRegistry
      /\ sync # Idle /\ sync' # Idle /\ c \in sync.todo
      /\ sync' \in SyncState /\ sync'.pc = "locked"
      /\ sync'.seen = sync.seen /\ sync'.todo = sync.todo \ {c}
  BY <1>1, CheckedEffect DEF IInv
<1>3. info \in Info /\ info # None
  BY <1>2, BuildInfoType, ConstantsAssumption
<1>4. /\ Labels[c].enabled
      /\ c \notin disturbed => Up(c)
      /\ sync.todo \subseteq sync.seen
  BY <1>2 DEF IInv, Progress
<1>5. /\ \A b : (Up(b)' <=> Up(b)) /\ Right(b)' = Right(b)
      /\ \A b \in Containers : BuildInfo(b, Published[b])' = BuildInfo(b, Published[b])
  <2>1. \A b : (Up(b)' <=> Up(b)) /\ Right(b)' = Right(b)
    BY <1>1, SameDocker
  <2> QED  BY <1>1, <2>1 DEF BuildInfo
<1>6. /\ Up(c) => info \in Right(c)
  BY <1>4 DEF Right
<1> HIDE DEF info
<1>7. /\ registry' \in [Containers -> Info \cup {None}]
      /\ registry'[c] = info
      /\ \A d \in Containers : d # c => registry'[d] = registry[d]
      /\ entries' \subseteq Dir!Entry
      /\ entangled' \subseteq Containers
      /\ EntriesFollowRegistry'
  <2>1. CASE registry[c] = info
    <3>1. UNCHANGED <<registry, entries, entangled>>
      BY <1>1, <2>1
    <3>2. EntriesFollowRegistry'
      BY <1>2, <3>1 DEF EntriesFollowRegistry, Dir!EntriesOf
    <3> QED  BY <1>2, <2>1, <3>1, <3>2 DEF TypeOK
  <2>2. CASE registry[c] # info
    BY <1>1, <1>2, <1>3, <2>2, RegisterEffect
  <2> QED  BY <2>1, <2>2
<1>8. TypeOK'
  BY <1>1, <1>2, <1>7 DEF TypeOK
<1>9. OnlyEnabled' /\ Disturbances'
  BY <1>1, <1>2, <1>4, <1>7 DEF IInv, OnlyEnabled, Disturbances
<1>10. Progress'
  <2>1. ASSUME NEW b \in Containers \ disturbed'
        PROVE  /\ b \in sync'.seen <=> Up(b)'
               /\ Up(b)' /\ Labels[b].enabled /\ b \notin sync'.todo =>
                    registry'[b] = BuildInfo(b, Published[b])'
    <3>1. /\ b \in sync.seen <=> Up(b)
          /\ Up(b) /\ Labels[b].enabled /\ b \notin sync.todo =>
               registry[b] = BuildInfo(b, Published[b])
      BY <1>1, <1>2 DEF IInv, Progress
    <3>2. CASE b = c
      BY <1>2, <1>5, <1>7, <3>1, <3>2 DEF info
    <3>3. CASE b # c
      BY <1>2, <1>5, <1>7, <3>1, <3>3
    <3> QED  BY <3>2, <3>3
  <2> QED  BY <1>2, <2>1 DEF IInv, Progress
<1>11. EventsTell'
  BY <1>1, <1>5 DEF IInv, EventsTell, Last, Announced
<1>12. EventsSuffice'
  <2> SUFFICES ASSUME phase = "watching", NEW b \in Containers \ missed,
                      Labels[b].valid, ~Announced(b)', ~(handler # None /\ handler[1] = b)
               PROVE  registry'[b] \in Right(b)'
    BY <1>1, SufficeMeansNext DEF SufficeFor
  <2>1. CASE b = c
    <3>1. b \notin disturbed
      BY DEF IInv, Disturbances
    <3> QED  BY <1>4, <1>5, <1>6, <1>7, <2>1, <3>1
  <2>2. CASE b # c
    <3>1. ~Announced(b)
      BY <1>1 DEF Announced
    <3>2. registry[b] \in Right(b)
      BY <3>1, SufficeMeans DEF IInv, SufficeFor
    <3> QED  BY <1>5, <1>7, <2>2, <3>2
  <2> QED  BY <2>1, <2>2
<1> QED  BY <1>7, <1>8, <1>9, <1>10, <1>11, <1>12 DEF IInv

\* ... or cannot look at it.
LEMMA SyncContainerFailsInv ==
  ASSUME IInv, NEW c \in Containers, SyncContainerFails(c)
  PROVE  IInv'
<1>1. /\ Checked(c)
      /\ UNCHANGED faults \/ Fault
      /\ disturbed' = disturbed \cup {c} /\ missed' = missed \cup {c}
      /\ UNCHANGED <<docker, changes, stream, events, handler, phase, registry, entries, entangled>>
  BY DEF SyncContainerFails, watcher
<1>2. /\ TypeOK
      /\ sync # Idle /\ sync' # Idle /\ c \in sync.todo
      /\ sync' \in SyncState /\ sync'.pc = "locked"
      /\ sync'.seen = sync.seen /\ sync'.todo = sync.todo \ {c}
  BY <1>1, CheckedEffect DEF IInv
<1>3. TypeOK'
  <2>1. faults' \in 0 .. MaxFaults
    BY <1>1, <1>2, ConstantsAssumption DEF TypeOK, Fault
  <2> QED  BY <1>1, <1>2, <2>1 DEF TypeOK
<1>4. OnlyEnabled' /\ EventsTell' /\ EventsSuffice'
  BY <1>1, TellUnchanged
<1>5. Disturbances' /\ EntriesFollowRegistry'
  BY <1>1, <1>2 DEF IInv, Disturbances, EntriesFollowRegistry, Dir!EntriesOf
<1>6. Progress'
  <2>1. \A b \in Containers : /\ Up(b)' <=> Up(b)
                              /\ BuildInfo(b, Published[b])' = BuildInfo(b, Published[b])
    BY <1>1 DEF Up, BuildInfo
  <2> QED  BY <1>1, <1>2, <2>1 DEF IInv, Progress
<1> QED  BY <1>3, <1>4, <1>5, <1>6 DEF IInv

\* What is registered and was not listed is gone, or has been disturbed.
LEMMA SyncRemoveInv ==
  ASSUME IInv, NEW c \in Containers, SyncRemove(c)
  PROVE  IInv'
<1>1. /\ sync # Idle /\ sync.todo = {} /\ registry[c] # None /\ c \notin sync.seen
      /\ Unregister(c)
      /\ sync' = [sync EXCEPT !.pc = "locked"]
      /\ UNCHANGED <<docker, changes, faults, stream, events, handler, phase, disturbed, missed>>
  BY DEF SyncRemove, AllChecked, world, watcher
<1>2. /\ TypeOK /\ EntriesFollowRegistry
      /\ sync \in [pc: {"listed", "locked"}, seen: SUBSET Containers, todo: SUBSET Containers]
  BY <1>1, SyncFields DEF IInv
<1>3. /\ sync'.pc = "locked" /\ sync'.seen = sync.seen /\ sync'.todo = sync.todo
      /\ sync' \in [pc: {"listed", "locked"}, seen: SUBSET Containers, todo: SUBSET Containers]
  BY <1>1, <1>2
<1>4. sync' # Idle /\ sync' \in SyncState
  BY <1>3 DEF Idle, SyncState
<1>5. /\ registry' \in [Containers -> Info \cup {None}]
      /\ registry'[c] = None
      /\ \A d \in Containers : d # c => registry'[d] = registry[d]
      /\ entries' \subseteq Dir!Entry
      /\ entangled' \subseteq Containers
      /\ EntriesFollowRegistry'
  BY <1>1, <1>2, UnregisterEffect
<1>6. /\ \A b : (Up(b)' <=> Up(b)) /\ Right(b)' = Right(b)
      /\ \A b \in Containers : BuildInfo(b, Published[b])' = BuildInfo(b, Published[b])
  <2>1. \A b : (Up(b)' <=> Up(b)) /\ Right(b)' = Right(b)
    BY <1>1, SameDocker
  <2> QED  BY <1>1, <2>1 DEF BuildInfo
<1>7. c \notin disturbed => ~Up(c)
  BY <1>1 DEF IInv, Progress
<1>8. TypeOK'
  BY <1>1, <1>2, <1>4, <1>5 DEF TypeOK
<1>9. OnlyEnabled' /\ Disturbances'
  BY <1>1, <1>4, <1>5 DEF IInv, OnlyEnabled, Disturbances
<1>10. Progress'
  <2>1. ASSUME NEW b \in Containers \ disturbed'
        PROVE  /\ b \in sync'.seen <=> Up(b)'
               /\ Up(b)' /\ Labels[b].enabled /\ b \notin sync'.todo =>
                    registry'[b] = BuildInfo(b, Published[b])'
    <3>1. /\ b \in sync.seen <=> Up(b)
          /\ Up(b) /\ Labels[b].enabled /\ b \notin sync.todo =>
               registry[b] = BuildInfo(b, Published[b])
      BY <1>1 DEF IInv, Progress
    <3> QED  BY <1>1, <1>3, <1>5, <1>6, <3>1
  <2> QED  BY <1>1, <1>3, <2>1 DEF IInv, Progress
<1>11. EventsTell'
  BY <1>1, <1>6 DEF IInv, EventsTell, Last, Announced
<1>12. EventsSuffice'
  <2> SUFFICES ASSUME phase = "watching", NEW b \in Containers \ missed,
                      Labels[b].valid, ~Announced(b)', ~(handler # None /\ handler[1] = b)
               PROVE  registry'[b] \in Right(b)'
    BY <1>1, SufficeMeansNext DEF SufficeFor
  <2>1. CASE b = c
    <3>1. b \notin disturbed
      BY DEF IInv, Disturbances
    <3> QED  BY <1>5, <1>6, <1>7, <2>1, <3>1 DEF Right
  <2>2. CASE b # c
    <3>1. ~Announced(b)
      BY <1>1 DEF Announced
    <3>2. registry[b] \in Right(b)
      BY <3>1, SufficeMeans DEF IInv, SufficeFor
    <3> QED  BY <1>5, <1>6, <2>2, <3>2
  <2> QED  BY <2>1, <2>2
<1> QED  BY <1>5, <1>8, <1>9, <1>10, <1>11, <1>12 DEF IInv

\* When a Sync ends, what has not disturbed it is registered as it is.
LEMMA SyncDoneRepairs ==
  ASSUME IInv, SyncDone
  PROVE  \A c \in Containers \ disturbed : registry[c] = Current(c)
<1>1. /\ sync # Idle /\ sync.todo = {}
      /\ \A c \in Containers : registry[c] # None => c \in sync.seen
  BY DEF SyncDone, AllChecked
<1>2. ASSUME NEW c \in Containers \ disturbed
      PROVE  registry[c] = Current(c)
  <2>1. /\ c \in sync.seen <=> Up(c)
        /\ Up(c) /\ Labels[c].enabled => registry[c] = BuildInfo(c, Published[c])
    BY <1>1 DEF IInv, Progress
  <2>2. registry[c] # None => Labels[c].enabled
    BY DEF IInv, OnlyEnabled
  <2> QED  BY <1>1, <2>1, <2>2 DEF Current
<1> QED  BY <1>2

LEMMA SyncDoneInv ==
  ASSUME IInv, SyncDone
  PROVE  IInv'
<1>1. /\ sync' = Idle /\ phase' = "watching" /\ disturbed' = {}
      /\ UNCHANGED <<docker, changes, faults, stream, events, handler, registry, entries,
                     missed, entangled>>
  BY DEF SyncDone, world, watcher
<1>2. TypeOK'
  BY <1>1 DEF IInv, TypeOK, Idle, SyncState
<1>3. \A c : Right(c)' = Right(c) /\ (Up(c)' <=> Up(c))
  BY <1>1, SameDocker
<1>4. OnlyEnabled' /\ Disturbances' /\ Progress'
  BY <1>1 DEF IInv, OnlyEnabled, Disturbances, Progress
<1>5. EventsTell'
  BY <1>1, <1>3 DEF IInv, EventsTell, Last, Announced
<1>6. EventsSuffice'
  <2>1. ASSUME NEW c \in Containers \ missed
        PROVE  registry'[c] \in Right(c)'
    <3>1. c \in Containers \ disturbed
      BY DEF IInv, Disturbances
    <3>2. registry[c] = Current(c)
      BY <3>1, SyncDoneRepairs
    <3>3. Current(c) \in Right(c)
      BY DEF Current, Right
    <3> QED  BY <1>1, <1>3, <3>2, <3>3
  <2> QED  BY <1>1, <2>1, SufficeMeansNext DEF SufficeFor
<1>7. EntriesFollowRegistry'
  BY <1>1 DEF IInv, EntriesFollowRegistry, Dir!EntriesOf
<1> QED  BY <1>2, <1>4, <1>5, <1>6, <1>7 DEF IInv

\* The watcher writes to the registry while no Sync holds the lock: the Sync has
\* not looked at anything yet.
LEMMA UnlockedProgress ==
  ASSUME IInv, Unlocked, UNCHANGED <<docker, sync, disturbed>>
  PROVE  Progress'
<1>1. \A c \in Containers : /\ Up(c)' <=> Up(c)
                            /\ BuildInfo(c, Published[c])' = BuildInfo(c, Published[c])
  BY DEF Up, BuildInfo
<1>2. ASSUME sync # Idle, NEW c \in Containers \ disturbed, Up(c), Labels[c].enabled,
             c \notin sync.todo
      PROVE  FALSE
  BY <1>2 DEF IInv, Progress, Unlocked
<1> QED  BY <1>1, <1>2 DEF IInv, Progress

\* A container is inspected: what the watcher will register is what Docker says.
LEMMA InspectInv ==
  ASSUME IInv, NEW c \in Containers, Inspect(c)
  PROVE  IInv'
<1> DEFINE info == BuildInfo(c, 0)
           known == docker[c].status # "gone" /\ Labels[c].enabled /\ Labels[c].valid
<1>1. /\ Take({"start", "health_status"}, c)
      /\ handler' = IF known THEN <<c, info>> ELSE None
      /\ UNCHANGED <<docker, changes, faults, stream, phase, registry, entries, sync,
                     disturbed, missed, entangled>>
  BY DEF Inspect, world, history
<1>2. TypeOK
  BY DEF IInv
<1>3. /\ events' \in Seq(Event) /\ handler = None
      /\ 1 \in DOMAIN events /\ events[1].kind \in {"start", "health_status"}
      /\ \A d, j : j \in DOMAIN events' /\ Last(d, j)' =>
           /\ j + 1 \in DOMAIN events /\ Last(d, j + 1)
           /\ events'[j] = events[j + 1]
      /\ \A d : d # c => (Announced(d)' <=> Announced(d))
      /\ ~Announced(c)' => Last(c, 1)
      /\ Announced(c)
  BY <1>1, <1>2, TakeEffect
<1>4. info \in Info
  BY <1>2, BuildInfoType
<1>5. \A d : Right(d)' = Right(d) /\ (Up(d)' <=> Up(d))
  BY <1>1, SameDocker
<1>6. Up(c) /\ known => info \in Right(c)
  BY DEF Right
<1> HIDE DEF info
<1>7. handler' \in (Containers \X Info) \cup {None}
  BY <1>1, <1>4
<1>8. handler' # None => known /\ handler'[1] = c /\ handler'[2] = info
  BY <1>1
<1>9. TypeOK'
  BY <1>1, <1>2, <1>3, <1>7 DEF TypeOK
<1>10. OnlyEnabled' /\ Disturbances'
  BY <1>1, <1>8 DEF IInv, OnlyEnabled, Disturbances
<1>11. Progress'
  <2>1. \A d \in Containers : /\ Up(d)' <=> Up(d)
                              /\ BuildInfo(d, Published[d])' = BuildInfo(d, Published[d])
    BY <1>1 DEF Up, BuildInfo
  <2> QED  BY <1>1, <2>1 DEF IInv, Progress
<1>12. ASSUME c \notin missed, ~Announced(c)'
       PROVE  Up(c)
  BY <1>3, <1>12 DEF IInv, EventsTell
<1>13. EventsTell'
  <2> SUFFICES ASSUME NEW d \in Containers \ missed
               PROVE  /\ \A i \in DOMAIN events' : Last(d, i)' =>
                           (events'[i].kind = "stop" <=> ~Up(d)')
                      /\ Labels[d].valid /\ ~Announced(d)' /\ handler' # None /\ handler'[1] = d =>
                           handler'[2] \in Right(d)'
    BY <1>1 DEF EventsTell
  <2>1. ASSUME NEW i \in DOMAIN events', Last(d, i)'
        PROVE  events'[i].kind = "stop" <=> ~Up(d)'
    <3>1. i + 1 \in DOMAIN events /\ Last(d, i + 1) /\ events'[i] = events[i + 1]
      BY <1>3, <2>1
    <3>2. events[i + 1].kind = "stop" <=> ~Up(d)
      BY <3>1 DEF IInv, EventsTell
    <3> QED  BY <1>5, <3>1, <3>2
  <2>2. ASSUME ~Announced(d)', handler' # None, handler'[1] = d
        PROVE  handler'[2] \in Right(d)'
    BY <1>5, <1>6, <1>8, <1>12, <2>2
  <2> QED  BY <2>1, <2>2
<1>14. EventsSuffice'
  <2> SUFFICES ASSUME phase = "watching", NEW d \in Containers \ missed,
                      Labels[d].valid, ~Announced(d)', ~(handler' # None /\ handler'[1] = d)
               PROVE  registry[d] \in Right(d)
    BY <1>1, <1>5, SufficeMeansNext DEF SufficeFor
  <2>1. CASE d = c
    <3>1. Up(c)
      BY <1>12, <2>1
    <3>2. docker[c].status # "gone"
      BY <3>1 DEF Up, Running
    <3>3. ~known
      BY <1>1, <1>7, <1>8, <2>1, <1>4, NoneAssumption
    <3>4. registry[c] = None
      BY <2>1, <3>2, <3>3 DEF IInv, OnlyEnabled
    <3> QED  BY <2>1, <3>2, <3>3, <3>4 DEF Right
  <2>2. CASE d # c
    <3>1. ~Announced(d)
      BY <1>3, <2>2
    <3> QED  BY <1>3, <3>1, SufficeMeans DEF IInv, SufficeFor
  <2> QED  BY <2>1, <2>2
<1>15. EntriesFollowRegistry'
  BY <1>1 DEF IInv, EntriesFollowRegistry, Dir!EntriesOf
<1> QED  BY <1>9, <1>10, <1>11, <1>13, <1>14, <1>15 DEF IInv

\* ... or cannot be, and its change is missed.
LEMMA InspectFailsInv ==
  ASSUME IInv, NEW c \in Containers, InspectFails(c)
  PROVE  IInv'
<1>1. /\ Take({"start", "health_status"}, c)
      /\ Fault
      /\ missed' = missed \cup {c}
      /\ UNCHANGED <<docker, changes, stream, handler, phase, registry, entries, sync,
                     disturbed, entangled>>
  BY DEF InspectFails
<1>2. TypeOK
  BY DEF IInv
<1>3. /\ events' \in Seq(Event) /\ handler = None
      /\ \A d, j : j \in DOMAIN events' /\ Last(d, j)' =>
           /\ j + 1 \in DOMAIN events /\ Last(d, j + 1)
           /\ events'[j] = events[j + 1]
      /\ \A d : d # c => (Announced(d)' <=> Announced(d))
  BY <1>1, <1>2, TakeEffect
<1>4. \A d : Right(d)' = Right(d) /\ (Up(d)' <=> Up(d))
  BY <1>1, SameDocker
<1>5. TypeOK'
  <2>1. faults' \in 0 .. MaxFaults
    BY <1>1, <1>2, ConstantsAssumption DEF TypeOK, Fault
  <2> QED  BY <1>1, <1>2, <1>3, <2>1 DEF TypeOK
<1>6. OnlyEnabled' /\ Disturbances'
  BY <1>1 DEF IInv, OnlyEnabled, Disturbances
<1>7. Progress'
  <2>1. \A d \in Containers : /\ Up(d)' <=> Up(d)
                              /\ BuildInfo(d, Published[d])' = BuildInfo(d, Published[d])
    BY <1>1 DEF Up, BuildInfo
  <2> QED  BY <1>1, <2>1 DEF IInv, Progress
<1>8. EventsTell'
  <2> SUFFICES ASSUME NEW d \in Containers \ missed', NEW i \in DOMAIN events', Last(d, i)'
               PROVE  events'[i].kind = "stop" <=> ~Up(d)'
    BY <1>1, <1>3 DEF EventsTell
  <2>1. i + 1 \in DOMAIN events /\ Last(d, i + 1) /\ events'[i] = events[i + 1]
    BY <1>3
  <2>2. events[i + 1].kind = "stop" <=> ~Up(d)
    BY <1>1, <2>1 DEF IInv, EventsTell
  <2> QED  BY <1>4, <2>1, <2>2
<1>9. EventsSuffice'
  <2> SUFFICES ASSUME phase = "watching", NEW d \in Containers \ missed',
                      Labels[d].valid, ~Announced(d)'
               PROVE  registry[d] \in Right(d)
    BY <1>1, <1>4, SufficeMeansNext DEF SufficeFor
  <2>1. d # c /\ d \notin missed
    BY <1>1
  <2>2. ~Announced(d)
    BY <1>3, <2>1
  <2> QED  BY <1>3, <2>1, <2>2, SufficeMeans DEF IInv, SufficeFor
<1>10. EntriesFollowRegistry'
  BY <1>1 DEF IInv, EntriesFollowRegistry, Dir!EntriesOf
<1> QED  BY <1>5, <1>6, <1>7, <1>8, <1>9, <1>10 DEF IInv

\* The watcher registers what it has inspected.
LEMMA CommitInv ==
  ASSUME IInv, Commit
  PROVE  IInv'
<1> DEFINE c == handler[1]
           info == handler[2]
<1>1. /\ handler # None /\ Unlocked
      /\ Register(c, info)
      /\ handler' = None
      /\ UNCHANGED <<docker, changes, faults, stream, events, phase, sync, disturbed, missed>>
  BY DEF Commit, world
<1>2. /\ TypeOK /\ EntriesFollowRegistry
      /\ c \in Containers /\ info \in Info
  BY <1>1 DEF IInv, TypeOK
<1>3. Labels[c].enabled
  BY <1>1 DEF IInv, OnlyEnabled
<1>4. \A d \in Containers \ missed : Labels[d].valid /\ ~Announced(d) /\ c = d => info \in Right(d)
  BY <1>1 DEF IInv, EventsTell
<1>5. \A d : d # c => ~(handler # None /\ handler[1] = d)
  OBVIOUS
<1> HIDE DEF c, info
<1>6. /\ registry' \in [Containers -> Info \cup {None}]
      /\ registry'[c] = info
      /\ \A d \in Containers : d # c => registry'[d] = registry[d]
      /\ entries' \subseteq Dir!Entry
      /\ entangled' \subseteq Containers
      /\ EntriesFollowRegistry'
  BY <1>1, <1>2, RegisterEffect
<1>7. \A d : Right(d)' = Right(d) /\ (Up(d)' <=> Up(d))
  BY <1>1, SameDocker
<1>8. TypeOK'
  BY <1>1, <1>2, <1>6 DEF TypeOK
<1>9. OnlyEnabled' /\ Disturbances'
  BY <1>1, <1>3, <1>6 DEF IInv, OnlyEnabled, Disturbances
<1>10. Progress'
  BY <1>1, UnlockedProgress
<1>11. EventsTell'
  BY <1>1, <1>7 DEF IInv, EventsTell, Last
<1>12. EventsSuffice'
  <2> SUFFICES ASSUME phase = "watching", NEW d \in Containers \ missed,
                      Labels[d].valid, ~Announced(d)
               PROVE  registry'[d] \in Right(d)
    BY <1>1, <1>7, SufficeMeansNext DEF SufficeFor, Announced
  <2>1. CASE d = c
    BY <1>4, <1>6, <2>1
  <2>2. CASE d # c
    BY <1>5, <1>6, <2>2, SufficeMeans DEF IInv, SufficeFor
  <2> QED  BY <2>1, <2>2
<1> QED  BY <1>6, <1>8, <1>9, <1>10, <1>11, <1>12 DEF IInv

\* A stopped container is taken out.
LEMMA OnStopInv ==
  ASSUME IInv, NEW c \in Containers, OnStop(c)
  PROVE  IInv'
<1>1. /\ Take({"stop"}, c) /\ Unlocked
      /\ registry[c] = None => UNCHANGED <<registry, entries, entangled>>
      /\ registry[c] # None => Unregister(c)
      /\ UNCHANGED <<docker, changes, faults, stream, handler, phase, sync, disturbed, missed>>
  BY DEF OnStop, world
<1>2. TypeOK /\ EntriesFollowRegistry
  BY DEF IInv
<1>3. /\ events' \in Seq(Event) /\ handler = None
      /\ 1 \in DOMAIN events /\ events[1].kind \in {"stop"}
      /\ \A d, j : j \in DOMAIN events' /\ Last(d, j)' =>
           /\ j + 1 \in DOMAIN events /\ Last(d, j + 1)
           /\ events'[j] = events[j + 1]
      /\ \A d : d # c => (Announced(d)' <=> Announced(d))
      /\ ~Announced(c)' => Last(c, 1)
  BY <1>1, <1>2, TakeEffect
<1>4. \A d : Right(d)' = Right(d) /\ (Up(d)' <=> Up(d))
  BY <1>1, SameDocker
<1>5. /\ registry' \in [Containers -> Info \cup {None}]
      /\ registry'[c] = None
      /\ \A d \in Containers : d # c => registry'[d] = registry[d]
      /\ entries' \subseteq Dir!Entry
      /\ entangled' \subseteq Containers
      /\ EntriesFollowRegistry'
  <2>1. CASE registry[c] = None
    <3>1. UNCHANGED <<registry, entries, entangled>>
      BY <1>1, <2>1
    <3>2. EntriesFollowRegistry'
      BY <1>2, <3>1 DEF EntriesFollowRegistry, Dir!EntriesOf
    <3> QED  BY <1>2, <2>1, <3>1, <3>2 DEF TypeOK
  <2>2. CASE registry[c] # None
    BY <1>1, <1>2, <2>2, UnregisterEffect
  <2> QED  BY <2>1, <2>2
<1>6. TypeOK'
  BY <1>1, <1>2, <1>3, <1>5 DEF TypeOK
<1>7. OnlyEnabled' /\ Disturbances'
  BY <1>1, <1>3, <1>5 DEF IInv, OnlyEnabled, Disturbances
<1>8. Progress'
  BY <1>1, UnlockedProgress
<1>9. EventsTell'
  <2> SUFFICES ASSUME NEW d \in Containers \ missed, NEW i \in DOMAIN events', Last(d, i)'
               PROVE  events'[i].kind = "stop" <=> ~Up(d)'
    BY <1>1, <1>3 DEF EventsTell
  <2>1. i + 1 \in DOMAIN events /\ Last(d, i + 1) /\ events'[i] = events[i + 1]
    BY <1>3
  <2>2. events[i + 1].kind = "stop" <=> ~Up(d)
    BY <2>1 DEF IInv, EventsTell
  <2> QED  BY <1>4, <2>1, <2>2
<1>10. EventsSuffice'
  <2> SUFFICES ASSUME phase = "watching", NEW d \in Containers \ missed,
                      Labels[d].valid, ~Announced(d)'
               PROVE  registry'[d] \in Right(d)
    BY <1>1, <1>4, SufficeMeansNext DEF SufficeFor
  <2>1. CASE d = c
    <3>1. ~Up(c)
      BY <1>3, <2>1 DEF IInv, EventsTell
    <3> QED  BY <1>5, <2>1, <3>1 DEF Right
  <2>2. CASE d # c
    BY <1>3, <1>5, <2>2, SufficeMeans DEF IInv, SufficeFor
  <2> QED  BY <2>1, <2>2
<1> QED  BY <1>5, <1>6, <1>7, <1>8, <1>9, <1>10 DEF IInv

-----------------------------------------------------------------------------
(* The theorems. *)

LEMMA NextInv == IInv /\ [Next]_vars => IInv'
<1> SUFFICES ASSUME IInv, [Next]_vars PROVE IInv'
  OBVIOUS
<1>1. CASE DockerStep
  BY <1>1, DockerChangesInv, SignalInv DEF DockerStep
<1>2. CASE Start
  BY <1>2, SignalInv
<1>3. CASE SyncStep
  BY <1>3, SyncListInv, SignalInv, SyncContainerInv, SyncContainerFailsInv, SyncRemoveInv,
     SyncDoneInv
     DEF SyncStep
<1>4. CASE WatchStep
  BY <1>4, SignalInv, InspectInv, InspectFailsInv, OnStopInv, CommitInv DEF WatchStep
<1>5. CASE UNCHANGED vars
  <2>1. UNCHANGED <<docker, changes, faults, stream, events, handler, phase, registry,
                    entries, sync, disturbed, missed, entangled>>
    BY <1>5 DEF vars, world, watcher, history
  <2>2. TypeOK' /\ Disturbances' /\ EntriesFollowRegistry'
    BY <2>1 DEF IInv, TypeOK, Disturbances, EntriesFollowRegistry, Dir!EntriesOf
  <2>3. OnlyEnabled' /\ EventsTell' /\ EventsSuffice'
    BY <2>1, TellUnchanged
  <2>4. Progress'
    <3>1. \A d \in Containers : /\ Up(d)' <=> Up(d)
                                /\ BuildInfo(d, Published[d])' = BuildInfo(d, Published[d])
      BY <2>1 DEF Up, BuildInfo
    <3> QED  BY <2>1, <3>1 DEF IInv, Progress
  <2> QED  BY <2>2, <2>3, <2>4 DEF IInv
<1> QED  BY <1>1, <1>2, <1>3, <1>4, <1>5 DEF Next

LEMMA InvariantHolds == Spec => []IInv
BY InitInv, NextInv, PTL DEF Spec

\* Discovery's state stays what Engine and the Docker client declare.
THEOREM TypeCorrect == Spec => []TypeOK
<1>1. IInv => TypeOK
  BY DEF IInv
<1> QED  BY InvariantHolds, <1>1, PTL

\* Handling the events of an open stream keeps the registry right between polls
\* (handleEvents, onContainerStart, onContainerStop).
THEOREM EventsCorrect == Spec => []EventsSuffice
<1>1. IInv => EventsSuffice
  BY DEF IInv
<1> QED  BY InvariantHolds, <1>1, PTL

\* Every write to Engine.containers goes with its call of AddRoute or
\* RemoveRoute: each registered container has its one entry in the table.
THEOREM EntriesCorrect == Spec => []EntriesFollowRegistry
<1>1. IInv => EntriesFollowRegistry
  BY DEF IInv
<1> QED  BY InvariantHolds, <1>1, PTL

\* A Sync repairs the registry, whatever the watcher did meanwhile.
THEOREM RepairsCorrect == Spec => SyncRepairs
<1>1. ASSUME IInv, [Next]_vars, sync # Idle, sync' = Idle
      PROVE  \A c \in Containers \ disturbed : registry[c] = Current(c)
  <2>1. SyncDone
    <3>1. \A c \in Containers : ~SyncContainer(c) /\ ~SyncContainerFails(c)
      BY <1>1, CheckedEffect DEF IInv, SyncContainer, SyncContainerFails
    <3>2. \A c \in Containers : ~SyncRemove(c)
      <4> SUFFICES ASSUME NEW c \in Containers, SyncRemove(c) PROVE FALSE
        OBVIOUS
      <4>1. sync' = [sync EXCEPT !.pc = "locked"]
        BY DEF SyncRemove
      <4>2. sync \in [pc: {"listed", "locked"}, seen: SUBSET Containers, todo: SUBSET Containers]
        BY <1>1, SyncFields DEF IInv
      <4> QED  BY <1>1, <4>1, <4>2 DEF Idle
    <3>3. ~SyncList /\ ~SyncListFails
      BY <1>1 DEF SyncList, SyncListFails
    <3>4. ~DockerStep /\ ~Start /\ ~WatchStep /\ ~UNCHANGED vars
      <4> SUFFICES ASSUME DockerStep \/ Start \/ WatchStep \/ UNCHANGED vars
                   PROVE  UNCHANGED sync
        BY <1>1
      <4>1. CASE DockerStep
        BY <4>1 DEF DockerStep, StartContainer, StopContainer, ChangeHealth, Change, StreamFails
      <4>2. CASE Start \/ UNCHANGED vars
        BY <4>2 DEF Start, vars
      <4>3. CASE WatchStep
        BY <4>3 DEF WatchStep, Subscribe, Inspect, InspectFails, OnStop, Commit
      <4> QED  BY <4>1, <4>2, <4>3
    <3> QED  BY <1>1, <3>1, <3>2, <3>3, <3>4 DEF Next, SyncStep
  <2> QED  BY <1>1, <2>1, SyncDoneRepairs
<1>2. IInv /\ [Next]_vars =>
        [sync # Idle /\ sync' = Idle =>
           \A c \in Containers \ disturbed : registry[c] = Current(c)]_vars
  BY <1>1
<1> QED  BY InvariantHolds, <1>2, PTL DEF Spec, SyncRepairs

=============================================================================
