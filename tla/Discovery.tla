------------------------------ MODULE Discovery ------------------------------
(***************************************************************************)
(* How the router learns which containers run: the discovery engine of     *)
(* internal/discovery/reconciler.go between the Docker daemon and the      *)
(* route table.                                                            *)
(*                                                                         *)
(*   - Docker starts and stops containers whenever it likes.  It answers   *)
(*     a list or an inspection with what is true at that moment, and sends *)
(*     lifecycle events while a stream is open;                            *)
(*   - the watcher handles the events of the stream one by one.  It        *)
(*     inspects a container before it takes Engine.mu to register it;      *)
(*   - the poll runs a full Sync every 30 seconds.  It lists the           *)
(*     containers before it takes Engine.mu and inspects each under it.    *)
(*                                                                         *)
(* The table is the Directory that RouteTable implements.  Labels belong   *)
(* to a container for good; its IP is assigned whenever it starts.         *)
(***************************************************************************)
EXTENDS Naturals, Sequences, FiniteSets

CONSTANTS
  Containers,
  Keys,
  RouteOf,     \* the route key a container's labels ask for
  Labels,      \* what ParseLabels makes of a container's labels
  Published,   \* the private port behind a container's published port, or 0
  AutoRemove,  \* the containers Docker removes when they stop
  IPs,         \* the addresses Docker hands out
  Ports,       \* the ports of the labels and of the published ports
  MaxChanges,  \* bound: changes of a container's state
  MaxFaults,   \* bound: failed calls and broken streams
  None         \* a Go nil or a missing map entry

NoIP == "no IP"
DefaultPort == 80

Address == [ip: IPs \cup {NoIP}, port: Ports \cup {DefaultPort}]

ASSUME ConstantsAssumption ==
  /\ RouteOf \in [Containers -> Keys]
  /\ Ports \subseteq Nat \ {0}
  /\ Labels \in [Containers -> [enabled: BOOLEAN, valid: BOOLEAN, port: Ports \cup {0},
                               address: Address \cup {None}]]
  /\ Published \in [Containers -> Ports \cup {0}]
  /\ AutoRemove \subseteq Containers
  /\ MaxChanges \in Nat
  /\ MaxFaults \in Nat
  /\ NoIP \notin IPs

\* What the registry keeps of a container, and what the sink is given.
Info == [addr: Address, healthy: BOOLEAN]

ASSUME NoneAssumption ==
  None \notin Address /\ None \notin Info /\ None \notin Containers \X Info

\* The status is what the two fields the code reads come to: "unhealthy" for
\* Status = "unhealthy" without Healthy, "running" for all the others.
Running == [status: {"running", "unhealthy"}, ip: IPs]

\* A stopped container has no IP; a removed one is not found any more.
Stopped == [status: {"exited", "gone"}, ip: {NoIP}]

Event == [kind: {"start", "stop", "health_status"}, cid: Containers]

SyncState ==
  [pc: {"idle"}]
    \cup [pc: {"listed", "locked"}, seen: SUBSET Containers, todo: SUBSET Containers]

VARIABLES
  docker,     \* the state of each container
  changes,    \* how many changes there have been
  faults,     \* how many faults there have been
  stream,     \* the event stream: "down", "open", or "stuck" on a decoding error
  events,     \* its channel
  phase,      \* Start: "new", "starting" (the first Sync), "watching" or "failed"
  registry,   \* Engine.containers
  entries,    \* the directory of backends
  sync,       \* the Sync under way
  handler,    \* the registration the watcher is about to make
  disturbed,  \* history: containers that changed or did not answer under this Sync
  missed,     \* history: changes without an event, or under a Sync
  entangled   \* history: containers at two addresses, or whose entry another took

world == <<docker, changes, faults>>
watcher == <<stream, events, handler>>
history == <<disturbed, missed, entangled>>
vars == <<world, watcher, phase, registry, entries, sync, history>>

Dir == INSTANCE Directory WITH Addresses <- Address

TypeOK ==
  /\ docker \in [Containers -> Running \cup Stopped]
  /\ changes \in 0 .. MaxChanges
  /\ faults \in 0 .. MaxFaults
  /\ stream \in {"down", "open", "stuck"}
  /\ events \in Seq(Event)
  /\ phase \in {"new", "starting", "watching", "failed"}
  /\ registry \in [Containers -> Info \cup {None}]
  /\ entries \subseteq Dir!Entry
  /\ sync \in SyncState
  /\ handler \in (Containers \X Info) \cup {None}
  /\ disturbed \subseteq Containers
  /\ missed \subseteq Containers
  /\ entangled \subseteq Containers

Up(c) == docker[c] \in Running

\* Docker gives no IP to two containers.
Free == IPs \ {docker[c].ip : c \in Containers}

Idle == [pc |-> "idle"]

\* Any containers may run already when the router starts.
Init ==
  /\ docker \in [Containers -> {d \in Running \cup Stopped : d.status \in {"running", "exited"}}]
  /\ \A c, d \in Containers : Up(c) /\ docker[c] = docker[d] => c = d
  /\ changes = 0
  /\ faults = 0
  /\ stream = "down"
  /\ events = <<>>
  /\ phase = "new"
  /\ registry = [c \in Containers |-> None]
  /\ Dir!Init
  /\ sync = Idle
  /\ handler = None
  /\ disturbed = {}
  /\ missed = {}
  /\ entangled = {}

-----------------------------------------------------------------------------
(* Docker. *)

\* A container changes, and an open stream says so.
Change(c, d, kind) ==
  /\ changes < MaxChanges
  /\ changes' = changes + 1
  /\ docker' = [docker EXCEPT ![c] = d]
  /\ events' = IF stream = "open" THEN Append(events, [kind |-> kind, cid |-> c]) ELSE events
  /\ disturbed' = IF sync = Idle THEN {} ELSE disturbed \cup {c}
  /\ missed' = IF stream = "open" /\ sync = Idle THEN missed ELSE missed \cup {c}
  /\ UNCHANGED <<faults, stream, handler, phase, registry, entries, sync, entangled>>

StartContainer(c) ==
  /\ docker[c].status = "exited"
  /\ \E ip \in Free : Change(c, [status |-> "running", ip |-> ip], "start")

StopContainer(c) ==
  /\ Up(c)
  /\ Change(c, [status |-> IF c \in AutoRemove THEN "gone" ELSE "exited", ip |-> NoIP], "stop")

ChangeHealth(c) ==
  /\ Up(c)
  /\ \E s \in {"running", "unhealthy"} \ {docker[c].status} :
       Change(c, [docker[c] EXCEPT !.status = s], "health_status")

\* A call to Docker fails, or the stream does.
Fault == faults < MaxFaults /\ faults' = faults + 1

\* EventsStream: the end of the stream closes the channel, which still holds
\* what was decoded.  After any other error the decoder returns that error for
\* ever and the loop goes on: the channel is never closed.
StreamFails ==
  /\ stream = "open"
  /\ Fault
  /\ stream' \in {"down", "stuck"}
  /\ UNCHANGED <<docker, changes, events, handler, phase, registry, entries, sync, history>>

-----------------------------------------------------------------------------
(* The registry and its sink. *)

\* Mutant: nothing stands in for a port that is not known.
PortOrZero(c, published) == IF Labels[c].port # 0 THEN Labels[c].port ELSE published

\* The port of a backend: the label's, else a published one, else 80.
PortOf(c, published) ==
  CASE Labels[c].port # 0 -> Labels[c].port
    [] Labels[c].port = 0 /\ published # 0 -> published
    [] OTHER -> DefaultPort

\* buildContainerInfo: dr.address is taken as it is, and a container without an
\* IP gets an address all the same.
BuildInfo(c, published) ==
  [addr |-> IF Labels[c].address # None
            THEN Labels[c].address
            ELSE [ip |-> docker[c].ip, port |-> PortOf(c, published)],
   healthy |-> docker[c].status = "running"]

\* AddRoute, under Engine.mu.
Register(c, info) ==
  /\ registry' = [registry EXCEPT ![c] = info]
  /\ Dir!Announce(c, info.addr)
  /\ entangled' = entangled
       \cup {d \in {c} : registry[c] # None /\ registry[c].addr # info.addr}
       \cup {d \in Containers \ {c} :
               [key |-> RouteOf[c], addr |-> info.addr, cid |-> d] \in entries}

\* Mutant: the registry forgets the container and the route stays.
UnregisterKeepsRoute(c) ==
  /\ registry' = [registry EXCEPT ![c] = None]
  /\ UNCHANGED <<entries, entangled>>

\* RemoveRoute, under Engine.mu.
Unregister(c) ==
  /\ registry' = [registry EXCEPT ![c] = None]
  /\ Dir!Withdraw(c)
  /\ UNCHANGED entangled

\* Engine.mu, which a Sync holds from its first inspection to its end.
Unlocked == sync.pc # "locked"

-----------------------------------------------------------------------------
(* Start and Sync. *)

Start ==
  /\ phase = "new"
  /\ phase' = "starting"
  /\ UNCHANGED <<world, watcher, registry, entries, sync, history>>

\* The list is taken before the lock.
SyncList ==
  /\ phase \in {"starting", "watching"}
  /\ sync = Idle
  /\ LET seen == {c \in Containers : Up(c)}
     IN  sync' = [pc |-> "listed", seen |-> seen,
                  todo |-> {c \in seen : Labels[c].enabled}]
  /\ UNCHANGED <<world, watcher, phase, registry, entries, history>>

\* A first Sync that cannot list ends Start, and nothing starts it again.
SyncListFails ==
  /\ phase \in {"starting", "watching"}
  /\ sync = Idle
  /\ Fault
  /\ phase' = IF phase = "starting" THEN "failed" ELSE phase
  /\ UNCHANGED <<docker, changes, watcher, registry, entries, sync, history>>

\* The rest runs under the lock, which is taken before the first container.
Checked(c) ==
  /\ sync # Idle
  /\ c \in sync.todo
  /\ sync' = [sync EXCEPT !.pc = "locked", !.todo = @ \ {c}]

AllChecked == sync # Idle /\ sync.todo = {}

\* Mutant: what is registered already is not looked at again.
SyncContainerOnce(c) ==
  /\ Checked(c)
  /\ docker[c].status # "gone"
  /\ IF registry[c] # None
     THEN UNCHANGED <<registry, entries, entangled>>
     ELSE Register(c, BuildInfo(c, Published[c]))
  /\ UNCHANGED <<world, watcher, phase, disturbed, missed>>

\* A listed container is inspected and registered if it is new or has changed.
\* It may have stopped since it was listed.
SyncContainer(c) ==
  /\ Checked(c)
  /\ docker[c].status # "gone"
  /\ LET info == BuildInfo(c, Published[c])
     IN  IF registry[c] = info
         THEN UNCHANGED <<registry, entries, entangled>>
         ELSE Register(c, info)
  /\ UNCHANGED <<world, watcher, phase, disturbed, missed>>

\* The inspection fails: the container stays as it is registered.
SyncContainerFails(c) ==
  /\ Checked(c)
  /\ IF docker[c].status = "gone" THEN UNCHANGED faults ELSE Fault
  /\ disturbed' = disturbed \cup {c}
  /\ missed' = missed \cup {c}
  /\ UNCHANGED <<docker, changes, watcher, phase, registry, entries, entangled>>

\* What is registered and was not listed is removed.
SyncRemove(c) ==
  /\ AllChecked
  /\ registry[c] # None
  /\ c \notin sync.seen
  /\ Unregister(c)
  /\ sync' = [sync EXCEPT !.pc = "locked"]
  /\ UNCHANGED <<world, watcher, phase, disturbed, missed>>

\* Mutant: a Sync may end before it has removed what is gone.
SyncDoneEarly ==
  /\ AllChecked
  /\ sync' = Idle
  /\ phase' = "watching"
  /\ disturbed' = {}
  /\ UNCHANGED <<world, watcher, registry, entries, missed, entangled>>

\* The end of the first Sync starts the watcher and the poll.
SyncDone ==
  /\ AllChecked
  /\ \A c \in Containers : registry[c] # None => c \in sync.seen
  /\ sync' = Idle
  /\ phase' = "watching"
  /\ disturbed' = {}
  /\ UNCHANGED <<world, watcher, registry, entries, missed, entangled>>

-----------------------------------------------------------------------------
(* The watcher. *)

\* A new stream is opened once the old channel has been drained.  It carries
\* nothing of what happened before.
Subscribe ==
  /\ phase = "watching"
  /\ stream = "down"
  /\ events = <<>>
  /\ handler = None
  /\ stream' = "open"
  /\ UNCHANGED <<world, events, handler, phase, registry, entries, sync, history>>

\* The watcher takes the next event when it is done with the last one.
Take(kinds, c) ==
  /\ handler = None
  /\ events # <<>>
  /\ Head(events).kind \in kinds
  /\ Head(events).cid = c
  /\ events' = Tail(events)

\* onContainerStart, for starts and changes of health: the container is
\* inspected and its labels validated outside the lock.  Ports are only known
\* from a list.
Inspect(c) ==
  /\ Take({"start", "health_status"}, c)
  /\ handler' = IF docker[c].status # "gone" /\ Labels[c].enabled /\ Labels[c].valid
                THEN <<c, BuildInfo(c, 0)>>
                ELSE None
  /\ UNCHANGED <<world, stream, phase, registry, entries, sync, history>>

InspectFails(c) ==
  /\ Take({"start", "health_status"}, c)
  /\ Fault
  /\ missed' = missed \cup {c}
  /\ UNCHANGED <<docker, changes, stream, handler, phase, registry, entries, sync,
                 disturbed, entangled>>

\* ... and registered under the lock, with what the inspection said.
Commit ==
  /\ handler # None
  /\ Unlocked
  /\ Register(handler[1], handler[2])
  /\ handler' = None
  /\ UNCHANGED <<world, stream, events, phase, sync, disturbed, missed>>

\* Mutant: the event is not taken for a stop.
OnStopIgnored(c) ==
  /\ Take({"stop"}, c)
  /\ UNCHANGED <<world, stream, handler, phase, registry, entries, sync, history>>

\* onContainerStop.
OnStop(c) ==
  /\ Take({"stop"}, c)
  /\ Unlocked
  /\ IF registry[c] = None
     THEN UNCHANGED <<registry, entries, entangled>>
     ELSE Unregister(c)
  /\ UNCHANGED <<world, stream, handler, phase, sync, disturbed, missed>>

-----------------------------------------------------------------------------
DockerStep ==
  \/ \E c \in Containers : StartContainer(c) \/ StopContainer(c) \/ ChangeHealth(c)
  \/ StreamFails

SyncStep ==
  \/ SyncList
  \/ SyncListFails
  \/ \E c \in Containers : SyncContainer(c) \/ SyncContainerFails(c) \/ SyncRemove(c)
  \/ SyncDone

WatchStep ==
  \/ Subscribe
  \/ \E c \in Containers : Inspect(c) \/ InspectFails(c) \/ OnStop(c)
  \/ Commit

Next == DockerStep \/ Start \/ SyncStep \/ WatchStep

\* The goroutines keep running, the ticker of the poll keeps firing, and a call
\* to Docker that is made again and again is answered.  Nothing is assumed of
\* Docker's own steps.
Fairness ==
  /\ WF_vars(Start)
  /\ WF_vars(SyncList)
  /\ \A c \in Containers :
       /\ WF_vars(SyncContainer(c) \/ SyncContainerFails(c))
       /\ WF_vars(SyncRemove(c))
       /\ WF_vars(Inspect(c))
       /\ WF_vars(OnStop(c))
  /\ WF_vars(SyncDone)
  /\ WF_vars(Commit)

Spec == Init /\ [][Next]_vars
FairSpec == Spec /\ Fairness

-----------------------------------------------------------------------------
(* Properties. *)

\* What a Sync that sees container c as it is would leave in the registry.
Current(c) == IF Up(c) /\ Labels[c].enabled THEN BuildInfo(c, Published[c]) ELSE None

\* A Sync leaves the registry right about every container that did not change
\* and could be inspected while it ran, whatever events were handled meanwhile
\* and whatever was wrong before.
SyncRepairs ==
  [][sync # Idle /\ sync' = Idle =>
       \A c \in Containers \ disturbed : registry[c] = Current(c)]_vars

Pending(c) ==
  \/ \E i \in DOMAIN events : events[i].cid = c
  \/ handler # None /\ handler[1] = c

\* Between polls the events are enough: the registry is right about a
\* container whose changes were all sent on an open stream and whose events
\* have been handled.  Only changes without a stream, a failed inspection and
\* changes under a Sync make it wrong.  The port may be the one the events give.
EventsSuffice ==
  phase = "watching" =>
    \A c \in Containers \ missed :
      Labels[c].valid /\ ~Pending(c) =>
        registry[c] \in IF Up(c) /\ Labels[c].enabled
                        THEN {BuildInfo(c, Published[c]), BuildInfo(c, 0)}
                        ELSE {None}

\* Every registered container has its one entry in the table, and no other
\* container has any (AddRoute and RemoveRoute are called with every write to
\* Engine.containers), unless it was seen at two addresses or another one took
\* its entry over.
EntriesFollowRegistry ==
  \A c \in Containers \ entangled :
    Dir!EntriesOf(c) =
      IF registry[c] = None THEN {}
      ELSE {[key |-> RouteOf[c], addr |-> registry[c].addr, cid |-> c]}

\* Once Docker leaves a container alone the registry comes to say what Docker
\* says, whatever events were lost and however the polls raced with the rest.
RegistryConverges ==
  <>[](phase = "watching" => \A c \in Containers : registry[c] = Current(c))

\* ... and the table serves exactly the containers that run, each at its one
\* address, unless it was seen at two or another one took its entry over.
DirectoryConverges ==
  <>[](phase = "watching" =>
         \A c \in Containers \ entangled :
           Dir!EntriesOf(c) =
             IF Current(c) = None THEN {}
             ELSE {[key |-> RouteOf[c], addr |-> Current(c).addr, cid |-> c]})

=============================================================================
