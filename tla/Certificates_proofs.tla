-------------------------- MODULE Certificates_proofs --------------------------
(***************************************************************************)
(* Proofs about Certificates, for any names, any calls of AddRoute and     *)
(* faults at any time: the files on disk belong together, a name under     *)
(* validation has its token, and what is renewed reaches memory.           *)
(***************************************************************************)
EXTENDS Certificates, TLAPS

-----------------------------------------------------------------------------
(* The inductive invariant. *)

\* The authorization an order is at is one of those it has left.
LeftToDo ==
  \A t \in Tasks : tasks[t].pc \in {"trigger", "wait"} => Current(t) \in tasks[t].left

\* Between the two files of a save nobody else has written to the domain, and
\* the key that is there is not the certificate's.
SaverWrote ==
  \A t \in Tasks :
    At(t, "key") => disk[DomainOf(t)].by = t /\ disk[DomainOf(t)].key # "own"

\* What a goroutine has saved or is about to serve is not due: weeks do not pass
\* under it, and nobody stores anything but new certificates.
SavedIsFresh ==
  \A t \in Tasks :
    /\ tasks[t].pc \in {"key", "load", "put"} => disk[DomainOf(t)].cert = "fresh"
    /\ At(t, "put") => tasks[t].cert = "fresh"

\* An authorization that is triggered or waited for, and is not decided, has its
\* token, unless another order for the name gave up.
AwaitedHasToken ==
  \A t \in Tasks :
    tasks[t].pc \in {"trigger", "wait"} /\ authz[Current(t)] \in {"pending", "processing"} =>
      Current(t) \in tokens \cup gaveUp

\* Memory has what the disk has, or a goroutine is on the way with it.
MemoryFollows ==
  \A n \in Stored \ (overtaken \cup aliased) :
    mem[n] # None /\ Loadable(n) =>
      \/ mem[n] = disk[n].cert
      \/ \E t \in Tasks : DomainOf(t) = n /\ tasks[t].pc \in {"load", "put"}

IInv ==
  /\ TypeOK
  /\ LeftToDo
  /\ SaverWrote
  /\ SavedIsFresh
  /\ AwaitedHasToken
  /\ TokenInPlace
  /\ FilesBelongTogether
  /\ MemoryFollows

-----------------------------------------------------------------------------
(* The helpers of the steps. *)

\* Every goroutine works for one stored domain.
LEMMA TaskDomains ==
  /\ Stored \subseteq Names
  /\ \A t \in Tasks : /\ DomainOf(t) \in Stored /\ DomainOf(t) \in Names
                      /\ AltsOf(t) \subseteq Names
                      /\ OrderedBy(t) \subseteq Names /\ OrderedBy(t) # {}
<1>1. Stored \subseteq Names
  BY ConstantsAssumption DEF Stored
<1>2. \A t \in Tasks : DomainOf(t) \in Stored
  BY DEF Tasks, DomainOf, Stored
<1>3. \A t : AltsOf(t) \subseteq Names
  BY ConstantsAssumption DEF AltsOf
<1> QED  BY <1>1, <1>2, <1>3 DEF OrderedBy

\* The states a goroutine can be given.
LEMMA PlainStates ==
  /\ \A p \in {"idle", "ensure", "forget", "order", "doomed", "obtain", "save", "key", "load",
               "alias"} :
       [pc |-> p] \in TaskState
  /\ \A left \in SUBSET Names : [pc |-> "authz", left |-> left] \in TaskState
  /\ \A p \in {"trigger", "wait"}, n \in Names, left \in SUBSET Names :
       [pc |-> p, name |-> n, left |-> left] \in TaskState
  /\ \A cert \in Ages : [pc |-> "put", cert |-> cert] \in TaskState
  /\ Idle \in TaskState /\ Idle.pc = "idle"
BY DEF TaskState, Idle

LEMMA BecomesEffect ==
  ASSUME TypeOK, NEW t \in Tasks, NEW state \in TaskState, Becomes(t, state)
  PROVE  /\ tasks' \in [Tasks -> TaskState]
         /\ tasks'[t] = state
         /\ \A u \in Tasks : u # t => tasks'[u] = tasks[u]
BY DEF TypeOK, Becomes

\* The name an order is at is one of its own.
LEMMA CurrentType ==
  ASSUME TypeOK, NEW t \in Tasks, tasks[t].pc \in {"trigger", "wait"}
  PROVE  /\ tasks[t] \in [pc: {"trigger", "wait"}, name: Names, left: SUBSET Names]
         /\ Current(t) \in Names
<1>1. tasks[t] \in TaskState
  BY DEF TypeOK
<1>2. tasks[t] \in [pc: {"trigger", "wait"}, name: Names, left: SUBSET Names]
  BY <1>1 DEF TaskState
<1> QED  BY <1>2 DEF Current

\* Two goroutines never save the same domain at a time.
LEMMA OneSaver ==
  ASSUME IInv, NEW t \in Tasks, NEW u \in Tasks, At(t, "key"), At(u, "key"),
         DomainOf(t) = DomainOf(u)
  PROVE  t = u
BY DEF IInv, SaverWrote

\* Where a goroutine deals with its own files and memory, ...
FileStates == {"key", "load", "put"}

\* ... and where it deals with its authorizations.
OrderStates == {"authz", "trigger", "wait"}

\* A step that leaves the files, the memory and the goroutines that deal with
\* them alone.

LEMMA FilesUntouched ==
  ASSUME IInv, UNCHANGED <<stored, served>>,
         \A u \in Tasks : tasks[u].pc \in FileStates \/ tasks'[u].pc \in FileStates =>
                            tasks'[u] = tasks[u]
  PROVE  SaverWrote' /\ SavedIsFresh' /\ FilesBelongTogether' /\ MemoryFollows'
<1>1. UNCHANGED <<disk, torn, mem, overtaken, aliased>>
  BY DEF stored, served
<1>2. \A n : Loadable(n)' <=> Loadable(n)
  BY <1>1 DEF Loadable
<1>3. SaverWrote' /\ SavedIsFresh'
  BY <1>1 DEF IInv, SaverWrote, SavedIsFresh, At, FileStates
<1>4. FilesBelongTogether'
  BY <1>1, <1>2 DEF IInv, FilesBelongTogether, At, FileStates
<1>5. MemoryFollows'
  BY <1>1, <1>2 DEF IInv, MemoryFollows, FileStates
<1> QED  BY <1>3, <1>4, <1>5

\* A step that leaves the server, the tokens and the orders under way alone.

LEMMA TokensUntouched ==
  ASSUME IInv, UNCHANGED server,
         \A u \in Tasks : tasks'[u].pc \in OrderStates => tasks'[u] = tasks[u]
  PROVE  LeftToDo' /\ AwaitedHasToken' /\ TokenInPlace'
<1>1. UNCHANGED <<authz, tokens, gaveUp>>
  BY DEF server
<1>2. LeftToDo' /\ TokenInPlace'
  BY <1>1 DEF IInv, LeftToDo, TokenInPlace, OrderStates, Current
<1>3. AwaitedHasToken'
  <2> SUFFICES ASSUME NEW t \in Tasks, tasks'[t].pc \in {"trigger", "wait"},
                      authz[Current(t)'] \in {"pending", "processing"}
               PROVE  Current(t)' \in tokens \cup gaveUp
    BY <1>1 DEF AwaitedHasToken
  <2>1. tasks'[t] = tasks[t]
    BY DEF OrderStates
  <2>2. Current(t)' = Current(t)
    BY <2>1 DEF Current
  <2> QED  BY <2>1, <2>2 DEF IInv, AwaitedHasToken
<1> QED  BY <1>2, <1>3

-----------------------------------------------------------------------------
(* Every step preserves the invariant. *)

LEMMA InitInv == Init => IInv
<1> SUFFICES ASSUME Init PROVE IInv
  OBVIOUS
<1>1. \A t \in Tasks : tasks[t] = Idle /\ tasks[t].pc = "idle"
  BY PlainStates DEF Init
<1>2. TypeOK
  <2>1. [cert |-> None, key |-> None, by |-> None] \in Files
    BY DEF Files
  <2>2. shake \in [pc: {"idle"}]
    BY DEF Init, Idle
  <2> QED  BY <2>1, <2>2, PlainStates DEF Init, TypeOK
<1>3. LeftToDo /\ SaverWrote /\ SavedIsFresh /\ AwaitedHasToken
  BY <1>1 DEF LeftToDo, SaverWrote, SavedIsFresh, AwaitedHasToken, At
<1>4. TokenInPlace
  BY DEF Init, TokenInPlace
<1>5. FilesBelongTogether /\ MemoryFollows
  BY TaskDomains DEF Init, FilesBelongTogether, MemoryFollows
<1> QED  BY <1>2, <1>3, <1>4, <1>5 DEF IInv

\* A step of a goroutine between the disk and the server changes nothing but
\* where it is.
LEMMA MoveInv ==
  ASSUME IInv, NEW t \in Tasks,
         NEW p \in {"idle", "ensure", "forget", "order", "obtain", "save"},
         tasks[t].pc \notin FileStates,
         Becomes(t, [pc |-> p]),
         UNCHANGED <<stored, served, server, account, shake>>
  PROVE  IInv'
<1>1. [pc |-> p] \in TaskState
  BY PlainStates
<1>2. /\ tasks' \in [Tasks -> TaskState]
      /\ tasks'[t].pc = p
      /\ \A u \in Tasks : u # t => tasks'[u] = tasks[u]
  BY <1>1, BecomesEffect DEF IInv
<1>3. TypeOK'
  BY <1>2 DEF IInv, TypeOK, stored, served, server
<1>4. SaverWrote' /\ SavedIsFresh' /\ FilesBelongTogether' /\ MemoryFollows'
  BY <1>2, FilesUntouched DEF FileStates
<1>5. LeftToDo' /\ AwaitedHasToken' /\ TokenInPlace'
  BY <1>2, TokensUntouched DEF OrderStates
<1> QED  BY <1>3, <1>4, <1>5 DEF IInv

\* What starts a goroutine, and what ends or moves it without a trace.
LEMMA MovesInv ==
  ASSUME IInv, NEW t \in Tasks,
         StartRoute(t) \/ Demand(t) \/ StartRenewal(t) \/ RequestFails(t) \/ OrderRefused(t)
           \/ Doomed(t) \/ Obtain(t) \/ IssuedLater(t)
  PROVE  IInv'
<1>1. Idle = [pc |-> "idle"]
  BY DEF Idle
<1>2. CASE StartRoute(t) \/ Demand(t) \/ StartRenewal(t)
  BY <1>2, MoveInv DEF StartRoute, Demand, StartRenewal, At, FileStates
<1>3. CASE RequestFails(t) \/ OrderRefused(t)
  BY <1>1, <1>3, MoveInv DEF RequestFails, OrderRefused, At, FileStates
<1>4. CASE Doomed(t) \/ Obtain(t) \/ IssuedLater(t)
  BY <1>1, <1>4, MoveInv DEF Doomed, Obtain, IssuedLater, At, FileStates
<1> QED  BY <1>2, <1>3, <1>4

\* A handshake loads what the disk has, ...
LEMMA HandshakeInv ==
  ASSUME IInv, NEW n \in Asked, Handshake(n)
  PROVE  IInv'
<1>1. /\ Loadable(n)
      /\ shake' = [pc |-> "put", name |-> n, cert |-> disk[n].cert]
      /\ UNCHANGED <<stored, served, server, account, tasks>>
  BY DEF Handshake
<1>2. n \in Stored /\ disk[n] \in Files /\ disk[n].cert # None
  BY <1>1 DEF IInv, TypeOK, Stored, Loadable
<1>3. disk[n].cert \in Ages
  BY <1>2 DEF Files
<1>4. TypeOK'
  BY <1>1, <1>3 DEF IInv, TypeOK, stored, served, server
<1>5. SaverWrote' /\ SavedIsFresh' /\ FilesBelongTogether' /\ MemoryFollows'
  BY <1>1, FilesUntouched
<1>6. LeftToDo' /\ AwaitedHasToken' /\ TokenInPlace'
  BY <1>1, TokensUntouched
<1> QED  BY <1>4, <1>5, <1>6 DEF IInv

\* A step that writes to memory only, for one name, what the disk has there, or
\* something it is known not to have, or nothing.
LEMMA MemoryWritten ==
  ASSUME IInv, NEW d \in Stored, NEW cert \in Ages \cup {None},
         mem' = [mem EXCEPT ![d] = cert],
         overtaken' \in {overtaken \ {d}, overtaken \cup {d}},
         aliased' = aliased \ {d},
         cert # None /\ cert # disk[d].cert => d \in overtaken',
         UNCHANGED stored,
         \A u \in Tasks : \/ DomainOf(u) = d
                          \/ tasks'[u] = tasks[u]
  PROVE  /\ MemoryFollows'
         /\ mem' \in [Stored -> Ages \cup {None}]
         /\ overtaken' \subseteq Stored /\ aliased' \subseteq Stored
<1>1. /\ mem \in [Stored -> Ages \cup {None}]
      /\ overtaken \subseteq Stored /\ aliased \subseteq Stored
  BY DEF IInv, TypeOK
<1>2. UNCHANGED <<disk, torn>> /\ \A n : Loadable(n)' <=> Loadable(n)
  BY DEF stored, Loadable
<1>3. mem'[d] = cert /\ \A n \in Stored : n # d => mem'[n] = mem[n]
  BY <1>1
<1>4. ASSUME NEW n \in Stored \ (overtaken' \cup aliased'), mem'[n] # None, Loadable(n)
      PROVE  \/ mem'[n] = disk[n].cert
             \/ \E t \in Tasks : DomainOf(t) = n /\ tasks'[t].pc \in {"load", "put"}
  <2>1. CASE n = d
    BY <1>3, <1>4, <2>1
  <2>2. CASE n # d
    <3>1. mem'[n] = mem[n] /\ n \notin overtaken \cup aliased
      BY <1>3, <1>4, <2>2
    <3> QED  BY <1>4, <2>2, <3>1 DEF IInv, MemoryFollows
  <2> QED  BY <2>1, <2>2
<1>5. MemoryFollows'
  BY <1>2, <1>4 DEF MemoryFollows
<1> QED  BY <1>1, <1>5

\* ... and may put it into memory after a renewal has.
LEMMA PutHandshakeInv ==
  ASSUME IInv, PutHandshake
  PROVE  IInv'
<1> DEFINE d == shake.name
<1>1. /\ shake.pc = "put"
      /\ mem' = [mem EXCEPT ![d] = shake.cert]
      /\ overtaken' = IF shake.cert = disk[d].cert THEN overtaken \ {d} ELSE overtaken \cup {d}
      /\ aliased' = aliased \ {d}
      /\ shake' = Idle
      /\ UNCHANGED <<stored, server, account, tasks>>
  BY DEF PutHandshake
<1>2. TypeOK /\ shake \in [pc: {"put"}, name: Asked, cert: Ages]
  BY <1>1 DEF IInv, TypeOK
<1>3. d \in Stored /\ shake.cert \in Ages
  BY <1>2 DEF Stored
<1> HIDE DEF d
<1>4. /\ MemoryFollows'
      /\ mem' \in [Stored -> Ages \cup {None}]
      /\ overtaken' \subseteq Stored /\ aliased' \subseteq Stored
  <2>1. shake.cert \in Ages \cup {None}
    BY <1>3
  <2>2. overtaken' \in {overtaken \ {d}, overtaken \cup {d}}
    BY <1>1
  <2>3. shake.cert # disk[d].cert => d \in overtaken'
    BY <1>1
  <2>4. \A u \in Tasks : tasks'[u] = tasks[u]
    BY <1>1
  <2> QED  BY <1>1, <1>3, <2>1, <2>2, <2>3, <2>4, MemoryWritten
<1>5. TypeOK'
  BY <1>1, <1>2, <1>4 DEF TypeOK, stored, server, Idle
<1>6. LeftToDo' /\ AwaitedHasToken' /\ TokenInPlace'
  BY <1>1, TokensUntouched
<1>7. SaverWrote' /\ SavedIsFresh' /\ FilesBelongTogether'
  BY <1>1 DEF IInv, SaverWrote, SavedIsFresh, FilesBelongTogether, Loadable, At, stored
<1> QED  BY <1>4, <1>5, <1>6, <1>7 DEF IInv

\* A renewal begins by forgetting the certificate.
LEMMA ForgetInv ==
  ASSUME IInv, NEW t \in Tasks, Forget(t)
  PROVE  IInv'
<1> DEFINE d == DomainOf(t)
<1>1. /\ At(t, "forget")
      /\ mem' = [mem EXCEPT ![d] = None]
      /\ overtaken' = overtaken \ {d} /\ aliased' = aliased \ {d}
      /\ Becomes(t, [pc |-> "order"])
      /\ UNCHANGED <<stored, server, account, shake>>
  BY DEF Forget
<1>2. /\ tasks' \in [Tasks -> TaskState]
      /\ tasks'[t].pc = "order"
      /\ \A u \in Tasks : u # t => tasks'[u] = tasks[u]
  BY <1>1, PlainStates, BecomesEffect DEF IInv
<1>3. d \in Stored
  BY TaskDomains
<1>4. \A u \in Tasks : DomainOf(u) = d \/ tasks'[u] = tasks[u]
  BY <1>2
<1> HIDE DEF d
<1>5. /\ MemoryFollows'
      /\ mem' \in [Stored -> Ages \cup {None}]
      /\ overtaken' \subseteq Stored /\ aliased' \subseteq Stored
  BY <1>1, <1>3, <1>4, MemoryWritten
<1>6. TypeOK'
  BY <1>1, <1>2, <1>5 DEF IInv, TypeOK, stored, server
<1>7. LeftToDo' /\ AwaitedHasToken' /\ TokenInPlace'
  BY <1>1, <1>2, TokensUntouched DEF OrderStates
<1>8. SaverWrote' /\ SavedIsFresh' /\ FilesBelongTogether'
  <2>1. UNCHANGED <<disk, torn>> /\ tasks[t].pc = "forget"
    BY <1>1 DEF stored, At
  <2>2. SaverWrote' /\ SavedIsFresh'
    BY <1>2, <2>1 DEF IInv, SaverWrote, SavedIsFresh, At
  <2>3. FilesBelongTogether'
    BY <1>2, <2>1 DEF IInv, FilesBelongTogether, Loadable, At
  <2> QED  BY <2>2, <2>3
<1> QED  BY <1>5, <1>6, <1>7, <1>8 DEF IInv

\* What is stored and not due will be served.
LEMMA EnsureInv ==
  ASSUME IInv, NEW t \in Tasks, Ensure(t)
  PROVE  IInv'
<1> DEFINE d == DomainOf(t)
<1>1. /\ At(t, "ensure")
      /\ Loadable(d) /\ disk[d].cert = "fresh" => Becomes(t, [pc |-> "put", cert |-> "fresh"])
      /\ ~(Loadable(d) /\ disk[d].cert = "fresh") => Becomes(t, [pc |-> "order"])
      /\ UNCHANGED <<stored, served, server, account, shake>>
  BY DEF Ensure
<1>2. CASE ~(Loadable(d) /\ disk[d].cert = "fresh")
  BY <1>1, <1>2, MoveInv DEF At, FileStates
<1>3. CASE Loadable(d) /\ disk[d].cert = "fresh"
  <2>1. [pc |-> "put", cert |-> "fresh"] \in TaskState
    BY PlainStates DEF Ages
  <2>2. /\ tasks' \in [Tasks -> TaskState]
        /\ tasks'[t].pc = "put" /\ tasks'[t].cert = "fresh"
        /\ \A u \in Tasks : u # t => tasks'[u] = tasks[u]
    BY <1>1, <1>3, <2>1, BecomesEffect DEF IInv
  <2>3. UNCHANGED <<disk, torn, mem, overtaken, aliased>>
    BY <1>1 DEF stored, served
  <2>4. TypeOK'
    BY <1>1, <2>2 DEF IInv, TypeOK, stored, served, server
  <2>5. LeftToDo' /\ AwaitedHasToken' /\ TokenInPlace'
    BY <1>1, <2>2, TokensUntouched DEF OrderStates
  <2>6. SaverWrote' /\ SavedIsFresh'
    BY <1>3, <2>2, <2>3 DEF IInv, SaverWrote, SavedIsFresh, At
  <2>7. FilesBelongTogether'
    BY <1>1, <2>2, <2>3 DEF IInv, FilesBelongTogether, Loadable, At
  <2>8. MemoryFollows'
    BY <2>2, <2>3 DEF IInv, MemoryFollows, Loadable
  <2> QED  BY <2>4, <2>5, <2>6, <2>7, <2>8 DEF IInv
<1> QED  BY <1>2, <1>3

\* An order for a name whose authorization failed gives it a new one, and the
\* orders that depended on the old one are lost.
LEMMA OrderInv ==
  ASSUME IInv, NEW t \in Tasks, Order(t)
  PROVE  IInv'
<1> DEFINE new == {n \in OrderedBy(t) : authz[n] \in {"none", "invalid"}}
<1>1. /\ tasks[t].pc = "order"
      /\ authz' = [n \in Names |-> IF n \in new THEN "pending" ELSE authz[n]]
      /\ tokens' = tokens \ new
      /\ gaveUp' = gaveUp \ new
      /\ tasks' = [u \in Tasks |->
                     IF u = t THEN [pc |-> "authz", left |-> OrderedBy(t)]
                     ELSE IF tasks[u].pc \in {"authz", "trigger", "wait"}
                               /\ tasks[u].left \cap new # {}
                     THEN [pc |-> "doomed"] ELSE tasks[u]]
      /\ UNCHANGED <<stored, served, account, shake>>
  BY DEF Order, At
<1>2. OrderedBy(t) \subseteq Names /\ OrderedBy(t) # {}
  BY TaskDomains
<1>3. new \subseteq Names
  BY <1>2
<1> HIDE DEF new
<1>4. TypeOK /\ LeftToDo
  BY DEF IInv
<1>5. /\ tasks'[t] = [pc |-> "authz", left |-> OrderedBy(t)]
      /\ \A u \in Tasks : u # t => \/ tasks'[u] = tasks[u]
                                   \/ /\ tasks'[u] = [pc |-> "doomed"]
                                      /\ tasks[u].pc \in {"authz", "trigger", "wait"}
      /\ \A u \in Tasks : u # t /\ tasks'[u].pc \in {"authz", "trigger", "wait"} =>
           tasks'[u] = tasks[u] /\ tasks[u].left \cap new = {}
  BY <1>1
<1>6. TypeOK'
  <2>1. [pc |-> "authz", left |-> OrderedBy(t)] \in TaskState /\ [pc |-> "doomed"] \in TaskState
    BY <1>2, PlainStates
  <2>2. tasks' \in [Tasks -> TaskState]
    BY <1>1, <1>4, <2>1 DEF TypeOK
  <2>3. authz' \in [Names -> {"none", "pending", "processing", "valid", "invalid"}]
    BY <1>1, <1>4 DEF TypeOK
  <2> QED  BY <1>1, <1>4, <2>2, <2>3 DEF TypeOK, stored, served
<1>7. SaverWrote' /\ SavedIsFresh' /\ FilesBelongTogether' /\ MemoryFollows'
  BY <1>1, <1>5, FilesUntouched DEF FileStates
<1>8. LeftToDo'
  BY <1>4, <1>5 DEF LeftToDo, Current
<1>9. AwaitedHasToken'
  <2> SUFFICES ASSUME NEW u \in Tasks, tasks'[u].pc \in {"trigger", "wait"},
                      authz'[Current(u)'] \in {"pending", "processing"}
               PROVE  Current(u)' \in tokens' \cup gaveUp'
    BY DEF AwaitedHasToken
  <2>1. tasks'[u] = tasks[u] /\ tasks[u].left \cap new = {}
    BY <1>5
  <2>2. Current(u)' = Current(u)
    BY <2>1 DEF Current
  <2>3. Current(u) \in tasks[u].left /\ Current(u) \in Names
    BY <1>4, <2>1, CurrentType DEF LeftToDo
  <2>4. Current(u) \notin new /\ authz'[Current(u)] = authz[Current(u)]
    BY <1>1, <2>1, <2>3
  <2> QED  BY <1>1, <2>1, <2>2, <2>4 DEF IInv, AwaitedHasToken
<1>10. TokenInPlace'
  BY <1>1 DEF IInv, TokenInPlace
<1> QED  BY <1>6, <1>7, <1>8, <1>9, <1>10 DEF IInv

\* The token is set before the challenge is triggered.
LEMMA AuthzInv ==
  ASSUME IInv, NEW t \in Tasks, NEW n \in Names, Authz(t, n)
  PROVE  IInv'
<1> DEFINE state == [pc |-> "trigger", name |-> n, left |-> tasks[t].left]
<1>1. /\ tasks[t].pc = "authz" /\ n \in tasks[t].left
      /\ tokens' = tokens \cup {n}
      /\ gaveUp' = gaveUp \ {n}
      /\ Becomes(t, state)
      /\ UNCHANGED <<stored, served, authz, account, shake>>
  BY DEF Authz, At
<1>2. tasks[t] \in TaskState
  BY DEF IInv, TypeOK
<1>3. tasks[t].left \in SUBSET Names
  BY <1>1, <1>2 DEF TaskState
<1>4. state \in TaskState
  BY <1>3, PlainStates
<1>5. state.pc = "trigger" /\ state.name = n /\ state.left = tasks[t].left
  OBVIOUS
<1> HIDE DEF state
<1>6. /\ tasks' \in [Tasks -> TaskState]
      /\ tasks'[t] = state
      /\ \A u \in Tasks : u # t => tasks'[u] = tasks[u]
  BY <1>1, <1>4, BecomesEffect DEF IInv
<1>7. TypeOK'
  BY <1>1, <1>6 DEF IInv, TypeOK, stored, served
<1>8. SaverWrote' /\ SavedIsFresh' /\ FilesBelongTogether' /\ MemoryFollows'
  BY <1>1, <1>5, <1>6, FilesUntouched DEF FileStates
<1>9. LeftToDo'
  BY <1>1, <1>5, <1>6 DEF IInv, LeftToDo, Current
<1>10. AwaitedHasToken'
  <2> SUFFICES ASSUME NEW u \in Tasks, tasks'[u].pc \in {"trigger", "wait"},
                      authz[tasks'[u].name] \in {"pending", "processing"}
               PROVE  tasks'[u].name \in tokens' \cup gaveUp'
    BY <1>1 DEF AwaitedHasToken, Current
  <2>1. CASE u = t
    BY <1>1, <1>5, <1>6, <2>1
  <2>2. CASE u # t
    BY <1>1, <1>6, <2>2 DEF IInv, AwaitedHasToken, Current
  <2> QED  BY <2>1, <2>2
<1>11. TokenInPlace'
  BY <1>1 DEF IInv, TokenInPlace
<1> QED  BY <1>7, <1>8, <1>9, <1>10, <1>11 DEF IInv

\* Only an authorization whose token is set is triggered.
LEMMA TriggerInv ==
  ASSUME IInv, NEW t \in Tasks, Trigger(t)
  PROVE  IInv'
<1> DEFINE n == Current(t)
<1>1. /\ tasks[t].pc = "trigger"
      /\ authz' = [authz EXCEPT ![n] = IF @ = "pending" THEN "processing" ELSE @]
      /\ Becomes(t, [tasks[t] EXCEPT !.pc = "wait"])
      /\ UNCHANGED <<stored, served, tokens, gaveUp, account, shake>>
  BY DEF Trigger, At
<1>2. /\ tasks[t] \in [pc: {"trigger", "wait"}, name: Names, left: SUBSET Names]
      /\ n \in Names
  BY <1>1, CurrentType DEF IInv
<1>3. /\ [tasks[t] EXCEPT !.pc = "wait"] = [pc |-> "wait", name |-> tasks[t].name, left |-> tasks[t].left]
      /\ [tasks[t] EXCEPT !.pc = "wait"] \in TaskState
  BY <1>2, PlainStates
<1>4. /\ tasks' \in [Tasks -> TaskState]
      /\ tasks'[t].pc = "wait"
      /\ tasks'[t].name = tasks[t].name /\ tasks'[t].left = tasks[t].left
      /\ \A u \in Tasks : u # t => tasks'[u] = tasks[u]
  BY <1>1, <1>3, BecomesEffect DEF IInv
<1>5. authz \in [Names -> {"none", "pending", "processing", "valid", "invalid"}]
  BY DEF IInv, TypeOK
<1>6. \A u \in Tasks : Current(u)' = Current(u)
  BY <1>4 DEF Current
<1>7. authz[n] \in {"pending", "processing"} => n \in tokens \cup gaveUp
  BY <1>1 DEF IInv, AwaitedHasToken
<1> HIDE DEF n
<1>8. /\ authz' \in [Names -> {"none", "pending", "processing", "valid", "invalid"}]
      /\ \A m \in Names : \/ authz'[m] = authz[m]
                          \/ m = n /\ authz[m] = "pending" /\ authz'[m] = "processing"
  BY <1>1, <1>2, <1>5
<1>9. TypeOK'
  BY <1>1, <1>4, <1>8 DEF IInv, TypeOK, stored, served
<1>10. SaverWrote' /\ SavedIsFresh' /\ FilesBelongTogether' /\ MemoryFollows'
  BY <1>1, <1>4, FilesUntouched DEF FileStates
<1>11. LeftToDo'
  BY <1>1, <1>4 DEF IInv, LeftToDo, Current
<1>12. AwaitedHasToken'
  <2> SUFFICES ASSUME NEW u \in Tasks, tasks'[u].pc \in {"trigger", "wait"},
                      authz'[Current(u)] \in {"pending", "processing"}
               PROVE  Current(u) \in tokens \cup gaveUp
    BY <1>1, <1>6 DEF AwaitedHasToken
  <2>1. tasks[u].pc \in {"trigger", "wait"}
    BY <1>1, <1>4
  <2>2. Current(u) \in Names
    BY <2>1, CurrentType DEF IInv
  <2>3. authz[Current(u)] \in {"pending", "processing"}
    BY <1>8, <2>2
  <2> QED  BY <2>1, <2>3 DEF IInv, AwaitedHasToken
<1>13. TokenInPlace'
  BY <1>1, <1>7, <1>8 DEF IInv, TokenInPlace
<1> QED  BY <1>9, <1>10, <1>11, <1>12, <1>13 DEF IInv

\* The server decides an authorization.
LEMMA ValidateInv ==
  ASSUME IInv, NEW n \in Names, Validate(n) \/ ValidateFails(n)
  PROVE  IInv'
<1>1. /\ authz[n] = "processing"
      /\ authz' \in {[authz EXCEPT ![n] = "valid"], [authz EXCEPT ![n] = "invalid"]}
      /\ UNCHANGED <<stored, served, tokens, gaveUp, account, tasks, shake>>
  BY DEF Validate, ValidateFails
<1>2. /\ authz' \in [Names -> {"none", "pending", "processing", "valid", "invalid"}]
      /\ \A m \in Names : \/ authz'[m] = authz[m]
                          \/ authz'[m] \in {"valid", "invalid"}
  BY <1>1 DEF IInv, TypeOK
<1>4. TypeOK'
  BY <1>1, <1>2 DEF IInv, TypeOK, stored, served
<1>5. SaverWrote' /\ SavedIsFresh' /\ FilesBelongTogether' /\ MemoryFollows'
  BY <1>1, FilesUntouched
<1>6. LeftToDo' /\ TokenInPlace'
  BY <1>1, <1>2 DEF IInv, LeftToDo, Current, TokenInPlace
<1>7. AwaitedHasToken'
  <2> SUFFICES ASSUME NEW u \in Tasks, tasks[u].pc \in {"trigger", "wait"},
                      authz'[Current(u)] \in {"pending", "processing"}
               PROVE  Current(u) \in tokens \cup gaveUp
    BY <1>1 DEF AwaitedHasToken, Current
  <2>1. Current(u) \in Names
    BY CurrentType DEF IInv
  <2> QED  BY <1>2, <2>1 DEF IInv, AwaitedHasToken
<1> QED  BY <1>4, <1>5, <1>6, <1>7 DEF IInv

\* A step that removes a token the server does not need any more, or whose order
\* gives up.
LEMMA TokenRemoved ==
  ASSUME IInv, NEW n \in Names,
         tokens' = tokens \ {n},
         gaveUp' = gaveUp \/ gaveUp' = gaveUp \cup {n},
         authz[n] \in {"pending", "processing"} => n \in gaveUp',
         UNCHANGED authz,
         \A u \in Tasks : tasks'[u].pc \in {"trigger", "wait"} => tasks'[u] = tasks[u]
  PROVE  AwaitedHasToken' /\ TokenInPlace'
<1>1. TokenInPlace'
  BY DEF IInv, TokenInPlace
<1>2. AwaitedHasToken'
  <2> SUFFICES ASSUME NEW u \in Tasks, tasks'[u].pc \in {"trigger", "wait"},
                      authz[Current(u)'] \in {"pending", "processing"}
               PROVE  Current(u)' \in tokens' \cup gaveUp'
    BY DEF AwaitedHasToken
  <2>1. tasks'[u] = tasks[u] /\ Current(u)' = Current(u)
    BY DEF Current
  <2> QED  BY <2>1 DEF IInv, AwaitedHasToken
<1> QED  BY <1>1, <1>2

\* A validated name gives up its token.
LEMMA ValidatedInv ==
  ASSUME IInv, NEW t \in Tasks, Validated(t)
  PROVE  IInv'
<1> DEFINE n == Current(t)
           left == tasks[t].left \ {n}
           state == IF left = {} THEN [pc |-> "obtain"] ELSE [pc |-> "authz", left |-> left]
<1>1. /\ tasks[t].pc = "wait" /\ authz[n] = "valid"
      /\ tokens' = tokens \ {n}
      /\ Becomes(t, state)
      /\ UNCHANGED <<stored, served, authz, gaveUp, account, shake>>
  BY DEF Validated, At
<1>2. tasks[t] \in [pc: {"trigger", "wait"}, name: Names, left: SUBSET Names] /\ n \in Names
  BY <1>1, CurrentType DEF IInv
<1>3. /\ state \in TaskState
      /\ state.pc \in {"obtain", "authz"}
  BY <1>2, PlainStates
<1> HIDE DEF state, n
<1>4. /\ tasks' \in [Tasks -> TaskState]
      /\ tasks'[t] = state
      /\ \A u \in Tasks : u # t => tasks'[u] = tasks[u]
  BY <1>1, <1>3, BecomesEffect DEF IInv
<1>5. TypeOK'
  BY <1>1, <1>4 DEF IInv, TypeOK, stored, served
<1>6. SaverWrote' /\ SavedIsFresh' /\ FilesBelongTogether' /\ MemoryFollows'
  BY <1>1, <1>3, <1>4, FilesUntouched DEF FileStates
<1>7. LeftToDo'
  BY <1>3, <1>4 DEF IInv, LeftToDo, Current
<1>8. AwaitedHasToken' /\ TokenInPlace'
  BY <1>1, <1>2, <1>3, <1>4, TokenRemoved
<1> QED  BY <1>5, <1>6, <1>7, <1>8 DEF IInv

\* An order fails, for its challenge or for something else.
LEMMA OrderFailsInv ==
  ASSUME IInv, NEW t \in Tasks, Rejected(t) \/ TimeOut(t)
  PROVE  IInv'
<1>1. /\ tasks[t].pc \in {"trigger", "wait"}
      /\ RemoveToken(Current(t))
      /\ Becomes(t, Idle)
      /\ UNCHANGED <<stored, served, authz, account, shake>>
  BY DEF Rejected, TimeOut
<1>2. Current(t) \in Names
  BY <1>1, CurrentType DEF IInv
<1>3. /\ tasks' \in [Tasks -> TaskState]
      /\ tasks'[t].pc = "idle"
      /\ \A u \in Tasks : u # t => tasks'[u] = tasks[u]
  BY <1>1, PlainStates, BecomesEffect DEF IInv
<1>5. TypeOK'
  BY <1>1, <1>2, <1>3 DEF IInv, TypeOK, RemoveToken, stored, served
<1>6. SaverWrote' /\ SavedIsFresh' /\ FilesBelongTogether' /\ MemoryFollows'
  BY <1>1, <1>3, FilesUntouched DEF FileStates
<1>7. LeftToDo'
  BY <1>3 DEF IInv, LeftToDo, Current
<1>8. AwaitedHasToken' /\ TokenInPlace'
  BY <1>1, <1>2, <1>3, TokenRemoved DEF RemoveToken
<1> QED  BY <1>5, <1>6, <1>7, <1>8 DEF IInv

\* A save begins: the old key does not belong to the new certificate.
LEMMA SaveCertInv ==
  ASSUME IInv, NEW t \in Tasks, SaveCert(t)
  PROVE  IInv'
<1> DEFINE d == DomainOf(t)
           files == [cert |-> "fresh",
                     key |-> IF disk[d].key = None THEN None ELSE "other", by |-> t]
<1>1. /\ tasks[t].pc = "save" /\ Unlocked(d)
      /\ disk' = [disk EXCEPT ![d] = files]
      /\ Becomes(t, [pc |-> "key"])
      /\ UNCHANGED <<torn, served, server, account, shake>>
  BY DEF SaveCert, At, IInv, TypeOK
<1>2. d \in Stored
  BY TaskDomains
<1>3. /\ files \in Files /\ files.cert = "fresh" /\ files.by = t
      /\ files.key # "own" /\ files.cert # None
  BY NoneAssumption DEF Files, Ages
<1> HIDE DEF files
<1>4. /\ tasks' \in [Tasks -> TaskState]
      /\ tasks'[t].pc = "key"
      /\ \A u \in Tasks : u # t => tasks'[u] = tasks[u]
  BY <1>1, PlainStates, BecomesEffect DEF IInv
<1>5. /\ disk' \in [Stored -> Files]
      /\ disk'[d] = files
      /\ \A n \in Stored : n # d => disk'[n] = disk[n]
  BY <1>1, <1>2, <1>3 DEF IInv, TypeOK
<1>6. \A u \in Tasks : DomainOf(u) = d => tasks[u].pc # "key"
  BY <1>1 DEF Unlocked
<1>7. \A u \in Tasks : DomainOf(u) \in Stored
  BY TaskDomains
<1>8. TypeOK'
  BY <1>1, <1>4, <1>5 DEF IInv, TypeOK, served, server
<1>9. LeftToDo' /\ AwaitedHasToken' /\ TokenInPlace'
  BY <1>1, <1>4, TokensUntouched DEF OrderStates
<1>10. SaverWrote'
  <2> SUFFICES ASSUME NEW u \in Tasks, tasks'[u].pc = "key"
               PROVE  disk'[DomainOf(u)].by = u /\ disk'[DomainOf(u)].key # "own"
    BY DEF SaverWrote, At
  <2>1. CASE u = t
    BY <1>3, <1>5, <2>1
  <2>2. CASE u # t
    <3>1. tasks[u].pc = "key" /\ DomainOf(u) # d
      BY <1>4, <1>6, <2>2
    <3> QED  BY <1>5, <1>7, <3>1 DEF IInv, SaverWrote, At
  <2> QED  BY <2>1, <2>2
<1>11. SavedIsFresh'
  <2> SUFFICES ASSUME NEW u \in Tasks
               PROVE  /\ tasks'[u].pc \in {"key", "load", "put"} => disk'[DomainOf(u)].cert = "fresh"
                      /\ tasks'[u].pc = "put" => tasks'[u].cert = "fresh"
    BY DEF SavedIsFresh, At
  <2>1. CASE DomainOf(u) = d
    BY <1>3, <1>4, <1>5, <2>1 DEF IInv, SavedIsFresh, At
  <2>2. CASE DomainOf(u) # d
    BY <1>4, <1>5, <1>7, <2>2 DEF IInv, SavedIsFresh, At
  <2> QED  BY <2>1, <2>2
<1>12. FilesBelongTogether'
  <2> SUFFICES ASSUME NEW n \in Stored, disk'[n].cert # None
               PROVE  Loadable(n)' \/ n \in torn' \/ \E u \in Tasks : DomainOf(u) = n /\ At(u, "key")'
    BY DEF FilesBelongTogether
  <2>1. CASE n = d
    BY <1>4, <2>1 DEF At
  <2>2. CASE n # d
    <3>1. Loadable(n) \/ n \in torn \/ \E u \in Tasks : DomainOf(u) = n /\ At(u, "key")
      BY <1>5, <2>2 DEF IInv, FilesBelongTogether
    <3> QED  BY <1>1, <1>4, <1>5, <2>2, <3>1 DEF At, Loadable
  <2> QED  BY <2>1, <2>2
<1>13. MemoryFollows'
  <2> SUFFICES ASSUME NEW n \in Stored \ (overtaken \cup aliased), mem[n] # None, Loadable(n)'
               PROVE  \/ mem[n] = disk'[n].cert
                      \/ \E u \in Tasks : DomainOf(u) = n /\ tasks'[u].pc \in {"load", "put"}
    BY <1>1 DEF MemoryFollows, served
  <2>1. n # d
    BY <1>3, <1>5 DEF Loadable
  <2>2. Loadable(n)
    BY <1>5, <2>1 DEF Loadable
  <2> QED  BY <1>1, <1>4, <1>5, <2>1, <2>2 DEF IInv, MemoryFollows
<1> QED  BY <1>8, <1>9, <1>10, <1>11, <1>12, <1>13 DEF IInv

\* ... and ends: the key that is written belongs to the certificate, which
\* nobody else has written since.
LEMMA SaveKeyInv ==
  ASSUME IInv, NEW t \in Tasks, SaveKey(t)
  PROVE  IInv'
<1> DEFINE d == DomainOf(t)
<1>1. /\ tasks[t].pc = "key"
      /\ disk' = [disk EXCEPT ![d].key = IF disk[d].by = t THEN "own" ELSE "other",
                              ![d].by = IF disk[d].by = t THEN None ELSE @]
      /\ torn' = torn \ {d}
      /\ Becomes(t, [pc |-> "load"])
      /\ UNCHANGED <<served, server, account, shake>>
  BY DEF SaveKey, At
<1>2. d \in Stored /\ disk \in [Stored -> Files] /\ disk[d] \in Files
  BY TaskDomains DEF IInv, TypeOK
<1>3. disk[d].by = t /\ disk[d].cert = "fresh"
  BY <1>1 DEF IInv, SaverWrote, SavedIsFresh, At
<1>4. /\ disk' \in [Stored -> Files]
      /\ disk'[d].key = "own" /\ disk'[d].cert = "fresh"
      /\ \A n \in Stored : n # d => disk'[n] = disk[n]
  <2>1. disk' = [disk EXCEPT ![d] = [disk[d] EXCEPT !.key = "own", !.by = None]]
    BY <1>1, <1>2, <1>3
  <2>2. /\ [disk[d] EXCEPT !.key = "own", !.by = None] \in Files
        /\ [disk[d] EXCEPT !.key = "own", !.by = None].key = "own"
        /\ [disk[d] EXCEPT !.key = "own", !.by = None].cert = "fresh"
    BY <1>2, <1>3 DEF Files
  <2> QED  BY <1>2, <2>1, <2>2
<1>5. Loadable(d)'
  BY <1>4, NoneAssumption DEF Loadable, Ages
<1>6. /\ tasks' \in [Tasks -> TaskState]
      /\ tasks'[t].pc = "load"
      /\ \A u \in Tasks : u # t => tasks'[u] = tasks[u]
  BY <1>1, PlainStates, BecomesEffect DEF IInv
<1>7. \A u \in Tasks : u # t /\ tasks[u].pc = "key" => DomainOf(u) # d
  BY <1>1, OneSaver DEF At
<1>8. \A u \in Tasks : DomainOf(u) \in Stored
  BY TaskDomains
<1>9. TypeOK'
  BY <1>1, <1>4, <1>6 DEF IInv, TypeOK, served, server
<1>10. LeftToDo' /\ AwaitedHasToken' /\ TokenInPlace'
  BY <1>1, <1>6, TokensUntouched DEF OrderStates
<1>11. SaverWrote'
  BY <1>4, <1>6, <1>7, <1>8 DEF IInv, SaverWrote, At
<1>12. SavedIsFresh'
  <2> SUFFICES ASSUME NEW u \in Tasks
               PROVE  /\ tasks'[u].pc \in {"key", "load", "put"} => disk'[DomainOf(u)].cert = "fresh"
                      /\ tasks'[u].pc = "put" => tasks'[u].cert = "fresh"
    BY DEF SavedIsFresh, At
  <2>1. CASE DomainOf(u) = d
    BY <1>4, <1>6, <2>1 DEF IInv, SavedIsFresh, At
  <2>2. CASE DomainOf(u) # d
    BY <1>4, <1>6, <1>8, <2>2 DEF IInv, SavedIsFresh, At
  <2> QED  BY <2>1, <2>2
<1>13. FilesBelongTogether'
  <2> SUFFICES ASSUME NEW n \in Stored, disk'[n].cert # None, n # d
               PROVE  Loadable(n)' \/ n \in torn' \/ \E u \in Tasks : DomainOf(u) = n /\ At(u, "key")'
    BY <1>5 DEF FilesBelongTogether
  <2>1. Loadable(n) \/ n \in torn \/ \E u \in Tasks : DomainOf(u) = n /\ At(u, "key")
    BY <1>4 DEF IInv, FilesBelongTogether
  <2> QED  BY <1>1, <1>4, <1>6, <2>1 DEF At, Loadable
<1>14. MemoryFollows'
  <2> SUFFICES ASSUME NEW n \in Stored \ (overtaken \cup aliased), mem[n] # None, Loadable(n)'
               PROVE  \/ mem[n] = disk'[n].cert
                      \/ \E u \in Tasks : DomainOf(u) = n /\ tasks'[u].pc \in {"load", "put"}
    BY <1>1 DEF MemoryFollows, served
  <2>1. CASE n = d
    BY <1>6, <2>1
  <2>2. CASE n # d
    <3>1. Loadable(n)
      BY <1>4, <2>2 DEF Loadable
    <3> QED  BY <1>1, <1>4, <1>6, <2>2, <3>1 DEF IInv, MemoryFollows
  <2> QED  BY <2>1, <2>2
<1> QED  BY <1>9, <1>10, <1>11, <1>12, <1>13, <1>14 DEF IInv

\* A save that is cut short leaves a certificate without its key.
LEMMA SaveFailsInv ==
  ASSUME IInv, NEW t \in Tasks, SaveFails(t)
  PROVE  IInv'
<1> DEFINE d == DomainOf(t)
<1>1. /\ Becomes(t, [pc |-> "idle"])
      /\ UNCHANGED <<served, server, account, shake>>
      /\ tasks[t].pc \in {"save", "key"}
      /\ tasks[t].pc = "key" => /\ torn' = torn \cup {d}
                                /\ disk' = [disk EXCEPT ![d].by = None]
      /\ tasks[t].pc # "key" => UNCHANGED stored
  BY DEF SaveFails, At, Idle, stored
<1>3. CASE tasks[t].pc # "key"
  BY <1>1, <1>3, MoveInv DEF FileStates
<1>4. CASE tasks[t].pc = "key"
  <2>1. d \in Stored /\ disk \in [Stored -> Files] /\ disk[d] \in Files
    BY TaskDomains DEF IInv, TypeOK
  <2>2. /\ disk' \in [Stored -> Files]
        /\ \A n \in Stored : disk'[n].cert = disk[n].cert /\ disk'[n].key = disk[n].key
        /\ \A n \in Stored : n # d => disk'[n] = disk[n]
    <3>1. disk' = [disk EXCEPT ![d] = [disk[d] EXCEPT !.by = None]]
      BY <1>1, <1>4, <2>1
    <3>2. /\ [disk[d] EXCEPT !.by = None] \in Files
          /\ [disk[d] EXCEPT !.by = None].cert = disk[d].cert
          /\ [disk[d] EXCEPT !.by = None].key = disk[d].key
      BY <2>1 DEF Files
    <3> QED  BY <2>1, <3>1, <3>2
  <2>3. /\ tasks' \in [Tasks -> TaskState]
        /\ tasks'[t].pc = "idle"
        /\ \A u \in Tasks : u # t => tasks'[u] = tasks[u]
    BY <1>1, PlainStates, BecomesEffect DEF IInv
  <2>4. /\ \A u \in Tasks : u # t /\ tasks[u].pc = "key" => DomainOf(u) # d
        /\ \A u \in Tasks : DomainOf(u) \in Stored
    BY <1>4, OneSaver, TaskDomains DEF At
  <2>5. torn' = torn \cup {d}
    BY <1>1, <1>4
  <2>6. \A n \in Stored : Loadable(n)' <=> Loadable(n)
    BY <2>2 DEF Loadable
  <2>7. TypeOK'
    BY <1>1, <2>1, <2>2, <2>3, <2>5 DEF IInv, TypeOK, served, server
  <2>8. LeftToDo' /\ AwaitedHasToken' /\ TokenInPlace'
    BY <1>1, <2>3, TokensUntouched DEF OrderStates
  <2>9. SaverWrote'
    BY <2>2, <2>3, <2>4 DEF IInv, SaverWrote, At
  <2>10. SavedIsFresh'
    BY <2>2, <2>3, <2>4 DEF IInv, SavedIsFresh, At
  <2>11. FilesBelongTogether'
    <3> SUFFICES ASSUME NEW n \in Stored, disk'[n].cert # None, n # d
                 PROVE  Loadable(n)' \/ n \in torn' \/ \E u \in Tasks : DomainOf(u) = n /\ At(u, "key")'
      BY <2>5 DEF FilesBelongTogether
    <3>1. Loadable(n) \/ n \in torn \/ \E u \in Tasks : DomainOf(u) = n /\ At(u, "key")
      BY <2>2 DEF IInv, FilesBelongTogether
    <3> QED  BY <2>3, <2>5, <2>6, <3>1 DEF At
  <2>12. MemoryFollows'
    <3> SUFFICES ASSUME NEW n \in Stored \ (overtaken \cup aliased), mem[n] # None, Loadable(n)
                 PROVE  \/ mem[n] = disk'[n].cert
                        \/ \E u \in Tasks : DomainOf(u) = n /\ tasks'[u].pc \in {"load", "put"}
      BY <1>1, <2>6 DEF MemoryFollows, served
    <3> QED  BY <1>4, <2>2, <2>3 DEF IInv, MemoryFollows
  <2> QED  BY <2>7, <2>8, <2>9, <2>10, <2>11, <2>12 DEF IInv
<1> QED  BY <1>3, <1>4

\* What was saved is loaded again, whoever saved last.
LEMMA LoadInv ==
  ASSUME IInv, NEW t \in Tasks, Load(t)
  PROVE  IInv'
<1> DEFINE d == DomainOf(t)
           state == IF Loadable(d) THEN [pc |-> "put", cert |-> disk[d].cert] ELSE Idle
<1>1. /\ tasks[t].pc = "load"
      /\ Becomes(t, state)
      /\ UNCHANGED <<stored, served, server, account, shake>>
  BY DEF Load, At
<1>2. disk[d].cert = "fresh"
  BY <1>1 DEF IInv, SavedIsFresh
<1>3. /\ state \in TaskState
      /\ state.pc \in {"put", "idle"}
      /\ state.pc = "put" => state.cert = "fresh"
      /\ Loadable(d) => state.pc = "put"
  BY <1>2, PlainStates DEF Ages
<1> HIDE DEF state
<1>4. /\ tasks' \in [Tasks -> TaskState]
      /\ tasks'[t] = state
      /\ \A u \in Tasks : u # t => tasks'[u] = tasks[u]
  BY <1>1, <1>3, BecomesEffect DEF IInv
<1>5. /\ UNCHANGED <<disk, torn, mem, overtaken, aliased>>
      /\ \A n : Loadable(n)' <=> Loadable(n)
  BY <1>1 DEF stored, served, Loadable
<1>6. TypeOK'
  BY <1>1, <1>4 DEF IInv, TypeOK, stored, served, server
<1>7. LeftToDo' /\ AwaitedHasToken' /\ TokenInPlace'
  BY <1>1, <1>3, <1>4, TokensUntouched DEF OrderStates
<1>8. SaverWrote' /\ SavedIsFresh'
  BY <1>2, <1>3, <1>4, <1>5 DEF IInv, SaverWrote, SavedIsFresh, At
<1>9. FilesBelongTogether'
  BY <1>1, <1>4, <1>5 DEF IInv, FilesBelongTogether, At
<1>10. MemoryFollows'
  <2> SUFFICES ASSUME NEW n \in Stored \ (overtaken \cup aliased), mem[n] # None, Loadable(n),
                      mem[n] # disk[n].cert
               PROVE  \E u \in Tasks : DomainOf(u) = n /\ tasks'[u].pc \in {"load", "put"}
    BY <1>5 DEF MemoryFollows
  <2>1. CASE n = d
    BY <1>3, <1>4, <2>1
  <2>2. CASE n # d
    BY <1>4, <2>2 DEF IInv, MemoryFollows
  <2> QED  BY <2>1, <2>2
<1> QED  BY <1>6, <1>7, <1>8, <1>9, <1>10 DEF IInv

\* ... and put into memory.
LEMMA PutInv ==
  ASSUME IInv, NEW t \in Tasks, Put(t)
  PROVE  IInv'
<1> DEFINE d == DomainOf(t)
<1>1. /\ tasks[t].pc = "put"
      /\ mem' = [mem EXCEPT ![d] = tasks[t].cert]
      /\ overtaken' = overtaken \ {d} /\ aliased' = aliased \ {d}
      /\ Becomes(t, AfterPut(t))
      /\ UNCHANGED <<stored, server, account, shake>>
  BY DEF Put, At
<1>2. AfterPut(t) \in TaskState /\ AfterPut(t).pc \in {"idle", "alias"}
  BY PlainStates DEF AfterPut
<1>3. /\ tasks' \in [Tasks -> TaskState]
      /\ tasks'[t].pc \in {"idle", "alias"}
      /\ \A u \in Tasks : u # t => tasks'[u] = tasks[u]
  BY <1>1, <1>2, BecomesEffect DEF IInv
<1>4. d \in Stored
  BY TaskDomains
<1>5. tasks[t].cert = "fresh" /\ disk[d].cert = "fresh" /\ "fresh" \in Ages
  BY <1>1 DEF IInv, SavedIsFresh, At, Ages
<1>6. \A u \in Tasks : DomainOf(u) = d \/ tasks'[u] = tasks[u]
  BY <1>3
<1> HIDE DEF d
<1>7. /\ MemoryFollows'
      /\ mem' \in [Stored -> Ages \cup {None}]
      /\ overtaken' \subseteq Stored /\ aliased' \subseteq Stored
  BY <1>1, <1>4, <1>5, <1>6, MemoryWritten
<1>8. TypeOK'
  BY <1>1, <1>3, <1>7 DEF IInv, TypeOK, stored, server
<1>9. LeftToDo' /\ AwaitedHasToken' /\ TokenInPlace'
  BY <1>1, <1>3, TokensUntouched DEF OrderStates
<1>10. SaverWrote' /\ SavedIsFresh' /\ FilesBelongTogether'
  <2>1. UNCHANGED <<disk, torn>>
    BY <1>1 DEF stored
  <2>2. SaverWrote' /\ SavedIsFresh'
    BY <1>3, <2>1 DEF IInv, SaverWrote, SavedIsFresh, At
  <2>3. FilesBelongTogether'
    BY <1>1, <1>3, <2>1 DEF IInv, FilesBelongTogether, Loadable, At
  <2> QED  BY <2>2, <2>3
<1> QED  BY <1>7, <1>8, <1>9, <1>10 DEF IInv

\* The alternative names get what the host has.
LEMMA AliasInv ==
  ASSUME IInv, NEW t \in Tasks, Alias(t)
  PROVE  IInv'
<1> DEFINE cert == mem[DomainOf(t)]
           alts == IF cert # None THEN AltsOf(t) \cap Stored ELSE {}
<1>1. /\ tasks[t].pc = "alias"
      /\ mem' = [n \in Stored |-> IF n \in alts THEN cert ELSE mem[n]]
      /\ aliased' = aliased \cup alts
      /\ overtaken' = overtaken \ alts
      /\ Becomes(t, Idle)
      /\ UNCHANGED <<stored, server, account, shake>>
  BY DEF Alias, At
<1>2. /\ TypeOK /\ mem \in [Stored -> Ages \cup {None}]
      /\ DomainOf(t) \in Stored
  BY TaskDomains DEF IInv, TypeOK
<1>3. cert \in Ages \cup {None} /\ alts \subseteq Stored
  BY <1>2
<1> HIDE DEF cert, alts
<1>4. /\ tasks' \in [Tasks -> TaskState]
      /\ tasks'[t].pc = "idle"
      /\ \A u \in Tasks : u # t => tasks'[u] = tasks[u]
  BY <1>1, <1>2, PlainStates, BecomesEffect
<1>5. UNCHANGED <<disk, torn>> /\ \A n : Loadable(n)' <=> Loadable(n)
  BY <1>1 DEF stored, Loadable
<1>6. TypeOK'
  <2>1. mem' \in [Stored -> Ages \cup {None}]
    BY <1>1, <1>2, <1>3
  <2>2. overtaken' \subseteq Stored /\ aliased' \subseteq Stored
    BY <1>1, <1>2, <1>3 DEF TypeOK
  <2> QED  BY <1>1, <1>2, <1>4, <1>5, <2>1, <2>2 DEF TypeOK, server
<1>7. LeftToDo' /\ AwaitedHasToken' /\ TokenInPlace'
  BY <1>1, <1>4, TokensUntouched DEF OrderStates
<1>8. SaverWrote' /\ SavedIsFresh'
  BY <1>4, <1>5 DEF IInv, SaverWrote, SavedIsFresh, At
<1>9. FilesBelongTogether'
  BY <1>1, <1>4, <1>5 DEF IInv, FilesBelongTogether, At
<1>10. MemoryFollows'
  <2> SUFFICES ASSUME NEW n \in Stored \ (overtaken' \cup aliased'), mem'[n] # None, Loadable(n)
               PROVE  \/ mem'[n] = disk[n].cert
                      \/ \E u \in Tasks : DomainOf(u) = n /\ tasks'[u].pc \in {"load", "put"}
    BY <1>5 DEF MemoryFollows
  <2>1. n \notin overtaken \cup aliased /\ mem'[n] = mem[n]
    BY <1>1, <1>2
  <2> QED  BY <1>1, <1>4, <2>1 DEF IInv, MemoryFollows
<1> QED  BY <1>6, <1>7, <1>8, <1>9, <1>10 DEF IInv

\* The process starts again, with what the disk has.
LEMMA RestartInv ==
  ASSUME IInv, Restart
  PROVE  IInv'
<1>1. /\ mem' = [n \in Stored |-> IF Loadable(n) THEN disk[n].cert ELSE None]
      /\ tasks' = [t \in Tasks |-> Idle]
      /\ shake' = Idle /\ tokens' = {}
      /\ gaveUp' = {} /\ authz' = [n \in Names |-> "none"]
      /\ account' \in AccountStates
      /\ torn' = torn \cup {n \in Stored : ~Unlocked(n)}
      /\ overtaken' = {} /\ aliased' = {}
      /\ disk' = [n \in Stored |-> [disk[n] EXCEPT !.by = None]]
  BY DEF Restart
<1>2. disk \in [Stored -> Files] /\ torn \subseteq Stored
  BY DEF IInv, TypeOK
<1>3. /\ \A n \in Stored : /\ disk'[n] \in Files
                           /\ disk'[n].cert = disk[n].cert /\ disk'[n].key = disk[n].key
      /\ disk' \in [Stored -> Files]
  BY <1>1, <1>2 DEF Files
<1>4. \A n \in Stored : Loadable(n)' <=> Loadable(n)
  BY <1>3 DEF Loadable
<1>5. \A t \in Tasks : tasks'[t].pc = "idle"
  BY <1>1, PlainStates
<1>6. TypeOK'
  <2>1. mem' \in [Stored -> Ages \cup {None}]
    BY <1>1, <1>2 DEF Files
  <2>2. tasks' \in [Tasks -> TaskState]
    BY <1>1, PlainStates
  <2>3. shake' \in [pc: {"idle"}]
    BY <1>1 DEF Idle
  <2>4. torn' \subseteq Stored
    BY <1>1, <1>2
  <2>5. authz' \in [Names -> {"none", "pending", "processing", "valid", "invalid"}]
    BY <1>1
  <2> QED  BY <1>1, <1>3, <2>1, <2>2, <2>3, <2>4, <2>5 DEF TypeOK
<1>7. LeftToDo' /\ SaverWrote' /\ SavedIsFresh' /\ AwaitedHasToken'
  BY <1>5 DEF LeftToDo, SaverWrote, SavedIsFresh, AwaitedHasToken, At
<1>8. TokenInPlace'
  BY <1>1 DEF TokenInPlace
<1>9. FilesBelongTogether'
  <2> SUFFICES ASSUME NEW n \in Stored, disk'[n].cert # None
               PROVE  Loadable(n)' \/ n \in torn'
    BY DEF FilesBelongTogether
  <2>1. Loadable(n) \/ n \in torn \/ \E u \in Tasks : DomainOf(u) = n /\ At(u, "key")
    BY <1>3 DEF IInv, FilesBelongTogether
  <2>2. (\E u \in Tasks : DomainOf(u) = n /\ At(u, "key")) => ~Unlocked(n)
    BY DEF Unlocked, At
  <2> QED  BY <1>1, <1>4, <2>1, <2>2
<1>10. MemoryFollows'
  BY <1>1, <1>2, <1>3, <1>4 DEF MemoryFollows
<1> QED  BY <1>6, <1>7, <1>8, <1>9, <1>10 DEF IInv

LEMMA CrashesInv ==
  ASSUME IInv, Crash \/ \E t \in Tasks : OrderPanics(t)
  PROVE  IInv'
BY RestartInv DEF Crash, OrderPanics

\* Weeks go by while nothing is under way: memory and disk age alike.
LEMMA TickInv ==
  ASSUME IInv, Tick
  PROVE  IInv'
<1>1. /\ \A t \in Tasks : tasks[t].pc = "idle"
      /\ disk' = [n \in Stored |-> [disk[n] EXCEPT !.cert = Aged(@)]]
      /\ mem' = [n \in Stored |-> Aged(mem[n])]
      /\ authz' = [n \in Names |-> "none"]
      /\ gaveUp' = {}
      /\ UNCHANGED <<torn, overtaken, aliased, tokens, account, tasks, shake>>
  BY DEF Tick, At
<1>2. disk \in [Stored -> Files] /\ mem \in [Stored -> Ages \cup {None}]
  BY DEF IInv, TypeOK
<1>3. \A a \in Ages \cup {None} : /\ Aged(a) \in Ages \cup {None}
                                  /\ Aged(a) = None <=> a = None
  BY NoneAssumption DEF Aged, Ages
<1>4. ASSUME NEW n \in Stored
      PROVE  /\ disk'[n] \in Files
             /\ disk'[n].cert = Aged(disk[n].cert) /\ disk'[n].key = disk[n].key
             /\ disk'[n].cert = None <=> disk[n].cert = None
  <2>1. disk[n] \in Files /\ disk[n].cert \in Ages \cup {None}
    BY <1>2 DEF Files
  <2>2. disk'[n] = [disk[n] EXCEPT !.cert = Aged(disk[n].cert)]
    BY <1>1
  <2>3. Aged(disk[n].cert) \in Ages \cup {None}
    BY <1>3, <2>1
  <2>4. /\ disk'[n] \in Files
        /\ disk'[n].cert = Aged(disk[n].cert) /\ disk'[n].key = disk[n].key
    BY <2>1, <2>2, <2>3 DEF Files
  <2> QED  BY <1>3, <2>1, <2>4
<1>5. \A n \in Stored : Loadable(n)' <=> Loadable(n)
  BY <1>4 DEF Loadable
<1>6. TypeOK'
  <2>1. disk' \in [Stored -> Files]
    BY <1>1, <1>4
  <2>2. mem' \in [Stored -> Ages \cup {None}]
    BY <1>1, <1>2, <1>3
  <2> QED  BY <1>1, <2>1, <2>2 DEF IInv, TypeOK
<1>7. LeftToDo' /\ SaverWrote' /\ SavedIsFresh' /\ AwaitedHasToken'
  BY <1>1 DEF LeftToDo, SaverWrote, SavedIsFresh, AwaitedHasToken, At
<1>8. TokenInPlace'
  BY <1>1 DEF TokenInPlace
<1>9. FilesBelongTogether'
  BY <1>1, <1>4, <1>5 DEF IInv, FilesBelongTogether, At
<1>10. MemoryFollows'
  <2> SUFFICES ASSUME NEW n \in Stored \ (overtaken \cup aliased), mem'[n] # None, Loadable(n)'
               PROVE  mem'[n] = disk'[n].cert
    BY <1>1 DEF MemoryFollows
  <2>1. mem'[n] = Aged(mem[n]) /\ mem[n] # None
    BY <1>1, <1>2, <1>3
  <2>2. mem[n] = disk[n].cert
    BY <1>1, <1>5, <2>1 DEF IInv, MemoryFollows
  <2> QED  BY <1>4, <2>1, <2>2
<1> QED  BY <1>6, <1>7, <1>8, <1>9, <1>10 DEF IInv

-----------------------------------------------------------------------------
(* The theorems. *)

LEMMA NextInv == IInv /\ [Next]_vars => IInv'
<1> SUFFICES ASSUME IInv, [Next]_vars PROVE IInv'
  OBVIOUS
<1>1. ASSUME NEW t \in Tasks, Requested(t) \/ TaskStep(t) \/ TaskFault(t)
      PROVE  IInv'
  <2>1. CASE Requested(t)
    BY <2>1, MovesInv DEF Requested
  <2>2. CASE TaskStep(t)
    BY <2>2, ForgetInv, EnsureInv, OrderInv, CrashesInv, AuthzInv, TriggerInv, ValidatedInv,
       OrderFailsInv, MovesInv, SaveCertInv, SaveKeyInv, LoadInv, PutInv, AliasInv
       DEF TaskStep
  <2>3. CASE TaskFault(t)
    BY <2>3, MovesInv, OrderFailsInv, SaveFailsInv DEF TaskFault
  <2> QED  BY <1>1, <2>1, <2>2, <2>3
<1>2. CASE (\E n \in Asked : Handshake(n)) \/ PutHandshake
  BY <1>2, HandshakeInv, PutHandshakeInv
<1>3. CASE (\E n \in Names : Validate(n) \/ ValidateFails(n)) \/ Crash \/ Tick
  BY <1>3, ValidateInv, CrashesInv, TickInv
<1>4. CASE UNCHANGED vars
  <2>1. UNCHANGED <<stored, served, server, account, tasks, shake>>
    BY <1>4 DEF vars
  <2>2. TypeOK'
    BY <2>1 DEF IInv, TypeOK, stored, served, server
  <2>3. SaverWrote' /\ SavedIsFresh' /\ FilesBelongTogether' /\ MemoryFollows'
    BY <2>1, FilesUntouched
  <2>4. LeftToDo' /\ AwaitedHasToken' /\ TokenInPlace'
    BY <2>1, TokensUntouched
  <2> QED  BY <2>2, <2>3, <2>4 DEF IInv
<1> QED  BY <1>1, <1>2, <1>3, <1>4 DEF Next

LEMMA InvariantHolds == Spec => []IInv
BY InitInv, NextInv, PTL DEF Spec

\* The state of the manager, the store and the server stays what it is declared.
THEOREM TypeCorrect == Spec => []TypeOK
<1>1. IInv => TypeOK
  BY DEF IInv
<1> QED  BY InvariantHolds, <1>1, PTL

\* One lock per domain keeps the two files of a certificate together (Store.Save).
THEOREM FilesCorrect == Spec => []FilesBelongTogether
<1>1. IInv => FilesBelongTogether
  BY DEF IInv
<1> QED  BY InvariantHolds, <1>1, PTL

\* No order takes away the token another one waits for, unless it gives up
\* (processAuthorization).
THEOREM TokenCorrect == Spec => []TokenInPlace
<1>1. IInv => TokenInPlace
  BY DEF IInv
<1> QED  BY InvariantHolds, <1>1, PTL

\* What has been renewed is what handshakes are answered with (Renew,
\* provisionCertificate).
THEOREM ServedCorrect == Spec => []ServedIsCurrent
<1>1. IInv => ServedIsCurrent
  BY DEF IInv, MemoryFollows, ServedIsCurrent, Quiet, At
<1> QED  BY InvariantHolds, <1>1, PTL

=============================================================================
