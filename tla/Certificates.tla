---------------------------- MODULE Certificates ----------------------------
(***************************************************************************)
(* How certificates are obtained, stored, served and renewed:              *)
(* internal/tls (manager.go, store.go, renewal.go, acme.go, challenge.go)  *)
(* and the part of cmd/dockrouter/main.go that sets it going.              *)
(*                                                                         *)
(* Three kinds of goroutine order certificates, each at its own pace: the  *)
(* one AddRoute starts for a route's host and its alternative names, the   *)
(* one a TLS handshake starts for a name nothing is known of (at most one  *)
(* per name), and the renewal scheduler.  They share the certificate       *)
(* store on disk, the map that handshakes are answered from, the tokens    *)
(* of the challenge solver, and the authorizations of the one ACME         *)
(* account.                                                                *)
(*                                                                         *)
(* The ACME server is outside: it keeps one authorization per name until   *)
(* that is used up or fails, and hands the same one to every order that    *)
(* names it, which is the case in which orders can disturb each other.     *)
(* Of a certificate its age matters here, from fresh to due to expired; an *)
(* age takes weeks and a goroutine minutes, so time passes between them.   *)
(***************************************************************************)
EXTENDS Naturals

CONSTANTS
  Names,      \* domain names
  RouteHost,  \* the host of the route that AddRoute is called for
  AltNames,   \* its dr.tls.domains
  Calls,      \* calls of AddRoute whose goroutines may run at the same time
  Asked,      \* the names clients ask for in handshakes
  None        \* a missing file or map entry

ASSUME ConstantsAssumption ==
  /\ RouteHost \in Names
  /\ AltNames \subseteq Names \ {RouteHost}
  /\ Asked \subseteq Names

Ages == {"fresh", "due", "expired"}

ASSUME NoneAssumption == None \notin Ages \cup {"own", "other"}

VARIABLES
  disk,      \* Store: certificates/<domain>/cert.pem and key.pem
  mem,       \* Manager.certs, for the names below: what a handshake is answered with
  tasks,     \* the goroutines: AddRoute's, one on demand per name, the renewal's
  shake,     \* a handshake between Store.Load and the write to Manager.certs
  tokens,    \* ChallengeSolver.tokens: the names whose present token is set
  authz,     \* the ACME server's authorization of each name
  account,   \* how far ACMEClient.Initialize got when the process started
  torn,      \* history: names whose save was cut short
  overtaken, \* history: names a handshake stored an outdated certificate for
  aliased,   \* history: names that were given another name's certificate
  gaveUp     \* history: names whose token was removed before the validation ended

stored  == <<disk, torn>>
served  == <<mem, overtaken, aliased>>
server  == <<authz, tokens, gaveUp>>
vars    == <<stored, served, server, account, tasks, shake>>

\* The names certificates are ordered and stored under.  An alternative name that
\* is none of them is never looked up.
Stored == Asked \cup {RouteHost}

\* The goroutines, by what started them.  A handshake's is the only one of its
\* name; of AddRoute there is one for every call.
Tasks ==
  {<<"route", RouteHost, call>> : call \in Calls}
    \cup {<<"demand", n>> : n \in Asked} \cup {<<"renew", n>> : n \in Stored}

\* Whose key key.pem has: that of the certificate in cert.pem, or another one's.
\* "by" is the goroutine that wrote cert.pem, until it has written key.pem.
Files == [cert: Ages \cup {None}, key: {None, "own", "other"}, by: Tasks \cup {None}]

DomainOf(t) == t[2]

AltsOf(t) == IF t[1] = "route" THEN AltNames ELSE {}

\* dedupeDomains.
OrderedBy(t) == {DomainOf(t)} \cup AltsOf(t)

Idle == [pc |-> "idle"]

\* Initialize fetches the directory, makes an account key, and registers the key
\* with the server, whose answer names the account.  It may fail before the key
\* is made ("none") and after ("key"), and nothing calls it a second time.
AccountStates == {"none", "key", "ready"}

TaskState ==
  [pc: {"idle", "ensure", "forget", "order", "doomed", "obtain", "save", "key", "load",
        "alias"}]
    \cup [pc: {"authz"}, left: SUBSET Names]
    \cup [pc: {"trigger", "wait"}, name: Names, left: SUBSET Names]
    \cup [pc: {"put"}, cert: Ages]

TypeOK ==
  /\ disk \in [Stored -> Files]
  /\ mem \in [Stored -> Ages \cup {None}]
  /\ tasks \in [Tasks -> TaskState]
  /\ shake \in [pc: {"idle"}] \cup [pc: {"put"}, name: Asked, cert: Ages]
  /\ tokens \subseteq Names
  /\ authz \in [Names -> {"none", "pending", "processing", "valid", "invalid"}]
  /\ account \in AccountStates
  /\ torn \subseteq Stored
  /\ overtaken \subseteq Stored
  /\ aliased \subseteq Stored
  /\ gaveUp \subseteq Names

Init ==
  /\ disk = [n \in Stored |-> [cert |-> None, key |-> None, by |-> None]]
  /\ mem = [n \in Stored |-> None]
  /\ tasks = [t \in Tasks |-> Idle]
  /\ shake = Idle
  /\ tokens = {}
  /\ authz = [n \in Names |-> "none"]
  /\ account \in AccountStates
  /\ torn = {}
  /\ overtaken = {}
  /\ aliased = {}
  /\ gaveUp = {}

-----------------------------------------------------------------------------
(* The store. *)

\* tls.LoadX509KeyPair takes a certificate only with the key that belongs to it.
Loadable(n) == disk[n].cert # None /\ disk[n].key = "own"

\* Mutant: there is no lock per domain.
AlwaysUnlocked(n) == n \in Stored

\* A Save holds the lock of its domain from before cert.pem to after key.pem,
\* and every reader of the domain waits for it.
Unlocked(n) == \A t \in Tasks : DomainOf(t) = n => tasks[t].pc # "key"

At(t, pc) == tasks[t].pc = pc

Becomes(t, state) == tasks' = [tasks EXCEPT ![t] = state]

-----------------------------------------------------------------------------
(* What starts a goroutine. *)

\* AddRoute of a container with dr.tls=auto.
StartRoute(t) ==
  /\ t[1] = "route" /\ At(t, "idle")
  /\ Becomes(t, [pc |-> "ensure"])
  /\ UNCHANGED <<stored, served, server, account, shake>>

\* Mutant: an error of Store.Load is not looked at.
HandshakeUnchecked(n) ==
  /\ shake = Idle /\ mem[n] = None
  /\ Unlocked(n)
  /\ shake' = [pc |-> "put", name |-> n, cert |-> disk[n].cert]
  /\ UNCHANGED <<stored, served, server, account, tasks>>

\* GetCertificate for a name that is not in memory: loaded from disk, ...
Handshake(n) ==
  /\ shake = Idle /\ mem[n] = None
  /\ Unlocked(n) /\ Loadable(n)
  /\ shake' = [pc |-> "put", name |-> n, cert |-> disk[n].cert]
  /\ UNCHANGED <<stored, served, server, account, tasks>>

\* ... and put into memory under a lock of its own, whatever is there by now.
PutHandshake ==
  /\ shake.pc = "put"
  /\ mem' = [mem EXCEPT ![shake.name] = shake.cert]
  /\ overtaken' = IF shake.cert = disk[shake.name].cert
                  THEN overtaken \ {shake.name} ELSE overtaken \cup {shake.name}
  /\ aliased' = aliased \ {shake.name}
  /\ shake' = Idle
  /\ UNCHANGED <<stored, server, account, tasks>>

\* GetCertificate for a name of which nothing can be loaded: one goroutine per
\* name goes for a certificate, and this handshake gets a self-signed one.
Demand(t) ==
  /\ t[1] = "demand" /\ At(t, "idle")
  /\ mem[DomainOf(t)] = None
  /\ Unlocked(DomainOf(t)) /\ ~Loadable(DomainOf(t))
  /\ Becomes(t, [pc |-> "ensure"])
  /\ UNCHANGED <<stored, served, server, account, shake>>

\* Mutant: only a certificate that is still valid is renewed.
StartRenewalInTime(t) ==
  /\ t[1] = "renew" /\ \A u \in Tasks : u[1] = "renew" => At(u, "idle")
  /\ Unlocked(DomainOf(t))
  /\ disk[DomainOf(t)].cert = "due" /\ disk[DomainOf(t)].key # None
  /\ Becomes(t, [pc |-> "forget"])
  /\ UNCHANGED <<stored, served, server, account, shake>>

\* checkRenewals comes to a domain whose files can be read and whose
\* certificate is due; domains are renewed one after the other.
StartRenewal(t) ==
  /\ t[1] = "renew" /\ \A u \in Tasks : u[1] = "renew" => At(u, "idle")
  /\ Unlocked(DomainOf(t))
  /\ disk[DomainOf(t)].cert # None /\ disk[DomainOf(t)].key # None
  /\ disk[DomainOf(t)].cert # "fresh"
  /\ Becomes(t, [pc |-> "forget"])
  /\ UNCHANGED <<stored, served, server, account, shake>>

\* Renew takes the certificate out of memory before it orders a new one.
Forget(t) ==
  /\ At(t, "forget")
  /\ mem' = [mem EXCEPT ![DomainOf(t)] = None]
  /\ overtaken' = overtaken \ {DomainOf(t)}
  /\ aliased' = aliased \ {DomainOf(t)}
  /\ Becomes(t, [pc |-> "order"])
  /\ UNCHANGED <<stored, server, account, shake>>

\* Mutant: a stored certificate that is not due but does not load is an error.
EnsureStored(t) ==
  LET d == DomainOf(t)
  IN  /\ At(t, "ensure") /\ Unlocked(d)
      /\ Becomes(t, IF disk[d].cert # "fresh" THEN [pc |-> "order"]
                    ELSE IF Loadable(d) THEN [pc |-> "put", cert |-> disk[d].cert]
                    ELSE Idle)
      /\ UNCHANGED <<stored, served, server, account, shake>>

\* EnsureCertificate: what is stored and not due is taken, and otherwise a new
\* one ordered.  What memory has is never enough: Leaf is nil in a certificate
\* that was loaded from disk (go.mod says go 1.22), and needsRenewal of it true.
Ensure(t) ==
  LET d == DomainOf(t)
  IN  /\ At(t, "ensure") /\ Unlocked(d)
      /\ Becomes(t, IF Loadable(d) /\ disk[d].cert = "fresh"
                    THEN [pc |-> "put", cert |-> disk[d].cert]
                    ELSE [pc |-> "order"])
      /\ UNCHANGED <<stored, served, server, account, shake>>

-----------------------------------------------------------------------------
(* The order. *)

\* Any request to the ACME server may fail: no answer, an error, a nonce that
\* another request has used up.  None is sent again.
RequestFails(t) ==
  /\ tasks[t].pc \in {"order", "authz", "obtain"}
  /\ account = "ready"
  /\ Becomes(t, Idle)
  /\ UNCHANGED <<stored, served, server, account, shake>>

\* A request that is signed with the key alone, for want of the account's name,
\* can only register the key: the server refuses the order, each time.
OrderRefused(t) ==
  /\ At(t, "order") /\ account = "key"
  /\ Becomes(t, Idle)
  /\ UNCHANGED <<stored, served, server, account, shake>>

\* RequestOrder.  A name whose authorization failed gets a new one, with a new
\* token; an order that still depends on the old one cannot succeed any more.
Order(t) ==
  LET new == {n \in OrderedBy(t) : authz[n] \in {"none", "invalid"}}
  IN  /\ At(t, "order") /\ account = "ready"
      /\ authz' = [n \in Names |-> IF n \in new THEN "pending" ELSE authz[n]]
      /\ tokens' = tokens \ new
      /\ gaveUp' = gaveUp \ new
      /\ tasks' = [u \in Tasks |->
                     IF u = t THEN [pc |-> "authz", left |-> OrderedBy(t)]
                     ELSE IF tasks[u].pc \in {"authz", "trigger", "wait"}
                               /\ tasks[u].left \cap new # {}
                     THEN [pc |-> "doomed"] ELSE tasks[u]]
      /\ UNCHANGED <<stored, served, account, shake>>

\* The authorization an order is at.  They are dealt with one after the other, in
\* the order in which the server lists them, which may be any.
Current(t) == tasks[t].name

\* GetAuthorization and SetToken.
Authz(t, n) ==
  /\ At(t, "authz") /\ n \in tasks[t].left
  /\ tokens' = tokens \cup {n}
  /\ gaveUp' = gaveUp \ {n}
  /\ Becomes(t, [pc |-> "trigger", name |-> n, left |-> tasks[t].left])
  /\ UNCHANGED <<stored, served, authz, account, shake>>

\* Mutant: the token is removed as soon as the challenge has been triggered.
TriggerRemovesToken(t) ==
  /\ At(t, "trigger") /\ authz[Current(t)] # "invalid"
  /\ authz' = [authz EXCEPT ![Current(t)] = IF @ = "pending" THEN "processing" ELSE @]
  /\ tokens' = tokens \ {Current(t)}
  /\ Becomes(t, [tasks[t] EXCEPT !.pc = "wait"])
  /\ UNCHANGED <<stored, served, gaveUp, account, shake>>

\* TriggerChallenge: the server starts to validate a pending authorization.
Trigger(t) ==
  /\ At(t, "trigger") /\ authz[Current(t)] # "invalid"
  /\ authz' = [authz EXCEPT ![Current(t)] = IF @ = "pending" THEN "processing" ELSE @]
  /\ Becomes(t, [tasks[t] EXCEPT !.pc = "wait"])
  /\ UNCHANGED <<stored, served, tokens, gaveUp, account, shake>>

\* The server fetches the token from the challenge handler.
Validate(n) ==
  /\ authz[n] = "processing"
  /\ authz' = [authz EXCEPT ![n] = IF n \in tokens THEN "valid" ELSE "invalid"]
  /\ UNCHANGED <<stored, served, tokens, gaveUp, account, tasks, shake>>

ValidateFails(n) ==
  /\ authz[n] = "processing" /\ n \in tokens
  /\ authz' = [authz EXCEPT ![n] = "invalid"]
  /\ UNCHANGED <<stored, served, tokens, gaveUp, account, tasks, shake>>

\* GetChallenge says the challenge is valid: the token goes, and the next name
\* has its turn.
Validated(t) ==
  LET left == tasks[t].left \ {Current(t)}
  IN  /\ At(t, "wait") /\ authz[Current(t)] = "valid"
      /\ tokens' = tokens \ {Current(t)}
      /\ Becomes(t, IF left = {} THEN [pc |-> "obtain"] ELSE [pc |-> "authz", left |-> left])
      /\ UNCHANGED <<stored, served, authz, gaveUp, account, shake>>

RemoveToken(n) ==
  /\ tokens' = tokens \ {n}
  /\ gaveUp' = IF authz[n] \in {"pending", "processing"} THEN gaveUp \cup {n} ELSE gaveUp

\* The challenge is invalid: the order fails.
Rejected(t) ==
  /\ tasks[t].pc \in {"trigger", "wait"} /\ authz[Current(t)] = "invalid"
  /\ RemoveToken(Current(t))
  /\ Becomes(t, Idle)
  /\ UNCHANGED <<stored, served, authz, account, shake>>

\* A request fails, or 30 polls go by: the order fails, and the validation may
\* still be under way.
TimeOut(t) ==
  /\ tasks[t].pc \in {"trigger", "wait"} /\ authz[Current(t)] # "invalid"
  /\ RemoveToken(Current(t))
  /\ Becomes(t, Idle)
  /\ UNCHANGED <<stored, served, authz, account, shake>>

\* An order whose authorization failed and was replaced by another order's.
Doomed(t) ==
  /\ At(t, "doomed")
  /\ Becomes(t, Idle)
  /\ UNCHANGED <<stored, served, server, account, shake>>

\* FinalizeOrder and DownloadCertificate, when the server issues the certificate
\* at once: neither touches what another goroutine sees.
Obtain(t) ==
  /\ At(t, "obtain")
  /\ Becomes(t, [pc |-> "save"])
  /\ UNCHANGED <<stored, served, server, account, shake>>

\* The server takes the order and issues the certificate later.  PollOrder then
\* asks the address for finalizing, which does not tell of the order, and fails.
IssuedLater(t) ==
  /\ At(t, "obtain")
  /\ Becomes(t, Idle)
  /\ UNCHANGED <<stored, served, server, account, shake>>

-----------------------------------------------------------------------------
(* Saving and serving what was obtained. *)

\* Store.Save: cert.pem first, ...
SaveCert(t) ==
  /\ At(t, "save") /\ Unlocked(DomainOf(t))
  /\ disk' = [disk EXCEPT ![DomainOf(t)] =
                [cert |-> "fresh", key |-> IF @.key = None THEN None ELSE "other", by |-> t]]
  /\ Becomes(t, [pc |-> "key"])
  /\ UNCHANGED <<torn, served, server, account, shake>>

\* ... then key.pem.
SaveKey(t) ==
  LET d    == DomainOf(t)
      mine == disk[d].by = t
  IN  /\ At(t, "key")
      /\ disk' = [disk EXCEPT ![d].key = IF mine THEN "own" ELSE "other",
                              ![d].by = IF mine THEN None ELSE @]
      /\ torn' = torn \ {d}
      /\ Becomes(t, [pc |-> "load"])
      /\ UNCHANGED <<served, server, account, shake>>

\* Either write may fail, and the save ends there.  (A write that stops half
\* way leaves a file that does not parse; for cert.pem that is one more
\* certificate that is due, which is not told apart here.)
SaveFails(t) ==
  /\ tasks[t].pc \in {"save", "key"}
  /\ torn' = IF At(t, "key") THEN torn \cup {DomainOf(t)} ELSE torn
  /\ disk' = IF At(t, "key") THEN [disk EXCEPT ![DomainOf(t)].by = None] ELSE disk
  /\ Becomes(t, Idle)
  /\ UNCHANGED <<served, server, account, shake>>

\* What is on disk by now is loaded, whoever wrote it.
Load(t) ==
  /\ At(t, "load") /\ Unlocked(DomainOf(t))
  /\ Becomes(t, IF Loadable(DomainOf(t))
                THEN [pc |-> "put", cert |-> disk[DomainOf(t)].cert] ELSE Idle)
  /\ UNCHANGED <<stored, served, server, account, shake>>

AfterPut(t) == IF AltsOf(t) = {} THEN Idle ELSE [pc |-> "alias"]

\* Mutant: what is in memory is kept.
PutIfAbsent(t) ==
  /\ At(t, "put")
  /\ mem' = [mem EXCEPT ![DomainOf(t)] = IF @ = None THEN tasks[t].cert ELSE @]
  /\ overtaken' = overtaken \ {DomainOf(t)}
  /\ aliased' = aliased \ {DomainOf(t)}
  /\ Becomes(t, AfterPut(t))
  /\ UNCHANGED <<stored, server, account, shake>>

Put(t) ==
  /\ At(t, "put")
  /\ mem' = [mem EXCEPT ![DomainOf(t)] = tasks[t].cert]
  /\ overtaken' = overtaken \ {DomainOf(t)}
  /\ aliased' = aliased \ {DomainOf(t)}
  /\ Becomes(t, AfterPut(t))
  /\ UNCHANGED <<stored, server, account, shake>>

\* aliasCertificate: what memory has for the host is served for its alternative
\* names as well, whether it covers them or not.
Alias(t) ==
  LET cert == mem[DomainOf(t)]
      alts == IF cert # None THEN AltsOf(t) \cap Stored ELSE {}
  IN  /\ At(t, "alias")
      /\ mem' = [n \in Stored |-> IF n \in alts THEN cert ELSE mem[n]]
      /\ aliased' = aliased \cup alts
      /\ overtaken' = overtaken \ alts
      /\ Becomes(t, Idle)
      /\ UNCHANGED <<stored, server, account, shake>>

-----------------------------------------------------------------------------
(* Crashes and time. *)

\* The process ends and is started again: LoadFromDisk loads what can be
\* loaded.  The account key is not kept, so the account is a new one, and what
\* the old one was authorized for is of no use to it.
Restart ==
  /\ tasks' = [t \in Tasks |-> Idle]
  /\ shake' = Idle
  /\ mem' = [n \in Stored |-> IF Loadable(n) THEN disk[n].cert ELSE None]
  /\ tokens' = {}
  /\ authz' = [n \in Names |-> "none"]
  /\ gaveUp' = {}
  /\ account' \in AccountStates
  /\ torn' = torn \cup {n \in Stored : ~Unlocked(n)}
  /\ overtaken' = {}
  /\ aliased' = {}
  /\ disk' = [n \in Stored |-> [disk[n] EXCEPT !.by = None]]

Crash == Restart

\* Without an account key the first order dereferences a nil pointer (jwk), and
\* nothing recovers the goroutine.
OrderPanics(t) ==
  /\ At(t, "order") /\ account = "none"
  /\ Restart

Aged(cert) == IF cert = None THEN None ELSE IF cert = "fresh" THEN "due" ELSE "expired"

\* Weeks go by while nothing is under way: certificates age, and
\* authorizations lapse.
Tick ==
  /\ \A t \in Tasks : At(t, "idle")
  /\ shake = Idle
  /\ disk' = [n \in Stored |-> [disk[n] EXCEPT !.cert = Aged(@)]]
  /\ mem' = [n \in Stored |-> Aged(mem[n])]
  /\ authz' = [n \in Names |-> "none"]
  /\ gaveUp' = {}
  /\ UNCHANGED <<torn, overtaken, aliased, tokens, account, tasks, shake>>

-----------------------------------------------------------------------------
Requested(t) == StartRoute(t) \/ Demand(t) \/ StartRenewal(t)

\* What a goroutine does when nothing goes wrong.
TaskStep(t) ==
  \/ Forget(t) \/ Ensure(t)
  \/ Order(t) \/ OrderRefused(t) \/ OrderPanics(t)
  \/ (\E n \in Names : Authz(t, n)) \/ Trigger(t) \/ Validated(t)
  \/ Rejected(t) \/ Doomed(t)
  \/ Obtain(t) \/ IssuedLater(t)
  \/ SaveCert(t) \/ SaveKey(t) \/ Load(t) \/ Put(t) \/ Alias(t)

TaskFault(t) == RequestFails(t) \/ TimeOut(t) \/ SaveFails(t)

Next ==
  \/ \E t \in Tasks : Requested(t) \/ TaskStep(t) \/ TaskFault(t)
  \/ \E n \in Asked : Handshake(n)
  \/ PutHandshake
  \/ \E n \in Names : Validate(n) \/ ValidateFails(n)
  \/ Crash
  \/ Tick

\* Goroutines run, the server validates, the scheduler comes round, and clients
\* go on asking; whether a container is started or time passes is nobody's duty.
Fairness ==
  /\ \A t \in Tasks : WF_vars(TaskStep(t) \/ Demand(t) \/ StartRenewal(t))
  /\ \A n \in Names : WF_vars(Validate(n))
  /\ \A n \in Asked : WF_vars(Handshake(n) \/ PutHandshake)

Spec == Init /\ [][Next]_vars /\ Fairness

-----------------------------------------------------------------------------
(* What must hold. *)

Quiet == shake = Idle /\ \A t \in Tasks : At(t, "idle")

\* However many goroutines save a certificate for one domain at a time, the two
\* files on disk belong together, unless a save is under way or was cut short
\* (Store.Save in internal/tls/store.go writes cert.pem and key.pem under one
\* lock per domain).
FilesBelongTogether ==
  \A n \in Stored :
    disk[n].cert # None =>
      Loadable(n) \/ n \in torn \/ \E t \in Tasks : DomainOf(t) = n /\ At(t, "key")

\* While the ACME server validates a name, the handler has the token to answer
\* with, unless an order for the name gave up: an order that succeeds may not
\* take the token from one that is still waiting (processAuthorization in
\* internal/tls/manager.go sets and removes it).
TokenInPlace ==
  \A n \in Names : authz[n] = "processing" => n \in tokens \cup gaveUp

\* Handshakes are not answered with a certificate of an earlier age than the
\* one on disk, for a name that is served from its own files: a renewal reaches
\* memory (Renew and provisionCertificate in internal/tls/manager.go).  A
\* handshake that overtook a renewal, and an alias, are the known exceptions.
ServedIsCurrent ==
  Quiet =>
    \A n \in Stored \ (overtaken \cup aliased) :
      mem[n] # None /\ Loadable(n) => mem[n] = disk[n].cert

\* What goes wrong outside the code: it may do so at any time and as often as it
\* likes.
Faulty ==
  \/ Crash
  \/ \E t \in Tasks : TaskFault(t) \/ IssuedLater(t)
  \/ \E n \in Names : ValidateFails(n)

\* What the manager needs of its surroundings: that faults stop, that a start of
\* the process gets its account, and that the server comes to issue certificates
\* at once.  Short of the second every order of the process is refused, and short
\* of the third every order ends in a poll that fails, however often it is tried.
ServerWorks == <>[](account = "ready") /\ <>[][~Faulty]_vars

\* If the server works for the code as it is, a certificate that is due is
\* renewed, whatever the faults before have left on the disk and with the server,
\* and though orders for its domain run at the same time (checkRenewals in
\* internal/tls/renewal.go).
DueIsRenewed ==
  ServerWorks =>
    \A n \in Stored :
      (Loadable(n) /\ disk[n].cert # "fresh") ~> disk[n].cert = "fresh"

\* A name that clients go on asking for is then served again and again, also after
\* a crash that left half a certificate (GetCertificate and EnsureCertificate).
AskedIsServed == ServerWorks => \A n \in Asked : []<>(mem[n] # None)
=============================================================================
