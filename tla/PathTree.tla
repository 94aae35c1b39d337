------------------------------ MODULE PathTree ------------------------------
(***************************************************************************)
(* How a request's host and path lead to a route: the path trees of        *)
(* internal/router/radix.go and the matching of hosts in table.go.         *)
(*                                                                         *)
(* RouteTable looks a route up by its key; here the route table keeps, as  *)
(* the code does, one radix tree per host next to its map of routes, and   *)
(* the two must say the same after any sequence of starts and stops.  A    *)
(* path is the sequence of its characters, since the tree splits labels at *)
(* any character; a host is a sequence of DNS labels, already in lower     *)
(* case, and perhaps a port.  A pool is reduced to the set of containers   *)
(* in it (each at one address; BackendPool and RouteTable have the rest).  *)
(***************************************************************************)
EXTENDS Naturals, FiniteSets, SequencesExt

CONSTANTS
  Containers,   \* containers that carry labels for a route
  HostOf,       \* the host a container's labels name
  PathOf,       \* the path its labels name: it may end in a slash, or lack the first
  RequestHosts, \* hosts that requests ask for
  RequestPaths, \* paths that requests ask for
  Chars,        \* the characters of paths
  None          \* a Go nil

VARIABLES
  routes,  \* Table.routes: the container whose labels the route was cloned from
  pools,   \* the containers in the pool of each route
  trees    \* Table.exact and Table.wildcard: the path trees of the hosts that have one

vars == <<routes, pools, trees>>

-----------------------------------------------------------------------------
(* Names. *)

\* A slash is put in front where there is none, and one is taken off the end:
\* one, so "/a//" becomes "/a/".
normalizePath(path) ==
  LET rooted == IF IsPrefix(<<"/">>, path) THEN path ELSE <<"/">> \o path
  IN  IF Len(rooted) > 1 /\ Last(rooted) = "/" THEN Front(rooted) ELSE rooted

\* A port is cut off, in a label as in a Host header.
normalizeHost(host) == host.name

RouteKey(host, path) == [host |-> normalizeHost(host), path |-> normalizePath(path)]

KeyOf(c) == RouteKey(HostOf[c], PathOf[c])

Keys == {KeyOf(c) : c \in Containers}

Hosts == {k.host : k \in Keys}

IsWildcard(host) == Head(host) = "*"

\* "*.example.com" matches example.com itself and whatever lies below it.
wildcardMatch(pattern, host) ==
  \/ host = Tail(pattern)
  \/ IsStrictSuffix(Tail(pattern), host)

\* addToTree and removeFromTrees normalize the path of the route, and Insert
\* and Delete what they are given.
SlotOf(c) == normalizePath(normalizePath(PathOf[c]))

ASSUME PathsAssumption ==
  /\ "/" \in Chars
  /\ PathOf \in [Containers -> Seq(Chars)]
  /\ RequestPaths \subseteq Seq(Chars)

ASSUME NoneAssumption == None \notin Containers

\* The constants leave out a path that ends in two slashes: its key keeps one
\* of them and its place in the tree none, so two routes would share a place.
ASSUME SlotsAreKeys == \A c \in Containers : SlotOf(c) = KeyOf(c).path

-----------------------------------------------------------------------------
(* The tree: a function from places to nodes.  The place of a node is the    *)
(* path that leads to it, which is what the labels (RadixNode.path) of the   *)
(* nodes from the root down to it are put together; its own label is what    *)
(* its place adds to its parent's.  A node names its children, in order, by  *)
(* their places, so the code's comparison of a child's label with what is    *)
(* left of a path is here one of a child's place with the path: both begin   *)
(* with the node's place.  A node with a route is what the code calls a      *)
(* leaf.                                                                     *)

Places == Seq(Chars)

Root == <<>>

Node(route, children) == [route |-> route, children |-> children]

\* A map with an entry set, and with one deleted.
Put(f, x, v) == [y \in DOMAIN f \cup {x} |-> IF y = x THEN v ELSE f[y]]

Without(f, x) == Restrict(f, DOMAIN f \ {x})

NewRadixTree == [n \in {Root} |-> Node(None, <<>>)]

IsEmpty(tree) == tree[Root].route = None /\ tree[Root].children = <<>>

commonPrefix(a, b) == LongestCommonPrefix({a, b})

\* Mutant: a child whose label is only shared in part is left alone.
SharingWhole(tree, n, path) ==
  SelectInSeq(tree[n].children, LAMBDA child : IsPrefix(child, path))

\* The child of n that path continues in or is split from; 0 if there is none.
Sharing(tree, n, path) ==
  SelectInSeq(tree[n].children, LAMBDA child : Len(commonPrefix(child, path)) > Len(n))

\* The child of n whose whole label path continues; 0 if there is none.
Within(tree, n, path) ==
  SelectInSeq(tree[n].children, LAMBDA child : IsPrefix(child, path))

\* insert goes down for as long as path goes on beyond the label of a child, to
\* the node at which it makes its change.
InsertionPoint(tree, path) ==
  LET at[n \in DOMAIN tree] ==
        LET i     == Sharing(tree, n, path)
            child == tree[n].children[i]
        IN  IF i # 0 /\ IsStrictPrefix(child, path) THEN at[child] ELSE n
  IN  at[Root]

\* A new node takes the i-th child of n and the part of path that is not shared.
Split(tree, n, i, path, route) ==
  LET child  == tree[n].children[i]
      prefix == commonPrefix(child, path)
      above  == [tree EXCEPT ![n].children[i] = prefix]
  IN  IF path = prefix
      THEN Put(above, prefix, Node(route, <<child>>))
      ELSE Put(Put(above, prefix, Node(None, <<child, path>>)), path, Node(route, <<>>))

insert(tree, path, route) ==
  LET n == InsertionPoint(tree, path)
      i == Sharing(tree, n, path)
  IN  IF i = 0
      THEN Put([tree EXCEPT ![n].children = Append(@, path)], path, Node(route, <<>>))
      ELSE IF tree[n].children[i] = path
      THEN [tree EXCEPT ![path].route = route]
      ELSE Split(tree, n, i, path, route)

Insert(tree, path, route) ==
  LET p == normalizePath(path)
  IN  IF p = <<"/">> THEN [tree EXCEPT ![Root].route = route] ELSE insert(tree, p, route)

\* Every node but n, with child instead of n among the children of its parent.
Bypass(tree, n, child) ==
  [m \in DOMAIN tree \ {n} |->
    [tree[m] EXCEPT !.children =
       [i \in DOMAIN @ |-> IF @[i] = n THEN child ELSE @[i]]]]

\* Mutant: the child's label is taken, and not what hangs below it.
CompactFlat(tree, n) ==
  LET only == tree[n].children[1]
  IN  IF Len(tree[n].children) = 1 /\ tree[n].route = None
      THEN [Bypass(tree, n, only) EXCEPT ![only].children = <<>>]
      ELSE tree

\* A node without a route and with one child takes over its label, its route and
\* its children, and so becomes that child.
Compact(tree, n) ==
  IF Len(tree[n].children) = 1 /\ tree[n].route = None
  THEN Bypass(tree, n, tree[n].children[1])
  ELSE tree

\* delete goes down to the parent of the node at path, or as far as it can.
DeletionPoint(tree, path) ==
  LET at[n \in DOMAIN tree] ==
        LET i     == Within(tree, n, path)
            child == tree[n].children[i]
        IN  IF i # 0 /\ child # path THEN at[child] ELSE n
  IN  at[Root]

\* Only a node whose child was taken away is compacted: one level, never the
\* root, and never a node whose own route was cleared.
delete(tree, path) ==
  LET n      == DeletionPoint(tree, path)
      i      == Within(tree, n, path)
      pruned == [Without(tree, path) EXCEPT ![n].children = RemoveAt(@, i)]
  IN  IF i = 0 THEN tree
      ELSE IF tree[path].children # <<>> THEN [tree EXCEPT ![path].route = None]
      ELSE IF n = Root THEN pruned ELSE Compact(pruned, n)

Delete(tree, path) ==
  LET p == normalizePath(path)
  IN  IF p = <<"/">> THEN [tree EXCEPT ![Root].route = None] ELSE delete(tree, p)

\* Every child whose label path continues is tried, in order, and the last
\* route found below one of them wins over the node's own.
match(tree, path) ==
  LET found[n \in DOMAIN tree] ==
        LET children == tree[n].children
            hits == {i \in DOMAIN children :
                       IsPrefix(children[i], path) /\ found[children[i]] # None}
        IN  IF n = path \/ hits = {} THEN tree[n].route ELSE found[children[Max(hits)]]
  IN  found[Root]

MatchTree(tree, path) ==
  LET p == normalizePath(path)
  IN  IF p = <<"/">> THEN tree[Root].route ELSE match(tree, p)

\* The places at which List comes upon a route.
List(tree) ==
  LET listed[n \in DOMAIN tree] ==
        (IF tree[n].route = None THEN {} ELSE {n})
          \cup UNION {listed[child] : child \in ToSet(tree[n].children)}
  IN  listed[Root]

-----------------------------------------------------------------------------
(* The table. *)

Init ==
  /\ routes = [k \in Keys |-> None]
  /\ pools = [k \in Keys |-> {}]
  /\ trees = [h \in {} |-> NewRadixTree]

addToTree(ts, c) ==
  LET h    == KeyOf(c).host
      tree == IF h \in DOMAIN ts THEN ts[h] ELSE NewRadixTree
  IN  Put(ts, h, Insert(tree, normalizePath(PathOf[c]), c))

\* A host goes with its tree, once the tree is empty.
removeFromTrees(ts, c) ==
  LET h    == KeyOf(c).host
      tree == Delete(ts[h], normalizePath(PathOf[c]))
  IN  IF h \notin DOMAIN ts THEN ts
      ELSE IF IsEmpty(tree) THEN Without(ts, h)
      ELSE Put(ts, h, tree)

\* Mutant: the older route object is the one that stays in the tree.
UpsertOld(c) ==
  LET k == KeyOf(c)
  IN  /\ routes' = [routes EXCEPT ![k] = c]
      /\ pools' = [pools EXCEPT ![k] = @ \cup {c}]
      /\ trees' = IF routes[k] = None THEN addToTree(trees, c) ELSE trees

\* Table.Upsert: the labels of the newest container become the route's; an
\* older route object is taken out of its tree first.
Upsert(c) ==
  LET k       == KeyOf(c)
      cleared == IF routes[k] # None THEN removeFromTrees(trees, routes[k]) ELSE trees
  IN  /\ routes' = [routes EXCEPT ![k] = c]
      /\ pools' = [pools EXCEPT ![k] = @ \cup {c}]
      /\ trees' = addToTree(cleared, c)

\* Table.RemoveByContainer: the route goes with the last container of its pool.
RemoveByContainer(c) ==
  LET k == KeyOf(c)
      last == pools[k] = {c}
  IN  /\ c \in pools[k]
      /\ pools' = [pools EXCEPT ![k] = @ \ {c}]
      /\ routes' = IF last THEN [routes EXCEPT ![k] = None] ELSE routes
      /\ trees' = IF last THEN removeFromTrees(trees, routes[k]) ELSE trees

\* What the tree of a host answers, None if it has none.
TreeMatch(h, path) == IF h \in DOMAIN trees THEN MatchTree(trees[h], path) ELSE None

\* What the trees of the wildcard patterns that match a host answer.
WildcardMatches(h, path) ==
  {TreeMatch(w, path) : w \in {x \in Hosts : IsWildcard(x) /\ wildcardMatch(x, h)}} \ {None}

\* Mutant: a host that has a tree of its own is looked up nowhere else.
MatchExactOnly(host, path) ==
  LET h    == normalizeHost(host)
      p    == normalizePath(path)
      wild == WildcardMatches(h, p)
  IN  IF h \in DOMAIN trees THEN {TreeMatch(h, p)} ELSE IF wild # {} THEN wild ELSE {None}

\* The answers Match may give: the exact host first, and of several wildcard
\* patterns whichever the iteration of the map comes to first.
Match(host, path) ==
  LET h     == normalizeHost(host)
      p     == normalizePath(path)
      exact == IF IsWildcard(h) THEN None ELSE TreeMatch(h, p)
      wild  == WildcardMatches(h, p)
  IN  IF exact # None THEN {exact} ELSE IF wild # {} THEN wild ELSE {None}

\* The hosts whose trees serve a host: its own and the wildcards that match it.
Serving(h) ==
  {x \in Hosts : IF IsWildcard(x) THEN wildcardMatch(x, h) ELSE x = h}

\* The entries of the list, each by the host and the place it is found at.
ListByHost(host) ==
  UNION {{[host |-> h, place |-> n] : n \in List(trees[h])} :
           h \in Serving(normalizeHost(host)) \cap DOMAIN trees}

Next == \E c \in Containers : Upsert(c) \/ RemoveByContainer(c)

Spec == Init /\ [][Next]_vars

-----------------------------------------------------------------------------
(* What must hold. *)

Routes == Containers \cup {None}

\* A radix tree: no label is empty, no two siblings start alike (so at most one
\* child can match a path or share a label with it), and whatever lies below a
\* node's place hangs below the node.
IsRadix(tree) ==
  /\ Root \in DOMAIN tree
  /\ \A n \in DOMAIN tree :
       /\ n \in Places
       /\ tree[n] \in [route : Routes, children : Seq(Places)]
       /\ \A i \in DOMAIN tree[n].children :
            /\ tree[n].children[i] \in DOMAIN tree
            /\ IsStrictPrefix(n, tree[n].children[i])
            /\ \A j \in 1 .. i - 1 :
                 tree[n].children[j][Len(n) + 1] # tree[n].children[i][Len(n) + 1]
       /\ \A m \in DOMAIN tree :
            IsStrictPrefix(n, m) =>
              \E i \in DOMAIN tree[n].children : IsPrefix(tree[n].children[i], m)

\* Every variable has its type, and the trees are radix trees
\* (RadixTree.insert and delete in internal/router/radix.go).
TypeOK ==
  /\ routes \in [Keys -> Routes]
  /\ pools \in [Keys -> SUBSET Containers]
  /\ DOMAIN trees \subseteq Hosts
  /\ \A h \in DOMAIN trees : IsRadix(trees[h])

\* The registered routes of a host that cover a path, and the one with the
\* longest prefix.
Covering(h, path) ==
  {k \in Keys : routes[k] # None /\ k.host = h /\ IsPrefix(k.path, path)}

Longest(h, path) ==
  LET covering == Covering(h, path)
  IN  IF covering = {} THEN None
      ELSE routes[CHOOSE k \in covering : \A l \in covering : Len(l.path) <= Len(k.path)]

\* "Match finds the longest prefix match for a path" (radix.go): whatever has
\* been registered and removed before, the tree of a host answers with the
\* current route object of the longest registered prefix, and with nothing if
\* no registered prefix covers the path.
MatchIsLongest ==
  \A h \in Hosts, path \in RequestPaths :
    TreeMatch(h, path) = Longest(h, normalizePath(path))

\* Table.Match finds a route whenever one covers the request, on the host
\* itself or on a wildcard; a wildcard never takes what the host itself serves,
\* and no route of another host is ever found.
RequestsFindTheirRoute ==
  \A host \in RequestHosts, path \in RequestPaths :
    LET own  == IF IsWildcard(host.name) THEN None
                ELSE Longest(host.name, normalizePath(path))
        wild == {Longest(w, normalizePath(path)) :
                   w \in {x \in Hosts : IsWildcard(x) /\ wildcardMatch(x, host.name)}} \ {None}
    IN  \A found \in Match(host, path) :
          IF own # None THEN found = own
          ELSE IF wild # {} THEN found \in wild ELSE found = None

\* The trees hold every route of the table once and nothing besides: ListByHost
\* and Table.routes agree, so no removed route can still be found and none is
\* lost with a tree that was dropped (removeFromTrees and addToTree in table.go).
TreesHoldTheTable ==
  \A host \in RequestHosts \cup {[name |-> h, port |-> FALSE] : h \in Hosts} :
    LET list == ListByHost(host)
        RouteAt(e) == trees[e.host][e.place].route
    IN  /\ {RouteAt(e) : e \in list} =
             {routes[k] : k \in {l \in Keys : l.host \in Serving(normalizeHost(host))}} \ {None}
        /\ \A e, f \in list : RouteAt(e) = RouteAt(f) => e = f
=============================================================================
