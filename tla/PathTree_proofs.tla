--------------------------- MODULE PathTree_proofs ---------------------------
(***************************************************************************)
(* Proofs about PathTree, for any containers, hosts and paths: inserting   *)
(* and deleting keep each tree a radix tree and change one place, matching *)
(* finds the longest place on a path, and so the trees say what the table  *)
(* of routes says.                                                         *)
(***************************************************************************)
EXTENDS PathTree, SequenceTheorems, WellFoundedInduction, TLAPS

-----------------------------------------------------------------------------
(* Induction over the natural numbers, and functions that are defined by     *)
(* recursion.                                                                *)

Below == {p \in Nat \X Nat : p[1] < p[2]}

\* Every set of numbers that is not empty has a member below which there is none.
LEMMA BelowWellFounded == IsWellFoundedOn(Below, Nat)
<1>1. Below = OpToRel(<, Nat)
  BY DEF Below, OpToRel
<1> QED BY <1>1, NatLessThanWellFounded

\* A set of numbers that contains zero and the successor of each member
\* contains every number.
LEMMA Induction ==
  ASSUME NEW S \in SUBSET Nat, 0 \in S, \A n \in S : n + 1 \in S
  PROVE  S = Nat
<1> SUFFICES ASSUME Nat \ S # {} PROVE FALSE
  OBVIOUS
<1>1. PICK x \in Nat \ S : \A y \in Nat \ S : ~(<<y, x>> \in Below)
  BY BelowWellFounded, WFMin
<1>2. x # 0 /\ x - 1 \in Nat /\ x - 1 < x
  OBVIOUS
<1>3. x - 1 \in S
  BY <1>1, <1>2 DEF Below
<1> QED BY <1>1, <1>2, <1>3

\* H[x][f] is the value at x of the function f on S that is to be defined by
\* recursion; it depends only on the values of f at places of a lower rank.
WellRanked(S, V, b, rank, H) ==
  /\ V # {} /\ b \in Nat /\ rank \in [S -> 0 .. b] /\ H \in [S -> [[S -> V] -> V]]
  /\ \A x \in S, f, g \in [S -> V] :
       (\A y \in S : rank[y] < rank[x] => f[y] = g[y]) => H[x][f] = H[x][g]

Solution(S, V, H, f) == f \in [S -> V] /\ f = [x \in S |-> H[x][f]]

\* A function that is defined by such a recursion exists.
LEMMA Recursion ==
  ASSUME NEW S, NEW V, NEW b, NEW rank, NEW H, WellRanked(S, V, b, rank, H)
  PROVE  \E f : Solution(S, V, H, f)
<1> USE DEF WellRanked
<1> DEFINE Upto(n) == \E f \in [S -> V] : \A x \in S : rank[x] < n => f[x] = H[x][f]
           N == {n \in Nat : Upto(n)}
<1>1. Upto(0)
  <2>1. PICK v \in V : TRUE
    OBVIOUS
  <2>2. [x \in S |-> v] \in [S -> V]
    BY <2>1
  <2>3. \A x \in S : ~(rank[x] < 0)
    OBVIOUS
  <2> QED BY <2>2, <2>3
<1>2. ASSUME NEW n \in Nat, Upto(n) PROVE Upto(n + 1)
  <2>1. PICK f \in [S -> V] : \A x \in S : rank[x] < n => f[x] = H[x][f]
    BY <1>2
  <2> DEFINE g == [x \in S |-> H[x][f]]
  <2>2. g \in [S -> V]
    BY <2>1
  <2>3. ASSUME NEW x \in S, rank[x] < n + 1 PROVE g[x] = H[x][g]
    <3>1. ASSUME NEW y \in S, rank[y] < rank[x] PROVE f[y] = g[y]
      <4>1. rank[y] < n
        BY <2>3, <3>1
      <4> QED BY <2>1, <4>1
    <3>2. H[x][f] = H[x][g]
      BY <2>1, <2>2, <3>1
    <3> QED BY <3>2
  <2> QED BY <2>2, <2>3
<1>3. Upto(b + 1)
  <2> HIDE DEF Upto
  <2>1. /\ N \in SUBSET Nat /\ 0 \in N
        /\ \A n \in N : n + 1 \in N
    BY <1>1, <1>2
  <2>2. N = Nat
    <3> HIDE DEF N
    <3> QED BY <2>1, Induction
  <2> QED BY <2>2
<1>4. PICK f \in [S -> V] : \A x \in S : rank[x] < b + 1 => f[x] = H[x][f]
  BY <1>3
<1>5. f = [x \in S |-> H[x][f]]
  <2>1. \A x \in S : rank[x] < b + 1
    OBVIOUS
  <2> QED BY <1>4, <2>1
<1> QED BY <1>4, <1>5 DEF Solution

-----------------------------------------------------------------------------
(* Prefixes. *)

\* A prefix agrees with the whole at each of its elements, and what does is one.
LEMMA PrefixElements ==
  ASSUME NEW s \in Places, NEW t \in Places
  PROVE  IsPrefix(s, t) <=> /\ Len(s) <= Len(t)
                            /\ \A i \in 1 .. Len(s) : s[i] = t[i]
<1> USE DEF Places
<1>1. /\ Len(s) \in Nat /\ Len(t) \in Nat
      /\ \A i \in 1 .. Len(s) : s[i] \in Chars
      /\ \A i \in 1 .. Len(t) : t[i] \in Chars
  BY ElementOfSeq, LenProperties
<1>2. CASE ~(Len(s) <= Len(t))
  BY <1>2 DEF IsPrefix
<1>3. CASE Len(s) <= Len(t)
  <2> DEFINE a == SubSeq(s, 1, Len(s))
             b == SubSeq(t, 1, Len(s))
  <2>1. /\ a \in Seq(Chars) /\ Len(a) = Len(s)
        /\ \A i \in 1 .. Len(s) : a[i] = s[i]
    <3>1. \A i \in 1 .. Len(s) : s[i] \in Chars
      BY <1>1
    <3> QED BY <1>1, <3>1, SubSeqProperties
  <2>2. /\ b \in Seq(Chars) /\ Len(b) = Len(s)
        /\ \A i \in 1 .. Len(s) : b[i] = t[i]
    <3>1. \A i \in 1 .. Len(s) : t[i] \in Chars
      BY <1>1, <1>3
    <3> QED BY <1>1, <3>1, SubSeqProperties
  <2> HIDE DEF a, b
  <2>3. ASSUME \A i \in 1 .. Len(s) : s[i] = t[i] PROVE a = b
    BY <2>1, <2>2, <2>3, SeqEqual
  <2>4. a = b => \A i \in 1 .. Len(s) : s[i] = t[i]
    BY <2>1, <2>2
  <2>5. IsPrefix(s, t) <=> a = b
    BY <1>3 DEF IsPrefix, a, b
  <2> QED BY <1>3, <2>3, <2>4, <2>5
<1> QED BY <1>2, <1>3

\* What the proofs use of prefixes.
LEMMA PrefixOrder ==
  ASSUME NEW a \in Places, NEW b \in Places, NEW c \in Places
  PROVE  /\ Root \in Places /\ Len(Root) = 0 /\ IsPrefix(Root, a)
         /\ Len(a) \in Nat /\ IsPrefix(a, a)
         /\ IsPrefix(a, b) /\ IsPrefix(b, c) => IsPrefix(a, c)
         /\ IsPrefix(a, b) => Len(a) <= Len(b)
         /\ IsPrefix(a, b) /\ Len(a) >= Len(b) => a = b
         /\ IsPrefix(a, c) /\ IsPrefix(b, c) /\ Len(a) <= Len(b) => IsPrefix(a, b)
         /\ IsStrictPrefix(a, b) <=> IsPrefix(a, b) /\ Len(a) < Len(b)
         /\ IsPrefix(a, b) /\ Len(a) > 0 => a[1] = b[1]
         /\ a # Root => IsStrictPrefix(Root, a)
         /\ IsStrictPrefix(a, b) /\ IsPrefix(b, c) => /\ IsStrictPrefix(a, c)
                                                      /\ b[Len(a) + 1] = c[Len(a) + 1]
<1>1. /\ Len(a) \in Nat /\ Len(b) \in Nat /\ Len(c) \in Nat
      /\ Root \in Places /\ Len(Root) = 0 /\ (a # Root => Len(a) > 0)
  BY EmptySeq, LenProperties DEF Places, Root
<1>2. IsPrefix(Root, a) /\ IsPrefix(a, a)
  BY <1>1, PrefixElements
<1>3. IsPrefix(a, b) /\ IsPrefix(b, c) => IsPrefix(a, c)
  BY <1>1, PrefixElements
<1>4. IsPrefix(a, b) => Len(a) <= Len(b)
  BY PrefixElements
<1>5. IsPrefix(a, b) /\ Len(a) >= Len(b) => a = b
  BY <1>1, PrefixElements, SeqEqual DEF Places
<1>6. IsPrefix(a, c) /\ IsPrefix(b, c) /\ Len(a) <= Len(b) => IsPrefix(a, b)
  BY <1>1, PrefixElements
<1>7. IsStrictPrefix(a, b) <=> IsPrefix(a, b) /\ Len(a) < Len(b)
  BY <1>1, <1>4, <1>5 DEF IsStrictPrefix
<1>8. IsPrefix(a, b) /\ Len(a) > 0 => a[1] = b[1]
  BY <1>1, PrefixElements
<1>9. a # Root => IsStrictPrefix(Root, a)
  BY <1>2 DEF IsStrictPrefix
<1>10. ASSUME IsStrictPrefix(a, b), IsPrefix(b, c)
       PROVE  IsStrictPrefix(a, c) /\ b[Len(a) + 1] = c[Len(a) + 1]
  <2>1. IsPrefix(a, b) /\ Len(a) < Len(b) /\ Len(b) <= Len(c)
    BY <1>7, <1>10, PrefixElements
  <2>2. IsPrefix(a, c) /\ a # c
    BY <1>1, <1>3, <1>10, <2>1
  <2>3. Len(a) + 1 \in 1 .. Len(b)
    BY <1>1, <2>1
  <2>4. b[Len(a) + 1] = c[Len(a) + 1]
    BY <1>10, <2>3, PrefixElements
  <2> QED BY <2>2, <2>4 DEF IsStrictPrefix
<1> QED BY <1>1, <1>2, <1>3, <1>4, <1>5, <1>6, <1>7, <1>8, <1>9, <1>10

\* Max chooses the greatest member of a nonempty set of numbers up to a bound.
LEMMA MaxOfBounded ==
  ASSUME NEW S \in SUBSET Nat, S # {}, NEW b \in Nat, \A x \in S : x <= b
  PROVE  Max(S) \in S /\ \A x \in S : x <= Max(S)
<1> DEFINE Gap == {b - x : x \in S}
<1>1. Gap \in SUBSET Nat /\ Gap # {}
  OBVIOUS
<1>2. PICK g \in Gap : \A y \in Gap : ~(<<y, g>> \in Below)
  <2> HIDE DEF Gap
  <2> QED BY <1>1, BelowWellFounded, WFMin
<1>3. PICK m \in S : g = b - m
  OBVIOUS
<1>4. \A x \in S : x <= m
  <2> SUFFICES ASSUME NEW x \in S, ~(x <= m) PROVE FALSE
    OBVIOUS
  <2>1. b - x \in Gap /\ b - x \in Nat /\ g \in Nat /\ b - x < g
    BY <1>1, <1>3
  <2> QED BY <1>2, <2>1 DEF Below
<1>5. \E x \in S : \A y \in S : x >= y
  BY <1>4
<1> QED BY <1>5 DEF Max

\* Min chooses the least member of a nonempty set of numbers.
LEMMA MinOfNumbers ==
  ASSUME NEW S \in SUBSET Nat, S # {}
  PROVE  Min(S) \in S /\ \A x \in S : Min(S) <= x
<1>1. PICK m \in S : \A y \in S : ~(<<y, m>> \in Below)
  BY BelowWellFounded, WFMin
<1>2. \A x \in S : m <= x
  <2> SUFFICES ASSUME NEW x \in S, ~(m <= x) PROVE FALSE
    OBVIOUS
  <2>1. x \in Nat /\ m \in Nat /\ x < m
    OBVIOUS
  <2> QED BY <1>1, <2>1 DEF Below
<1>3. \E x \in S : \A y \in S : x =< y
  BY <1>2
<1> QED BY <1>3 DEF Min

\* commonPrefix returns a prefix of both paths, and where both go on beyond it
\* they differ.
LEMMA CommonPrefix ==
  ASSUME NEW a \in Places, NEW b \in Places
  PROVE  LET p == commonPrefix(a, b)
         IN  /\ p \in Places /\ IsPrefix(p, a) /\ IsPrefix(p, b)
             /\ \A c \in Places : IsPrefix(c, a) /\ IsPrefix(c, b) => Len(c) <= Len(p)
             /\ Len(p) < Len(a) /\ Len(p) < Len(b) => a[Len(p) + 1] # b[Len(p) + 1]
<1> DEFINE C == {c \in Places : IsPrefix(c, a) /\ IsPrefix(c, b)}
           p == commonPrefix(a, b)
<1>1. CommonPrefixes({a, b}) = C
  <2>1. ASSUME NEW c \in C PROVE c \in CommonPrefixes({a, b})
    <3>1. /\ c \in Places /\ IsPrefix(c, a) /\ IsPrefix(c, b)
          /\ Len(c) \in Nat /\ Len(a) \in Nat /\ Len(c) <= Len(a)
      BY PrefixOrder
    <3>2. c = SubSeq(a, 1, Len(c))
      <4>1. \A i \in 1 .. Len(c) : a[i] \in Chars
        BY <3>1, ElementOfSeq DEF Places
      <4>2. /\ SubSeq(a, 1, Len(c)) \in Seq(Chars)
            /\ Len(SubSeq(a, 1, Len(c))) = Len(c)
            /\ \A i \in 1 .. Len(c) : SubSeq(a, 1, Len(c))[i] = a[i]
        BY <3>1, <4>1, SubSeqProperties
      <4>3. \A i \in 1 .. Len(c) : c[i] = a[i]
        BY <3>1, PrefixElements
      <4> QED BY <3>1, <4>2, <4>3, SeqEqual DEF Places
    <3>3. c \in Prefixes(a)
      <4>1. Len(c) \in 0 .. Len(a)
        BY <3>1
      <4>2. SubSeq(a, 1, Len(c)) \in {SubSeq(a, 1, l) : l \in 0 .. Len(a)}
        BY <4>1
      <4> QED BY <3>2, <4>2, Zenon DEF Prefixes
    <3> QED BY <3>1, <3>3 DEF CommonPrefixes
  <2>2. ASSUME NEW c \in CommonPrefixes({a, b}) PROVE c \in C
    <3>1. /\ c \in Prefixes(a) \cup Prefixes(b)
          /\ IsPrefix(c, a) /\ IsPrefix(c, b)
      BY <2>2 DEF CommonPrefixes
    <3>2. c \in Places
      <4>1. PICK s \in {a, b} : \E l \in 0 .. Len(s) : c = SubSeq(s, 1, l)
        BY <3>1 DEF Prefixes
      <4>2. PICK l \in 0 .. Len(s) : c = SubSeq(s, 1, l)
        BY <4>1
      <4>3. \A i \in 1 .. l : s[i] \in Chars
        BY <4>1, <4>2, LenProperties, ElementOfSeq DEF Places
      <4>4. l \in Int /\ 1 \in Int
        OBVIOUS
      <4> QED BY <4>2, <4>3, <4>4, SubSeqProperties DEF Places
    <3> QED BY <3>1, <3>2
  <2> QED BY <2>1, <2>2
<1>2. PICK m \in C : \A c \in C : Len(c) <= Len(m)
  <2> DEFINE L == {Len(c) : c \in C}
  <2>1. /\ L \in SUBSET Nat /\ \A x \in L : x <= Len(a)
        /\ Root \in C /\ Len(a) \in Nat
    BY PrefixOrder
  <2>2. L # {}
    BY <2>1
  <2>3. Max(L) \in L /\ \A x \in L : x <= Max(L)
    <3> HIDE DEF L
    <3> QED BY <2>1, <2>2, MaxOfBounded
  <2> QED BY <2>3
<1>3. p \in C /\ \A c \in C : Len(c) <= Len(p)
  <2> HIDE DEF C
  <2>1. p = CHOOSE longest \in C : \A other \in C : Len(other) <= Len(longest)
    BY <1>1 DEF commonPrefix, LongestCommonPrefix
  <2> QED BY <1>2, <2>1
<1> HIDE DEF p
<1>4. ASSUME Len(p) < Len(a), Len(p) < Len(b), a[Len(p) + 1] = b[Len(p) + 1]
      PROVE  FALSE
  <2> DEFINE q == SubSeq(a, 1, Len(p) + 1)
  <2>1. /\ p \in Places /\ IsPrefix(p, a) /\ IsPrefix(p, b)
        /\ Len(p) \in Nat /\ Len(a) \in Nat /\ Len(b) \in Nat
    BY <1>3, PrefixOrder
  <2>2. \A i \in 1 .. Len(p) + 1 : a[i] \in Chars
    BY <1>4, <2>1, ElementOfSeq DEF Places
  <2>3. /\ q \in Places /\ Len(q) = Len(p) + 1
        /\ \A i \in 1 .. Len(p) + 1 : q[i] = a[i]
    BY <2>1, <2>2, SubSeqProperties DEF Places
  <2> HIDE DEF q
  <2>4. \A i \in 1 .. Len(p) + 1 : q[i] = b[i]
    <3> SUFFICES ASSUME NEW i \in 1 .. Len(p) + 1 PROVE a[i] = b[i]
      BY <2>3
    <3>1. CASE i = Len(p) + 1
      BY <1>4, <3>1
    <3>2. CASE i \in 1 .. Len(p)
      <4>1. p[i] = a[i] /\ p[i] = b[i]
        BY <2>1, <3>2, PrefixElements
      <4> QED BY <4>1
    <3> QED BY <2>1, <3>1, <3>2
  <2>5. IsPrefix(q, a) /\ IsPrefix(q, b)
    BY <1>4, <2>1, <2>3, <2>4, PrefixElements
  <2> QED BY <1>3, <2>1, <2>3, <2>5
<1> QED BY <1>3, <1>4 DEF p

\* A walk goes from each node to the next one, until a node is its own next.
Downhill(S, b, rank, next) ==
  /\ b \in Nat /\ rank \in [S -> 0 .. b] /\ next \in [S -> S]
  /\ \A n \in S : next[n] # n => rank[next[n]] < rank[n]

Walk(S, next, at) == at = [n \in S |-> IF next[n] # n THEN at[next[n]] ELSE n]

\* If every step goes down in rank, the walk is well defined, stays within any set
\* that its steps stay in, and ends where there is no next node.
LEMMA Descent ==
  ASSUME NEW S, NEW b, NEW rank, NEW next, Downhill(S, b, rank, next)
  PROVE  /\ \E at : Walk(S, next, at)
         /\ \A at : Walk(S, next, at) =>
              \A I \in SUBSET S : (\A n \in I : next[n] \in I) =>
                \A n \in I : at[n] \in I /\ next[at[n]] = at[n]
<1> USE DEF Downhill, Walk
<1>1. \E at : at = [n \in S |-> IF next[n] # n THEN at[next[n]] ELSE n]
  <2> DEFINE H == [n \in S |-> [f \in [S -> S] |-> IF next[n] # n THEN f[next[n]] ELSE n]]
  <2>1. CASE S = {}
    <3> DEFINE at == [n \in S |-> n]
    <3>1. at = [n \in S |-> IF next[n] # n THEN at[next[n]] ELSE n]
      BY <2>1
    <3> QED BY <3>1
  <2>2. CASE S # {}
    <3>1. H \in [S -> [[S -> S] -> S]]
      OBVIOUS
    <3>2. \A x \in S, f, g \in [S -> S] :
            (\A y \in S : rank[y] < rank[x] => f[y] = g[y]) => H[x][f] = H[x][g]
      OBVIOUS
    <3> HIDE DEF H
    <3>3. WellRanked(S, S, b, rank, H)
      BY <2>2, <3>1, <3>2 DEF WellRanked
    <3>4. PICK f : Solution(S, S, H, f)
      BY <3>3, Recursion
    <3>5. f = [n \in S |-> IF next[n] # n THEN f[next[n]] ELSE n]
      BY <3>4 DEF H, Solution
    <3> QED BY <3>5
  <2> QED BY <2>1, <2>2
<1>2. ASSUME NEW at, at = [n \in S |-> IF next[n] # n THEN at[next[n]] ELSE n],
             NEW I \in SUBSET S, \A n \in I : next[n] \in I,
             NEW n \in I, ~(at[n] \in I /\ next[at[n]] = at[n])
      PROVE  FALSE
  <2> DEFINE Bad == {m \in I : ~(at[m] \in I /\ next[at[m]] = at[m])}
             Ranks == {rank[m] : m \in Bad}
  <2>1. Ranks \in SUBSET Nat /\ Ranks # {}
    <3>1. n \in Bad /\ Bad \in SUBSET S
      BY <1>2
    <3>2. \A m \in S : rank[m] \in Nat
      OBVIOUS
    <3> HIDE DEF Bad
    <3> QED BY <3>1, <3>2
  <2>2. Min(Ranks) \in Ranks /\ \A r \in Ranks : Min(Ranks) <= r
    <3> HIDE DEF Ranks
    <3> QED BY <2>1, MinOfNumbers
  <2>3. PICK m \in Bad : \A k \in Bad : rank[m] <= rank[k]
    BY <2>2
  <2>4. m \in S /\ at[m] = IF next[m] # m THEN at[next[m]] ELSE m
    BY <1>2
  <2>5. next[m] # m
    BY <2>4
  <2>6. next[m] \in I /\ rank[next[m]] < rank[m] /\ rank[m] \in Nat /\ rank[next[m]] \in Nat
    BY <1>2, <2>4, <2>5
  <2>7. next[m] \notin Bad
    <3> HIDE DEF Bad
    <3> QED BY <2>3, <2>6
  <2>8. at[m] = at[next[m]]
    BY <2>4, <2>5
  <2> QED BY <2>3, <2>6, <2>7, <2>8
<1> QED BY <1>1, <1>2

-----------------------------------------------------------------------------
(* Nodes of a radix tree, and the walks down to one.                         *)

\* What IsRadix says of a node.
LEMMA RadixNode ==
  ASSUME NEW tree, IsRadix(tree), NEW n \in DOMAIN tree
  PROVE  LET children == tree[n].children
         IN  /\ Root \in DOMAIN tree /\ n \in Places
             /\ tree[n] \in [route : Routes, children : Seq(Places)]
             /\ Len(children) \in Nat /\ DOMAIN children = 1 .. Len(children)
             /\ \A i \in DOMAIN children :
                  /\ children[i] \in DOMAIN tree /\ children[i] \in Places
                  /\ IsStrictPrefix(n, children[i])
             /\ \A i, j \in DOMAIN children :
                  children[i][Len(n) + 1] = children[j][Len(n) + 1] => i = j
             /\ \A m \in DOMAIN tree :
                  IsStrictPrefix(n, m) => \E i \in DOMAIN children : IsPrefix(children[i], m)
<1> DEFINE children == tree[n].children
<1>1. /\ Root \in DOMAIN tree /\ n \in Places
      /\ tree[n] \in [route : Routes, children : Seq(Places)]
      /\ \A i \in DOMAIN children :
           /\ children[i] \in DOMAIN tree
           /\ IsStrictPrefix(n, children[i])
           /\ \A j \in 1 .. i - 1 : children[j][Len(n) + 1] # children[i][Len(n) + 1]
      /\ \A m \in DOMAIN tree :
           IsStrictPrefix(n, m) => \E i \in DOMAIN children : IsPrefix(children[i], m)
      /\ \A m \in DOMAIN tree : m \in Places
  BY DEF IsRadix
<1>2. /\ Len(children) \in Nat /\ DOMAIN children = 1 .. Len(children)
  BY <1>1, LenProperties
<1>3. ASSUME NEW i \in DOMAIN children, NEW j \in DOMAIN children, i # j
      PROVE  children[i][Len(n) + 1] # children[j][Len(n) + 1]
  <2>1. CASE j < i
    <3>1. j \in 1 .. i - 1
      BY <1>2, <2>1
    <3> QED BY <1>1, <3>1
  <2>2. CASE i < j
    <3>1. i \in 1 .. j - 1
      BY <1>2, <2>2
    <3> QED BY <1>1, <3>1
  <2> QED BY <1>2, <1>3, <2>1, <2>2
<1> QED BY <1>1, <1>2, <1>3

\* The child that Sharing finds is the one that goes on as path does.
LEMMA SharingChild ==
  ASSUME NEW tree, IsRadix(tree), NEW n \in DOMAIN tree,
         NEW path \in Places, IsStrictPrefix(n, path)
  PROVE  LET children == tree[n].children
             i == Sharing(tree, n, path)
         IN  /\ i = 0 =>
                  \A j \in DOMAIN children : children[j][Len(n) + 1] # path[Len(n) + 1]
             /\ i # 0 => /\ i \in DOMAIN children
                         /\ children[i][Len(n) + 1] = path[Len(n) + 1]
<1> DEFINE children == tree[n].children
           I == {j \in 1 .. Len(children) : Len(commonPrefix(children[j], path)) > Len(n)}
<1>1. /\ n \in Places /\ Len(children) \in Nat
      /\ DOMAIN children = 1 .. Len(children)
      /\ \A j \in DOMAIN children :
           children[j] \in Places /\ IsStrictPrefix(n, children[j])
  BY RadixNode
<1>2. ASSUME NEW j \in DOMAIN children
      PROVE  Len(commonPrefix(children[j], path)) > Len(n)
               <=> children[j][Len(n) + 1] = path[Len(n) + 1]
  <2> DEFINE c == children[j]
             p == commonPrefix(c, path)
  <2> HIDE DEF c
  <2>1. c \in Places /\ IsStrictPrefix(n, c)
    BY <1>1 DEF c
  <2>2. /\ p \in Places /\ IsPrefix(p, c) /\ IsPrefix(p, path)
        /\ \A d \in Places : IsPrefix(d, c) /\ IsPrefix(d, path) => Len(d) <= Len(p)
        /\ Len(p) < Len(c) /\ Len(p) < Len(path) => c[Len(p) + 1] # path[Len(p) + 1]
    BY <2>1, CommonPrefix
  <2> HIDE DEF p
  <2>3. /\ IsPrefix(n, c) /\ IsPrefix(n, path) /\ Len(n) < Len(c) /\ Len(n) < Len(path)
        /\ Len(n) \in Nat /\ Len(p) \in Nat
    BY <1>1, <2>1, <2>2, PrefixOrder
  <2>4. Len(n) <= Len(p)
    BY <1>1, <2>2, <2>3
  <2>5. CASE Len(p) > Len(n)
    <3>1. IsPrefix(n, p)
      BY <1>1, <2>2, <2>3, <2>4, PrefixOrder
    <3>2. IsStrictPrefix(n, p)
      BY <1>1, <2>2, <2>5, <3>1, PrefixOrder
    <3>3. p[Len(n) + 1] = c[Len(n) + 1]
      BY <1>1, <2>1, <2>2, <3>2, PrefixOrder
    <3>4. p[Len(n) + 1] = path[Len(n) + 1]
      BY <1>1, <2>2, <3>2, PrefixOrder
    <3> QED BY <2>5, <3>3, <3>4 DEF c, p
  <2>6. CASE Len(p) = Len(n)
    <3>1. c[Len(n) + 1] # path[Len(n) + 1] /\ ~(Len(p) > Len(n))
      BY <2>2, <2>3, <2>6
    <3> QED BY <3>1 DEF c, p
  <2> QED BY <2>3, <2>4, <2>5, <2>6
<1>3. Sharing(tree, n, path) = IF I # {} THEN Min(I) ELSE 0
  BY DEF Sharing, SelectInSeq
<1>4. CASE I = {}
  BY <1>1, <1>2, <1>3, <1>4
<1>5. CASE I # {}
  <2>1. Min(I) \in I
    <3>1. I \in SUBSET Nat
      OBVIOUS
    <3> HIDE DEF I
    <3> QED BY <1>5, <3>1, MinOfNumbers
  <2>2. Sharing(tree, n, path) = Min(I)
    BY <1>3, <1>5
  <2>3. /\ Min(I) \in DOMAIN children /\ Min(I) # 0
        /\ Len(commonPrefix(children[Min(I)], path)) > Len(n)
    BY <1>1, <2>1
  <2>4. children[Min(I)][Len(n) + 1] = path[Len(n) + 1]
    BY <1>2, <2>3
  <2> HIDE DEF I
  <2> QED BY <2>2, <2>3, <2>4
<1> QED BY <1>4, <1>5

\* The child that Within finds is one whose place path begins with.
LEMMA WithinChild ==
  ASSUME NEW tree, IsRadix(tree), NEW n \in DOMAIN tree, NEW path \in Places
  PROVE  LET children == tree[n].children
             i == Within(tree, n, path)
         IN  /\ i = 0 => \A j \in DOMAIN children : ~IsPrefix(children[j], path)
             /\ i # 0 => i \in DOMAIN children /\ IsPrefix(children[i], path)
<1> DEFINE children == tree[n].children
           I == {j \in 1 .. Len(children) : IsPrefix(children[j], path)}
<1>1. DOMAIN children = 1 .. Len(children)
  BY RadixNode
<1>2. Within(tree, n, path) = IF I # {} THEN Min(I) ELSE 0
  BY DEF Within, SelectInSeq
<1>3. CASE I = {}
  BY <1>1, <1>2, <1>3
<1>4. CASE I # {}
  <2>1. Min(I) \in I
    <3>1. I \in SUBSET Nat
      OBVIOUS
    <3> HIDE DEF I
    <3> QED BY <1>4, <3>1, MinOfNumbers
  <2> QED BY <1>1, <1>2, <1>4, <2>1
<1> QED BY <1>3, <1>4

\* Sharing finds a child or nothing.
LEMMA SharingDomain ==
  ASSUME NEW tree, IsRadix(tree), NEW n \in DOMAIN tree, NEW path,
         Sharing(tree, n, path) # 0
  PROVE  Sharing(tree, n, path) \in DOMAIN tree[n].children
<1> DEFINE children == tree[n].children
           I == {j \in 1 .. Len(children) : Len(commonPrefix(children[j], path)) > Len(n)}
<1>1. DOMAIN children = 1 .. Len(children)
  BY RadixNode
<1>2. Sharing(tree, n, path) = Min(I) /\ I # {}
  BY DEF Sharing, SelectInSeq
<1>3. Min(I) \in I
  <2>1. I \in SUBSET Nat
    <3> HIDE DEF children
    <3> QED OBVIOUS
  <2> HIDE DEF I
  <2> QED BY <1>2, <2>1, MinOfNumbers
<1> QED BY <1>1, <1>2, <1>3

\* Where insert makes its change: at a node whose place path goes on from, and
\* none of whose children path goes on from.
LEMMA InsertionWalk ==
  ASSUME NEW tree, IsRadix(tree), NEW path \in Places, path # Root
  PROVE  LET n == InsertionPoint(tree, path)
             i == Sharing(tree, n, path)
         IN  /\ n \in DOMAIN tree /\ IsStrictPrefix(n, path)
             /\ i # 0 => ~IsStrictPrefix(tree[n].children[i], path)
<1> DEFINE S == DOMAIN tree
           Child(n) == tree[n].children[Sharing(tree, n, path)]
           Goes(n) == Sharing(tree, n, path) # 0 /\ IsStrictPrefix(Child(n), path)
           next == [n \in S |-> IF Goes(n) THEN Child(n) ELSE n]
           rank == [n \in S |-> IF IsPrefix(n, path) THEN Len(path) - Len(n) ELSE 0]
           Code(at) == at = [n \in DOMAIN tree |->
                               IF Sharing(tree, n, path) # 0 /\ IsStrictPrefix(Child(n), path)
                               THEN at[Child(n)] ELSE n]
<1>1. ASSUME NEW n \in S, Goes(n)
      PROVE  /\ Child(n) \in S /\ Child(n) # n
             /\ IsStrictPrefix(n, Child(n)) /\ IsStrictPrefix(n, path)
             /\ rank[n] \in Nat /\ rank[Child(n)] < rank[n]
  <2>1. /\ n \in Places /\ Child(n) \in S /\ Child(n) \in Places
        /\ IsStrictPrefix(n, Child(n)) /\ IsStrictPrefix(Child(n), path)
    BY <1>1, SharingDomain, RadixNode
  <2> HIDE DEF Child
  <2>2. /\ IsPrefix(n, path) /\ IsPrefix(Child(n), path) /\ Len(n) < Len(Child(n))
        /\ Len(Child(n)) < Len(path) /\ Len(n) \in Nat
        /\ Len(Child(n)) \in Nat /\ Len(path) \in Nat
    BY <2>1, PrefixOrder
  <2>3. IsStrictPrefix(n, path)
    BY <2>1, <2>2, PrefixOrder
  <2>4. rank[n] = Len(path) - Len(n) /\ rank[Child(n)] = Len(path) - Len(Child(n))
    BY <2>1, <2>2
  <2> QED BY <2>1, <2>2, <2>3, <2>4
<1>2. Downhill(S, Len(path), rank, next)
  <2>1. Len(path) \in Nat
    BY PrefixOrder
  <2>2. rank \in [S -> 0 .. Len(path)]
    <3> SUFFICES ASSUME NEW n \in S PROVE rank[n] \in 0 .. Len(path)
      OBVIOUS
    <3>1. n \in Places
      BY RadixNode
    <3>2. Len(n) \in Nat /\ (IsPrefix(n, path) => Len(n) <= Len(path))
      BY <3>1, PrefixOrder
    <3> QED BY <2>1, <3>2
  <2>3. /\ next \in [S -> S]
        /\ \A n \in S : next[n] # n => rank[next[n]] < rank[n]
    <3>1. \A n \in S : Goes(n) => Child(n) \in S /\ rank[Child(n)] < rank[n]
      BY <1>1
    <3> HIDE DEF Child, Goes, rank
    <3>2. next \in [S -> S]
      BY <3>1
    <3>3. \A n \in S : next[n] # n => Goes(n) /\ next[n] = Child(n)
      OBVIOUS
    <3> HIDE DEF next
    <3> QED BY <3>1, <3>2, <3>3
  <2> QED BY <2>1, <2>2, <2>3 DEF Downhill
<1>3. \A at : Code(at) <=> Walk(S, next, at)
  <2>1. \A n \in S : next[n] # n <=> Goes(n)
    <3>1. \A n \in S : Goes(n) => Child(n) # n
      BY <1>1
    <3> HIDE DEF Child, Goes, rank
    <3> QED BY <3>1
  <2>2. \A at : \A n \in S : (IF next[n] # n THEN at[next[n]] ELSE n)
                               = (IF Goes(n) THEN at[Child(n)] ELSE n)
    <3> HIDE DEF Child, Goes
    <3> QED BY <2>1
  <2> HIDE DEF next, Child, rank
  <2> QED BY <2>2 DEF Walk
<1>4. PICK at : Code(at) /\ InsertionPoint(tree, path) = at[Root]
  <2> DEFINE at == CHOOSE at : Code(at)
  <2>1. \E f : Code(f)
    BY <1>2, <1>3, Descent
  <2>2. Code(at)
    <3> HIDE DEF Code
    <3> QED BY <2>1
  <2>3. InsertionPoint(tree, path) = at[Root]
    BY DEF InsertionPoint
  <2> QED BY <2>2, <2>3
<1>5. /\ at[Root] \in {n \in S : IsStrictPrefix(n, path)}
      /\ next[at[Root]] = at[Root]
  <2> DEFINE I == {n \in S : IsStrictPrefix(n, path)}
  <2>1. I \in SUBSET S /\ \A n \in I : next[n] \in I
    <3> HIDE DEF Child, rank
    <3> QED BY <1>1
  <2>2. Root \in I
    BY PrefixOrder DEF IsRadix
  <2>3. Walk(S, next, at)
    BY <1>3, <1>4
  <2> HIDE DEF next, I
  <2>4. at[Root] \in I /\ next[at[Root]] = at[Root]
    BY <1>2, <2>1, <2>2, <2>3, Descent
  <2> QED BY <2>4 DEF I
<1>6. ~Goes(at[Root])
  <2> HIDE DEF Child, Goes, rank
  <2> QED BY <1>1, <1>5
<1> QED BY <1>4, <1>5, <1>6

\* Where delete makes its change: at a node whose place path goes on from, whose
\* child at path, if it has one, is the node to delete, and none of whose other
\* children path goes on from.
LEMMA DeletionWalk ==
  ASSUME NEW tree, IsRadix(tree), NEW path \in Places, path # Root
  PROVE  LET n == DeletionPoint(tree, path)
             i == Within(tree, n, path)
         IN  /\ n \in DOMAIN tree /\ IsStrictPrefix(n, path)
             /\ i # 0 => tree[n].children[i] = path
<1> DEFINE S == DOMAIN tree
           Child(n) == tree[n].children[Within(tree, n, path)]
           Goes(n) == Within(tree, n, path) # 0 /\ Child(n) # path
           next == [n \in S |-> IF Goes(n) THEN Child(n) ELSE n]
           rank == [n \in S |-> IF IsPrefix(n, path) THEN Len(path) - Len(n) ELSE 0]
           Code(at) == at = [n \in DOMAIN tree |->
                               IF Within(tree, n, path) # 0 /\ Child(n) # path
                               THEN at[Child(n)] ELSE n]
<1>1. ASSUME NEW n \in S, Goes(n)
      PROVE  /\ Child(n) \in S /\ Child(n) # n
             /\ IsStrictPrefix(n, Child(n)) /\ IsStrictPrefix(Child(n), path)
             /\ rank[n] \in Nat /\ rank[Child(n)] < rank[n]
  <2>1. /\ n \in Places /\ Child(n) \in S /\ Child(n) \in Places
        /\ IsStrictPrefix(n, Child(n)) /\ IsPrefix(Child(n), path)
        /\ Child(n) # path
    BY <1>1, WithinChild, RadixNode
  <2> HIDE DEF Child
  <2>2. /\ IsStrictPrefix(Child(n), path)
        /\ IsPrefix(n, path) /\ Len(n) < Len(Child(n))
        /\ Len(Child(n)) < Len(path) /\ Len(n) \in Nat
        /\ Len(Child(n)) \in Nat /\ Len(path) \in Nat
    BY <2>1, PrefixOrder DEF IsStrictPrefix
  <2>3. rank[n] = Len(path) - Len(n) /\ rank[Child(n)] = Len(path) - Len(Child(n))
    BY <2>1, <2>2
  <2> QED BY <2>1, <2>2, <2>3
<1>2. Downhill(S, Len(path), rank, next)
  <2>1. Len(path) \in Nat
    BY PrefixOrder
  <2>2. rank \in [S -> 0 .. Len(path)]
    <3> SUFFICES ASSUME NEW n \in S PROVE rank[n] \in 0 .. Len(path)
      OBVIOUS
    <3>1. n \in Places
      BY RadixNode
    <3>2. Len(n) \in Nat /\ (IsPrefix(n, path) => Len(n) <= Len(path))
      BY <3>1, PrefixOrder
    <3> QED BY <2>1, <3>2
  <2>3. /\ next \in [S -> S]
        /\ \A n \in S : next[n] # n => rank[next[n]] < rank[n]
    <3>1. \A n \in S : Goes(n) => Child(n) \in S /\ rank[Child(n)] < rank[n]
      BY <1>1
    <3> HIDE DEF Child, Goes, rank
    <3>2. next \in [S -> S]
      BY <3>1
    <3>3. \A n \in S : next[n] # n => Goes(n) /\ next[n] = Child(n)
      OBVIOUS
    <3> HIDE DEF next
    <3> QED BY <3>1, <3>2, <3>3
  <2> QED BY <2>1, <2>2, <2>3 DEF Downhill
<1>3. \A at : Code(at) <=> Walk(S, next, at)
  <2>1. \A n \in S : next[n] # n <=> Goes(n)
    <3>1. \A n \in S : Goes(n) => Child(n) # n
      BY <1>1
    <3> HIDE DEF Child, Goes, rank
    <3> QED BY <3>1
  <2>2. \A at : \A n \in S : (IF next[n] # n THEN at[next[n]] ELSE n)
                               = (IF Goes(n) THEN at[Child(n)] ELSE n)
    <3> HIDE DEF Child, Goes
    <3> QED BY <2>1
  <2> HIDE DEF next, Child, rank
  <2> QED BY <2>2 DEF Walk
<1>4. PICK at : Code(at) /\ DeletionPoint(tree, path) = at[Root]
  <2> DEFINE at == CHOOSE at : Code(at)
  <2>1. \E f : Code(f)
    BY <1>2, <1>3, Descent
  <2>2. Code(at)
    <3> HIDE DEF Code
    <3> QED BY <2>1
  <2>3. DeletionPoint(tree, path) = at[Root]
    BY DEF DeletionPoint
  <2> QED BY <2>2, <2>3
<1>5. /\ at[Root] \in {n \in S : IsStrictPrefix(n, path)}
      /\ next[at[Root]] = at[Root]
  <2> DEFINE I == {n \in S : IsStrictPrefix(n, path)}
  <2>1. I \in SUBSET S /\ \A n \in I : next[n] \in I
    <3> HIDE DEF Child, rank
    <3> QED BY <1>1
  <2>2. Root \in I
    BY PrefixOrder DEF IsRadix
  <2>3. Walk(S, next, at)
    BY <1>3, <1>4
  <2> HIDE DEF next, I
  <2>4. at[Root] \in I /\ next[at[Root]] = at[Root]
    BY <1>2, <2>1, <2>2, <2>3, Descent
  <2> QED BY <2>4 DEF I
<1>6. ~Goes(at[Root])
  <2> HIDE DEF Child, Goes, rank
  <2> QED BY <1>1, <1>5
<1> QED BY <1>4, <1>5, <1>6

-----------------------------------------------------------------------------
(* Insertion. *)

\* The route that is stored at a place.
Stored(tree, x) == IF x \in DOMAIN tree THEN tree[x].route ELSE None

\* What IsRadix asks of the children of a node n, in a tree with the places D.
WellBranched(D, n, children) ==
  /\ children \in Seq(Places)
  /\ \A i \in 1 .. Len(children) : children[i] \in D /\ IsStrictPrefix(n, children[i])
  /\ \A i, j \in 1 .. Len(children) :
       children[i][Len(n) + 1] = children[j][Len(n) + 1] => i = j
  /\ \A m \in D : IsStrictPrefix(n, m) => \E i \in 1 .. Len(children) : IsPrefix(children[i], m)

\* A tree is a radix tree if each of its nodes is well branched.
LEMMA RadixForm ==
  ASSUME NEW tree
  PROVE  IsRadix(tree) <=>
           /\ Root \in DOMAIN tree
           /\ \A n \in DOMAIN tree :
                /\ n \in Places
                /\ tree[n] \in [route : Routes, children : Seq(Places)]
                /\ WellBranched(DOMAIN tree, n, tree[n].children)
<1>1. ASSUME IsRadix(tree), NEW n \in DOMAIN tree
      PROVE  /\ n \in Places
             /\ tree[n] \in [route : Routes, children : Seq(Places)]
             /\ WellBranched(DOMAIN tree, n, tree[n].children)
  <2> DEFINE children == tree[n].children
  <2>1. /\ n \in Places
        /\ tree[n] \in [route : Routes, children : Seq(Places)]
        /\ DOMAIN children = 1 .. Len(children)
        /\ \A i \in DOMAIN children :
             children[i] \in DOMAIN tree /\ IsStrictPrefix(n, children[i])
        /\ \A i, j \in DOMAIN children :
             children[i][Len(n) + 1] = children[j][Len(n) + 1] => i = j
        /\ \A m \in DOMAIN tree :
             IsStrictPrefix(n, m) => \E i \in DOMAIN children : IsPrefix(children[i], m)
    BY <1>1, RadixNode
  <2>2. children \in Seq(Places)
    BY <2>1
  <2> HIDE DEF children
  <2>3. WellBranched(DOMAIN tree, n, children)
    BY <2>1, <2>2 DEF WellBranched
  <2> QED BY <2>1, <2>3 DEF children
<1>2. ASSUME NEW n \in DOMAIN tree,
             tree[n] \in [route : Routes, children : Seq(Places)],
             WellBranched(DOMAIN tree, n, tree[n].children)
      PROVE  /\ \A i \in DOMAIN tree[n].children :
                  /\ tree[n].children[i] \in DOMAIN tree
                  /\ IsStrictPrefix(n, tree[n].children[i])
                  /\ \A j \in 1 .. i - 1 :
                       tree[n].children[j][Len(n) + 1] # tree[n].children[i][Len(n) + 1]
             /\ \A m \in DOMAIN tree :
                  IsStrictPrefix(n, m) =>
                    \E i \in DOMAIN tree[n].children : IsPrefix(tree[n].children[i], m)
  <2> DEFINE children == tree[n].children
  <2>1. /\ Len(children) \in Nat /\ DOMAIN children = 1 .. Len(children)
    BY <1>2, LenProperties
  <2>2. ASSUME NEW i \in DOMAIN children, NEW j \in 1 .. i - 1
        PROVE  children[j][Len(n) + 1] # children[i][Len(n) + 1]
    <3>1. j \in 1 .. Len(children) /\ i \in 1 .. Len(children) /\ i # j
      BY <2>1
    <3> HIDE DEF children
    <3> QED BY <1>2, <3>1 DEF WellBranched, children
  <2> QED BY <1>2, <2>1, <2>2 DEF WellBranched
<1> QED BY <1>1, <1>2 DEF IsRadix

\* If a path goes on from n and from no child of n, then n is the deepest node it
\* goes on from, and there is no node at the path.
LEMMA Deepest ==
  ASSUME NEW tree, IsRadix(tree), NEW n \in DOMAIN tree, NEW path \in Places,
         IsStrictPrefix(n, path),
         \A i \in 1 .. Len(tree[n].children) : ~IsPrefix(tree[n].children[i], path)
  PROVE  /\ path \notin DOMAIN tree
         /\ \A m \in DOMAIN tree : IsStrictPrefix(m, path) /\ m # n =>
              \E i \in 1 .. Len(tree[m].children) : IsPrefix(tree[m].children[i], path)
<1>1. path \notin DOMAIN tree
  BY RadixForm DEF WellBranched
<1>2. ASSUME NEW m \in DOMAIN tree, IsStrictPrefix(m, path), m # n
      PROVE  \E i \in 1 .. Len(tree[m].children) : IsPrefix(tree[m].children[i], path)
  <2>1. /\ m \in Places /\ n \in Places
        /\ IsPrefix(m, path) /\ IsPrefix(n, path)
        /\ Len(m) \in Nat /\ Len(n) \in Nat
    <3>1. m \in Places /\ n \in Places
      BY RadixForm
    <3> QED BY <1>2, <3>1, PrefixOrder
  <2>2. CASE Len(m) <= Len(n)
    <3>1. IsStrictPrefix(m, n)
      BY <1>2, <2>1, <2>2, PrefixOrder DEF IsStrictPrefix
    <3>2. PICK i \in 1 .. Len(tree[m].children) : IsPrefix(tree[m].children[i], n)
      BY <3>1, RadixForm DEF WellBranched
    <3>3. tree[m].children[i] \in Places
      BY <3>2, RadixForm DEF WellBranched
    <3>4. IsPrefix(tree[m].children[i], path)
      BY <2>1, <3>2, <3>3, PrefixOrder
    <3> QED BY <3>4
  <2>3. CASE Len(n) < Len(m)
    <3>1. IsStrictPrefix(n, m)
      BY <1>2, <2>1, <2>3, PrefixOrder DEF IsStrictPrefix
    <3>2. PICK i \in 1 .. Len(tree[n].children) : IsPrefix(tree[n].children[i], m)
      BY <3>1, RadixForm DEF WellBranched
    <3>3. tree[n].children[i] \in Places
      BY <3>2, RadixForm DEF WellBranched
    <3>4. IsPrefix(tree[n].children[i], path)
      BY <2>1, <3>2, <3>3, PrefixOrder
    <3> QED BY <3>4
  <2> QED BY <2>1, <2>2, <2>3
<1> QED BY <1>1, <1>2

\* An operation that stores route at path, and changes no other place, in a radix
\* tree: it makes no node but on the way to path.
Stores(tree, new, path, route) ==
  /\ IsRadix(new)
  /\ \A x \in Places : Stored(new, x) = IF x = path THEN route ELSE Stored(tree, x)
  /\ \A n \in DOMAIN new : n \in DOMAIN tree \/ IsPrefix(n, path)

\* A route is set at a node that is there.
LEMMA SetRoute ==
  ASSUME NEW tree, IsRadix(tree), NEW path \in DOMAIN tree, NEW route \in Routes
  PROVE  Stores(tree, [tree EXCEPT ![path].route = route], path, route)
<1> DEFINE new == [tree EXCEPT ![path].route = route]
<1>1. /\ DOMAIN new = DOMAIN tree
      /\ \A n \in DOMAIN tree :
           /\ new[n] \in [route : Routes, children : Seq(Places)]
           /\ new[n].children = tree[n].children
           /\ new[n].route = IF n = path THEN route ELSE tree[n].route
  <2>1. DOMAIN new = DOMAIN tree
    OBVIOUS
  <2>2. ASSUME NEW n \in DOMAIN tree
        PROVE  /\ new[n] \in [route : Routes, children : Seq(Places)]
               /\ new[n].children = tree[n].children
               /\ new[n].route = IF n = path THEN route ELSE tree[n].route
    <3>1. tree[n] \in [route : Routes, children : Seq(Places)]
      BY RadixNode
    <3>2. CASE n = path
      <4>1. new[n] = [tree[n] EXCEPT !.route = route]
        BY <3>2
      <4> QED BY <3>1, <3>2, <4>1
    <3>3. CASE n # path
      BY <3>1, <3>3
    <3> QED BY <3>2, <3>3
  <2> QED BY <2>1, <2>2
<1> HIDE DEF new
<1>2. IsRadix(new)
  BY <1>1, RadixForm
<1>3. ASSUME NEW x \in Places
      PROVE  Stored(new, x) = IF x = path THEN route ELSE Stored(tree, x)
  BY <1>1 DEF Stored
<1> QED BY <1>1, <1>2, <1>3 DEF Stores, new

\* A node is added below the deepest one that path goes on from.
LEMMA AddLeaf ==
  ASSUME NEW tree, IsRadix(tree), NEW n \in DOMAIN tree, NEW path \in Places,
         NEW route \in Routes, IsStrictPrefix(n, path),
         \A i \in 1 .. Len(tree[n].children) :
           tree[n].children[i][Len(n) + 1] # path[Len(n) + 1]
  PROVE  Stores(tree,
                Put([tree EXCEPT ![n].children = Append(@, path)], path, Node(route, <<>>)),
                path, route)
<1> DEFINE D == DOMAIN tree
           old == tree[n].children
           children == Append(old, path)
           new == Put([tree EXCEPT ![n].children = Append(@, path)], path, Node(route, <<>>))
<1>1. /\ n \in Places /\ old \in Seq(Places) /\ Len(old) \in Nat
      /\ tree[n] \in [route : Routes, children : Seq(Places)]
      /\ WellBranched(D, n, old)
  BY RadixForm, LenProperties
<1>2. \A i \in 1 .. Len(old) : ~IsPrefix(old[i], path)
  <2> SUFFICES ASSUME NEW i \in 1 .. Len(old), IsPrefix(old[i], path) PROVE FALSE
    OBVIOUS
  <2>1. old[i] \in Places /\ IsStrictPrefix(n, old[i])
    BY <1>1, RadixForm DEF WellBranched
  <2>2. old[i][Len(n) + 1] = path[Len(n) + 1]
    BY <1>1, <2>1, PrefixOrder
  <2> QED BY <2>2
<1>3. /\ path \notin D
      /\ \A m \in D : IsStrictPrefix(m, path) /\ m # n =>
           \E i \in 1 .. Len(tree[m].children) : IsPrefix(tree[m].children[i], path)
  BY <1>2, Deepest
<1>4. /\ DOMAIN new = D \cup {path}
      /\ new[path] = Node(route, <<>>)
      /\ new[n] = [route |-> tree[n].route, children |-> children]
      /\ \A m \in D : m # n => new[m] = tree[m]
  <2>1. n # path
    BY DEF IsStrictPrefix
  <2> QED BY <1>1, <1>3, <2>1 DEF Put
<1> HIDE DEF new
<1>5. /\ children \in Seq(Places) /\ Len(children) = Len(old) + 1
      /\ \A i \in 1 .. Len(old) : children[i] = old[i]
      /\ children[Len(old) + 1] = path
  BY <1>1, AppendProperties
<1>6. WellBranched(D \cup {path}, n, children)
  <2> HIDE DEF children
  <2>1. ASSUME NEW i \in 1 .. Len(children)
        PROVE  children[i] \in D \cup {path} /\ IsStrictPrefix(n, children[i])
    <3>1. CASE i \in 1 .. Len(old)
      BY <1>1, <1>5, <3>1 DEF WellBranched
    <3>2. CASE i = Len(old) + 1
      BY <1>5, <3>2
    <3> QED BY <1>1, <1>5, <3>1, <3>2
  <2>2. ASSUME NEW i \in 1 .. Len(children), NEW j \in 1 .. Len(children),
               children[i][Len(n) + 1] = children[j][Len(n) + 1]
        PROVE  i = j
    <3>1. CASE i \in 1 .. Len(old) /\ j \in 1 .. Len(old)
      BY <1>1, <1>5, <2>2, <3>1 DEF WellBranched
    <3>2. CASE i = Len(old) + 1 /\ j \in 1 .. Len(old)
      BY <1>5, <2>2, <3>2
    <3>3. CASE j = Len(old) + 1 /\ i \in 1 .. Len(old)
      BY <1>5, <2>2, <3>3
    <3> QED BY <1>1, <1>5, <3>1, <3>2, <3>3
  <2>3. ASSUME NEW m \in D \cup {path}, IsStrictPrefix(n, m)
        PROVE  \E i \in 1 .. Len(children) : IsPrefix(children[i], m)
    <3>1. CASE m \in D
      <4>1. PICK i \in 1 .. Len(old) : IsPrefix(old[i], m)
        BY <1>1, <2>3, <3>1 DEF WellBranched
      <4> QED BY <1>1, <1>5, <4>1
    <3>2. CASE m = path
      <4>1. IsPrefix(path, path) /\ Len(old) + 1 \in 1 .. Len(children)
        BY <1>1, <1>5, PrefixOrder
      <4> QED BY <1>5, <3>2, <4>1
    <3> QED BY <3>1, <3>2
  <2> QED BY <1>5, <2>1, <2>2, <2>3 DEF WellBranched
<1>7. ASSUME NEW m \in D, m # n PROVE WellBranched(D \cup {path}, m, tree[m].children)
  <2>1. WellBranched(D, m, tree[m].children)
    BY RadixForm
  <2> QED BY <1>3, <1>7, <2>1 DEF WellBranched
<1>8. WellBranched(D \cup {path}, path, <<>>)
  <2>1. ASSUME NEW m \in D, IsStrictPrefix(path, m) PROVE FALSE
    <3>1. m \in Places /\ IsPrefix(n, path) /\ IsPrefix(path, m)
      BY <2>1, RadixForm DEF IsStrictPrefix
    <3>2. IsStrictPrefix(n, m) /\ path[Len(n) + 1] = m[Len(n) + 1]
      BY <1>1, <3>1, PrefixOrder
    <3>3. PICK i \in 1 .. Len(old) : IsPrefix(old[i], m)
      BY <1>1, <3>2 DEF WellBranched
    <3>4. old[i] \in Places /\ IsStrictPrefix(n, old[i])
      BY <1>1, <3>3, RadixForm DEF WellBranched
    <3>5. old[i][Len(n) + 1] = m[Len(n) + 1]
      BY <1>1, <3>1, <3>3, <3>4, PrefixOrder
    <3> QED BY <3>2, <3>3, <3>5
  <2>2. ~IsStrictPrefix(path, path)
    BY DEF IsStrictPrefix
  <2>3. <<>> \in Seq(Places) /\ Len(<<>>) = 0
    BY EmptySeq
  <2> QED BY <2>1, <2>2, <2>3 DEF WellBranched
<1>9. IsRadix(new)
  <2>1. \A m \in D : m \in Places /\ tree[m] \in [route : Routes, children : Seq(Places)]
    BY RadixForm
  <2>2. <<>> \in Seq(Places) /\ Root \in D
    BY EmptySeq, RadixForm
  <2>3. ASSUME NEW m \in D \cup {path}
        PROVE  /\ m \in Places
               /\ new[m] \in [route : Routes, children : Seq(Places)]
               /\ WellBranched(D \cup {path}, m, new[m].children)
    <3>1. CASE m = path
      <4>1. new[path].children = <<>>
        BY <1>4 DEF Node
      <4>2. new[path] \in [route : Routes, children : Seq(Places)]
        BY <1>4, <2>2 DEF Node
      <4> QED BY <1>8, <3>1, <4>1, <4>2
    <3>2. CASE m = n
      <4> HIDE DEF children
      <4>1. tree[n].route \in Routes
        BY <1>1
      <4>2. new[n].children = children /\ new[n].route = tree[n].route
        BY <1>4
      <4>3. new[n] \in [route : Routes, children : Seq(Places)]
        BY <1>4, <1>5, <4>1
      <4> QED BY <1>1, <1>6, <3>2, <4>2, <4>3
    <3>3. CASE m \in D /\ m # n
      BY <1>4, <1>7, <2>1, <3>3
    <3> QED BY <3>1, <3>2, <3>3
  <2> QED BY <1>4, <2>2, <2>3, RadixForm
<1>10. ASSUME NEW x \in Places
       PROVE  Stored(new, x) = IF x = path THEN route ELSE Stored(tree, x)
  BY <1>4 DEF Stored, Node
<1>11. \A m \in DOMAIN new : m \in D \/ IsPrefix(m, path)
  BY <1>4, PrefixOrder
<1> QED BY <1>9, <1>10, <1>11 DEF Stores, new

\* A node is put between n and one of its children.
LEMMA AddBetween ==
  ASSUME NEW tree, IsRadix(tree), NEW n \in DOMAIN tree,
         NEW i \in 1 .. Len(tree[n].children), NEW s \in Places, NEW route \in Routes,
         IsStrictPrefix(n, s), IsStrictPrefix(s, tree[n].children[i])
  PROVE  /\ s \notin DOMAIN tree
         /\ Stores(tree,
                   Put([tree EXCEPT ![n].children[i] = s], s,
                       Node(route, <<tree[n].children[i]>>)),
                   s, route)
<1> DEFINE D == DOMAIN tree
           old == tree[n].children
           child == old[i]
           children == [old EXCEPT ![i] = s]
           new == Put([tree EXCEPT ![n].children[i] = s], s, Node(route, <<child>>))
<1>1. /\ n \in Places /\ old \in Seq(Places) /\ Len(old) \in Nat
      /\ tree[n] \in [route : Routes, children : Seq(Places)]
      /\ WellBranched(D, n, old)
      /\ child \in D /\ child \in Places /\ IsStrictPrefix(n, child)
  <2>1. /\ n \in Places /\ old \in Seq(Places)
        /\ tree[n] \in [route : Routes, children : Seq(Places)]
        /\ WellBranched(D, n, old)
    BY RadixForm
  <2>2. child \in D /\ IsStrictPrefix(n, child)
    BY <2>1 DEF WellBranched
  <2>3. child \in Places
    BY <2>2, RadixForm
  <2> QED BY <2>1, <2>2, <2>3, LenProperties
<1>2. /\ IsPrefix(s, child) /\ Len(s) < Len(child) /\ Len(s) \in Nat
      /\ s[Len(n) + 1] = child[Len(n) + 1]
  BY <1>1, PrefixOrder
<1>3. \A j \in 1 .. Len(old) : ~IsPrefix(old[j], s)
  <2> SUFFICES ASSUME NEW j \in 1 .. Len(old), IsPrefix(old[j], s) PROVE FALSE
    OBVIOUS
  <2>1. old[j] \in Places /\ IsStrictPrefix(n, old[j])
    BY <1>1, RadixForm DEF WellBranched
  <2>2. old[j][Len(n) + 1] = s[Len(n) + 1] /\ Len(old[j]) <= Len(s)
    BY <1>1, <2>1, PrefixOrder
  <2>3. j = i
    BY <1>1, <1>2, <2>2 DEF WellBranched
  <2>4. Len(child) <= Len(s) /\ Len(child) \in Nat
    BY <1>1, <2>2, <2>3, PrefixOrder
  <2> QED BY <1>2, <2>4
<1>4. /\ s \notin D
      /\ \A m \in D : IsStrictPrefix(m, s) /\ m # n =>
           \E j \in 1 .. Len(tree[m].children) : IsPrefix(tree[m].children[j], s)
  BY <1>3, Deepest
<1>5. /\ DOMAIN new = D \cup {s}
      /\ new[s] = Node(route, <<child>>)
      /\ new[n] = [route |-> tree[n].route, children |-> children]
      /\ \A m \in D : m # n => new[m] = tree[m]
  <2>1. n # s
    BY DEF IsStrictPrefix
  <2> QED BY <1>1, <1>4, <2>1 DEF Put
<1> HIDE DEF new
<1>6. /\ children \in Seq(Places) /\ Len(children) = Len(old)
      /\ \A j \in 1 .. Len(old) : children[j] = IF j = i THEN s ELSE old[j]
  BY <1>1, ExceptSeq
<1>7. WellBranched(D \cup {s}, n, children)
  <2> HIDE DEF children
  <2>1. ASSUME NEW j \in 1 .. Len(children)
        PROVE  children[j] \in D \cup {s} /\ IsStrictPrefix(n, children[j])
    BY <1>1, <1>6 DEF WellBranched
  <2>2. ASSUME NEW j \in 1 .. Len(children)
        PROVE  children[j][Len(n) + 1] = old[j][Len(n) + 1]
    BY <1>2, <1>6
  <2>3. ASSUME NEW j \in 1 .. Len(children), NEW k \in 1 .. Len(children),
               children[j][Len(n) + 1] = children[k][Len(n) + 1]
        PROVE  j = k
    BY <1>1, <1>6, <2>2, <2>3 DEF WellBranched
  <2>4. ASSUME NEW m \in D \cup {s}, IsStrictPrefix(n, m)
        PROVE  \E j \in 1 .. Len(children) : IsPrefix(children[j], m)
    <3>1. CASE m = s
      <4>1. children[i] = s /\ IsPrefix(s, s)
        BY <1>6, PrefixOrder
      <4> QED BY <1>6, <3>1, <4>1
    <3>2. CASE m \in D
      <4>1. PICK j \in 1 .. Len(old) : IsPrefix(old[j], m)
        BY <1>1, <2>4, <3>2 DEF WellBranched
      <4>2. m \in Places
        BY <3>2, RadixForm
      <4>3. j = i => IsPrefix(s, m)
        BY <1>1, <1>2, <4>1, <4>2, PrefixOrder
      <4>4. IsPrefix(children[j], m)
        BY <1>6, <4>1, <4>3
      <4> QED BY <1>6, <4>4
    <3> QED BY <3>1, <3>2
  <2> QED BY <1>6, <2>1, <2>3, <2>4 DEF WellBranched
<1>8. ASSUME NEW m \in D, m # n PROVE WellBranched(D \cup {s}, m, tree[m].children)
  <2>1. WellBranched(D, m, tree[m].children)
    BY RadixForm
  <2> QED BY <1>4, <1>8, <2>1 DEF WellBranched
<1>9. WellBranched(D \cup {s}, s, <<child>>)
  <2>1. ASSUME NEW m \in D, IsStrictPrefix(s, m) PROVE IsPrefix(child, m)
    <3>1. m \in Places /\ IsPrefix(s, m)
      BY <2>1, RadixForm DEF IsStrictPrefix
    <3>2. IsStrictPrefix(n, m) /\ s[Len(n) + 1] = m[Len(n) + 1]
      BY <1>1, <3>1, PrefixOrder
    <3>3. PICK j \in 1 .. Len(old) : IsPrefix(old[j], m)
      BY <1>1, <3>2 DEF WellBranched
    <3>4. old[j] \in Places /\ IsStrictPrefix(n, old[j])
      BY <1>1, <3>3, RadixForm DEF WellBranched
    <3>5. old[j][Len(n) + 1] = m[Len(n) + 1]
      BY <1>1, <3>1, <3>3, <3>4, PrefixOrder
    <3>6. j = i
      BY <1>1, <1>2, <3>2, <3>5 DEF WellBranched
    <3> QED BY <3>3, <3>6
  <2>2. ~IsStrictPrefix(s, s)
    BY DEF IsStrictPrefix
  <2> DEFINE only == <<child>>
  <2>3. /\ only \in Seq(Places) /\ Len(only) = 1 /\ only[1] = child
        /\ \A j : j \in 1 .. Len(only) <=> j = 1
    BY <1>1
  <2> HIDE DEF child, only
  <2>4. \A m \in D \cup {s} : IsStrictPrefix(s, m) => \E j \in 1 .. Len(only) : IsPrefix(only[j], m)
    BY <2>1, <2>2, <2>3
  <2>5. \A j \in 1 .. Len(only) : only[j] \in D \cup {s} /\ IsStrictPrefix(s, only[j])
    BY <1>1, <2>3 DEF child
  <2>6. WellBranched(D \cup {s}, s, only)
    BY <2>3, <2>4, <2>5 DEF WellBranched
  <2> QED BY <2>6 DEF only, child
<1>10. IsRadix(new)
  <2>1. \A m \in D : m \in Places /\ tree[m] \in [route : Routes, children : Seq(Places)]
    BY RadixForm
  <2>2. Root \in D
    BY RadixForm
  <2>3. ASSUME NEW m \in D \cup {s}
        PROVE  /\ m \in Places
               /\ new[m] \in [route : Routes, children : Seq(Places)]
               /\ WellBranched(D \cup {s}, m, new[m].children)
    <3>1. CASE m = s
      <4>1. new[s].children = <<child>>
        BY <1>5 DEF Node
      <4>2. <<child>> \in Seq(Places)
        BY <1>1
      <4> HIDE DEF child
      <4>3. new[s] \in [route : Routes, children : Seq(Places)]
        BY <1>5, <4>2 DEF Node
      <4> QED BY <1>9, <3>1, <4>1, <4>3
    <3>2. CASE m = n
      <4> HIDE DEF children
      <4>1. tree[n].route \in Routes
        BY <1>1
      <4>2. new[n].children = children /\ new[n].route = tree[n].route
        BY <1>5
      <4>3. new[n] \in [route : Routes, children : Seq(Places)]
        BY <1>5, <1>6, <4>1
      <4> QED BY <1>1, <1>7, <3>2, <4>2, <4>3
    <3>3. CASE m \in D /\ m # n
      BY <1>5, <1>8, <2>1, <3>3
    <3> QED BY <3>1, <3>2, <3>3
  <2> QED BY <1>5, <2>2, <2>3, RadixForm
<1>11. ASSUME NEW x \in Places
       PROVE  Stored(new, x) = IF x = s THEN route ELSE Stored(tree, x)
  BY <1>5 DEF Stored, Node
<1>12. \A m \in DOMAIN new : m \in D \/ IsPrefix(m, s)
  BY <1>5, PrefixOrder
<1> QED BY <1>4, <1>10, <1>11, <1>12 DEF Stores, new

\* A place may hold no route.
LEMMA NoneIsRoute == None \in Routes
BY DEF Routes

\* A child is split where path leaves its label.
LEMMA SplitStores ==
  ASSUME NEW tree, IsRadix(tree), NEW n \in DOMAIN tree,
         NEW path \in Places, IsStrictPrefix(n, path), NEW route \in Routes,
         NEW i \in 1 .. Len(tree[n].children),
         tree[n].children[i][Len(n) + 1] = path[Len(n) + 1],
         ~IsPrefix(tree[n].children[i], path)
  PROVE  Stores(tree, Split(tree, n, i, path, route), path, route)
<1> DEFINE child == tree[n].children[i]
           s == commonPrefix(child, path)
           above == [tree EXCEPT ![n].children[i] = s]
           Between(r) == Put(above, s, Node(r, <<child>>))
<1>1. /\ n \in Places /\ child \in DOMAIN tree /\ child \in Places
      /\ IsStrictPrefix(n, child)
  BY RadixForm DEF WellBranched
<1>2. /\ s \in Places /\ IsPrefix(s, child) /\ IsPrefix(s, path)
      /\ \A c \in Places : IsPrefix(c, child) /\ IsPrefix(c, path) => Len(c) <= Len(s)
      /\ Len(s) < Len(child) /\ Len(s) < Len(path) => child[Len(s) + 1] # path[Len(s) + 1]
  BY <1>1, CommonPrefix
<1>3. /\ IsStrictPrefix(n, s) /\ IsStrictPrefix(s, child)
      /\ Len(s) < Len(child) /\ Len(s) \in Nat /\ Len(path) \in Nat
      /\ Len(s) <= Len(path) /\ (Len(s) >= Len(path) => s = path)
  <2> HIDE DEF s, child
  <2>1. /\ IsPrefix(n, child) /\ IsPrefix(n, path) /\ Len(n) < Len(child)
        /\ Len(n) < Len(path) /\ Len(n) \in Nat /\ Len(s) \in Nat
    BY <1>1, <1>2, PrefixOrder
  <2>2. Len(n) <= Len(s)
    BY <1>1, <1>2, <2>1
  <2>3. Len(n) # Len(s)
    BY <1>2, <2>1 DEF child
  <2>4. IsStrictPrefix(n, s)
    BY <1>1, <1>2, <2>1, <2>2, <2>3, PrefixOrder
  <2>5. s # child
    BY <1>2 DEF child
  <2>6. IsStrictPrefix(s, child)
    BY <1>2, <2>5 DEF IsStrictPrefix
  <2> QED BY <1>1, <1>2, <2>4, <2>6, PrefixOrder
<1>4. CASE path = s
  <2>1. Split(tree, n, i, path, route) = Between(route)
    BY <1>4 DEF Split
  <2>2. Stores(tree, Between(route), s, route)
    <3> HIDE DEF s
    <3> QED BY <1>2, <1>3, AddBetween
  <2> QED BY <1>4, <2>1, <2>2
<1>5. CASE path # s
  <2> DEFINE mid == Between(None)
  <2>1. Stores(tree, mid, s, None)
    <3> HIDE DEF s
    <3> QED BY <1>2, <1>3, NoneIsRoute, AddBetween
  <2>2. s \in DOMAIN mid /\ mid[s] = Node(None, <<child>>)
    BY DEF Put
  <2>3. Split(tree, n, i, path, route)
          = Put([mid EXCEPT ![s].children = Append(@, path)], path, Node(route, <<>>))
    <3> DEFINE leaf == Node(route, <<>>)
               grown == Put(above, s, Node(None, <<child, path>>))
    <3>1. Split(tree, n, i, path, route) = Put(grown, path, leaf)
      BY <1>5 DEF Split
    <3> HIDE DEF child, s, leaf
    <3>2. Append(<<child>>, path) = <<child, path>>
      <4>1. <<child>> \in Seq(Places) /\ Len(<<child>>) = 1 /\ <<child>>[1] = child
        BY <1>1
      <4>2. /\ <<child, path>> \in Seq(Places) /\ Len(<<child, path>>) = 2
            /\ <<child, path>>[1] = child /\ <<child, path>>[2] = path
        BY <1>1
      <4>3. /\ Append(<<child>>, path) \in Seq(Places)
            /\ Len(Append(<<child>>, path)) = 2
            /\ Append(<<child>>, path)[1] = child
            /\ Append(<<child>>, path)[2] = path
        BY <4>1, AppendProperties
      <4>4. \A j \in 1 .. 2 : Append(<<child>>, path)[j] = <<child, path>>[j]
        BY <4>2, <4>3
      <4> QED BY <4>2, <4>3, <4>4, SeqEqual
    <3>3. grown = [mid EXCEPT ![s].children = Append(@, path)]
      <4> HIDE DEF above
      <4> QED BY <3>2 DEF Put, Node
    <3> HIDE DEF grown, mid
    <3> QED BY <3>1, <3>3 DEF leaf
  <2>4. \A j \in 1 .. Len(mid[s].children) : mid[s].children[j][Len(s) + 1] # path[Len(s) + 1]
    <3>1. Len(s) < Len(path)
      BY <1>3, <1>5
    <3>2. child[Len(s) + 1] # path[Len(s) + 1]
      BY <1>2, <1>3, <3>1
    <3> HIDE DEF mid, child, s
    <3>3. mid[s].children = <<child>>
      BY <2>2 DEF Node
    <3>4. Len(<<child>>) = 1 /\ <<child>>[1] = child
      OBVIOUS
    <3> QED BY <3>2, <3>3, <3>4
  <2>5. IsStrictPrefix(s, path)
    BY <1>2, <1>5 DEF IsStrictPrefix
  <2> HIDE DEF mid, s
  <2>6. IsRadix(mid)
    BY <2>1 DEF Stores
  <2>7. Stores(mid, Split(tree, n, i, path, route), path, route)
    BY <2>2, <2>3, <2>4, <2>5, <2>6, AddLeaf
  <2>8. Stored(tree, s) = None
    BY <1>2, <1>3, AddBetween, NoneIsRoute DEF Stored
  <2>9. ASSUME NEW x \in Places
        PROVE  Stored(Split(tree, n, i, path, route), x)
                 = IF x = path THEN route ELSE Stored(tree, x)
    BY <2>1, <2>7, <2>8 DEF Stores
  <2>10. ASSUME NEW m \in DOMAIN Split(tree, n, i, path, route)
         PROVE  m \in DOMAIN tree \/ IsPrefix(m, path)
    <3>1. CASE m \in DOMAIN mid /\ m \notin DOMAIN tree
      <4>1. m \in Places /\ IsPrefix(m, s)
        BY <2>1, <2>6, <3>1, RadixForm DEF Stores
      <4> QED BY <1>2, <4>1, PrefixOrder
    <3> QED BY <2>7, <3>1 DEF Stores
  <2> QED BY <2>7, <2>9, <2>10 DEF Stores
<1> QED BY <1>4, <1>5

\* insert stores the route at its path, and changes no other.
LEMMA InsertBelow ==
  ASSUME NEW tree, IsRadix(tree), NEW path \in Places, path # Root, NEW route \in Routes
  PROVE  Stores(tree, insert(tree, path, route), path, route)
<1> DEFINE n == InsertionPoint(tree, path)
           i == Sharing(tree, n, path)
           children == tree[n].children
<1>1. /\ n \in DOMAIN tree /\ IsStrictPrefix(n, path)
      /\ i # 0 => ~IsStrictPrefix(children[i], path)
  BY InsertionWalk
<1>2. DOMAIN children = 1 .. Len(children)
  <2> HIDE DEF n
  <2> QED BY <1>1, RadixNode
<1>3. /\ i = 0 => \A j \in DOMAIN children : children[j][Len(n) + 1] # path[Len(n) + 1]
      /\ i # 0 => /\ i \in DOMAIN children
                  /\ children[i][Len(n) + 1] = path[Len(n) + 1]
  <2> HIDE DEF n
  <2> QED BY <1>1, SharingChild
<1>4. CASE i = 0
  <2>1. insert(tree, path, route)
          = Put([tree EXCEPT ![n].children = Append(@, path)], path, Node(route, <<>>))
    BY <1>4 DEF insert
  <2> HIDE DEF n
  <2> QED BY <1>1, <1>2, <1>3, <1>4, <2>1, AddLeaf
<1>5. CASE i # 0 /\ children[i] = path
  <2>1. insert(tree, path, route) = [tree EXCEPT ![path].route = route]
    BY <1>5 DEF insert
  <2> HIDE DEF n
  <2>2. path \in DOMAIN tree
    BY <1>1, <1>3, <1>5, RadixNode
  <2>3. Stores(tree, [tree EXCEPT ![path].route = route], path, route)
    BY <2>2, SetRoute
  <2> HIDE DEF children, i
  <2> QED BY <2>1, <2>3, Zenon
<1>6. CASE i # 0 /\ children[i] # path
  <2>1. insert(tree, path, route) = Split(tree, n, i, path, route)
    BY <1>6 DEF insert
  <2> HIDE DEF n
  <2>2. ~IsPrefix(children[i], path)
    BY <1>1, <1>6 DEF IsStrictPrefix
  <2>3. /\ i \in 1 .. Len(tree[n].children)
        /\ tree[n].children[i][Len(n) + 1] = path[Len(n) + 1]
    BY <1>2, <1>3, <1>6
  <2> HIDE DEF i
  <2>4. Stores(tree, Split(tree, n, i, path, route), path, route)
    BY <1>1, <2>2, <2>3, SplitStores
  <2> QED BY <2>1, <2>4
<1> QED BY <1>4, <1>5, <1>6

\* The place in a tree of a normalized path: the route of "/" is the root's.
PlaceOf(path) == IF path = <<"/">> THEN Root ELSE path

\* A normalized path begins with a slash.
LEMMA NormalizedPath ==
  ASSUME NEW path \in Places
  PROVE  LET p == normalizePath(path)
         IN  /\ p \in Places /\ p # Root /\ p[1] = "/" /\ Len(p) \in Nat /\ Len(p) >= 1
             /\ path[1] = "/" /\ Len(path) >= 1 =>
                  p = path \/ (Len(path) > 1 /\ path[Len(path)] = "/" /\ p = Front(path))
<1> DEFINE slash == <<"/">>
           rooted == IF IsPrefix(slash, path) THEN path ELSE slash \o path
           p == normalizePath(path)
<1>1. /\ slash \in Places /\ Len(slash) = 1 /\ slash[1] = "/"
      /\ Len(path) \in Nat
  BY PathsAssumption, LenProperties DEF Places
<1>2. IsPrefix(slash, path) <=> Len(path) >= 1 /\ path[1] = "/"
  <2> HIDE DEF slash
  <2>1. \A i : i \in 1 .. Len(slash) <=> i = 1
    BY <1>1
  <2>2. IsPrefix(slash, path) <=> /\ Len(slash) <= Len(path)
                                 /\ \A i \in 1 .. Len(slash) : slash[i] = path[i]
    BY <1>1, PrefixElements
  <2> QED BY <1>1, <2>1, <2>2
<1>3. rooted \in Places /\ Len(rooted) \in Nat /\ Len(rooted) >= 1 /\ rooted[1] = "/"
  <2>1. CASE IsPrefix(slash, path)
    BY <1>1, <1>2, <2>1
  <2>2. CASE ~IsPrefix(slash, path)
    <3> HIDE DEF slash
    <3>1. /\ slash \o path \in Places /\ Len(slash \o path) = 1 + Len(path)
          /\ (slash \o path)[1] = slash[1]
      <4>1. /\ slash \o path \in Seq(Chars) /\ Len(slash \o path) = Len(slash) + Len(path)
            /\ \A i \in 1 .. Len(slash) + Len(path) :
                 (slash \o path)[i] =
                   IF i <= Len(slash) THEN slash[i] ELSE path[i - Len(slash)]
        BY <1>1, ConcatProperties DEF Places
      <4>2. 1 \in 1 .. Len(slash) + Len(path) /\ 1 <= Len(slash)
        BY <1>1
      <4> QED BY <1>1, <4>1, <4>2 DEF Places
    <3> QED BY <1>1, <2>2, <3>1
  <2> QED BY <2>1, <2>2
<1>4. p = IF Len(rooted) > 1 /\ Last(rooted) = "/" THEN Front(rooted) ELSE rooted
  BY DEF normalizePath
<1> HIDE DEF p
<1>5. p \in Places /\ Len(p) \in Nat /\ Len(p) >= 1 /\ p[1] = "/"
  <2> HIDE DEF rooted
  <2>1. CASE Len(rooted) > 1 /\ Last(rooted) = "/"
    <3>1. \A i \in 1 .. (Len(rooted) - 1) : rooted[i] \in Chars
      BY <1>3, ElementOfSeq DEF Places
    <3>2. /\ Front(rooted) \in Places /\ Len(Front(rooted)) = Len(rooted) - 1
          /\ Front(rooted)[1] = rooted[1]
      BY <1>3, <2>1, <3>1, SubSeqProperties DEF Places, Front
    <3> QED BY <1>3, <1>4, <2>1, <3>2
  <2>2. CASE ~(Len(rooted) > 1 /\ Last(rooted) = "/")
    BY <1>3, <1>4, <2>2
  <2> QED BY <2>1, <2>2
<1>6. ASSUME path[1] = "/", Len(path) >= 1
      PROVE  p = path \/ (Len(path) > 1 /\ path[Len(path)] = "/" /\ p = Front(path))
  <2>1. rooted = path
    BY <1>2, <1>6
  <2> HIDE DEF rooted
  <2> QED BY <1>4, <2>1 DEF Last
<1>7. p # Root
  BY <1>5, PrefixOrder
<1> QED BY <1>5, <1>6, <1>7 DEF p

\* RadixTree.Insert stores the route at the place of the normalized path.
LEMMA InsertStores ==
  ASSUME NEW tree, IsRadix(tree), NEW path \in Places, NEW route \in Routes
  PROVE  Stores(tree, Insert(tree, path, route), PlaceOf(normalizePath(path)), route)
<1> DEFINE p == normalizePath(path)
<1>1. p \in Places /\ p # Root
  BY NormalizedPath
<1>2. CASE p = <<"/">>
  <2>1. Insert(tree, path, route) = [tree EXCEPT ![Root].route = route]
    BY <1>2 DEF Insert
  <2>2. Root \in DOMAIN tree
    BY DEF IsRadix
  <2>3. PlaceOf(p) = Root
    BY <1>2 DEF PlaceOf
  <2>4. Stores(tree, [tree EXCEPT ![Root].route = route], Root, route)
    BY <2>2, SetRoute
  <2> QED BY <2>1, <2>3, <2>4, Zenon
<1>3. CASE p # <<"/">>
  <2>1. Insert(tree, path, route) = insert(tree, p, route) /\ PlaceOf(p) = p
    BY <1>3 DEF Insert, PlaceOf
  <2> HIDE DEF p
  <2>2. Stores(tree, insert(tree, p, route), p, route)
    BY <1>1, InsertBelow
  <2> QED BY <2>1, <2>2 DEF p
<1> QED BY <1>2, <1>3

-----------------------------------------------------------------------------
(* Deletion. *)

\* The elements of a sequence after the one that is removed move down a place.
LEMMA RemoveAtProperties ==
  ASSUME NEW S, NEW s \in Seq(S), NEW i \in DOMAIN s
  PROVE  /\ RemoveAt(s, i) \in Seq(S)
         /\ Len(RemoveAt(s, i)) = Len(s) - 1
         /\ DOMAIN RemoveAt(s, i) = 1 .. (Len(s) - 1)
         /\ \A j \in 1 .. (Len(s) - 1) :
              /\ j < i => RemoveAt(s, i)[j] = s[j]
              /\ j >= i => RemoveAt(s, i)[j] = s[j + 1]
<1> DEFINE front == SubSeq(s, 1, i - 1)
           back  == SubSeq(s, i + 1, Len(s))
<1>1. /\ i \in 1 .. Len(s) /\ Len(s) \in Nat
      /\ \A j \in 1 .. Len(s) : s[j] \in S
  BY ElementOfSeq
<1>2. /\ front \in Seq(S) /\ Len(front) = i - 1
      /\ \A j \in 1 .. (i - 1) : front[j] = s[j]
  <2>1. \A j \in 1 .. (i - 1) : s[j] \in S
    BY <1>1
  <2>2. /\ front \in Seq(S)
        /\ Len(front) = IF 1 <= i - 1 THEN i - 1 - 1 + 1 ELSE 0
        /\ \A j \in 1 .. (i - 1 - 1 + 1) : front[j] = s[1 + j - 1]
    BY <1>1, <2>1, SubSeqProperties
  <2> QED  BY <1>1, <2>2
<1>3. /\ back \in Seq(S) /\ Len(back) = Len(s) - i
      /\ \A j \in 1 .. (Len(s) - i) : back[j] = s[i + j]
  <2>1. \A j \in (i + 1) .. Len(s) : s[j] \in S
    BY <1>1
  <2>2. /\ back \in Seq(S)
        /\ Len(back) = IF i + 1 <= Len(s) THEN Len(s) - (i + 1) + 1 ELSE 0
        /\ \A j \in 1 .. (Len(s) - (i + 1) + 1) : back[j] = s[(i + 1) + j - 1]
    BY <1>1, <2>1, SubSeqProperties
  <2> QED  BY <1>1, <2>2
<1> HIDE DEF front, back
<1>4. /\ front \o back \in Seq(S)
      /\ Len(front \o back) = Len(front) + Len(back)
      /\ \A j \in 1 .. Len(front) + Len(back) :
           (front \o back)[j] =
             IF j <= Len(front) THEN front[j] ELSE back[j - Len(front)]
  BY <1>2, <1>3, ConcatProperties
<1>5. RemoveAt(s, i) = front \o back
  BY DEF RemoveAt, front, back
<1>6. Len(RemoveAt(s, i)) = Len(s) - 1
  <2>1. Len(front) + Len(back) = Len(s) - 1
    BY <1>1, <1>2, <1>3
  <2> QED BY <1>4, <1>5, <2>1
<1>7. DOMAIN RemoveAt(s, i) = 1 .. (Len(s) - 1)
  <2> DEFINE rest == RemoveAt(s, i)
  <2>1. rest \in Seq(S) /\ Len(rest) = Len(s) - 1
    BY <1>4, <1>5, <1>6
  <2> HIDE DEF rest
  <2>2. DOMAIN rest = 1 .. (Len(s) - 1)
    BY <2>1
  <2> QED  BY <2>2 DEF rest
<1>8. ASSUME NEW j \in 1 .. (Len(s) - 1)
      PROVE  /\ j < i => RemoveAt(s, i)[j] = s[j]
             /\ j >= i => RemoveAt(s, i)[j] = s[j + 1]
  <2>1. RemoveAt(s, i)[j] = IF j <= i - 1 THEN front[j] ELSE back[j - (i - 1)]
    <3>1. Len(front) + Len(back) = Len(s) - 1
      BY <1>1, <1>2, <1>3
    <3>2. (front \o back)[j] = IF j <= Len(front) THEN front[j] ELSE back[j - Len(front)]
      BY <1>4, <3>1
    <3> QED  BY <1>2, <1>5, <3>2
  <2>2. CASE j < i
    <3>1. j \in 1 .. (i - 1) /\ j <= i - 1
      BY <1>1, <2>2
    <3> QED  BY <1>1, <1>2, <2>1, <2>2, <3>1
  <2>3. CASE j >= i
    <3>1. /\ j - (i - 1) \in 1 .. (Len(s) - i)
          /\ i + (j - (i - 1)) = j + 1
          /\ ~(j <= i - 1)
      BY <1>1, <2>3
    <3>2. back[j - (i - 1)] = s[i + (j - (i - 1))]
      BY <1>3, <3>1
    <3>3. RemoveAt(s, i)[j] = s[j + 1]
      BY <2>1, <3>1, <3>2
    <3>4. ~(j < i)
      BY <1>1, <2>3
    <3> QED  BY <3>3, <3>4
  <2> QED  BY <1>1, <2>2, <2>3
<1> QED  BY <1>4, <1>5, <1>6, <1>7, <1>8

\* A node has one parent.
LEMMA OneParent ==
  ASSUME NEW tree, IsRadix(tree), NEW n \in DOMAIN tree, NEW m \in DOMAIN tree,
         NEW i \in 1 .. Len(tree[n].children), NEW j \in 1 .. Len(tree[m].children),
         tree[n].children[i] = tree[m].children[j]
  PROVE  n = m
<1>1. \A x, y \in DOMAIN tree :
        \A k \in 1 .. Len(tree[x].children), l \in 1 .. Len(tree[y].children) :
          tree[x].children[k] = tree[y].children[l] => ~IsStrictPrefix(x, y)
  <2> SUFFICES ASSUME NEW x \in DOMAIN tree, NEW y \in DOMAIN tree,
                      NEW k \in 1 .. Len(tree[x].children),
                      NEW l \in 1 .. Len(tree[y].children),
                      tree[x].children[k] = tree[y].children[l], IsStrictPrefix(x, y)
               PROVE  FALSE
    OBVIOUS
  <2> DEFINE child == tree[y].children[l]
  <2>1. /\ x \in Places /\ y \in Places /\ child \in Places
        /\ WellBranched(DOMAIN tree, x, tree[x].children)
        /\ IsStrictPrefix(y, child) /\ IsStrictPrefix(x, child)
    <3>1. /\ x \in Places /\ WellBranched(DOMAIN tree, x, tree[x].children)
          /\ y \in Places /\ WellBranched(DOMAIN tree, y, tree[y].children)
      BY RadixForm
    <3>2. /\ child \in DOMAIN tree /\ IsStrictPrefix(y, child)
          /\ IsStrictPrefix(x, tree[x].children[k])
      BY <3>1 DEF WellBranched
    <3>3. child \in Places
      BY <3>2, RadixForm
    <3> QED BY <3>1, <3>2, <3>3
  <2>2. PICK q \in 1 .. Len(tree[x].children) : IsPrefix(tree[x].children[q], y)
    BY <2>1 DEF WellBranched
  <2>3. tree[x].children[q] \in Places /\ IsStrictPrefix(x, tree[x].children[q])
    BY <2>1, <2>2, RadixForm DEF WellBranched
  <2>4. tree[x].children[q][Len(x) + 1] = y[Len(x) + 1]
    <3> DEFINE b == tree[x].children[q]
    <3>1. b \in Places /\ IsStrictPrefix(x, b) /\ IsPrefix(b, y)
      BY <2>2, <2>3
    <3> HIDE DEF b
    <3>2. b[Len(x) + 1] = y[Len(x) + 1]
      BY <2>1, <3>1, PrefixOrder
    <3> QED BY <3>2 DEF b
  <2>5. IsPrefix(y, child) /\ y[Len(x) + 1] = child[Len(x) + 1]
    <3> HIDE DEF child
    <3>1. IsPrefix(y, child)
      BY <2>1, PrefixOrder
    <3> QED BY <2>1, <3>1, PrefixOrder
  <2>6. q = k
    BY <2>1, <2>4, <2>5 DEF WellBranched
  <2>7. IsPrefix(child, y)
    BY <2>2, <2>6
  <2> QED BY <2>1, <2>7, PrefixOrder
<1>2. /\ n \in Places /\ m \in Places
      /\ tree[n].children[i] \in Places
      /\ IsPrefix(n, tree[n].children[i]) /\ IsPrefix(m, tree[n].children[i])
  BY RadixForm DEF WellBranched, IsStrictPrefix
<1>3. IsPrefix(n, m) \/ IsPrefix(m, n)
  <2>1. Len(n) \in Nat /\ Len(m) \in Nat
    BY <1>2, PrefixOrder
  <2>2. Len(n) <= Len(m) \/ Len(m) <= Len(n)
    BY <2>1
  <2> QED BY <1>2, <2>2, PrefixOrder
<1> QED BY <1>1, <1>3 DEF IsStrictPrefix

\* The i-th child of n is the node at path, and a leaf.
LeafBelow(tree, n, i, path) ==
  /\ n \in DOMAIN tree /\ i \in 1 .. Len(tree[n].children)
  /\ path = tree[n].children[i] /\ tree[path].children = <<>>

\* The tree that delete makes where it takes a leaf away.
Pruned(tree, n, i, path) ==
  [Without(tree, path) EXCEPT ![n].children = RemoveAt(@, i)]

\* A leaf is taken away from its parent.
LEMMA Prune ==
  ASSUME NEW tree, IsRadix(tree), NEW n, NEW i, NEW path, LeafBelow(tree, n, i, path)
  PROVE  LET new == Pruned(tree, n, i, path)
         IN  /\ Stores(tree, new, path, None)
             /\ DOMAIN new = DOMAIN tree \ {path} /\ n \in DOMAIN new
<1> USE DEF LeafBelow
<1> DEFINE D == DOMAIN tree
           old == tree[n].children
           children == RemoveAt(old, i)
           new == Pruned(tree, n, i, path)
<1>1. /\ n \in Places /\ old \in Seq(Places) /\ Len(old) \in Nat
      /\ tree[n] \in [route : Routes, children : Seq(Places)]
      /\ WellBranched(D, n, old)
      /\ path \in D /\ path \in Places /\ IsStrictPrefix(n, path)
  <2>1. /\ n \in Places /\ old \in Seq(Places)
        /\ tree[n] \in [route : Routes, children : Seq(Places)]
        /\ WellBranched(D, n, old)
    BY RadixForm
  <2>2. path \in D /\ IsStrictPrefix(n, path)
    BY <2>1 DEF WellBranched
  <2>3. path \in Places
    BY <2>2, RadixForm
  <2> QED BY <2>1, <2>2, <2>3, LenProperties
<1>2. n # path /\ path # Root
  <2>1. Len(n) < Len(path) /\ Len(n) \in Nat /\ Len(Root) = 0
    BY <1>1, PrefixOrder
  <2> QED BY <2>1, PrefixOrder DEF IsStrictPrefix
<1>3. /\ DOMAIN new = D \ {path}
      /\ new[n] = [route |-> tree[n].route, children |-> children]
      /\ \A m \in D \ {path} : m # n => new[m] = tree[m]
  BY <1>1, <1>2 DEF Pruned, Without, Restrict
<1> HIDE DEF new
<1>4. /\ children \in Seq(Places) /\ Len(children) = Len(old) - 1
      /\ \A j \in 1 .. Len(children) :
           /\ j < i => children[j] = old[j]
           /\ j >= i => children[j] = old[j + 1]
  <2>1. i \in DOMAIN old
    BY <1>1, LenProperties
  <2> QED BY <1>1, <2>1, RemoveAtProperties, ZenonT(60)
<1> HIDE DEF children
<1> DEFINE At(j) == IF j < i THEN j ELSE j + 1
<1>5. \A j \in 1 .. Len(children) :
        /\ At(j) \in 1 .. Len(old) /\ At(j) # i /\ children[j] = old[At(j)]
        /\ \A k \in 1 .. Len(children) : At(j) = At(k) => j = k
  BY <1>1, <1>4
<1>6. \A k \in 1 .. Len(old) : k # i => \E j \in 1 .. Len(children) : children[j] = old[k]
  <2> SUFFICES ASSUME NEW k \in 1 .. Len(old), k # i
               PROVE  \E j \in 1 .. Len(children) : children[j] = old[k]
    OBVIOUS
  <2>1. CASE k < i
    <3>1. k \in 1 .. Len(children) /\ children[k] = old[k]
      BY <1>1, <1>4, <2>1
    <3> QED BY <3>1
  <2>2. CASE k > i
    <3>1. k - 1 \in 1 .. Len(children) /\ k - 1 >= i /\ (k - 1) + 1 = k
      BY <1>1, <1>4, <2>2
    <3>2. children[k - 1] = old[k]
      BY <1>4, <3>1
    <3> QED BY <3>1, <3>2
  <2> QED BY <1>1, <2>1, <2>2
<1> HIDE DEF At
<1>7. WellBranched(D \ {path}, n, children)
  <2>1. ASSUME NEW j \in 1 .. Len(children)
        PROVE  children[j] \in D \ {path} /\ IsStrictPrefix(n, children[j])
    <3>1. /\ At(j) \in 1 .. Len(old) /\ At(j) # i /\ children[j] = old[At(j)]
      BY <1>5
    <3>2. old[At(j)] # path
      BY <1>1, <3>1 DEF WellBranched
    <3> QED BY <1>1, <3>1, <3>2 DEF WellBranched
  <2>2. ASSUME NEW j \in 1 .. Len(children), NEW k \in 1 .. Len(children),
               children[j][Len(n) + 1] = children[k][Len(n) + 1]
        PROVE  j = k
    <3>1. /\ At(j) \in 1 .. Len(old) /\ children[j] = old[At(j)]
          /\ At(k) \in 1 .. Len(old) /\ children[k] = old[At(k)]
      BY <1>5
    <3>2. At(j) = At(k)
      <4> HIDE DEF At
      <4> QED BY <1>1, <2>2, <3>1 DEF WellBranched
    <3> QED BY <1>5, <3>2
  <2>3. ASSUME NEW m \in D \ {path}, IsStrictPrefix(n, m)
        PROVE  \E j \in 1 .. Len(children) : IsPrefix(children[j], m)
    <3>1. PICK k \in 1 .. Len(old) : IsPrefix(old[k], m)
      BY <1>1, <2>3 DEF WellBranched
    <3>2. k # i
      <4> SUFFICES ASSUME k = i PROVE FALSE
        OBVIOUS
      <4>1. IsStrictPrefix(path, m)
        BY <3>1 DEF IsStrictPrefix
      <4>2. \E l \in 1 .. Len(tree[path].children) : IsPrefix(tree[path].children[l], m)
        BY <1>1, <4>1, RadixForm DEF WellBranched
      <4>3. Len(tree[path].children) = 0
        BY EmptySeq
      <4> QED BY <4>2, <4>3
    <3> QED BY <1>6, <3>1, <3>2
  <2> QED BY <1>4, <2>1, <2>2, <2>3 DEF WellBranched
<1>8. ASSUME NEW m \in D \ {path}, m # n PROVE WellBranched(D \ {path}, m, tree[m].children)
  <2>1. WellBranched(D, m, tree[m].children)
    BY RadixForm
  <2>2. \A j \in 1 .. Len(tree[m].children) : tree[m].children[j] # path
    BY <1>8, OneParent
  <2> QED BY <2>1, <2>2 DEF WellBranched
<1>9. IsRadix(new)
  <2>1. \A m \in D : m \in Places /\ tree[m] \in [route : Routes, children : Seq(Places)]
    BY RadixForm
  <2>2. Root \in D \ {path}
    BY <1>2, RadixForm
  <2>3. ASSUME NEW m \in D \ {path}
        PROVE  /\ m \in Places
               /\ new[m] \in [route : Routes, children : Seq(Places)]
               /\ WellBranched(D \ {path}, m, new[m].children)
    <3>1. CASE m = n
      <4>1. tree[n].route \in Routes
        BY <1>1
      <4>2. new[n].children = children /\ new[n].route = tree[n].route
        BY <1>3
      <4>3. new[n] \in [route : Routes, children : Seq(Places)]
        BY <1>3, <1>4, <4>1
      <4> QED BY <1>1, <1>7, <3>1, <4>2, <4>3
    <3>2. CASE m # n
      BY <1>3, <1>8, <2>1, <3>2
    <3> QED BY <3>1, <3>2
  <2> QED BY <1>3, <2>2, <2>3, RadixForm
<1>10. ASSUME NEW x \in Places
       PROVE  Stored(new, x) = IF x = path THEN None ELSE Stored(tree, x)
  BY <1>3 DEF Stored
<1>11. n \in DOMAIN new
  BY <1>2, <1>3
<1> QED BY <1>3, <1>9, <1>10, <1>11 DEF Stores, new

\* A node without a route gives way to its only child, and nothing is lost.
LEMMA CompactKeeps ==
  ASSUME NEW tree, IsRadix(tree), NEW n \in DOMAIN tree, n # Root
  PROVE  /\ IsRadix(Compact(tree, n))
         /\ \A x \in Places : Stored(Compact(tree, n), x) = Stored(tree, x)
         /\ DOMAIN Compact(tree, n) \subseteq DOMAIN tree
<1>1. CASE ~(Len(tree[n].children) = 1 /\ tree[n].route = None)
  <2>1. Compact(tree, n) = tree
    BY <1>1 DEF Compact
  <2> QED BY <2>1
<1>2. CASE Len(tree[n].children) = 1 /\ tree[n].route = None
  <2> DEFINE D == DOMAIN tree
             child == tree[n].children[1]
             new == Bypass(tree, n, child)
             Moved(m) == [i \in DOMAIN tree[m].children |->
                            IF tree[m].children[i] = n THEN child ELSE tree[m].children[i]]
  <2>1. /\ n \in Places /\ child \in D /\ child \in Places
        /\ IsStrictPrefix(n, child) /\ WellBranched(D, n, tree[n].children)
        /\ child # n
    <3>1. 1 \in 1 .. Len(tree[n].children)
      BY <1>2
    <3> QED BY <3>1, RadixForm DEF WellBranched, IsStrictPrefix
  <2>2. /\ DOMAIN new = D \ {n}
        /\ \A m \in D \ {n} :
             new[m] = [route |-> tree[m].route, children |-> Moved(m)]
    <3> HIDE DEF child
    <3>1. \A m \in D \ {n} : tree[m] \in [route : Routes, children : Seq(Places)]
      BY RadixForm
    <3> QED BY <3>1 DEF Bypass
  <2> HIDE DEF new
  <2>3. ASSUME NEW m \in D \ {n}
        PROVE  /\ Moved(m) \in Seq(Places) /\ Len(Moved(m)) = Len(tree[m].children)
               /\ \A i \in 1 .. Len(tree[m].children) :
                    Moved(m)[i] = IF tree[m].children[i] = n THEN child
                                  ELSE tree[m].children[i]
    <3>1. tree[m].children \in Seq(Places)
      BY RadixForm
    <3>2. /\ DOMAIN tree[m].children = 1 .. Len(tree[m].children)
          /\ Len(tree[m].children) \in Nat
          /\ \A i \in 1 .. Len(tree[m].children) : tree[m].children[i] \in Places
      BY <3>1, LenProperties, ElementOfSeq
    <3> HIDE DEF child
    <3> QED BY <2>1, <3>2
  <2> HIDE DEF Moved
  <2>4. ASSUME NEW m \in D \ {n} PROVE WellBranched(D \ {n}, m, Moved(m))
    <3> DEFINE old == tree[m].children
               children == Moved(m)
    <3>1. /\ m \in Places /\ WellBranched(D, m, old)
          /\ \A i \in 1 .. Len(old) : old[i] \in D /\ old[i] \in Places
      BY RadixForm DEF WellBranched
    <3>2. /\ children \in Seq(Places) /\ Len(children) = Len(old)
          /\ \A i \in 1 .. Len(old) :
               children[i] = IF old[i] = n THEN child ELSE old[i]
      BY <2>3
    <3> HIDE DEF old, children, child
    <3>3. ASSUME NEW i \in 1 .. Len(old)
          PROVE  /\ children[i] \in D \ {n} /\ IsStrictPrefix(m, children[i])
                 /\ children[i][Len(m) + 1] = old[i][Len(m) + 1]
      <4>1. IsStrictPrefix(m, old[i])
        BY <3>1 DEF WellBranched
      <4>2. CASE old[i] = n
        <5>1. IsPrefix(n, child)
          BY <2>1 DEF IsStrictPrefix
        <5>2. IsStrictPrefix(m, child) /\ n[Len(m) + 1] = child[Len(m) + 1]
          BY <2>1, <3>1, <4>1, <4>2, <5>1, PrefixOrder
        <5> QED BY <2>1, <3>2, <4>2, <5>2
      <4>3. CASE old[i] # n
        BY <3>1, <3>2, <4>1, <4>3
      <4> QED BY <4>2, <4>3
    <3>4. ASSUME NEW q \in D \ {n}, IsStrictPrefix(m, q)
          PROVE  \E i \in 1 .. Len(old) : IsPrefix(children[i], q)
      <4>1. PICK i \in 1 .. Len(old) : IsPrefix(old[i], q)
        BY <3>1, <3>4 DEF WellBranched
      <4>2. CASE old[i] = n
        <5>1. IsStrictPrefix(n, q)
          BY <4>1, <4>2 DEF IsStrictPrefix
        <5>2. PICK j \in 1 .. Len(tree[n].children) : IsPrefix(tree[n].children[j], q)
          BY <2>1, <5>1 DEF WellBranched
        <5>3. j = 1
          BY <1>2
        <5>4. IsPrefix(child, q)
          BY <5>2, <5>3 DEF child
        <5> QED BY <3>2, <4>2, <5>4
      <4>3. CASE old[i] # n
        BY <3>2, <4>1, <4>3
      <4> QED BY <4>2, <4>3
    <3>5. \A i, j \in 1 .. Len(old) :
            children[i][Len(m) + 1] = children[j][Len(m) + 1] => i = j
      BY <3>1, <3>3 DEF WellBranched
    <3>6. WellBranched(D \ {n}, m, children)
      BY <3>2, <3>3, <3>4, <3>5 DEF WellBranched
    <3> QED BY <3>6 DEF children
  <2>5. IsRadix(new)
    <3>1. ASSUME NEW m \in D \ {n}
          PROVE  /\ m \in Places
                 /\ new[m] \in [route : Routes, children : Seq(Places)]
                 /\ WellBranched(D \ {n}, m, new[m].children)
      <4>1. m \in Places /\ tree[m].route \in Routes
        BY RadixForm
      <4>2. new[m].children = Moved(m)
        BY <2>2
      <4>3. new[m] \in [route : Routes, children : Seq(Places)]
        BY <2>2, <2>3, <4>1
      <4> QED BY <2>4, <4>1, <4>2, <4>3
    <3>2. Root \in D \ {n}
      BY RadixForm
    <3> QED BY <2>2, <3>1, <3>2, RadixForm
  <2>6. \A x \in Places : Stored(new, x) = Stored(tree, x)
    BY <1>2, <2>2 DEF Stored
  <2>7. Compact(tree, n) = new
    BY <1>2 DEF Compact, new
  <2> QED BY <2>2, <2>5, <2>6, <2>7
<1> QED BY <1>1, <1>2

\* delete takes the route at its path away, and changes no other.
LEMMA DeleteBelow ==
  ASSUME NEW tree, IsRadix(tree), NEW path \in Places, path # Root
  PROVE  Stores(tree, delete(tree, path), path, None)
<1> DEFINE n == DeletionPoint(tree, path)
           i == Within(tree, n, path)
           children == tree[n].children
           pruned == Pruned(tree, n, i, path)
<1>1. /\ n \in DOMAIN tree /\ IsStrictPrefix(n, path)
      /\ i # 0 => children[i] = path
  BY DeletionWalk
<1>2. DOMAIN children = 1 .. Len(children)
  <2> HIDE DEF n
  <2> QED BY <1>1, RadixNode
<1>3. /\ i = 0 => \A j \in DOMAIN children : ~IsPrefix(children[j], path)
      /\ i # 0 => i \in DOMAIN children
  <2> HIDE DEF n
  <2> QED BY <1>1, WithinChild
<1>4. CASE i = 0
  <2>1. delete(tree, path) = tree
    BY <1>4 DEF delete
  <2>2. path \notin DOMAIN tree
    <3> HIDE DEF n
    <3>1. \A j \in 1 .. Len(tree[n].children) : ~IsPrefix(tree[n].children[j], path)
      BY <1>2, <1>3, <1>4
    <3> QED BY <1>1, <3>1, Deepest
  <2>3. \A x \in Places : Stored(tree, x) = IF x = path THEN None ELSE Stored(tree, x)
    BY <2>2 DEF Stored
  <2> QED BY <2>1, <2>3 DEF Stores
<1>5. CASE i # 0 /\ tree[path].children # <<>>
  <2>1. delete(tree, path) = [tree EXCEPT ![path].route = None]
    BY <1>5 DEF delete
  <2>2. path \in DOMAIN tree
    <3> HIDE DEF n
    <3> QED BY <1>1, <1>3, <1>5, RadixNode
  <2>3. Stores(tree, [tree EXCEPT ![path].route = None], path, None)
    BY <2>2, NoneIsRoute, SetRoute
  <2> QED BY <2>1, <2>3, Zenon
<1>6. CASE i # 0 /\ tree[path].children = <<>>
  <2>1. delete(tree, path) = IF n = Root THEN pruned ELSE Compact(pruned, n)
    BY <1>6 DEF delete, Pruned
  <2>2. LeafBelow(tree, n, i, path)
    BY <1>1, <1>2, <1>3, <1>6 DEF LeafBelow
  <2>3. /\ Stores(tree, pruned, path, None)
        /\ DOMAIN pruned = DOMAIN tree \ {path} /\ n \in DOMAIN pruned
    <3> HIDE DEF n, i
    <3> QED BY <2>2, Prune
  <2>6. n \in DOMAIN tree
    BY <1>1
  <2> HIDE DEF n, i
  <2> HIDE DEF pruned
  <2>4. CASE n = Root
    BY <2>1, <2>3, <2>4
  <2>5. CASE n # Root
    <3>1. IsRadix(pruned)
      BY <2>3 DEF Stores
    <3>2. /\ IsRadix(Compact(pruned, n))
          /\ \A x \in Places : Stored(Compact(pruned, n), x) = Stored(pruned, x)
          /\ DOMAIN Compact(pruned, n) \subseteq DOMAIN pruned
      BY <2>3, <2>5, <3>1, CompactKeeps
    <3>3. Stores(tree, Compact(pruned, n), path, None)
      BY <2>3, <3>2 DEF Stores
    <3> QED BY <2>1, <2>5, <3>3
  <2> QED BY <2>4, <2>5
<1> QED BY <1>4, <1>5, <1>6

\* RadixTree.Delete takes the route at the place of the normalized path away.
LEMMA DeleteStores ==
  ASSUME NEW tree, IsRadix(tree), NEW path \in Places
  PROVE  Stores(tree, Delete(tree, path), PlaceOf(normalizePath(path)), None)
<1> DEFINE p == normalizePath(path)
<1>1. p \in Places /\ p # Root
  BY NormalizedPath
<1>2. CASE p = <<"/">>
  <2>1. Delete(tree, path) = [tree EXCEPT ![Root].route = None]
    BY <1>2 DEF Delete
  <2>2. Root \in DOMAIN tree
    BY DEF IsRadix
  <2>3. PlaceOf(p) = Root
    BY <1>2 DEF PlaceOf
  <2>4. Stores(tree, [tree EXCEPT ![Root].route = None], Root, None)
    BY <2>2, NoneIsRoute, SetRoute
  <2> QED BY <2>1, <2>3, <2>4, Zenon
<1>3. CASE p # <<"/">>
  <2>1. Delete(tree, path) = delete(tree, p) /\ PlaceOf(p) = p
    BY <1>3 DEF Delete, PlaceOf
  <2> HIDE DEF p
  <2>2. Stores(tree, delete(tree, p), p, None)
    BY <1>1, DeleteBelow
  <2> QED BY <2>1, <2>2 DEF p
<1> QED BY <1>2, <1>3

-----------------------------------------------------------------------------
(* Matching. *)

\* What match finds at a node n, when it finds f[m] at each node m below n.
Hits(tree, path, f, n) ==
  {i \in DOMAIN tree[n].children :
     IsPrefix(tree[n].children[i], path) /\ f[tree[n].children[i]] # None}

Found(tree, path, f, n) ==
  IF n = path \/ Hits(tree, path, f, n) = {} THEN tree[n].route
  ELSE f[tree[n].children[Max(Hits(tree, path, f, n))]]

\* The last hit is a hit.
LEMMA LastHit ==
  ASSUME NEW tree, IsRadix(tree), NEW path, NEW f, NEW n \in DOMAIN tree,
         Hits(tree, path, f, n) # {}
  PROVE  Max(Hits(tree, path, f, n)) \in Hits(tree, path, f, n)
<1> DEFINE S == Hits(tree, path, f, n)
<1>1. /\ Len(tree[n].children) \in Nat
      /\ DOMAIN tree[n].children = 1 .. Len(tree[n].children)
  BY RadixNode
<1>2. S \in SUBSET Nat /\ \A x \in S : x <= Len(tree[n].children)
  BY <1>1 DEF Hits
<1> HIDE DEF S
<1>3. S # {}
  BY DEF S
<1>4. Max(S) \in S
  BY <1>1, <1>2, <1>3, MaxOfBounded
<1> QED BY <1>4 DEF S

\* match is well defined: it answers with what such a function has at the root.
LEMMA MatchRecursion ==
  ASSUME NEW tree, IsRadix(tree), NEW path \in Places
  PROVE  \E f : /\ f = [n \in DOMAIN tree |-> Found(tree, path, f, n)]
                /\ match(tree, path) = f[Root]
<1> DEFINE S == DOMAIN tree
           H == [n \in S |-> [f \in [S -> Routes] |-> Found(tree, path, f, n)]]
           rank == [n \in S |-> IF IsPrefix(n, path) THEN Len(path) - Len(n) ELSE 0]
           Code(f) == f = [n \in DOMAIN tree |-> Found(tree, path, f, n)]
<1>1. rank \in [S -> 0 .. Len(path)] /\ Len(path) \in Nat
  <2>1. Len(path) \in Nat
    BY PrefixOrder
  <2>2. ASSUME NEW n \in S PROVE rank[n] \in 0 .. Len(path)
    <3>1. n \in Places
      BY RadixNode
    <3>2. Len(n) \in Nat /\ (IsPrefix(n, path) => Len(n) <= Len(path))
      BY <3>1, PrefixOrder
    <3> QED BY <2>1, <3>2
  <2> QED BY <2>1, <2>2
<1>2. ASSUME NEW n \in S, NEW i \in DOMAIN tree[n].children,
             IsPrefix(tree[n].children[i], path)
      PROVE  tree[n].children[i] \in S /\ rank[tree[n].children[i]] < rank[n]
  <2> DEFINE child == tree[n].children[i]
  <2>1. /\ n \in Places /\ child \in S /\ child \in Places
        /\ IsStrictPrefix(n, child) /\ IsPrefix(child, path)
    BY <1>2, RadixNode
  <2> HIDE DEF child
  <2>2. /\ IsPrefix(n, path) /\ Len(n) < Len(child)
        /\ Len(n) \in Nat /\ Len(child) \in Nat /\ Len(path) \in Nat
    BY <2>1, PrefixOrder
  <2>3. rank[n] = Len(path) - Len(n) /\ rank[child] = Len(path) - Len(child)
    BY <2>1, <2>2
  <2>4. child \in S /\ rank[child] < rank[n]
    BY <2>1, <2>2, <2>3
  <2> QED BY <2>4 DEF child
<1> HIDE DEF rank
<1>3. ASSUME NEW n \in S, NEW f \in [S -> Routes] PROVE Found(tree, path, f, n) \in Routes
  <2>1. tree[n].route \in Routes
    BY RadixNode
  <2>2. CASE n # path /\ Hits(tree, path, f, n) # {}
    <3>1. Max(Hits(tree, path, f, n)) \in Hits(tree, path, f, n)
      BY <2>2, LastHit
    <3>2. tree[n].children[Max(Hits(tree, path, f, n))] \in S
      BY <3>1, RadixNode DEF Hits
    <3> QED BY <2>2, <3>2 DEF Found
  <2> QED BY <2>1, <2>2 DEF Found
<1>4. ASSUME NEW n \in S, NEW f \in [S -> Routes], NEW g \in [S -> Routes],
             \A m \in S : rank[m] < rank[n] => f[m] = g[m]
      PROVE  Found(tree, path, f, n) = Found(tree, path, g, n)
  <2>1. \A i \in DOMAIN tree[n].children :
          IsPrefix(tree[n].children[i], path) => f[tree[n].children[i]] = g[tree[n].children[i]]
    BY <1>2, <1>4
  <2>2. Hits(tree, path, f, n) = Hits(tree, path, g, n)
    BY <2>1 DEF Hits
  <2>3. CASE n # path /\ Hits(tree, path, f, n) # {}
    <3>1. Max(Hits(tree, path, f, n)) \in Hits(tree, path, f, n)
      BY <2>3, LastHit
    <3> DEFINE j == Max(Hits(tree, path, f, n))
    <3>2. j \in DOMAIN tree[n].children /\ IsPrefix(tree[n].children[j], path)
      BY <3>1 DEF Hits
    <3> QED BY <2>1, <2>2, <2>3, <3>2 DEF Found
  <2> QED BY <2>2, <2>3 DEF Found
<1>5. WellRanked(S, Routes, Len(path), rank, H)
  <2>1. Routes # {}
    BY NoneIsRoute
  <2>2. H \in [S -> [[S -> Routes] -> Routes]]
    BY <1>3
  <2>3. ASSUME NEW n \in S, NEW f \in [S -> Routes], NEW g \in [S -> Routes],
               \A m \in S : rank[m] < rank[n] => f[m] = g[m]
        PROVE  H[n][f] = H[n][g]
    BY <1>4, <2>3
  <2> HIDE DEF H
  <2> QED BY <1>1, <2>1, <2>2, <2>3 DEF WellRanked
<1>6. \E f : Code(f)
  <2>1. PICK f : Solution(S, Routes, H, f)
    <3> HIDE DEF H
    <3> QED BY <1>5, Recursion
  <2>2. f \in [S -> Routes] /\ f = [n \in S |-> H[n][f]]
    BY <2>1 DEF Solution
  <2> QED BY <2>2
<1>7. PICK f : Code(f) /\ match(tree, path) = f[Root]
  <2> DEFINE f == CHOOSE f : Code(f)
  <2>1. Code(f)
    <3> HIDE DEF Code
    <3> QED BY <1>6
  <2>2. match(tree, path) = f[Root]
    BY DEF match, Found, Hits
  <2> QED BY <2>1, <2>2
<1> QED BY <1>7

\* found is the route at the longest place at or below n that path begins with
\* and that holds a route; None if there is no such place.
AnswersBelow(tree, n, path, found) ==
  LET Over == {x \in Places : /\ IsPrefix(n, x) /\ IsPrefix(x, path)
                              /\ Stored(tree, x) # None}
  IN  \/ Over = {} /\ found = None
      \/ \E x \in Over : found = Stored(tree, x) /\ \A y \in Over : Len(y) <= Len(x)

\* What match answers with from each node that path begins with.
LEMMA MatchBelow ==
  ASSUME NEW tree, IsRadix(tree), NEW path \in Places,
         NEW f, f = [n \in DOMAIN tree |-> Found(tree, path, f, n)],
         NEW n \in DOMAIN tree, IsPrefix(n, path),
         \A i \in 1 .. Len(tree[n].children) :
           IsPrefix(tree[n].children[i], path) =>
             AnswersBelow(tree, tree[n].children[i], path, f[tree[n].children[i]])
  PROVE  AnswersBelow(tree, n, path, f[n])
<1> DEFINE Over(m) == {x \in Places : /\ IsPrefix(m, x) /\ IsPrefix(x, path)
                                      /\ Stored(tree, x) # None}
           child(i) == tree[n].children[i]
<1>1. /\ n \in Places /\ WellBranched(DOMAIN tree, n, tree[n].children)
      /\ DOMAIN tree[n].children = 1 .. Len(tree[n].children)
      /\ f[n] = Found(tree, path, f, n) /\ IsPrefix(n, n)
      /\ Stored(tree, n) = tree[n].route
  BY RadixForm, RadixNode, PrefixOrder DEF Stored
<1>2. \A i \in 1 .. Len(tree[n].children) :
        child(i) \in DOMAIN tree /\ child(i) \in Places /\ IsStrictPrefix(n, child(i))
  BY <1>1, RadixForm DEF WellBranched
<1>3. ASSUME NEW x \in Over(n), x # n
      PROVE  \E i \in 1 .. Len(tree[n].children) :
               IsPrefix(child(i), path) /\ x \in Over(child(i))
  <2>1. IsStrictPrefix(n, x) /\ x \in DOMAIN tree
    BY <1>3 DEF IsStrictPrefix, Stored
  <2>2. PICK i \in 1 .. Len(tree[n].children) : IsPrefix(child(i), x)
    BY <1>1, <2>1 DEF WellBranched
  <2>3. child(i) \in Places
    BY <1>2
  <2> HIDE DEF child
  <2>4. IsPrefix(child(i), path)
    BY <1>3, <2>2, <2>3, PrefixOrder
  <2> QED BY <1>3, <2>2, <2>4
<1>4. CASE n = path
  <2>1. \A x \in Over(n) : x = n
    BY <1>1, <1>4, PrefixOrder
  <2>2. f[n] = Stored(tree, n)
    BY <1>1, <1>4 DEF Found
  <2>3. n \in Over(n) <=> Stored(tree, n) # None
    BY <1>1, <1>4
  <2>4. Len(n) \in Nat
    BY <1>1, PrefixOrder
  <2>5. CASE Stored(tree, n) = None
    <3>1. Over(n) = {}
      <4> HIDE DEF Over
      <4> QED BY <2>1, <2>3, <2>5
    <3> QED BY <2>2, <2>5, <3>1 DEF AnswersBelow
  <2>6. CASE Stored(tree, n) # None
    <3>1. n \in Over(n) /\ \A y \in Over(n) : Len(y) <= Len(n)
      <4> HIDE DEF Over
      <4>1. \A y \in Over(n) : Len(y) = Len(n)
        BY <2>1
      <4> QED BY <2>3, <2>4, <2>6, <4>1
    <3> QED BY <2>2, <3>1 DEF AnswersBelow
  <2> QED BY <2>5, <2>6
<1>5. CASE n # path /\ Hits(tree, path, f, n) = {}
  <2>1. f[n] = Stored(tree, n)
    BY <1>1, <1>5 DEF Found
  <2>2. ASSUME NEW x \in Over(n), x # n PROVE FALSE
    <3>1. PICK i \in 1 .. Len(tree[n].children) :
            IsPrefix(child(i), path) /\ x \in Over(child(i))
      BY <1>3, <2>2
    <3>2. f[child(i)] = None
      BY <1>1, <1>5, <3>1 DEF Hits
    <3>3. AnswersBelow(tree, child(i), path, f[child(i)])
      BY <3>1
    <3> HIDE DEF child
    <3> QED BY <3>1, <3>2, <3>3 DEF AnswersBelow
  <2>3. n \in Over(n) <=> Stored(tree, n) # None
    BY <1>1
  <2>4. Len(n) \in Nat
    BY <1>1, PrefixOrder
  <2>5. CASE Stored(tree, n) = None
    <3>1. Over(n) = {}
      <4> HIDE DEF Over
      <4> QED BY <2>2, <2>3, <2>5
    <3> QED BY <2>1, <2>5, <3>1 DEF AnswersBelow
  <2>6. CASE Stored(tree, n) # None
    <3>1. n \in Over(n) /\ \A y \in Over(n) : Len(y) <= Len(n)
      <4> HIDE DEF Over
      <4> QED BY <2>2, <2>3, <2>4, <2>6
    <3> QED BY <2>1, <3>1 DEF AnswersBelow
  <2> QED BY <2>5, <2>6
<1>6. CASE n # path /\ Hits(tree, path, f, n) # {}
  <2> DEFINE i == Max(Hits(tree, path, f, n))
  <2>1. i \in Hits(tree, path, f, n)
    <3>1. Hits(tree, path, f, n) # {}
      BY <1>6
    <3> QED BY <3>1, LastHit, Zenon
  <2>2. f[n] = f[child(i)]
    BY <1>1, <1>6 DEF Found
  <2> HIDE DEF i
  <2>3. /\ i \in 1 .. Len(tree[n].children)
        /\ IsPrefix(child(i), path) /\ f[child(i)] # None
    BY <1>1, <2>1 DEF Hits
  <2>4. AnswersBelow(tree, child(i), path, f[child(i)])
    BY <2>3
  <2>5. /\ child(i) \in Places /\ IsStrictPrefix(n, child(i))
        /\ child(i)[Len(n) + 1] = path[Len(n) + 1]
    <3>1. child(i) \in Places /\ IsStrictPrefix(n, child(i))
      BY <1>2, <2>3
    <3> QED BY <1>1, <2>3, <3>1, PrefixOrder
  <2>6. PICK x \in Over(child(i)) :
          /\ f[child(i)] = Stored(tree, x) /\ \A y \in Over(child(i)) : Len(y) <= Len(x)
    <3> HIDE DEF child
    <3> QED BY <2>3, <2>4 DEF AnswersBelow
  <2>7. x \in Over(n)
    <3> HIDE DEF child
    <3> QED BY <1>1, <2>5, <2>6, PrefixOrder DEF IsStrictPrefix
  <2>8. ASSUME NEW y \in Over(n) PROVE Len(y) <= Len(x)
    <3>1. CASE y = n
      <4>1. IsPrefix(n, x)
        BY <2>7
      <4> QED BY <1>1, <3>1, <4>1, PrefixOrder
    <3>2. CASE y # n
      <4>1. PICK j \in 1 .. Len(tree[n].children) :
              IsPrefix(child(j), path) /\ y \in Over(child(j))
        BY <1>3, <3>2
      <4>2. child(j) \in Places /\ IsStrictPrefix(n, child(j))
        BY <1>2
      <4>3. child(j)[Len(n) + 1] = path[Len(n) + 1]
        BY <1>1, <4>1, <4>2, PrefixOrder
      <4>4. j = i
        BY <1>1, <2>3, <2>5, <4>3 DEF WellBranched
      <4> QED BY <2>6, <4>1, <4>4
    <3> QED BY <3>1, <3>2
  <2> HIDE DEF child
  <2> QED BY <2>2, <2>6, <2>7, <2>8 DEF AnswersBelow
<1> QED BY <1>4, <1>5, <1>6

\* match answers with the route of the longest place that path begins with and
\* that holds one.
LEMMA MatchFinds ==
  ASSUME NEW tree, IsRadix(tree), NEW path \in Places
  PROVE  AnswersBelow(tree, Root, path, match(tree, path))
<1>1. PICK f : /\ f = [n \in DOMAIN tree |-> Found(tree, path, f, n)]
               /\ match(tree, path) = f[Root]
  BY MatchRecursion
<1> DEFINE Bad == {n \in DOMAIN tree : /\ IsPrefix(n, path)
                                       /\ ~AnswersBelow(tree, n, path, f[n])}
<1>2. Bad = {}
  <2> SUFFICES ASSUME Bad # {} PROVE FALSE
    OBVIOUS
  <2> DEFINE Gaps == {Len(path) - Len(n) : n \in Bad}
  <2>1. \A n \in Bad : n \in Places /\ Len(n) \in Nat /\ Len(n) <= Len(path)
    <3> SUFFICES ASSUME NEW n \in Bad
                 PROVE  n \in Places /\ Len(n) \in Nat /\ Len(n) <= Len(path)
      OBVIOUS
    <3>1. n \in Places /\ IsPrefix(n, path)
      BY RadixNode
    <3> QED BY <3>1, PrefixOrder
  <2>2. Len(path) \in Nat
    BY PrefixOrder
  <2>3. Gaps \in SUBSET Nat /\ Gaps # {}
    BY <2>1, <2>2
  <2>4. Min(Gaps) \in Gaps /\ \A g \in Gaps : Min(Gaps) <= g
    <3> HIDE DEF Gaps
    <3> QED BY <2>3, MinOfNumbers
  <2>5. PICK n \in Bad : \A m \in Bad : Len(path) - Len(n) <= Len(path) - Len(m)
    <3> HIDE DEF Bad
    <3> QED BY <2>4
  <2>6. ASSUME NEW i \in 1 .. Len(tree[n].children), IsPrefix(tree[n].children[i], path)
        PROVE  AnswersBelow(tree, tree[n].children[i], path, f[tree[n].children[i]])
    <3> DEFINE child == tree[n].children[i]
    <3>1. child \in DOMAIN tree /\ child \in Places /\ IsStrictPrefix(n, child)
      BY RadixForm DEF WellBranched
    <3>2. Len(n) < Len(child) /\ Len(child) \in Nat /\ Len(n) \in Nat
      <4> HIDE DEF child, Bad
      <4> QED BY <2>1, <3>1, PrefixOrder
    <3>3. child \notin Bad
      <4> HIDE DEF child, Bad
      <4> QED BY <2>2, <2>5, <3>2
    <3> QED BY <2>6, <3>1, <3>3
  <2>7. AnswersBelow(tree, n, path, f[n])
    BY <1>1, <2>6, MatchBelow
  <2> QED BY <2>7
<1>3. Root \in DOMAIN tree /\ IsPrefix(Root, path)
  BY PrefixOrder DEF IsRadix
<1> QED BY <1>1, <1>2, <1>3

-----------------------------------------------------------------------------
(* The list, and trees that hold nothing. *)

\* The places of a tree have a greatest length.
Bounded(tree) == \E b \in Nat : \A n \in DOMAIN tree : Len(n) <= b

\* What List comes upon from a node n, when it comes upon f[m] from each child m.
Listed(tree, f, n) ==
  (IF tree[n].route = None THEN {} ELSE {n})
    \cup UNION {f[child] : child \in ToSet(tree[n].children)}

\* The places at or below n that hold a route.
HoldingBelow(tree, n) ==
  {x \in DOMAIN tree : IsPrefix(n, x) /\ tree[x].route # None}

\* List is well defined: it is what such a function has at the root.
LEMMA ListRecursion ==
  ASSUME NEW tree, IsRadix(tree), Bounded(tree)
  PROVE  \E f : /\ f = [n \in DOMAIN tree |-> Listed(tree, f, n)]
                /\ List(tree) = f[Root]
<1> DEFINE S == DOMAIN tree
           V == SUBSET S
           H == [n \in S |-> [f \in [S -> V] |-> Listed(tree, f, n)]]
           Code(f) == f = [n \in DOMAIN tree |-> Listed(tree, f, n)]
<1>1. PICK b \in Nat : \A n \in S : Len(n) <= b
  BY DEF Bounded
<1> DEFINE rank == [n \in S |-> b - Len(n)]
<1>2. rank \in [S -> 0 .. b]
  <2> SUFFICES ASSUME NEW n \in S PROVE b - Len(n) \in 0 .. b
    OBVIOUS
  <2>1. n \in Places
    BY RadixNode
  <2>2. Len(n) \in Nat /\ Len(n) <= b
    BY <1>1, <2>1, PrefixOrder
  <2> QED BY <2>2
<1>3. ASSUME NEW n \in S, NEW i \in DOMAIN tree[n].children
      PROVE  tree[n].children[i] \in S /\ rank[tree[n].children[i]] < rank[n]
  <2> DEFINE child == tree[n].children[i]
  <2>1. n \in Places /\ child \in S /\ child \in Places /\ IsStrictPrefix(n, child)
    BY <1>3, RadixNode
  <2> HIDE DEF child
  <2>2. Len(n) < Len(child) /\ Len(n) \in Nat /\ Len(child) \in Nat
    BY <2>1, PrefixOrder
  <2>3. child \in S /\ rank[child] < rank[n]
    BY <2>1, <2>2
  <2> QED BY <2>3 DEF child
<1> HIDE DEF rank
<1>4. ASSUME NEW n \in S, NEW f \in [S -> V] PROVE Listed(tree, f, n) \in V
  BY <1>3 DEF Listed, ToSet
<1>5. ASSUME NEW n \in S, NEW f \in [S -> V], NEW g \in [S -> V],
             \A m \in S : rank[m] < rank[n] => f[m] = g[m]
      PROVE  Listed(tree, f, n) = Listed(tree, g, n)
  <2>1. \A child \in ToSet(tree[n].children) : f[child] = g[child]
    BY <1>3, <1>5 DEF ToSet
  <2> QED BY <2>1 DEF Listed
<1>6. WellRanked(S, V, b, rank, H)
  <2>1. V # {}
    OBVIOUS
  <2>2. H \in [S -> [[S -> V] -> V]]
    <3> HIDE DEF V
    <3> QED BY <1>4
  <2>3. ASSUME NEW n \in S, NEW f \in [S -> V], NEW g \in [S -> V],
               \A m \in S : rank[m] < rank[n] => f[m] = g[m]
        PROVE  H[n][f] = H[n][g]
    <3> HIDE DEF V
    <3> QED BY <1>5, <2>3
  <2> HIDE DEF H, V
  <2> QED BY <1>2, <2>1, <2>2, <2>3 DEF WellRanked
<1>7. \E f : Code(f)
  <2> HIDE DEF V
  <2>1. PICK f : Solution(S, V, H, f)
    <3> HIDE DEF H
    <3> QED BY <1>6, Recursion
  <2>2. f \in [S -> V] /\ f = [n \in S |-> H[n][f]]
    BY <2>1 DEF Solution
  <2> QED BY <2>2
<1>8. PICK f : Code(f) /\ List(tree) = f[Root]
  <2> DEFINE f == CHOOSE f : Code(f)
  <2>1. Code(f)
    <3> HIDE DEF Code
    <3> QED BY <1>7
  <2>2. List(tree) = f[Root]
    BY DEF List, Listed
  <2> QED BY <2>1, <2>2
<1> QED BY <1>8

\* List comes upon every place that holds a route.
LEMMA ListFinds ==
  ASSUME NEW tree, IsRadix(tree), Bounded(tree)
  PROVE  List(tree) = {x \in DOMAIN tree : tree[x].route # None}
<1>1. PICK f : /\ f = [n \in DOMAIN tree |-> Listed(tree, f, n)]
               /\ List(tree) = f[Root]
  BY ListRecursion
<1>2. PICK b \in Nat : \A n \in DOMAIN tree : Len(n) <= b
  BY DEF Bounded
<1> DEFINE Bad == {n \in DOMAIN tree : f[n] # HoldingBelow(tree, n)}
<1>3. Bad = {}
  <2> SUFFICES ASSUME Bad # {} PROVE FALSE
    OBVIOUS
  <2> DEFINE Gaps == {b - Len(n) : n \in Bad}
  <2>1. \A n \in Bad : n \in Places /\ Len(n) \in Nat /\ Len(n) <= b
    <3> SUFFICES ASSUME NEW n \in Bad
                 PROVE  n \in Places /\ Len(n) \in Nat /\ Len(n) <= b
      OBVIOUS
    <3>1. n \in Places
      BY RadixNode
    <3> QED BY <1>2, <3>1, PrefixOrder
  <2>2. Gaps \in SUBSET Nat /\ Gaps # {}
    BY <2>1
  <2>3. Min(Gaps) \in Gaps /\ \A g \in Gaps : Min(Gaps) <= g
    <3> HIDE DEF Gaps
    <3> QED BY <2>2, MinOfNumbers
  <2>4. PICK n \in Bad : \A m \in Bad : b - Len(n) <= b - Len(m)
    <3> HIDE DEF Bad
    <3> QED BY <2>3
  <2> DEFINE children == tree[n].children
  <2>5. /\ DOMAIN children = 1 .. Len(children)
        /\ \A i \in 1 .. Len(children) :
             /\ children[i] \in DOMAIN tree /\ children[i] \in Places
             /\ IsStrictPrefix(n, children[i])
        /\ \A m \in DOMAIN tree :
             IsStrictPrefix(n, m) => \E i \in 1 .. Len(children) : IsPrefix(children[i], m)
    <3>1. n \in DOMAIN tree
      OBVIOUS
    <3>2. /\ Len(children) \in Nat /\ DOMAIN children = 1 .. Len(children)
          /\ \A i \in DOMAIN children :
               /\ children[i] \in DOMAIN tree /\ children[i] \in Places
               /\ IsStrictPrefix(n, children[i])
          /\ \A m \in DOMAIN tree :
               IsStrictPrefix(n, m) => \E i \in DOMAIN children : IsPrefix(children[i], m)
      <4> HIDE DEF Bad
      <4> QED BY <3>1, RadixNode
    <3> HIDE DEF children
    <3> QED BY <3>2
  <2>6. \A i \in 1 .. Len(children) : f[children[i]] = HoldingBelow(tree, children[i])
    <3> SUFFICES ASSUME NEW i \in 1 .. Len(children), children[i] \in Bad PROVE FALSE
      BY <2>5
    <3> DEFINE child == children[i]
    <3>1. child \in Places /\ IsStrictPrefix(n, child) /\ child \in Bad
      BY <2>5
    <3> HIDE DEF child, Bad
    <3>2. Len(n) < Len(child) /\ Len(child) \in Nat /\ Len(n) \in Nat
      BY <2>1, <3>1, PrefixOrder
    <3> QED BY <2>4, <3>1, <3>2
  <2>7. f[n] = (IF tree[n].route = None THEN {} ELSE {n})
                 \cup UNION {f[child] : child \in ToSet(children)}
    BY <1>1 DEF Listed
  <2>8. ASSUME NEW x PROVE x \in f[n] <=> x \in HoldingBelow(tree, n)
    <3>1. x \in f[n] <=> \/ x = n /\ tree[n].route # None
                         \/ \E i \in 1 .. Len(children) : x \in HoldingBelow(tree, children[i])
      <4> HIDE DEF children
      <4>1. ToSet(children) = {children[i] : i \in 1 .. Len(children)}
        BY <2>5 DEF ToSet
      <4>2. x \in UNION {f[child] : child \in ToSet(children)}
              <=> \E i \in 1 .. Len(children) : x \in f[children[i]]
        BY <4>1
      <4>3. \A i \in 1 .. Len(children) :
              x \in f[children[i]] <=> x \in HoldingBelow(tree, children[i])
        BY <2>6
      <4>4. x \in (IF tree[n].route = None THEN {} ELSE {n}) <=> x = n /\ tree[n].route # None
        OBVIOUS
      <4> QED BY <2>7, <4>2, <4>3, <4>4
    <3>2. n \in Places /\ IsPrefix(n, n)
      BY <2>1, PrefixOrder
    <3>3. ASSUME NEW i \in 1 .. Len(children), x \in HoldingBelow(tree, children[i])
          PROVE  x \in HoldingBelow(tree, n)
      <4>1. x \in Places /\ children[i] \in Places /\ IsPrefix(n, children[i])
        BY <2>5, <3>3, RadixNode DEF HoldingBelow, IsStrictPrefix
      <4>2. IsPrefix(n, x)
        <5> HIDE DEF children
        <5> QED BY <3>2, <3>3, <4>1, PrefixOrder DEF HoldingBelow
      <4> QED BY <3>3, <4>2 DEF HoldingBelow
    <3>4. ASSUME x \in HoldingBelow(tree, n), x # n
          PROVE  \E i \in 1 .. Len(children) : x \in HoldingBelow(tree, children[i])
      <4>1. x \in DOMAIN tree /\ IsStrictPrefix(n, x) /\ tree[x].route # None
        BY <3>4 DEF HoldingBelow, IsStrictPrefix
      <4> HIDE DEF children
      <4> QED BY <2>5, <4>1 DEF HoldingBelow
    <3>5. n \in DOMAIN tree
      OBVIOUS
    <3> QED BY <3>1, <3>2, <3>3, <3>4, <3>5 DEF HoldingBelow
  <2>9. f[n] = HoldingBelow(tree, n)
    BY <2>7, <2>8 DEF HoldingBelow
  <2> QED BY <2>9
<1>4. Root \in DOMAIN tree /\ \A x \in DOMAIN tree : IsPrefix(Root, x)
  BY RadixNode, PrefixOrder DEF IsRadix
<1> QED BY <1>1, <1>3, <1>4 DEF HoldingBelow

\* A tree that IsEmpty calls empty holds no route.
LEMMA EmptyHoldsNothing ==
  ASSUME NEW tree, IsRadix(tree), IsEmpty(tree), NEW x \in Places
  PROVE  Stored(tree, x) = None
<1>1. /\ Root \in DOMAIN tree /\ WellBranched(DOMAIN tree, Root, tree[Root].children)
      /\ tree[Root].route = None /\ Len(tree[Root].children) = 0
  BY RadixForm, EmptySeq DEF IsEmpty
<1>2. ASSUME x \in DOMAIN tree, x # Root PROVE FALSE
  <2>1. IsStrictPrefix(Root, x)
    BY <1>2, PrefixOrder
  <2> QED BY <1>1, <1>2, <2>1 DEF WellBranched
<1> QED BY <1>1, <1>2 DEF Stored

\* A new tree is a radix tree, and holds no route.
LEMMA NewTree ==
  /\ IsRadix(NewRadixTree) /\ Bounded(NewRadixTree)
  /\ \A x \in Places : Stored(NewRadixTree, x) = None
<1>1. /\ DOMAIN NewRadixTree = {Root}
      /\ NewRadixTree[Root].route = None /\ NewRadixTree[Root].children = <<>>
      /\ NewRadixTree[Root] = [route |-> None, children |-> <<>>]
  BY DEF NewRadixTree, Node
<1>2. Root \in Places /\ Len(Root) = 0 /\ ~IsStrictPrefix(Root, Root)
  BY EmptySeq DEF Root, Places, IsStrictPrefix
<1>3. <<>> \in Seq(Places) /\ Len(<<>>) = 0
  BY EmptySeq
<1>4. WellBranched({Root}, Root, <<>>)
  BY <1>2, <1>3 DEF WellBranched
<1>5. NewRadixTree[Root] \in [route : Routes, children : Seq(Places)]
  BY <1>1, <1>3, NoneIsRoute
<1>6. IsRadix(NewRadixTree)
  BY <1>1, <1>2, <1>4, <1>5, RadixForm
<1>7. Bounded(NewRadixTree)
  BY <1>1, <1>2 DEF Bounded
<1> QED BY <1>1, <1>6, <1>7 DEF Stored

\* Storing a route makes no place longer than the longest there was or its own.
LEMMA StoresBounded ==
  ASSUME NEW tree, Bounded(tree), NEW new, NEW path \in Places, NEW route,
         Stores(tree, new, path, route)
  PROVE  Bounded(new)
<1>1. PICK b \in Nat : \A n \in DOMAIN tree : Len(n) <= b
  BY DEF Bounded
<1>2. Len(path) \in Nat
  BY PrefixOrder
<1>3. ASSUME NEW n \in DOMAIN new PROVE Len(n) <= b + Len(path)
  <2>1. n \in Places /\ (n \in DOMAIN tree \/ IsPrefix(n, path))
    BY RadixNode DEF Stores
  <2>2. Len(n) \in Nat /\ (IsPrefix(n, path) => Len(n) <= Len(path))
    BY <2>1, PrefixOrder
  <2> QED BY <1>1, <1>2, <2>1, <2>2
<1>4. b + Len(path) \in Nat
  BY <1>2
<1> QED BY <1>3, <1>4 DEF Bounded

-----------------------------------------------------------------------------
(* The trees of the hosts. *)

\* The route that the trees hold at a place of a host.
At(ts, h, x) == IF h \in DOMAIN ts THEN Stored(ts[h], x) ELSE None

Forest(ts) ==
  /\ DOMAIN ts \subseteq Hosts
  /\ \A h \in DOMAIN ts : IsRadix(ts[h]) /\ Bounded(ts[h])

\* The key of a container, and the place that its path is stored at.
LEMMA KeyPlace ==
  ASSUME NEW c \in Containers
  PROVE  LET k == KeyOf(c)
         IN  /\ k \in Keys /\ k.host \in Hosts
             /\ k.path \in Places /\ k.path[1] = "/" /\ Len(k.path) \in Nat /\ Len(k.path) >= 1
             /\ k = [host |-> k.host, path |-> k.path]
             /\ normalizePath(PathOf[c]) = k.path /\ normalizePath(k.path) = k.path
             /\ PlaceOf(k.path) \in Places
<1>1. PathOf[c] \in Places
  BY PathsAssumption DEF Places
<1>2. KeyOf(c) = [host |-> normalizeHost(HostOf[c]), path |-> normalizePath(PathOf[c])]
  BY DEF KeyOf, RouteKey
<1>3. KeyOf(c) \in Keys /\ KeyOf(c).host \in Hosts
  BY DEF Keys, Hosts
<1>4. KeyOf(c).path = normalizePath(PathOf[c])
  BY <1>2
<1>5. normalizePath(KeyOf(c).path) = KeyOf(c).path
  BY <1>4, SlotsAreKeys DEF SlotOf
<1>6. /\ KeyOf(c).path \in Places /\ KeyOf(c).path[1] = "/"
      /\ Len(KeyOf(c).path) \in Nat /\ Len(KeyOf(c).path) >= 1
  BY <1>1, <1>4, NormalizedPath
<1>7. PlaceOf(KeyOf(c).path) \in Places
  BY <1>6, PrefixOrder DEF PlaceOf
<1> QED BY <1>2, <1>3, <1>4, <1>5, <1>6, <1>7

\* Two keys are the same if their hosts are and their places are.
LEMMA KeyPlaces ==
  ASSUME NEW k \in Keys, NEW l \in Keys
  PROVE  /\ k.host \in Hosts /\ PlaceOf(k.path) \in Places
         /\ k.host = l.host /\ PlaceOf(k.path) = PlaceOf(l.path) => k = l
<1>1. PICK c \in Containers : k = KeyOf(c)
  BY DEF Keys
<1>2. PICK d \in Containers : l = KeyOf(d)
  BY DEF Keys
<1>3. /\ k.host \in Hosts /\ PlaceOf(k.path) \in Places
      /\ k = [host |-> k.host, path |-> k.path] /\ Len(k.path) >= 1
  BY <1>1, KeyPlace
<1>4. l = [host |-> l.host, path |-> l.path] /\ Len(l.path) >= 1
  BY <1>2, KeyPlace
<1>5. k.path # Root /\ l.path # Root
  <2>1. Len(Root) = 0
    BY EmptySeq DEF Root
  <2> QED BY <1>3, <1>4, <2>1
<1>6. PlaceOf(k.path) = PlaceOf(l.path) => k.path = l.path
  BY <1>5 DEF PlaceOf
<1> QED BY <1>3, <1>4, <1>6

\* addToTree stores a container's route, and changes nothing else.
LEMMA AddStores ==
  ASSUME NEW ts, Forest(ts), NEW c \in Containers
  PROVE  LET new == addToTree(ts, c)
         IN  /\ Forest(new)
             /\ \A h \in Hosts, x \in Places :
                  At(new, h, x) = IF h = KeyOf(c).host /\ x = PlaceOf(KeyOf(c).path)
                                  THEN c ELSE At(ts, h, x)
<1> DEFINE h == KeyOf(c).host
           place == PlaceOf(KeyOf(c).path)
           tree == IF h \in DOMAIN ts THEN ts[h] ELSE NewRadixTree
           grown == Insert(tree, normalizePath(PathOf[c]), c)
           new == addToTree(ts, c)
<1>1. new = Put(ts, h, grown)
  BY DEF addToTree
<1>2. /\ h \in Hosts /\ place \in Places /\ KeyOf(c).path \in Places
      /\ normalizePath(PathOf[c]) = KeyOf(c).path
      /\ normalizePath(KeyOf(c).path) = KeyOf(c).path
  BY KeyPlace
<1>3. IsRadix(tree) /\ Bounded(tree) /\ \A x \in Places : Stored(tree, x) = At(ts, h, x)
  BY NewTree DEF Forest, At
<1> HIDE DEF tree, h
<1>4. Stores(tree, grown, place, c)
  <2>1. c \in Routes
    BY DEF Routes
  <2>2. Stores(tree, Insert(tree, KeyOf(c).path, c), place, c)
    BY <1>2, <1>3, <2>1, InsertStores
  <2> HIDE DEF place
  <2>3. grown = Insert(tree, KeyOf(c).path, c)
    BY <1>2
  <2> HIDE DEF grown
  <2> QED BY <2>2, <2>3
<1>5. Bounded(grown)
  <2> HIDE DEF grown, place
  <2> QED BY <1>2, <1>3, <1>4, StoresBounded
<1> HIDE DEF grown, place, new
<1>6. DOMAIN new = DOMAIN ts \cup {h} /\ \A g \in DOMAIN new : new[g] = IF g = h THEN grown ELSE ts[g]
  BY <1>1 DEF Put
<1>7. Forest(new)
  BY <1>2, <1>4, <1>5, <1>6 DEF Forest, Stores
<1>8. ASSUME NEW g \in Hosts, NEW x \in Places
      PROVE  At(new, g, x) = IF g = h /\ x = place THEN c ELSE At(ts, g, x)
  <2>1. CASE g = h
    <3>1. At(new, g, x) = Stored(grown, x)
      BY <1>6, <2>1 DEF At
    <3>2. Stored(grown, x) = IF x = place THEN c ELSE Stored(tree, x)
      BY <1>4 DEF Stores
    <3> QED BY <1>3, <2>1, <3>1, <3>2
  <2>2. CASE g # h
    BY <1>6, <2>2 DEF At
  <2> QED BY <2>1, <2>2
<1> QED BY <1>7, <1>8 DEF h, place, new

\* removeFromTrees takes a container's route away, and changes nothing else.
LEMMA RemoveStores ==
  ASSUME NEW ts, Forest(ts), NEW c \in Containers
  PROVE  LET new == removeFromTrees(ts, c)
         IN  /\ Forest(new)
             /\ \A h \in Hosts, x \in Places :
                  At(new, h, x) = IF h = KeyOf(c).host /\ x = PlaceOf(KeyOf(c).path)
                                  THEN None ELSE At(ts, h, x)
<1> DEFINE h == KeyOf(c).host
           place == PlaceOf(KeyOf(c).path)
           pruned == Delete(ts[h], normalizePath(PathOf[c]))
           new == removeFromTrees(ts, c)
<1>1. new = IF h \notin DOMAIN ts THEN ts
            ELSE IF IsEmpty(pruned) THEN Without(ts, h) ELSE Put(ts, h, pruned)
  BY DEF removeFromTrees
<1>2. /\ h \in Hosts /\ place \in Places /\ KeyOf(c).path \in Places
      /\ normalizePath(PathOf[c]) = KeyOf(c).path
      /\ normalizePath(KeyOf(c).path) = KeyOf(c).path
  BY KeyPlace
<1>3. CASE h \notin DOMAIN ts
  BY <1>1, <1>3 DEF At
<1>4. CASE h \in DOMAIN ts
  <2> DEFINE tree == ts[h]
  <2>1. IsRadix(tree) /\ Bounded(tree) /\ \A x \in Places : Stored(tree, x) = At(ts, h, x)
    BY <1>4 DEF Forest, At
  <2> HIDE DEF h
  <2>2. Stores(tree, pruned, place, None)
    <3> HIDE DEF tree
    <3>1. Stores(tree, Delete(tree, KeyOf(c).path), place, None)
      BY <1>2, <2>1, DeleteStores
    <3> HIDE DEF place
    <3>2. pruned = Delete(tree, KeyOf(c).path)
      BY <1>2 DEF tree
    <3> HIDE DEF pruned
    <3> QED BY <3>1, <3>2
  <2>3. IsRadix(pruned) /\ Bounded(pruned)
    <3> HIDE DEF pruned, place, tree
    <3> QED BY <1>2, <2>1, <2>2, StoresBounded DEF Stores
  <2>4. \A x \in Places : Stored(pruned, x) = IF x = place THEN None ELSE At(ts, h, x)
    BY <2>1, <2>2 DEF Stores
  <2> HIDE DEF pruned, place, new, tree
  <2>5. CASE IsEmpty(pruned)
    <3>1. new = Without(ts, h)
      BY <1>1, <1>4, <2>5
    <3>2. DOMAIN new = DOMAIN ts \ {h} /\ \A g \in DOMAIN new : new[g] = ts[g]
      BY <3>1 DEF Without, Restrict
    <3>3. \A x \in Places : Stored(pruned, x) = None
      BY <2>3, <2>5, EmptyHoldsNothing
    <3>4. Forest(new)
      BY <3>2 DEF Forest
    <3>5. ASSUME NEW g \in Hosts, NEW x \in Places
          PROVE  At(new, g, x) = IF g = h /\ x = place THEN None ELSE At(ts, g, x)
      BY <2>4, <3>2, <3>3 DEF At
    <3> QED BY <3>4, <3>5 DEF h, place, new
  <2>6. CASE ~IsEmpty(pruned)
    <3>1. new = Put(ts, h, pruned)
      BY <1>1, <1>4, <2>6
    <3>2. /\ DOMAIN new = DOMAIN ts \cup {h}
          /\ \A g \in DOMAIN new : new[g] = IF g = h THEN pruned ELSE ts[g]
      BY <3>1 DEF Put
    <3>3. Forest(new)
      BY <1>2, <2>3, <3>2 DEF Forest
    <3>4. ASSUME NEW g \in Hosts, NEW x \in Places
          PROVE  At(new, g, x) = IF g = h /\ x = place THEN None ELSE At(ts, g, x)
      BY <2>4, <3>2 DEF At
    <3> QED BY <3>3, <3>4 DEF h, place, new
  <2> QED BY <2>5, <2>6
<1> QED BY <1>3, <1>4

-----------------------------------------------------------------------------
(* The inductive invariant. *)

\* The trees hold the route of each key at the key's place, and no other.
Holds(ts, rs) ==
  /\ \A k \in Keys : At(ts, k.host, PlaceOf(k.path)) = rs[k]
  /\ \A h \in Hosts, x \in Places :
       At(ts, h, x) # None => \E k \in Keys : k.host = h /\ PlaceOf(k.path) = x

IInv ==
  /\ routes \in [Keys -> Routes]
  /\ pools \in [Keys -> SUBSET Containers]
  /\ Forest(trees)
  /\ Holds(trees, routes)
  /\ \A k \in Keys : routes[k] # None => KeyOf(routes[k]) = k
  /\ \A k \in Keys : pools[k] # {} => routes[k] # None

\* A route that is stored at a key's place leaves trees that hold the table.
LEMMA HoldsStored ==
  ASSUME NEW ts, NEW rs, Holds(ts, rs), NEW k \in Keys, NEW route, NEW new,
         rs \in [Keys -> Routes],
         \A h \in Hosts, x \in Places :
           At(new, h, x) = IF h = k.host /\ x = PlaceOf(k.path) THEN route ELSE At(ts, h, x)
  PROVE  Holds(new, [rs EXCEPT ![k] = route])
<1>1. ASSUME NEW l \in Keys
      PROVE  At(new, l.host, PlaceOf(l.path)) = [rs EXCEPT ![k] = route][l]
  <2>1. l.host \in Hosts /\ PlaceOf(l.path) \in Places
    BY KeyPlaces
  <2>2. l.host = k.host /\ PlaceOf(l.path) = PlaceOf(k.path) => l = k
    BY KeyPlaces
  <2>3. At(ts, l.host, PlaceOf(l.path)) = rs[l]
    BY DEF Holds
  <2> QED BY <2>1, <2>2, <2>3
<1>2. ASSUME NEW h \in Hosts, NEW x \in Places, At(new, h, x) # None
      PROVE  \E l \in Keys : l.host = h /\ PlaceOf(l.path) = x
  BY <1>2 DEF Holds
<1> QED BY <1>1, <1>2 DEF Holds

\* The invariant holds initially.
LEMMA InitInv == Init => IInv
<1> SUFFICES ASSUME Init PROVE IInv
  OBVIOUS
<1>1. /\ routes = [k \in Keys |-> None] /\ pools = [k \in Keys |-> {}]
      /\ DOMAIN trees = {}
  BY DEF Init
<1>2. Forest(trees)
  BY <1>1 DEF Forest
<1>3. Holds(trees, routes)
  BY <1>1 DEF Holds, At
<1> QED BY <1>1, <1>2, <1>3, NoneIsRoute DEF IInv

\* Upsert keeps the invariant: whether an older route is taken out of its tree
\* first or not, what is stored in the end is the new one.
LEMMA UpsertInv == ASSUME IInv, NEW c \in Containers, Upsert(c) PROVE IInv'
<1> DEFINE k == KeyOf(c)
           cleared == IF routes[k] # None THEN removeFromTrees(trees, routes[k]) ELSE trees
<1>1. /\ routes' = [routes EXCEPT ![k] = c]
      /\ pools' = [pools EXCEPT ![k] = @ \cup {c}]
      /\ trees' = addToTree(cleared, c)
  BY DEF Upsert
<1>2. k \in Keys /\ c \in Routes /\ c # None
  BY KeyPlace, NoneAssumption DEF Routes
<1> HIDE DEF cleared
<1>3. /\ Forest(cleared)
      /\ \A h \in Hosts, x \in Places :
           (h = k.host /\ x = PlaceOf(k.path)) \/ At(cleared, h, x) = At(trees, h, x)
  <2>1. CASE routes[k] # None
    <3>1. routes[k] \in Containers /\ KeyOf(routes[k]) = k
      BY <1>2, <2>1 DEF IInv, Routes
    <3>2. cleared = removeFromTrees(trees, routes[k])
      BY <2>1 DEF cleared
    <3> HIDE DEF k
    <3>3. Forest(trees)
      BY DEF IInv
    <3> QED BY <3>1, <3>2, <3>3, RemoveStores
  <2>2. CASE routes[k] = None
    <3>1. cleared = trees
      BY <2>2 DEF cleared
    <3> QED BY <3>1 DEF IInv
  <2> QED BY <2>1, <2>2
<1>4. /\ Forest(trees')
      /\ \A h \in Hosts, x \in Places :
           At(trees', h, x) = IF h = k.host /\ x = PlaceOf(k.path) THEN c ELSE At(trees, h, x)
  BY <1>1, <1>3, AddStores
<1>5. Holds(trees', routes')
  <2>1. Holds(trees, routes) /\ routes \in [Keys -> Routes]
    BY DEF IInv
  <2> HIDE DEF k
  <2>2. Holds(trees', [routes EXCEPT ![k] = c])
    BY <1>2, <1>4, <2>1, HoldsStored
  <2> QED BY <1>1, <2>2
<1>6. /\ routes' \in [Keys -> Routes] /\ pools' \in [Keys -> SUBSET Containers]
      /\ \A l \in Keys : routes'[l] # None => KeyOf(routes'[l]) = l
      /\ \A l \in Keys : pools'[l] # {} => routes'[l] # None
  BY <1>1, <1>2 DEF IInv
<1> QED BY <1>4, <1>5, <1>6 DEF IInv

\* RemoveByContainer keeps the invariant: the route that goes with the last
\* container is the one the tree holds, whosever labels it was made from.
LEMMA RemoveInv == ASSUME IInv, NEW c \in Containers, RemoveByContainer(c) PROVE IInv'
<1> DEFINE k == KeyOf(c)
<1>1. k \in Keys /\ c \in pools[k] /\ pools' = [pools EXCEPT ![k] = @ \ {c}]
  BY KeyPlace DEF RemoveByContainer
<1>2. routes[k] \in Containers /\ KeyOf(routes[k]) = k
  BY <1>1 DEF IInv, Routes
<1>3. CASE pools[k] = {c}
  <2>1. /\ routes' = [routes EXCEPT ![k] = None]
        /\ trees' = removeFromTrees(trees, routes[k])
    BY <1>3 DEF RemoveByContainer
  <2>2. /\ Forest(trees')
        /\ \A h \in Hosts, x \in Places :
             At(trees', h, x) = IF h = k.host /\ x = PlaceOf(k.path) THEN None
                                ELSE At(trees, h, x)
    <3>1. Forest(trees)
      BY DEF IInv
    <3> HIDE DEF k
    <3> QED BY <1>2, <2>1, <3>1, RemoveStores
  <2>3. Holds(trees', routes')
    <3>1. Holds(trees, routes) /\ routes \in [Keys -> Routes]
      BY DEF IInv
    <3> HIDE DEF k
    <3>2. Holds(trees', [routes EXCEPT ![k] = None])
      BY <1>1, <2>2, <3>1, HoldsStored
    <3> QED BY <2>1, <3>2
  <2>4. /\ routes' \in [Keys -> Routes] /\ pools' \in [Keys -> SUBSET Containers]
        /\ \A l \in Keys : routes'[l] # None => KeyOf(routes'[l]) = l
        /\ \A l \in Keys : pools'[l] # {} => routes'[l] # None
    BY <1>1, <1>3, <2>1, NoneIsRoute DEF IInv
  <2> QED BY <2>2, <2>3, <2>4 DEF IInv
<1>4. CASE pools[k] # {c}
  <2>1. routes' = routes /\ trees' = trees
    BY <1>4 DEF RemoveByContainer
  <2>2. /\ pools' \in [Keys -> SUBSET Containers]
        /\ \A l \in Keys : pools'[l] # {} => routes'[l] # None
    BY <1>1, <2>1 DEF IInv
  <2> QED BY <2>1, <2>2 DEF IInv
<1> QED BY <1>3, <1>4

\* Every step keeps the invariant.
LEMMA NextInv == IInv /\ [Next]_vars => IInv'
<1>1. ASSUME IInv, Next PROVE IInv'
  BY <1>1, UpsertInv, RemoveInv DEF Next
<1>2. ASSUME IInv, UNCHANGED vars PROVE IInv'
  BY <1>2 DEF IInv, vars
<1> QED BY <1>1, <1>2

\* The invariant holds in every state.
LEMMA InvHolds == Spec => []IInv
<1> QED BY InitInv, NextInv, PTL DEF Spec

-----------------------------------------------------------------------------
(* What the table answers. *)

\* Every variable has its type, and the trees are radix trees, whatever has been
\* registered and removed (RadixTree.insert, delete and compact in radix.go).
THEOREM TypeCorrect == Spec => []TypeOK
<1>1. IInv => TypeOK
  BY DEF IInv, Forest, TypeOK
<1> QED BY <1>1, InvHolds, PTL

\* The path of a key, and what is at its place.
LEMMA KeyPath ==
  ASSUME NEW k \in Keys, NEW p \in Places, p[1] = "/", Len(p) >= 1
  PROVE  /\ k.path \in Places /\ Len(k.path) \in Nat /\ Len(k.path) >= 1
         /\ normalizePath(k.path) = k.path
         /\ IsPrefix(PlaceOf(k.path), p) <=> IsPrefix(k.path, p)
         /\ PlaceOf(k.path) # <<"/">>
         /\ PlaceOf(k.path) = k.path \/ (Len(k.path) = 1 /\ PlaceOf(k.path) = Root)
<1>1. PICK c \in Containers : k = KeyOf(c)
  BY DEF Keys
<1>2. /\ k.path \in Places /\ Len(k.path) \in Nat /\ Len(k.path) >= 1
      /\ normalizePath(k.path) = k.path
  BY <1>1, KeyPlace
<1> DEFINE slash == <<"/">>
<1>3. slash \in Places /\ Len(slash) = 1 /\ slash[1] = "/" /\ slash # Root /\ Len(p) \in Nat
  BY PathsAssumption, LenProperties, EmptySeq DEF Places, Root
<1>4. IsPrefix(slash, p)
  <2> HIDE DEF slash
  <2>1. \A i : i \in 1 .. Len(slash) <=> i = 1
    BY <1>3
  <2>2. Len(slash) <= Len(p) /\ \A i \in 1 .. Len(slash) : slash[i] = p[i]
    BY <1>3, <2>1
  <2> QED BY <1>3, <2>2, PrefixElements
<1>5. PlaceOf(k.path) = IF k.path = slash THEN Root ELSE k.path
  BY DEF PlaceOf
<1> HIDE DEF slash
<1>6. IsPrefix(Root, p)
  BY PrefixOrder
<1>7. PlaceOf(k.path) # slash
  BY <1>3, <1>5
<1>8. IsPrefix(PlaceOf(k.path), p) <=> IsPrefix(k.path, p)
  BY <1>4, <1>5, <1>6
<1>9. PlaceOf(k.path) = k.path \/ (Len(k.path) = 1 /\ PlaceOf(k.path) = Root)
  BY <1>3, <1>5
<1> QED BY <1>2, <1>7, <1>8, <1>9 DEF slash

\* A key's path begins a normalized path exactly if it begins the path once more
\* normalized, as Match and then RadixTree.Match do: no key but "/" ends in a slash.
LEMMA NormalizedTwice ==
  ASSUME NEW k \in Keys, NEW p \in Places, p[1] = "/", Len(p) >= 1
  PROVE  IsPrefix(k.path, p) <=> IsPrefix(k.path, normalizePath(p))
<1> DEFINE q == normalizePath(p)
<1>1. q \in Places /\ Len(q) \in Nat /\ Len(q) >= 1 /\ Len(p) \in Nat
      /\ (q = p \/ (Len(p) > 1 /\ q = Front(p)))
  BY NormalizedPath, PrefixOrder
<1>2. CASE q = p
  BY <1>2
<1>3. CASE Len(p) > 1 /\ q = Front(p)
  <2>1. \A i \in 1 .. Len(p) - 1 : p[i] \in Chars
    BY <1>1, ElementOfSeq DEF Places
  <2>2. /\ Len(Front(p)) = Len(p) - 1
        /\ \A i \in 1 .. Len(p) - 1 : Front(p)[i] = p[i]
    BY <1>1, <1>3, <2>1, SubSeqProperties DEF Front
  <2>3. Len(q) = Len(p) - 1 /\ \A i \in 1 .. Len(p) - 1 : q[i] = p[i]
    BY <1>3, <2>2
  <2>4. k.path \in Places /\ Len(k.path) \in Nat /\ normalizePath(k.path) = k.path
    BY KeyPath
  <2>5. k.path # p
    <3> SUFFICES ASSUME k.path = p PROVE FALSE
      OBVIOUS
    <3>1. q = p
      BY <2>4
    <3> HIDE DEF q
    <3> QED BY <1>1, <2>3, <3>1
  <2> HIDE DEF q
  <2>6. IsPrefix(q, p)
    BY <1>1, <2>3, PrefixElements
  <2>7. IsPrefix(k.path, q) => IsPrefix(k.path, p)
    BY <1>1, <2>4, <2>6, PrefixOrder
  <2>8. ASSUME IsPrefix(k.path, p) PROVE IsPrefix(k.path, q)
    <3>1. Len(k.path) < Len(p)
      BY <1>1, <2>4, <2>5, <2>8, PrefixOrder
    <3>2. Len(k.path) <= Len(q)
      BY <1>1, <2>3, <2>4, <3>1
    <3> QED BY <1>1, <2>4, <2>6, <2>8, <3>2, PrefixOrder
  <2> QED BY <2>7, <2>8 DEF q
<1> QED BY <1>1, <1>2, <1>3

\* Of the registered prefixes of a path, Longest gives the route of the longest.
LEMMA LongestRoute ==
  ASSUME IInv, NEW h, NEW p \in Places, NEW k \in Covering(h, p),
         \A l \in Covering(h, p) : Len(l.path) <= Len(k.path)
  PROVE  Longest(h, p) = routes[k]
<1> DEFINE covering == Covering(h, p)
           Best(q) == \A l \in covering : Len(l.path) <= Len(q.path)
           best == CHOOSE q \in covering : Best(q)
<1>1. best \in covering /\ Best(best)
  <2> HIDE DEF covering
  <2>1. \E q \in covering : Best(q)
    BY DEF covering
  <2> QED BY <2>1
<1> HIDE DEF best
<1>2. Longest(h, p) = routes[best]
  <2>1. covering # {}
    OBVIOUS
  <2> QED BY <2>1 DEF Longest, best
<1>3. k \in Keys /\ best \in Keys /\ k.host = best.host
      /\ IsPrefix(k.path, p) /\ IsPrefix(best.path, p)
  BY <1>1 DEF Covering
<1>4. PICK c \in Containers : k = KeyOf(c)
  BY <1>3 DEF Keys
<1>5. PICK d \in Containers : best = KeyOf(d)
  BY <1>3 DEF Keys
<1>6. k.path \in Places /\ best.path \in Places
      /\ Len(k.path) \in Nat /\ Len(best.path) \in Nat
  BY <1>4, <1>5, KeyPlace
<1>7. Len(k.path) <= Len(best.path) /\ Len(best.path) <= Len(k.path)
  <2> HIDE DEF Best
  <2> QED BY <1>1 DEF Best
<1>8. IsPrefix(k.path, best.path)
  BY <1>3, <1>6, <1>7, PrefixOrder
<1>9. k.path = best.path
  BY <1>6, <1>7, <1>8, PrefixOrder
<1>10. k = best
  BY <1>3, <1>9, KeyPlaces
<1> QED BY <1>2, <1>10

\* The tree of a host answers with the route of the longest registered prefix.
LEMMA TreeAnswers ==
  ASSUME IInv, NEW h, NEW path \in Places
  PROVE  TreeMatch(h, path) = Longest(h, normalizePath(path))
<1> DEFINE p == normalizePath(path)
           found == TreeMatch(h, path)
<1>1. p \in Places /\ p[1] = "/" /\ Len(p) >= 1 /\ Len(p) \in Nat
  BY NormalizedPath
<1>2. CASE h \notin DOMAIN trees
  <2>1. Covering(h, p) = {}
    <3> SUFFICES ASSUME NEW k \in Covering(h, p) PROVE FALSE
      OBVIOUS
    <3>1. k \in Keys /\ routes[k] # None /\ k.host = h
      BY DEF Covering
    <3>2. At(trees, k.host, PlaceOf(k.path)) = routes[k]
      BY <3>1 DEF IInv, Holds
    <3> QED BY <1>2, <3>1, <3>2 DEF At
  <2>2. found = None
    BY <1>2 DEF TreeMatch
  <2> QED BY <2>1, <2>2 DEF Longest
<1>3. CASE h \in DOMAIN trees
  <2> DEFINE tree == trees[h]
             Over == {x \in Places : IsPrefix(x, p) /\ Stored(tree, x) # None}
  <2>1. /\ h \in Hosts /\ IsRadix(tree)
        /\ \A k \in Keys : k.host = h => Stored(tree, PlaceOf(k.path)) = routes[k]
        /\ \A x \in Places : Stored(tree, x) # None =>
             \E k \in Keys : k.host = h /\ PlaceOf(k.path) = x
    <3>1. Forest(trees) /\ Holds(trees, routes)
      BY DEF IInv
    <3>2. h \in Hosts /\ IsRadix(tree)
      BY <1>3, <3>1 DEF Forest
    <3>3. \A x : At(trees, h, x) = Stored(tree, x)
      BY <1>3 DEF At
    <3> QED BY <3>1, <3>2, <3>3 DEF Holds
  <2>2. found = IF p = <<"/">> THEN tree[Root].route ELSE match(tree, p)
    BY <1>3 DEF TreeMatch, MatchTree
  <2> HIDE DEF tree, found, p
  <2>3. \/ Over = {} /\ found = None
        \/ \E x \in Over : found = Stored(tree, x) /\ \A y \in Over : Len(y) <= Len(x)
    <3>1. CASE p = <<"/">>
      <4>1. ASSUME NEW x \in Over PROVE x = Root
        <5>1. x \in Places /\ IsPrefix(x, p) /\ Stored(tree, x) # None
          OBVIOUS
        <5>2. PICK k \in Keys : k.host = h /\ PlaceOf(k.path) = x
          BY <2>1, <5>1
        <5>3. x # p
          BY <1>1, <3>1, <5>2, KeyPath
        <5>4. Len(x) \in Nat /\ Len(p) = 1
          BY <3>1, <5>1, PrefixOrder
        <5>5. Len(x) <= Len(p) /\ (Len(x) >= Len(p) => x = p)
          BY <1>1, <5>1, PrefixOrder
        <5>6. Len(x) = 0
          BY <5>3, <5>4, <5>5
        <5> QED BY <5>1, <5>6, EmptySeq DEF Root, Places
      <4>2. Root \in DOMAIN tree
        BY <2>1 DEF IsRadix
      <4>3. found = Stored(tree, Root)
        BY <2>2, <3>1, <4>2 DEF Stored
      <4>4. Root \in Over <=> Stored(tree, Root) # None
        BY <1>1, PrefixOrder
      <4>5. Len(Root) = 0
        BY EmptySeq DEF Root
      <4> HIDE DEF Over
      <4> QED BY <4>1, <4>3, <4>4, <4>5
    <3>2. CASE p # <<"/">>
      <4>1. AnswersBelow(tree, Root, p, found)
        BY <1>1, <2>1, <2>2, <3>2, MatchFinds
      <4>2. \A x \in Places : IsPrefix(Root, x)
        BY PrefixOrder
      <4>3. Over = {x \in Places : /\ IsPrefix(Root, x) /\ IsPrefix(x, p)
                                   /\ Stored(tree, x) # None}
        BY <4>2
      <4> QED BY <4>1, <4>3 DEF AnswersBelow
    <3> QED BY <3>1, <3>2
  <2>4. ASSUME NEW k \in Covering(h, p)
        PROVE  k \in Keys /\ PlaceOf(k.path) \in Over
    <3>1. k \in Keys /\ routes[k] # None /\ k.host = h /\ IsPrefix(k.path, p)
      BY DEF Covering
    <3>2. PlaceOf(k.path) \in Places /\ IsPrefix(PlaceOf(k.path), p)
      BY <1>1, <3>1, KeyPlaces, KeyPath
    <3> QED BY <2>1, <3>1, <3>2
  <2>5. CASE Over = {} /\ found = None
    <3>1. Covering(h, p) = {}
      <4> HIDE DEF Over
      <4> QED BY <2>4, <2>5
    <3> QED BY <2>5, <3>1 DEF Longest, found, p
  <2>6. CASE \E x \in Over : found = Stored(tree, x) /\ \A y \in Over : Len(y) <= Len(x)
    <3>1. PICK x \in Over : found = Stored(tree, x) /\ \A y \in Over : Len(y) <= Len(x)
      BY <2>6
    <3>2. PICK k \in Keys : k.host = h /\ PlaceOf(k.path) = x
      BY <2>1
    <3>3. routes[k] = Stored(tree, x) /\ routes[k] # None /\ IsPrefix(x, p)
      BY <2>1, <3>2
    <3>4. k \in Covering(h, p)
      BY <1>1, <3>2, <3>3, KeyPath DEF Covering
    <3> HIDE DEF Over
    <3>5. ASSUME NEW l \in Covering(h, p) PROVE Len(l.path) <= Len(k.path)
      <4>1. l \in Keys /\ Len(PlaceOf(l.path)) <= Len(PlaceOf(k.path))
        BY <2>4, <3>1, <3>2
      <4>2. /\ Len(l.path) \in Nat /\ Len(l.path) >= 1
            /\ PlaceOf(l.path) = l.path \/ (Len(l.path) = 1 /\ PlaceOf(l.path) = Root)
        BY <1>1, <4>1, KeyPath
      <4>3. /\ Len(k.path) \in Nat /\ Len(k.path) >= 1
            /\ PlaceOf(k.path) = k.path \/ (Len(k.path) = 1 /\ PlaceOf(k.path) = Root)
        BY <1>1, KeyPath
      <4>4. Len(Root) = 0
        BY EmptySeq DEF Root
      <4>5. CASE Len(l.path) = 1
        BY <4>2, <4>3, <4>5
      <4>6. CASE PlaceOf(l.path) = l.path /\ PlaceOf(k.path) = k.path
        BY <4>1, <4>2, <4>3, <4>6
      <4>7. CASE PlaceOf(l.path) = l.path /\ PlaceOf(k.path) = Root
        BY <4>1, <4>2, <4>3, <4>4, <4>7
      <4> QED BY <4>2, <4>3, <4>5, <4>6, <4>7
    <3>6. Longest(h, p) = routes[k]
      BY <1>1, <3>4, <3>5, LongestRoute
    <3> QED BY <3>1, <3>3, <3>6 DEF found, p
  <2> QED BY <2>3, <2>5, <2>6
<1> QED BY <1>2, <1>3

\* "Match finds the longest prefix match for a path" (radix.go): the tree of a
\* host answers with the current route object of the longest registered prefix.
THEOREM MatchCorrect == Spec => []MatchIsLongest
<1>1. IInv => MatchIsLongest
  <2> SUFFICES ASSUME IInv, NEW h \in Hosts, NEW path \in RequestPaths
               PROVE  TreeMatch(h, path) = Longest(h, normalizePath(path))
    BY DEF MatchIsLongest
  <2>1. path \in Places
    BY PathsAssumption DEF Places
  <2> QED BY <2>1, TreeAnswers
<1> QED BY <1>1, InvHolds, PTL

\* Table.Match normalizes the path and the tree does once more: the answer is still
\* the one for the path as it was normalized first.
LEMMA TreeAnswersNormalized ==
  ASSUME IInv, NEW h, NEW p \in Places, p[1] = "/", Len(p) >= 1
  PROVE  TreeMatch(h, p) = Longest(h, p)
<1>1. Covering(h, p) = Covering(h, normalizePath(p))
  BY NormalizedTwice DEF Covering
<1>2. Longest(h, p) = Longest(h, normalizePath(p))
  BY <1>1 DEF Longest
<1> QED BY <1>2, TreeAnswers

\* Table.Match finds the route of the longest registered prefix on the host itself;
\* if there is none, that of a wildcard which matches the host; and if there is
\* none either, nothing.
THEOREM RequestsCorrect == Spec => []RequestsFindTheirRoute
<1>1. IInv => RequestsFindTheirRoute
  <2> SUFFICES ASSUME IInv, NEW host \in RequestHosts, NEW path \in RequestPaths
               PROVE  LET h    == host.name
                          p    == normalizePath(path)
                          own  == IF IsWildcard(h) THEN None ELSE Longest(h, p)
                          wild == {Longest(w, p) :
                                     w \in {x \in Hosts : IsWildcard(x) /\ wildcardMatch(x, h)}}
                                    \ {None}
                      IN  \A found \in Match(host, path) :
                            IF own # None THEN found = own
                            ELSE IF wild # {} THEN found \in wild ELSE found = None
    BY DEF RequestsFindTheirRoute
  <2> DEFINE h    == host.name
             p    == normalizePath(path)
             own  == IF IsWildcard(h) THEN None ELSE Longest(h, p)
             W    == {x \in Hosts : IsWildcard(x) /\ wildcardMatch(x, h)}
             wild == {Longest(w, p) : w \in W} \ {None}
  <2>1. p \in Places /\ p[1] = "/" /\ Len(p) >= 1
    <3>1. path \in Places
      BY PathsAssumption DEF Places
    <3> QED BY <3>1, NormalizedPath
  <2>2. \A w : TreeMatch(w, p) = Longest(w, p)
    BY <2>1, TreeAnswersNormalized
  <2>3. WildcardMatches(h, p) = wild
    <3> HIDE DEF h, p, W
    <3>1. WildcardMatches(h, p) = {TreeMatch(w, p) : w \in W} \ {None}
      BY DEF WildcardMatches, W
    <3> QED BY <2>2, <3>1
  <2>4. Match(host, path) =
          LET exact == IF IsWildcard(h) THEN None ELSE TreeMatch(h, p)
          IN  IF exact # None THEN {exact}
              ELSE IF WildcardMatches(h, p) # {} THEN WildcardMatches(h, p) ELSE {None}
    BY DEF Match, normalizeHost
  <2> HIDE DEF h, p, wild
  <2>5. Match(host, path) = IF own # None THEN {own} ELSE IF wild # {} THEN wild ELSE {None}
    BY <2>2, <2>3, <2>4
  <2> HIDE DEF own
  <2>6. \A found \in Match(host, path) :
          IF own # None THEN found = own
          ELSE IF wild # {} THEN found \in wild ELSE found = None
    BY <2>5
  <2> QED BY <2>6 DEF own, wild, W, p, h
<1> QED BY <1>1, InvHolds, PTL

\* The trees hold every route of the table once and nothing besides, so ListByHost
\* shows the routes of the table that serve a host, each once, and no removed one.
THEOREM TreesCorrect == Spec => []TreesHoldTheTable
<1>1. IInv => TreesHoldTheTable
  <2> SUFFICES ASSUME IInv,
                      NEW host \in RequestHosts \cup {[name |-> h, port |-> FALSE] : h \in Hosts}
               PROVE  LET list == ListByHost(host)
                          RouteAt(e) == trees[e.host][e.place].route
                      IN  /\ {RouteAt(e) : e \in list} =
                               {routes[k] : k \in {l \in Keys :
                                  l.host \in Serving(normalizeHost(host))}} \ {None}
                          /\ \A e, f \in list : RouteAt(e) = RouteAt(f) => e = f
    BY DEF TreesHoldTheTable
  <2> DEFINE S == Serving(normalizeHost(host))
             list == ListByHost(host)
             RouteAt(e) == trees[e.host][e.place].route
             Entry(k) == [host |-> k.host, place |-> PlaceOf(k.path)]
  <2>1. S \subseteq Hosts
    BY DEF Serving
  <2>2. \A h \in DOMAIN trees : /\ h \in Hosts /\ IsRadix(trees[h])
                                /\ List(trees[h]) = {x \in DOMAIN trees[h] : trees[h][x].route # None}
    BY ListFinds DEF IInv, Forest
  <2>3. list = UNION {{[host |-> h, place |-> n] : n \in List(trees[h])} : h \in S \cap DOMAIN trees}
    BY DEF ListByHost
  <2> HIDE DEF S, list
  <2>4. ASSUME NEW e \in list
        PROVE  \E k \in Keys : /\ k.host \in S /\ routes[k] # None
                               /\ e = Entry(k) /\ RouteAt(e) = routes[k]
    <3>1. PICK h \in S \cap DOMAIN trees : e \in {[host |-> h, place |-> n] : n \in List(trees[h])}
      BY <2>3
    <3>2. PICK n \in DOMAIN trees[h] : trees[h][n].route # None /\ e = [host |-> h, place |-> n]
      BY <2>2, <3>1
    <3>3. h \in Hosts /\ n \in Places
      BY <2>2, <3>1, <3>2, RadixNode
    <3>4. At(trees, h, n) = trees[h][n].route
      BY <3>1, <3>2 DEF At, Stored
    <3>5. PICK k \in Keys : k.host = h /\ PlaceOf(k.path) = n
      BY <3>2, <3>3, <3>4 DEF IInv, Holds
    <3>6. At(trees, k.host, PlaceOf(k.path)) = routes[k]
      BY DEF IInv, Holds
    <3>7. e = Entry(k) /\ e.host = h /\ e.place = n
      BY <3>2, <3>5
    <3> HIDE DEF Entry
    <3>8. RouteAt(e) = routes[k] /\ routes[k] # None
      BY <3>2, <3>4, <3>5, <3>6, <3>7
    <3> QED BY <3>1, <3>5, <3>7, <3>8
  <2>5. ASSUME NEW k \in Keys, k.host \in S, routes[k] # None
        PROVE  Entry(k) \in list /\ RouteAt(Entry(k)) = routes[k]
    <3> DEFINE h == k.host
               n == PlaceOf(k.path)
    <3>1. At(trees, h, n) = routes[k]
      BY DEF IInv, Holds
    <3>2. h \in DOMAIN trees /\ n \in DOMAIN trees[h] /\ trees[h][n].route = routes[k]
      BY <2>5, <3>1 DEF At, Stored
    <3>3. Entry(k).host = h /\ Entry(k).place = n /\ Entry(k) = [host |-> h, place |-> n]
      OBVIOUS
    <3> HIDE DEF Entry, h, n
    <3>4. n \in List(trees[h])
      BY <2>2, <2>5, <3>2
    <3>5. Entry(k) \in {[host |-> h, place |-> m] : m \in List(trees[h])}
      BY <3>3, <3>4
    <3>6. h \in S \cap DOMAIN trees
      BY <2>5, <3>2 DEF h
    <3>7. Entry(k) \in list
      BY <2>3, <3>5, <3>6
    <3> QED BY <3>2, <3>3, <3>7
  <2> HIDE DEF RouteAt, Entry
  <2>6. {RouteAt(e) : e \in list} = {routes[k] : k \in {l \in Keys : l.host \in S}} \ {None}
    <3>1. ASSUME NEW e \in list
          PROVE  RouteAt(e) \in {routes[k] : k \in {l \in Keys : l.host \in S}} \ {None}
      BY <2>4
    <3>2. ASSUME NEW k \in Keys, k.host \in S, routes[k] # None
          PROVE  routes[k] \in {RouteAt(e) : e \in list}
      <4>1. Entry(k) \in list /\ RouteAt(Entry(k)) = routes[k]
        BY <2>5, <3>2
      <4> QED BY <4>1
    <3> QED BY <3>1, <3>2
  <2>7. ASSUME NEW e \in list, NEW f \in list, RouteAt(e) = RouteAt(f) PROVE e = f
    <3>1. PICK k \in Keys : routes[k] # None /\ e = Entry(k) /\ RouteAt(e) = routes[k]
      BY <2>4
    <3>2. PICK l \in Keys : routes[l] # None /\ f = Entry(l) /\ RouteAt(f) = routes[l]
      BY <2>4
    <3>3. KeyOf(routes[k]) = k /\ KeyOf(routes[l]) = l
      BY <3>1, <3>2 DEF IInv
    <3>4. k = l
      BY <2>7, <3>1, <3>2, <3>3
    <3> QED BY <3>1, <3>2, <3>4
  <2> QED BY <2>6, <2>7 DEF S, list, RouteAt
<1> QED BY <1>1, InvHolds, PTL

=============================================================================
