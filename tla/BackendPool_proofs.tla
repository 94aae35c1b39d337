------------------------- MODULE BackendPool_proofs -------------------------
(***************************************************************************)
(* What the operations of a backend pool return: lemmas the proofs about   *)
(* the modules that keep pools in a variable rest on, and what Select      *)
(* promises of every strategy.                                             *)
(***************************************************************************)
EXTENDS BackendPool, FiniteSetTheorems, WellFoundedInduction, TLAPS

-----------------------------------------------------------------------------
(* Shape. *)

\* A pool is a function on 1 .. Len(p) whose values are targets.
LEMMA PoolElements ==
  ASSUME NEW p \in Pool
  PROVE  /\ Len(p) \in Nat
         /\ DOMAIN p = 1 .. Len(p)
         /\ \A i \in DOMAIN p : p[i] \in Target
  BY DEF Pool

\* A function on 1 .. n whose values are targets is a pool of n targets.
LEMMA PoolFunction ==
  ASSUME NEW n \in Nat, NEW q, q = [i \in 1 .. n |-> q[i]],
         \A i \in 1 .. n : q[i] \in Target
  PROVE  q \in Pool /\ Len(q) = n /\ (n >= 1 => q # <<>>)
  BY DEF Pool

-----------------------------------------------------------------------------
(* Add: an address that is there already is updated in place. *)

LEMMA PoolAddUpdates ==
  ASSUME NEW p \in Pool, NEW t \in Target, t.addr \in AddressesOf(p)
  PROVE  /\ PoolAdd(p, t) \in Pool
         /\ DOMAIN PoolAdd(p, t) = DOMAIN p
         /\ PoolAdd(p, t) # <<>>
         /\ \A i \in DOMAIN p :
              /\ PoolAdd(p, t)[i].addr = p[i].addr
              /\ p[i].addr # t.addr => PoolAdd(p, t)[i] = p[i]
              /\ FirstAt(p, i, t.addr) => PoolAdd(p, t)[i].cid = t.cid
              /\ ~FirstAt(p, i, t.addr) => PoolAdd(p, t)[i] = p[i]
<1> DEFINE q == PoolAdd(p, t)
<1>1. Len(p) \in Nat /\ DOMAIN p = 1 .. Len(p) /\ Len(p) >= 1
  BY PoolElements DEF AddressesOf
<1>2. q = [i \in 1 .. Len(p) |->
             IF FirstAt(p, i, t.addr)
             THEN [p[i] EXCEPT !.cid = t.cid, !.weight = t.weight,
                               !.healthy = t.healthy]
             ELSE p[i]]
  BY <1>1 DEF PoolAdd
<1>3. ASSUME NEW i \in 1 .. Len(p)
      PROVE  /\ q[i] \in Target
             /\ q[i].addr = p[i].addr
             /\ FirstAt(p, i, t.addr) => q[i].cid = t.cid
             /\ ~FirstAt(p, i, t.addr) => q[i] = p[i]
  <2>1. p[i] \in Target
    BY PoolElements, <1>1
  <2>2. CASE FirstAt(p, i, t.addr)
    BY <1>2, <2>1, <2>2 DEF Target
  <2>3. CASE ~FirstAt(p, i, t.addr)
    BY <1>2, <2>1, <2>3
  <2>4. QED BY <2>2, <2>3
<1>4. q = [i \in 1 .. Len(p) |-> q[i]]
  BY <1>2
<1>5. q \in Pool /\ Len(q) = Len(p) /\ q # <<>>
  <2> HIDE DEF q
  <2> QED BY <1>1, <1>3, <1>4, PoolFunction
<1>6. DOMAIN q = DOMAIN p
  BY <1>1, <1>2
<1>7. \A i \in DOMAIN p : p[i].addr # t.addr => q[i] = p[i]
  BY <1>1, <1>3 DEF FirstAt
<1>8. QED BY <1>1, <1>3, <1>5, <1>6, <1>7

\* An address that is new goes to the end.
LEMMA PoolAddAppendsNew ==
  ASSUME NEW p \in Pool, NEW t \in Target, t.addr \notin AddressesOf(p)
  PROVE  /\ PoolAdd(p, t) \in Pool
         /\ DOMAIN PoolAdd(p, t) = 1 .. (Len(p) + 1)
         /\ PoolAdd(p, t) # <<>>
         /\ \A i \in DOMAIN p : PoolAdd(p, t)[i] = p[i]
         /\ PoolAdd(p, t)[Len(p) + 1] = t
<1>1. PoolAdd(p, t) = Append(p, t)
  BY DEF PoolAdd
<1>2. QED BY <1>1 DEF Pool

LEMMA PoolAddType ==
  ASSUME NEW p \in Pool, NEW t \in Target
  PROVE  PoolAdd(p, t) \in Pool /\ PoolAdd(p, t) # <<>>
  BY PoolAddUpdates, PoolAddAppendsNew

\* Add never makes two targets with one address.
LEMMA PoolAddDistinct ==
  ASSUME NEW p \in Pool, NEW t \in Target, DistinctAddresses(p)
  PROVE  DistinctAddresses(PoolAdd(p, t))
<1>1. CASE t.addr \in AddressesOf(p)
  BY <1>1, PoolAddUpdates DEF DistinctAddresses
<1>2. CASE t.addr \notin AddressesOf(p)
  <2> DEFINE q == PoolAdd(p, t)
  <2>1. /\ Len(p) \in Nat /\ DOMAIN p = 1 .. Len(p)
        /\ DOMAIN q = 1 .. (Len(p) + 1)
        /\ \A i \in 1 .. Len(p) : q[i] = p[i] /\ p[i].addr # t.addr
        /\ q[Len(p) + 1] = t
    BY <1>2, PoolAddAppendsNew, PoolElements DEF AddressesOf
  <2> SUFFICES ASSUME NEW i \in DOMAIN q, NEW j \in DOMAIN q, q[i].addr = q[j].addr
               PROVE  i = j
    BY DEF DistinctAddresses
  <2> HIDE DEF q
  <2>2. CASE i \in 1 .. Len(p) /\ j \in 1 .. Len(p)
    BY <2>1, <2>2 DEF DistinctAddresses
  <2>3. CASE i = Len(p) + 1 \/ j = Len(p) + 1
    BY <2>1, <2>3
  <2>4. QED BY <2>1, <2>2, <2>3
<1>3. QED BY <1>1, <1>2

\* A target of Add's result is the new one or an old one at another address.
LEMMA AddedTargets ==
  ASSUME NEW p \in Pool, NEW t \in Target, DistinctAddresses(p),
         NEW i \in DOMAIN PoolAdd(p, t)
  PROVE  \/ PoolAdd(p, t)[i].addr = t.addr /\ PoolAdd(p, t)[i].cid = t.cid
         \/ \E m \in DOMAIN p : PoolAdd(p, t)[i] = p[m] /\ p[m].addr # t.addr
<1>1. Len(p) \in Nat /\ DOMAIN p = 1 .. Len(p)
  BY PoolElements
<1>2. CASE t.addr \in AddressesOf(p)
  <2>1. i \in DOMAIN p
    BY <1>2, PoolAddUpdates
  <2>2. p[i].addr = t.addr => FirstAt(p, i, t.addr)
    BY <1>1, <2>1 DEF FirstAt, DistinctAddresses
  <2>3. QED BY <1>2, <2>1, <2>2, PoolAddUpdates
<1>3. CASE t.addr \notin AddressesOf(p)
  <2>1. i \in 1 .. (Len(p) + 1)
    BY <1>3, PoolAddAppendsNew
  <2>2. i = Len(p) + 1 => PoolAdd(p, t)[i] = t
    BY <1>3, PoolAddAppendsNew
  <2>3. i \in DOMAIN p => PoolAdd(p, t)[i] = p[i] /\ p[i].addr # t.addr
    BY <1>3, PoolAddAppendsNew DEF AddressesOf
  <2>4. i = Len(p) + 1 \/ i \in DOMAIN p
    BY <1>1, <2>1
  <2>5. QED BY <2>2, <2>3, <2>4
<1>4. QED BY <1>2, <1>3

\* And the new one is there, with every old one at another address.
LEMMA AddKeeps ==
  ASSUME NEW p \in Pool, NEW t \in Target, DistinctAddresses(p)
  PROVE  /\ \E i \in DOMAIN PoolAdd(p, t) :
              PoolAdd(p, t)[i].addr = t.addr /\ PoolAdd(p, t)[i].cid = t.cid
         /\ \A m \in DOMAIN p : p[m].addr # t.addr =>
              \E i \in DOMAIN PoolAdd(p, t) : PoolAdd(p, t)[i] = p[m]
         /\ AddressesOf(PoolAdd(p, t)) = AddressesOf(p) \cup {t.addr}
<1>1. Len(p) \in Nat /\ DOMAIN p = 1 .. Len(p)
  BY PoolElements
<1>2. CASE t.addr \in AddressesOf(p)
  <2>1. \E i \in DOMAIN p : FirstAt(p, i, t.addr)
    BY <1>1, <1>2 DEF FirstAt, AddressesOf, DistinctAddresses
  <2>2. QED BY <1>2, <2>1, PoolAddUpdates DEF FirstAt, AddressesOf
<1>3. CASE t.addr \notin AddressesOf(p)
  <2>1. /\ DOMAIN PoolAdd(p, t) = 1 .. (Len(p) + 1)
        /\ \A i \in 1 .. Len(p) : PoolAdd(p, t)[i] = p[i]
        /\ PoolAdd(p, t)[Len(p) + 1] = t
    BY <1>1, <1>3, PoolAddAppendsNew
  <2>2. Len(p) + 1 \in 1 .. (Len(p) + 1) /\ 1 .. Len(p) \subseteq 1 .. (Len(p) + 1)
    BY <1>1
  <2>3. \A i \in 1 .. (Len(p) + 1) : i \in 1 .. Len(p) \/ i = Len(p) + 1
    BY <1>1
  <2> HIDE <1>3
  <2>4. QED BY <1>1, <2>1, <2>2, <2>3 DEF AddressesOf
<1>4. QED BY <1>2, <1>3

-----------------------------------------------------------------------------
(* Remove. *)

\* Where the targets come from that are left when a container is removed: the
\* targets before its first one keep their place and the others move down.
LEMMA PoolRemoveShifts ==
  ASSUME NEW p \in Pool, NEW c, \E m \in DOMAIN p : p[m].cid = c
  PROVE  /\ PoolRemove(p, c) \in Pool
         /\ DOMAIN PoolRemove(p, c) = 1 .. (Len(p) - 1)
         /\ \A i \in DOMAIN PoolRemove(p, c) :
              /\ i \in DOMAIN p /\ i + 1 \in DOMAIN p
              /\ (\A j \in 1 .. i : p[j].cid # c) => PoolRemove(p, c)[i] = p[i]
              /\ (\E j \in 1 .. i : p[j].cid = c) => PoolRemove(p, c)[i] = p[i + 1]
<1> DEFINE q == PoolRemove(p, c)
<1>1. Len(p) - 1 \in Nat /\ DOMAIN p = 1 .. Len(p)
  BY PoolElements
<1>2. q = [i \in 1 .. (Len(p) - 1) |->
             IF \A j \in 1 .. i : p[j].cid # c THEN p[i] ELSE p[i + 1]]
  BY DEF PoolRemove
<1>3. \A i \in 1 .. (Len(p) - 1) : q[i] \in Target
  BY <1>1, <1>2, PoolElements
<1>4. q = [i \in 1 .. (Len(p) - 1) |-> q[i]]
  BY <1>2
<1>5. q \in Pool
  <2> HIDE DEF q
  <2> QED BY <1>1, <1>3, <1>4, PoolFunction
<1>6. DOMAIN q = 1 .. (Len(p) - 1)
  BY <1>2
<1>7. ASSUME NEW i \in 1 .. (Len(p) - 1)
      PROVE  /\ i \in DOMAIN p /\ i + 1 \in DOMAIN p
             /\ (\A j \in 1 .. i : p[j].cid # c) => q[i] = p[i]
             /\ (\E j \in 1 .. i : p[j].cid = c) => q[i] = p[i + 1]
  <2>1. i \in DOMAIN p /\ i + 1 \in DOMAIN p
    BY <1>1
  <2>2. QED BY <1>2, <2>1
<1>8. QED BY <1>5, <1>6, <1>7

LEMMA PoolRemoveNone ==
  ASSUME NEW p \in Pool, NEW c, \A m \in DOMAIN p : p[m].cid # c
  PROVE  PoolRemove(p, c) = p
  BY DEF PoolRemove

LEMMA PoolRemoveType ==
  ASSUME NEW p \in Pool, NEW c
  PROVE  PoolRemove(p, c) \in Pool
  BY PoolRemoveShifts, PoolRemoveNone

\* Nothing is left that was not there.
LEMMA PoolRemoveSubset ==
  ASSUME NEW p \in Pool, NEW c, NEW i \in DOMAIN PoolRemove(p, c)
  PROVE  \E m \in DOMAIN p : PoolRemove(p, c)[i] = p[m]
<1>1. Len(p) \in Nat /\ DOMAIN p = 1 .. Len(p)
  BY PoolElements
<1>2. CASE \E m \in DOMAIN p : p[m].cid = c
  BY <1>2, PoolRemoveShifts
<1>3. QED BY <1>2, PoolRemoveNone

\* The targets of other containers are all left, as they were.
LEMMA PoolRemoveKeeps ==
  ASSUME NEW p \in Pool, NEW c, NEW m \in DOMAIN p, p[m].cid # c
  PROVE  \E i \in DOMAIN PoolRemove(p, c) : PoolRemove(p, c)[i] = p[m]
<1>1. Len(p) \in Nat /\ DOMAIN p = 1 .. Len(p)
  BY PoolElements
<1>2. CASE \E n \in DOMAIN p : p[n].cid = c
  <2>1. PICK n \in DOMAIN p : p[n].cid = c
    BY <1>2
  <2>2. CASE \A j \in 1 .. m : p[j].cid # c
    <3>1. m \in 1 .. (Len(p) - 1)
      BY <1>1, <2>1, <2>2
    <3>2. m \in DOMAIN PoolRemove(p, c)
      BY <1>2, <3>1, PoolRemoveShifts
    <3>3. QED BY <1>2, <2>2, <3>2, PoolRemoveShifts
  <2>3. CASE \E j \in 1 .. m : p[j].cid = c
    <3>1. m - 1 \in 1 .. (Len(p) - 1) /\ \E j \in 1 .. (m - 1) : p[j].cid = c
      BY <1>1, <2>3
    <3>2. m - 1 \in DOMAIN PoolRemove(p, c)
      BY <1>2, <3>1, PoolRemoveShifts
    <3>3. PoolRemove(p, c)[m - 1] = p[(m - 1) + 1]
      BY <1>2, <3>1, <3>2, PoolRemoveShifts
    <3>4. (m - 1) + 1 = m
      BY <1>1
    <3>5. QED BY <3>2, <3>3, <3>4
  <2>4. QED BY <2>2, <2>3
<1>3. QED BY <1>2, PoolRemoveNone

\* A set of positions that is not empty has a first one.
LEMMA FirstOf ==
  ASSUME NEW S \in SUBSET Nat, S # {}
  PROVE  \E m \in S : \A n \in S : m <= n
<1> DEFINE R == {ss \in Nat \X Nat : ss[1] < ss[2]}
<1>1. IsWellFoundedOn(R, Nat)
  BY NatLessThanWellFounded DEF OpToRel
<1> HIDE DEF R
<1>2. PICK x \in S : \A y \in S : ~ (<<y, x>> \in R)
  BY <1>1, WFMin
<1>3. \A y \in S : <<y, x>> \in R <=> y < x
  BY DEF R
<1>4. x \in Nat /\ \A y \in S : y \in Nat /\ ~(y < x)
  BY <1>2, <1>3
<1>5. \A y \in S : x <= y
  BY <1>4
<1>6. QED BY <1>5

\* Removing a container takes exactly one of its targets out of the pool.
LEMMA PoolRemoveOne ==
  ASSUME NEW p \in Pool, NEW c, \E n \in DOMAIN p : p[n].cid = c
  PROVE  \E m \in DOMAIN p :
           /\ p[m].cid = c
           /\ \A i \in DOMAIN PoolRemove(p, c) :
                \E j \in DOMAIN p \ {m} : PoolRemove(p, c)[i] = p[j]
           /\ \A j \in DOMAIN p \ {m} :
                \E i \in DOMAIN PoolRemove(p, c) : PoolRemove(p, c)[i] = p[j]
<1> DEFINE q == PoolRemove(p, c)
           T == {n \in DOMAIN p : p[n].cid = c}
<1>1. Len(p) \in Nat /\ DOMAIN p = 1 .. Len(p)
  BY PoolElements
<1>2. PICK m \in T : \A n \in T : m <= n
  <2>1. T \in SUBSET Nat /\ T # {}
    BY <1>1
  <2>2. QED BY <2>1, FirstOf
<1>3. /\ m \in 1 .. Len(p) /\ p[m].cid = c
      /\ \A j \in 1 .. Len(p) : j < m => p[j].cid # c
  BY <1>1, <1>2
<1>4. /\ DOMAIN q = 1 .. (Len(p) - 1)
      /\ \A i \in 1 .. (Len(p) - 1) : q[i] = IF i < m THEN p[i] ELSE p[i + 1]
  <2>1. DOMAIN q = 1 .. (Len(p) - 1)
    BY PoolRemoveShifts
  <2>2. ASSUME NEW i \in 1 .. (Len(p) - 1), i < m
        PROVE  q[i] = p[i]
    <3>1. \A j \in 1 .. i : p[j].cid # c
      BY <1>1, <1>3, <2>2
    <3>2. QED BY <2>1, <3>1, PoolRemoveShifts
  <2>3. ASSUME NEW i \in 1 .. (Len(p) - 1), ~(i < m)
        PROVE  q[i] = p[i + 1]
    <3>1. m \in 1 .. i
      BY <1>1, <1>3, <2>3
    <3>2. QED BY <1>3, <2>1, <3>1, PoolRemoveShifts
  <2>4. QED BY <2>1, <2>2, <2>3
<1> HIDE DEF q, T
<1>5. ASSUME NEW i \in DOMAIN q
      PROVE  \E j \in DOMAIN p \ {m} : q[i] = p[j]
  <2>1. CASE i < m
    BY <1>1, <1>3, <1>4, <2>1
  <2>2. CASE ~(i < m)
    <3>1. i + 1 \in DOMAIN p \ {m}
      BY <1>1, <1>3, <1>4, <2>2
    <3>2. QED BY <1>4, <2>2, <3>1
  <2>3. QED BY <2>1, <2>2
<1>6. ASSUME NEW j \in DOMAIN p \ {m}
      PROVE  \E i \in DOMAIN q : q[i] = p[j]
  <2>1. CASE j < m
    BY <1>1, <1>3, <1>4, <2>1
  <2>2. CASE ~(j < m)
    <3>1. j - 1 \in DOMAIN q /\ ~(j - 1 < m) /\ (j - 1) + 1 = j
      BY <1>1, <1>3, <1>4, <2>2
    <3>2. q[j - 1] = p[(j - 1) + 1]
      BY <1>4, <3>1
    <3>3. QED BY <3>1, <3>2
  <2>3. QED BY <2>1, <2>2
<1>7. QED BY <1>1, <1>3, <1>5, <1>6 DEF q

LEMMA PoolRemoveDistinct ==
  ASSUME NEW p \in Pool, NEW c, DistinctAddresses(p)
  PROVE  DistinctAddresses(PoolRemove(p, c))
<1>1. Len(p) \in Nat /\ DOMAIN p = 1 .. Len(p)
  BY PoolElements
<1>2. CASE \E m \in DOMAIN p : p[m].cid = c
  <2> DEFINE q == PoolRemove(p, c)
             Kept(i) == \A j \in 1 .. i : p[j].cid # c
             from(i) == IF Kept(i) THEN i ELSE i + 1
  <2>1. /\ DOMAIN q = 1 .. (Len(p) - 1)
        /\ \A i \in DOMAIN q : q[i] = p[from(i)] /\ from(i) \in DOMAIN p
    <3>1. /\ DOMAIN q = 1 .. (Len(p) - 1)
          /\ \A i \in DOMAIN q :
               /\ i \in DOMAIN p /\ i + 1 \in DOMAIN p
               /\ Kept(i) => q[i] = p[i]
               /\ ~Kept(i) => q[i] = p[i + 1]
      BY <1>2, PoolRemoveShifts
    <3> HIDE DEF q, Kept
    <3>2. QED BY <3>1
  <2>2. ASSUME NEW i \in DOMAIN q, NEW j \in DOMAIN q, i < j
        PROVE  from(i) < from(j)
    <3>1. Kept(j) => Kept(i)
      BY <2>1, <2>2
    <3>2. i \in Int /\ j \in Int
      BY <2>1
    <3> HIDE DEF Kept
    <3>3. QED BY <2>2, <3>1, <3>2
  <2>3. \A i \in DOMAIN q : i \in Int /\ from(i) \in Int
    BY <1>1, <2>1
  <2> HIDE DEF q, from
  <2>4. ASSUME NEW i \in DOMAIN q, NEW j \in DOMAIN q, q[i].addr = q[j].addr
        PROVE  i = j
    <3>1. from(i) = from(j)
      BY <2>1, <2>4 DEF DistinctAddresses
    <3>2. QED BY <2>2, <2>3, <3>1
  <2>5. QED BY <2>4 DEF DistinctAddresses, q
<1>3. QED BY <1>2, PoolRemoveNone

\* A container that has one target in a pool has none after it is removed.
LEMMA PoolRemoveLast ==
  ASSUME NEW p \in Pool, NEW c,
         \A m, n \in DOMAIN p : p[m].cid = c /\ p[n].cid = c => m = n
  PROVE  \A i \in DOMAIN PoolRemove(p, c) : PoolRemove(p, c)[i].cid # c
<1>1. Len(p) \in Nat /\ DOMAIN p = 1 .. Len(p)
  BY PoolElements
<1>2. CASE \E m \in DOMAIN p : p[m].cid = c
  <2> SUFFICES ASSUME NEW i \in DOMAIN PoolRemove(p, c)
               PROVE  PoolRemove(p, c)[i].cid # c
    OBVIOUS
  <2>1. i \in 1 .. (Len(p) - 1) /\ i + 1 \in DOMAIN p
    BY <1>2, PoolRemoveShifts
  <2>2. CASE \A j \in 1 .. i : p[j].cid # c
    <3>1. PoolRemove(p, c)[i] = p[i]
      BY <1>2, <2>2, PoolRemoveShifts
    <3>2. QED BY <2>1, <2>2, <3>1
  <2>3. CASE \E j \in 1 .. i : p[j].cid = c
    <3>1. PoolRemove(p, c)[i] = p[i + 1]
      BY <1>2, <2>3, PoolRemoveShifts
    <3>2. \E j \in DOMAIN p : p[j].cid = c /\ j # i + 1
      BY <1>1, <2>1, <2>3
    <3>3. QED BY <2>1, <3>1, <3>2
  <2>4. QED BY <2>2, <2>3
<1>3. QED BY <1>2, PoolRemoveNone

-----------------------------------------------------------------------------
(* Marks keep every target in its place, at its address, in its container. *)

LEMMA MarkProperties ==
  ASSUME NEW p \in Pool, NEW a, NEW h \in BOOLEAN
  PROVE  /\ Mark(p, a, h) \in Pool
         /\ DOMAIN Mark(p, a, h) = DOMAIN p
         /\ Mark(p, a, h) = <<>> <=> p = <<>>
         /\ \A i \in DOMAIN p : /\ Mark(p, a, h)[i].addr = p[i].addr
                                /\ Mark(p, a, h)[i].cid = p[i].cid
<1> DEFINE q == Mark(p, a, h)
<1>1. Len(p) \in Nat /\ DOMAIN p = 1 .. Len(p)
  BY PoolElements
<1>2. q = [i \in 1 .. Len(p) |->
             IF ~FirstAt(p, i, a) THEN p[i]
             ELSE IF h THEN [p[i] EXCEPT !.healthy = TRUE, !.fails = 0]
                       ELSE [p[i] EXCEPT !.healthy = FALSE]]
  <2>1. CASE h
    BY <1>1, <2>1 DEF Mark, MarkHealthy
  <2>2. CASE ~h
    BY <1>1, <2>2 DEF Mark, MarkUnhealthy
  <2>3. QED BY <2>1, <2>2
<1>3. ASSUME NEW i \in 1 .. Len(p)
      PROVE  q[i] \in Target /\ q[i].addr = p[i].addr /\ q[i].cid = p[i].cid
  <2>1. p[i] \in Target
    BY <1>1, PoolElements
  <2>2. /\ [p[i] EXCEPT !.healthy = TRUE, !.fails = 0] \in Target
        /\ [p[i] EXCEPT !.healthy = TRUE, !.fails = 0].addr = p[i].addr
        /\ [p[i] EXCEPT !.healthy = TRUE, !.fails = 0].cid = p[i].cid
    BY <2>1 DEF Target
  <2>3. /\ [p[i] EXCEPT !.healthy = FALSE] \in Target
        /\ [p[i] EXCEPT !.healthy = FALSE].addr = p[i].addr
        /\ [p[i] EXCEPT !.healthy = FALSE].cid = p[i].cid
    BY <2>1 DEF Target
  <2>4. \/ q[i] = p[i]
        \/ q[i] = [p[i] EXCEPT !.healthy = TRUE, !.fails = 0]
        \/ q[i] = [p[i] EXCEPT !.healthy = FALSE]
    BY <1>2
  <2> HIDE DEF q
  <2>5. QED BY <2>1, <2>2, <2>3, <2>4
<1>4. q = [i \in 1 .. Len(p) |-> q[i]]
  BY <1>2
<1>5. q \in Pool /\ Len(q) = Len(p)
  <2> HIDE DEF q
  <2> QED BY <1>1, <1>3, <1>4, PoolFunction
<1>6. DOMAIN q = DOMAIN p
  BY <1>1, <1>2
<1>7. q = <<>> <=> p = <<>>
  BY <1>5 DEF Pool
<1>8. QED BY <1>1, <1>3, <1>5, <1>6, <1>7

LEMMA MarkDistinct ==
  ASSUME NEW p \in Pool, NEW a, NEW h \in BOOLEAN, DistinctAddresses(p)
  PROVE  DistinctAddresses(Mark(p, a, h))
  BY MarkProperties DEF DistinctAddresses

-----------------------------------------------------------------------------
(* Counters: every target stays where it is, and what a counter's operation *)
(* does it does to the first target at the address.                         *)

\* A function whose values are targets at the places of a pool is a pool.
LEMMA PoolInPlace ==
  ASSUME NEW p \in Pool, NEW q, q = [i \in DOMAIN p |-> q[i]],
         \A i \in DOMAIN p : q[i] \in Target
  PROVE  q \in Pool /\ DOMAIN q = DOMAIN p
<1>1. Len(p) \in Nat /\ DOMAIN p = 1 .. Len(p)
  BY PoolElements
<1>2. q \in Pool
  BY <1>1, PoolFunction
<1>3. DOMAIN q = DOMAIN p
  OBVIOUS
<1>4. QED BY <1>2, <1>3

LEMMA RecordRequestInPlace ==
  ASSUME NEW p \in Pool, NEW a
  PROVE  /\ RecordRequest(p, a) \in Pool
         /\ DOMAIN RecordRequest(p, a) = DOMAIN p
         /\ \A i \in DOMAIN p :
              RecordRequest(p, a)[i] =
                IF FirstAt(p, i, a) THEN [p[i] EXCEPT !.active = @ + 1] ELSE p[i]
<1> DEFINE q == RecordRequest(p, a)
<1>1. q = [i \in DOMAIN p |->
             IF FirstAt(p, i, a) THEN [p[i] EXCEPT !.active = @ + 1] ELSE p[i]]
  BY DEF RecordRequest
<1>2. ASSUME NEW i \in DOMAIN p PROVE q[i] \in Target
  <2>1. p[i] \in Target
    BY PoolElements
  <2>2. [p[i] EXCEPT !.active = @ + 1] \in Target
    BY <2>1 DEF Target
  <2>3. q[i] = p[i] \/ q[i] = [p[i] EXCEPT !.active = @ + 1]
    BY <1>1
  <2> HIDE DEF q
  <2>4. QED BY <2>1, <2>2, <2>3
<1>3. q = [i \in DOMAIN p |-> q[i]]
  BY <1>1
<1>4. q \in Pool /\ DOMAIN q = DOMAIN p
  <2> HIDE DEF q
  <2> QED BY <1>2, <1>3, PoolInPlace
<1>5. QED BY <1>1, <1>4

LEMMA CompleteRequestInPlace ==
  ASSUME NEW p \in Pool, NEW a
  PROVE  /\ CompleteRequest(p, a) \in Pool
         /\ DOMAIN CompleteRequest(p, a) = DOMAIN p
         /\ \A i \in DOMAIN p :
              CompleteRequest(p, a)[i] =
                IF FirstAt(p, i, a) THEN [p[i] EXCEPT !.active = @ - 1] ELSE p[i]
<1> DEFINE q == CompleteRequest(p, a)
<1>1. q = [i \in DOMAIN p |->
             IF FirstAt(p, i, a) THEN [p[i] EXCEPT !.active = @ - 1] ELSE p[i]]
  BY DEF CompleteRequest
<1>2. ASSUME NEW i \in DOMAIN p PROVE q[i] \in Target
  <2>1. p[i] \in Target
    BY PoolElements
  <2>2. [p[i] EXCEPT !.active = @ - 1] \in Target
    BY <2>1 DEF Target
  <2>3. q[i] = p[i] \/ q[i] = [p[i] EXCEPT !.active = @ - 1]
    BY <1>1
  <2> HIDE DEF q
  <2>4. QED BY <2>1, <2>2, <2>3
<1>3. q = [i \in DOMAIN p |-> q[i]]
  BY <1>1
<1>4. q \in Pool /\ DOMAIN q = DOMAIN p
  <2> HIDE DEF q
  <2> QED BY <1>2, <1>3, PoolInPlace
<1>5. QED BY <1>1, <1>4

LEMMA RecordSuccessInPlace ==
  ASSUME NEW p \in Pool, NEW a
  PROVE  /\ RecordSuccess(p, a) \in Pool
         /\ DOMAIN RecordSuccess(p, a) = DOMAIN p
         /\ \A i \in DOMAIN p :
              RecordSuccess(p, a)[i] =
                IF FirstAt(p, i, a) THEN [p[i] EXCEPT !.fails = 0] ELSE p[i]
<1> DEFINE q == RecordSuccess(p, a)
<1>1. q = [i \in DOMAIN p |->
             IF FirstAt(p, i, a) THEN [p[i] EXCEPT !.fails = 0] ELSE p[i]]
  BY DEF RecordSuccess
<1>2. ASSUME NEW i \in DOMAIN p PROVE q[i] \in Target
  <2>1. p[i] \in Target
    BY PoolElements
  <2>2. [p[i] EXCEPT !.fails = 0] \in Target
    BY <2>1 DEF Target
  <2>3. q[i] = p[i] \/ q[i] = [p[i] EXCEPT !.fails = 0]
    BY <1>1
  <2> HIDE DEF q
  <2>4. QED BY <2>1, <2>2, <2>3
<1>3. q = [i \in DOMAIN p |-> q[i]]
  BY <1>1
<1>4. q \in Pool /\ DOMAIN q = DOMAIN p
  <2> HIDE DEF q
  <2> QED BY <1>2, <1>3, PoolInPlace
<1>5. QED BY <1>1, <1>4

LEMMA RecordFailureInPlace ==
  ASSUME NEW p \in Pool, NEW a
  PROVE  /\ RecordFailure(p, a) \in Pool
         /\ DOMAIN RecordFailure(p, a) = DOMAIN p
         /\ \A i \in DOMAIN p :
              RecordFailure(p, a)[i] =
                IF FirstAt(p, i, a)
                THEN [p[i] EXCEPT !.fails = @ + 1,
                                  !.healthy = IF Ejects(p, i) THEN FALSE ELSE @]
                ELSE p[i]
<1> DEFINE q == RecordFailure(p, a)
<1>1. q = [i \in DOMAIN p |->
             IF FirstAt(p, i, a)
             THEN [p[i] EXCEPT !.fails = @ + 1,
                               !.healthy = IF Ejects(p, i) THEN FALSE ELSE @]
             ELSE p[i]]
  BY DEF RecordFailure
<1>2. ASSUME NEW i \in DOMAIN p PROVE q[i] \in Target
  <2>1. p[i] \in Target
    BY PoolElements
  <2>2. [p[i] EXCEPT !.fails = @ + 1, !.healthy = IF Ejects(p, i) THEN FALSE ELSE @]
          \in Target
    <3>1. (IF Ejects(p, i) THEN FALSE ELSE p[i].healthy) \in BOOLEAN
      BY <2>1 DEF Target
    <3>2. p[i].fails + 1 \in Nat
      BY <2>1 DEF Target
    <3>3. ASSUME NEW n \in Nat, NEW h \in BOOLEAN
          PROVE  [p[i] EXCEPT !.fails = n, !.healthy = h] \in Target
      BY <2>1 DEF Target
    <3>4. QED BY <3>1, <3>2, <3>3
  <2>3. \/ q[i] = p[i]
        \/ q[i] = [p[i] EXCEPT !.fails = @ + 1,
                               !.healthy = IF Ejects(p, i) THEN FALSE ELSE @]
    BY <1>1
  <2> HIDE DEF q
  <2>4. QED BY <2>1, <2>2, <2>3
<1>3. q = [i \in DOMAIN p |-> q[i]]
  BY <1>1
<1>4. q \in Pool /\ DOMAIN q = DOMAIN p
  <2> HIDE DEF q
  <2> QED BY <1>2, <1>3, PoolInPlace
<1>5. QED BY <1>1, <1>4

-----------------------------------------------------------------------------
(* Counting the healthy targets. *)

LEMMA HealthyCountType ==
  ASSUME NEW p \in Pool
  PROVE  /\ IsFiniteSet(HealthyAt(p))
         /\ HealthyCount(p) \in Nat
         /\ HealthyCount(p) > 0 <=> \E i \in DOMAIN p : p[i].healthy
<1>1. Len(p) \in Nat /\ DOMAIN p = 1 .. Len(p)
  BY PoolElements
<1>2. IsFiniteSet(DOMAIN p)
  BY <1>1, FS_Interval
<1>3. IsFiniteSet(HealthyAt(p))
  BY <1>2, FS_Subset DEF HealthyAt
<1>4. HealthyCount(p) \in Nat /\ (HealthyCount(p) = 0 <=> HealthyAt(p) = {})
  BY <1>3, FS_CardinalityType, FS_EmptySet DEF HealthyCount
<1>5. HealthyAt(p) # {} <=> \E i \in DOMAIN p : p[i].healthy
  BY DEF HealthyAt
<1>6. QED BY <1>3, <1>4, <1>5

\* Passive ejection leaves a healthy target if there was one.
LEMMA RecordFailureKeepsOne ==
  ASSUME NEW p \in Pool, NEW a, \E i \in DOMAIN p : p[i].healthy
  PROVE  \E i \in DOMAIN p : RecordFailure(p, a)[i].healthy
<1> DEFINE q == RecordFailure(p, a)
<1>1. DOMAIN p = 1 .. Len(p) /\ \A i \in DOMAIN p : p[i] \in Target
  BY PoolElements
<1>2. PICK i \in DOMAIN p : p[i].healthy
  OBVIOUS
<1>3. \A j \in DOMAIN p : ~FirstAt(p, j, a) => q[j] = p[j]
  BY RecordFailureInPlace
<1>4. CASE ~FirstAt(p, i, a)
  BY <1>2, <1>3, <1>4
<1>5. CASE FirstAt(p, i, a) /\ ~Ejects(p, i)
  <2>1. q[i].healthy = p[i].healthy
    BY <1>1, <1>5, RecordFailureInPlace DEF Target
  <2>2. QED BY <1>2, <2>1
<1>6. CASE FirstAt(p, i, a) /\ Ejects(p, i)
  <2>1. HealthyAt(p) # {i}
    <3>1. Cardinality({i}) = 1
      BY FS_Singleton
    <3>2. Cardinality(HealthyAt(p)) > 1
      BY <1>6 DEF Ejects, HealthyCount
    <3>3. QED BY <3>1, <3>2
  <2>2. PICK j \in DOMAIN p : p[j].healthy /\ j # i
    BY <1>2, <2>1 DEF HealthyAt
  <2>3. ~FirstAt(p, j, a)
    BY <1>1, <1>6, <2>2 DEF FirstAt
  <2>4. QED BY <1>3, <2>2, <2>3
<1>7. QED BY <1>4, <1>5, <1>6

\* A target that is added healthy is healthy in the pool.
LEMMA PoolAddHealthy ==
  ASSUME NEW p \in Pool, NEW t \in Target, DistinctAddresses(p), t.healthy
  PROVE  \E i \in DOMAIN PoolAdd(p, t) : PoolAdd(p, t)[i].healthy
<1>1. Len(p) \in Nat /\ DOMAIN p = 1 .. Len(p)
  BY PoolElements
<1>2. CASE t.addr \in AddressesOf(p)
  <2>1. PICK k \in DOMAIN p : p[k].addr = t.addr
    BY <1>2 DEF AddressesOf
  <2>2. PICK i \in DOMAIN p : FirstAt(p, i, t.addr)
    BY <1>1, <2>1 DEF FirstAt, DistinctAddresses
  <2>3. PoolAdd(p, t)[i] = [p[i] EXCEPT !.cid = t.cid, !.weight = t.weight,
                                        !.healthy = t.healthy]
    BY <1>2, <2>2 DEF PoolAdd
  <2>4. p[i] \in Target
    BY PoolElements
  <2>5. PoolAdd(p, t)[i].healthy
    BY <2>3, <2>4 DEF Target
  <2>6. QED BY <1>2, <2>5, PoolAddUpdates
<1>3. CASE t.addr \notin AddressesOf(p)
  <2>1. Len(p) + 1 \in DOMAIN PoolAdd(p, t) /\ PoolAdd(p, t)[Len(p) + 1] = t
    BY <1>1, <1>3, PoolAddAppendsNew
  <2>2. QED BY <2>1
<1>4. QED BY <1>2, <1>3

-----------------------------------------------------------------------------
(* Membership and marks leave the counters of the targets that stay. *)

LEMMA MarkActive ==
  ASSUME NEW p \in Pool, NEW a, NEW h \in BOOLEAN, NEW i \in DOMAIN p
  PROVE  Mark(p, a, h)[i].active = p[i].active
<1>1. p[i] \in Target
  BY PoolElements
<1>2. \/ Mark(p, a, h)[i] = p[i]
      \/ Mark(p, a, h)[i] = [p[i] EXCEPT !.healthy = TRUE, !.fails = 0]
      \/ Mark(p, a, h)[i] = [p[i] EXCEPT !.healthy = FALSE]
  BY DEF Mark, MarkHealthy, MarkUnhealthy
<1>3. QED BY <1>1, <1>2 DEF Target

LEMMA PoolAddActive ==
  ASSUME NEW p \in Pool, NEW t \in Target, NEW i \in DOMAIN PoolAdd(p, t)
  PROVE  \/ \E m \in DOMAIN p : /\ PoolAdd(p, t)[i].addr = p[m].addr
                                /\ PoolAdd(p, t)[i].active = p[m].active
         \/ t.addr \notin AddressesOf(p) /\ PoolAdd(p, t)[i] = t
<1>1. CASE t.addr \in AddressesOf(p)
  <2>1. i \in DOMAIN p
    BY <1>1, PoolAddUpdates
  <2>2. p[i] \in Target
    BY <2>1, PoolElements
  <2>3. \/ PoolAdd(p, t)[i] = p[i]
        \/ PoolAdd(p, t)[i] = [p[i] EXCEPT !.cid = t.cid, !.weight = t.weight,
                                           !.healthy = t.healthy]
    BY <1>1, <2>1 DEF PoolAdd
  <2>4. /\ PoolAdd(p, t)[i].addr = p[i].addr
        /\ PoolAdd(p, t)[i].active = p[i].active
    BY <2>2, <2>3 DEF Target
  <2>5. QED BY <2>1, <2>4
<1>2. CASE t.addr \notin AddressesOf(p)
  <2>1. Len(p) \in Nat /\ DOMAIN p = 1 .. Len(p)
    BY PoolElements
  <2>2. i \in 1 .. (Len(p) + 1)
    BY <1>2, PoolAddAppendsNew
  <2>3. i \in DOMAIN p \/ i = Len(p) + 1
    BY <2>1, <2>2
  <2>4. i \in DOMAIN p => PoolAdd(p, t)[i] = p[i]
    BY <1>2, PoolAddAppendsNew
  <2>5. i = Len(p) + 1 => PoolAdd(p, t)[i] = t
    BY <1>2, PoolAddAppendsNew
  <2>6. QED BY <1>2, <2>3, <2>4, <2>5
<1>3. QED BY <1>1, <1>2

-----------------------------------------------------------------------------
(* Sums of weights over a set of positions, and their order. *)

\* Induction over the naturals, for a set of them.
LEMMA NatSetInduction ==
  ASSUME NEW P, 0 \in P, \A n \in Nat : n \in P => n + 1 \in P
  PROVE  \A n \in Nat : n \in P
<1> SUFFICES ASSUME Nat \ P # {} PROVE FALSE
  OBVIOUS
<1>1. PICK m \in Nat \ P : \A n \in Nat \ P : m <= n
  <2>1. Nat \ P \in SUBSET Nat
    OBVIOUS
  <2>2. QED BY <2>1, FirstOf
<1>2. m # 0 /\ m - 1 \in Nat /\ m - 1 \in P
  BY <1>1
<1>3. QED BY <1>1, <1>2

\* A set of positions below a bound that is not empty has a last one.
LEMMA LastOf ==
  ASSUME NEW n \in Nat, NEW S \in SUBSET (1 .. n), S # {}
  PROVE  \E m \in S : \A j \in S : j <= m
<1> DEFINE R == {n - j : j \in S}
<1>1. R \in SUBSET Nat /\ R # {}
  <2>1. \A j \in S : n - j \in Nat
    OBVIOUS
  <2>2. \A r \in R : r \in Nat
    BY <2>1
  <2>3. PICK j \in S : TRUE
    OBVIOUS
  <2>4. n - j \in R
    BY <2>3
  <2> HIDE DEF R
  <2>5. QED BY <2>2, <2>4
<1>2. PICK r \in R : \A j \in R : r <= j
  BY <1>1, FirstOf
<1>3. PICK m \in S : r = n - m
  BY <1>2
<1>4. ASSUME NEW j \in S PROVE j <= m
  <2>1. n - j \in R
    OBVIOUS
  <2>2. n - m <= n - j /\ j \in Int /\ m \in Int
    BY <1>2, <1>3, <2>1
  <2>3. QED BY <2>2
<1>5. QED BY <1>4

\* The sum over every subset of T, taking elements as CHOOSE has them.
Pick(s) == CHOOSE x \in s : TRUE

SumStep(w, f, s) == IF s = {} THEN 0 ELSE w[Pick(s)] + f[s \ {Pick(s)}]

IsSum(T, w, f) == f = [s \in SUBSET T |-> SumStep(w, f, s)]

UpTo(T, n) == {s \in SUBSET T : Cardinality(s) <= n}

\* Taking one element away from a finite set takes one off its size.
LEMMA OneLess ==
  ASSUME NEW T, IsFiniteSet(T), NEW s \in SUBSET T, NEW x \in s
  PROVE  /\ s \ {x} \in SUBSET T
         /\ Cardinality(s) \in Nat /\ Cardinality(s) >= 1
         /\ Cardinality(s \ {x}) \in Nat
         /\ Cardinality(s \ {x}) = Cardinality(s) - 1
<1>1. IsFiniteSet(s)
  BY FS_Subset
<1>2. IsFiniteSet(s \ {x}) /\ Cardinality(s \ {x}) = Cardinality(s) - 1
  BY <1>1, FS_RemoveElement
<1>3. Cardinality(s) \in Nat /\ Cardinality(s \ {x}) \in Nat
  BY <1>1, <1>2, FS_CardinalityType
<1>4. QED BY <1>2, <1>3

\* Sums exist: those of the sets of n + 1 elements follow from those of n.
LEMMA SumExists ==
  ASSUME NEW T, IsFiniteSet(T), NEW w
  PROVE  \E f : IsSum(T, w, f)
<1> DEFINE Level(n, f) == f = [s \in UpTo(T, n) |-> SumStep(w, f, s)]
           Done == {n \in Nat : \E f : Level(n, f)}
<1>1. 0 \in Done
  <2> DEFINE f == [s \in UpTo(T, 0) |-> 0]
  <2>1. ASSUME NEW s \in UpTo(T, 0) PROVE s = {}
    <3>1. IsFiniteSet(s) /\ Cardinality(s) <= 0
      BY FS_Subset DEF UpTo
    <3>2. Cardinality(s) \in Nat /\ (Cardinality(s) = 0 <=> s = {})
      BY <3>1, FS_CardinalityType, FS_EmptySet
    <3>3. QED BY <3>1, <3>2
  <2>2. \A s \in UpTo(T, 0) : SumStep(w, f, s) = 0
    BY <2>1 DEF SumStep
  <2>3. f = [s \in UpTo(T, 0) |-> SumStep(w, f, s)]
    BY <2>2
  <2>4. Level(0, f)
    BY <2>3
  <2>5. QED BY <2>4
<1>2. ASSUME NEW n \in Nat, n \in Done PROVE n + 1 \in Done
  <2>1. PICK f : Level(n, f)
    BY <1>2
  <2> DEFINE g == [s \in UpTo(T, n + 1) |-> SumStep(w, f, s)]
  <2>2. ASSUME NEW s \in UpTo(T, n) PROVE s \in UpTo(T, n + 1) /\ g[s] = f[s]
    <3>1. s \in UpTo(T, n + 1)
      <4>1. IsFiniteSet(s)
        BY FS_Subset DEF UpTo
      <4>2. Cardinality(s) \in Nat /\ Cardinality(s) <= n
        BY <4>1, FS_CardinalityType DEF UpTo
      <4>3. QED BY <4>2 DEF UpTo
    <3>2. f[s] = SumStep(w, f, s)
      BY <2>1
    <3>3. QED BY <3>1, <3>2
  <2>3. ASSUME NEW s \in UpTo(T, n + 1) PROVE SumStep(w, f, s) = SumStep(w, g, s)
    <3>1. CASE s = {}
      BY <3>1 DEF SumStep
    <3>2. CASE s # {}
      <4>1. Pick(s) \in s
        BY <3>2 DEF Pick
      <4>2. s \in SUBSET T /\ Cardinality(s) <= n + 1
        BY DEF UpTo
      <4>3. s \ {Pick(s)} \in UpTo(T, n)
        <5>1. /\ s \ {Pick(s)} \in SUBSET T
              /\ Cardinality(s) \in Nat
              /\ Cardinality(s \ {Pick(s)}) = Cardinality(s) - 1
          BY <4>1, <4>2, OneLess
        <5>2. Cardinality(s \ {Pick(s)}) <= n
          BY <4>2, <5>1
        <5>3. QED BY <5>1, <5>2 DEF UpTo
      <4>4. g[s \ {Pick(s)}] = f[s \ {Pick(s)}]
        BY <2>2, <4>3
      <4>5. QED BY <4>4 DEF SumStep
    <3>3. QED BY <3>1, <3>2
  <2>4. g = [s \in UpTo(T, n + 1) |-> SumStep(w, g, s)]
    BY <2>3
  <2>5. Level(n + 1, g)
    BY <2>4
  <2> HIDE DEF Level, g
  <2>6. \E h : Level(n + 1, h)
    BY <2>5
  <2>7. QED BY <2>6
<1>3. \A n \in Nat : n \in Done
  <2> HIDE DEF Done
  <2>1. QED BY <1>1, <1>2, NatSetInduction
<1>4. Cardinality(T) \in Nat
  BY FS_CardinalityType
<1>5. PICK f : Level(Cardinality(T), f)
  BY <1>3, <1>4
<1>6. UpTo(T, Cardinality(T)) = SUBSET T
  <2>1. \A s \in SUBSET T : Cardinality(s) <= Cardinality(T)
    BY FS_Subset
  <2>2. QED BY <2>1 DEF UpTo
<1>7. IsSum(T, w, f)
  BY <1>5, <1>6 DEF IsSum
<1>8. QED BY <1>7

\* A sum does not depend on the order, and grows by each element's weight.
LEMMA SumAdds ==
  ASSUME NEW T, IsFiniteSet(T), NEW w, \A x \in T : w[x] \in Nat,
         NEW f, IsSum(T, w, f)
  PROVE  /\ f[{}] = 0
         /\ \A s \in SUBSET T : f[s] \in Nat
         /\ \A s \in SUBSET T : \A x \in s : f[s] = w[x] + f[s \ {x}]
<1> DEFINE Good(s) == /\ f[s] \in Nat
                      /\ \A x \in s : f[s] = w[x] + f[s \ {x}]
           Done == {n \in Nat : \A s \in SUBSET T : Cardinality(s) <= n => Good(s)}
<1>1. \A s \in SUBSET T : f[s] = SumStep(w, f, s)
  BY DEF IsSum
<1>2. f[{}] = 0
  BY <1>1 DEF SumStep
<1>3. 0 \in Done
  <2>1. ASSUME NEW s \in SUBSET T, Cardinality(s) <= 0 PROVE s = {}
    <3>1. IsFiniteSet(s)
      BY FS_Subset
    <3>2. Cardinality(s) \in Nat /\ (Cardinality(s) = 0 <=> s = {})
      BY <3>1, FS_CardinalityType, FS_EmptySet
    <3>3. QED BY <2>1, <3>2
  <2>2. Good({})
    BY <1>2
  <2> HIDE DEF Good
  <2>3. QED BY <2>1, <2>2
<1>4. ASSUME NEW n \in Nat, n \in Done PROVE n + 1 \in Done
  <2> SUFFICES ASSUME NEW s \in SUBSET T, Cardinality(s) = n + 1 PROVE Good(s)
    <3>1. ASSUME NEW s \in SUBSET T PROVE Cardinality(s) \in Nat
      BY FS_Subset, FS_CardinalityType
    <3>2. QED BY <1>4, <3>1
  <2> DEFINE x == Pick(s)
  <2>1. ASSUME NEW y \in s
        PROVE  /\ s \ {y} \in SUBSET T
               /\ Cardinality(s \ {y}) <= n
               /\ Good(s \ {y})
    <3>1. s \ {y} \in SUBSET T /\ Cardinality(s \ {y}) = n
      BY OneLess
    <3> HIDE DEF Good
    <3>2. \A r \in SUBSET T : Cardinality(r) <= n => Good(r)
      BY <1>4
    <3>3. QED BY <3>1, <3>2
  <2>2. s # {}
    BY FS_EmptySet
  <2>3. x \in s
    BY <2>2 DEF Pick
  <2>4. f[s] = w[x] + f[s \ {x}]
    BY <1>1, <2>2 DEF SumStep
  <2> HIDE DEF x
  <2>5. f[s] \in Nat
    <3>1. f[s \ {x}] \in Nat
      BY <2>1, <2>3
    <3>2. w[x] \in Nat
      BY <2>3
    <3>3. QED BY <2>4, <3>1, <3>2
  <2>6. ASSUME NEW y \in s, y # x PROVE f[s] = w[y] + f[s \ {y}]
    <3>1. f[s \ {x}] = w[y] + f[(s \ {x}) \ {y}]
      BY <2>1, <2>3, <2>6
    <3>2. f[s \ {y}] = w[x] + f[(s \ {y}) \ {x}]
      BY <2>1, <2>3, <2>6
    <3>3. (s \ {x}) \ {y} = (s \ {y}) \ {x}
      OBVIOUS
    <3>4. /\ w[x] \in Nat /\ w[y] \in Nat
          /\ f[(s \ {y}) \ {x}] \in Nat
      <4>1. x \in T /\ y \in T
        BY <2>3
      <4>2. Good((s \ {y}) \ {x})
        <5>1. x \in s \ {y}
          BY <2>3, <2>6
        <5>2. s \ {y} \in SUBSET T /\ Cardinality(s \ {y}) <= n
          BY <2>1
        <5>3. /\ (s \ {y}) \ {x} \in SUBSET T
              /\ Cardinality((s \ {y}) \ {x}) = Cardinality(s \ {y}) - 1
              /\ Cardinality(s \ {y}) \in Nat
          BY <5>1, <5>2, OneLess
        <5>4. Cardinality((s \ {y}) \ {x}) <= n
          BY <5>2, <5>3
        <5>5. QED BY <1>4, <5>3, <5>4
      <4>3. QED BY <4>1, <4>2
    <3> DEFINE u == w[x]
               v == w[y]
               r == f[(s \ {y}) \ {x}]
    <3>5. f[s] = u + (v + r) /\ f[s \ {y}] = u + r
      BY <2>4, <3>1, <3>2, <3>3
    <3>6. u \in Nat /\ v \in Nat /\ r \in Nat
      BY <3>4
    <3> HIDE DEF u, v, r
    <3>7. f[s] = v + f[s \ {y}]
      BY <3>5, <3>6
    <3>8. QED BY <3>7 DEF v
  <2>7. QED BY <2>4, <2>5, <2>6
<1>5. \A n \in Nat : n \in Done
  <2> HIDE DEF Done
  <2>1. QED BY <1>3, <1>4, NatSetInduction
<1>6. \A s \in SUBSET T : Good(s)
  <2>1. \A s \in SUBSET T : Cardinality(s) \in Nat
    BY FS_Subset, FS_CardinalityType
  <2> HIDE DEF Good
  <2>2. \A n \in Nat : \A s \in SUBSET T : Cardinality(s) <= n => Good(s)
    BY <1>5
  <2>3. ASSUME NEW s \in SUBSET T PROVE Good(s)
    <3>1. Cardinality(s) \in Nat /\ Cardinality(s) <= Cardinality(s)
      BY <2>1
    <3>2. QED BY <2>2, <3>1
  <2>4. QED BY <2>3
<1>7. QED BY <1>2, <1>6

\* The sums over the subsets of S are those over the subsets of T.
LEMMA SumAgrees ==
  ASSUME NEW T, IsFiniteSet(T), NEW w, NEW f, IsSum(T, w, f),
         NEW S \in SUBSET T, NEW g, IsSum(S, w, g)
  PROVE  \A s \in SUBSET S : g[s] = f[s]
<1> DEFINE Done == {n \in Nat : \A s \in SUBSET S : Cardinality(s) <= n => g[s] = f[s]}
<1>1. \A s \in SUBSET S : /\ s \in SUBSET T
                          /\ f[s] = SumStep(w, f, s)
                          /\ g[s] = SumStep(w, g, s)
  BY DEF IsSum
<1>2. ASSUME NEW s \in SUBSET S
      PROVE  /\ Cardinality(s) \in Nat
             /\ Cardinality(s) = 0 <=> s = {}
  <2>1. IsFiniteSet(s)
    BY FS_Subset
  <2>2. QED BY <2>1, FS_CardinalityType, FS_EmptySet
<1>3. f[{}] = g[{}]
  BY <1>1 DEF SumStep
<1>4. 0 \in Done
  <2>1. \A s \in SUBSET S : Cardinality(s) <= 0 => s = {}
    BY <1>2
  <2>2. QED BY <1>3, <2>1
<1>5. ASSUME NEW n \in Nat, n \in Done PROVE n + 1 \in Done
  <2>1. ASSUME NEW s \in SUBSET S, Cardinality(s) <= n + 1, s # {}
        PROVE  g[s] = f[s]
    <3>1. Pick(s) \in s
      BY <2>1 DEF Pick
    <3>2. /\ s \ {Pick(s)} \in SUBSET S
          /\ Cardinality(s \ {Pick(s)}) \in Nat
          /\ Cardinality(s \ {Pick(s)}) = Cardinality(s) - 1
          /\ Cardinality(s) \in Nat
      BY <1>1, <3>1, OneLess
    <3>3. Cardinality(s \ {Pick(s)}) <= n
      BY <2>1, <3>2
    <3>4. g[s \ {Pick(s)}] = f[s \ {Pick(s)}]
      BY <1>5, <3>2, <3>3
    <3>5. QED BY <1>1, <3>4 DEF SumStep
  <2>2. QED BY <1>3, <2>1
<1>6. \A n \in Nat : n \in Done
  <2> HIDE DEF Done
  <2>1. QED BY <1>4, <1>5, NatSetInduction
<1>7. ASSUME NEW s \in SUBSET S PROVE g[s] = f[s]
  <2>1. Cardinality(s) \in Nat /\ Cardinality(s) <= Cardinality(s)
    BY <1>2
  <2>2. QED BY <1>6, <2>1
<1>8. QED BY <1>7

\* W gives every subset of T the sum of its elements' weights.
Adds(T, w, W) ==
  /\ W[{}] = 0
  /\ \A x \in T : w[x] \in Nat
  /\ \A s \in SUBSET T : W[s] \in Nat
  /\ \A s \in SUBSET T : \A x \in s : W[s] = w[x] + W[s \ {x}]

WeightsOf(p) == [i \in DOMAIN p |-> EffectiveWeight(p[i])]

WeightSums(p) == [s \in SUBSET (DOMAIN p) |-> TotalWeight(p, s)]

\* Every target counts for one at least.
LEMMA EffectiveWeightPositive ==
  ASSUME NEW p \in Pool, NEW i \in DOMAIN p
  PROVE  EffectiveWeight(p[i]) \in Nat /\ EffectiveWeight(p[i]) >= 1
<1>1. p[i] \in Target
  BY PoolElements
<1>2. p[i].weight \in Int
  BY <1>1 DEF Target
<1>3. QED BY <1>2 DEF EffectiveWeight

\* The total weight of a set of targets, a fold, is the sum of their weights.
LEMMA TotalWeightAdds ==
  ASSUME NEW p \in Pool
  PROVE  Adds(DOMAIN p, WeightsOf(p), WeightSums(p))
<1> DEFINE T == DOMAIN p
           w == WeightsOf(p)
<1>1. IsFiniteSet(T)
  BY PoolElements, FS_Interval
<1>2. \A x \in T : w[x] \in Nat /\ w[x] = EffectiveWeight(p[x])
  BY EffectiveWeightPositive DEF WeightsOf
<1>3. PICK f : IsSum(T, w, f)
  BY <1>1, SumExists
<1>4. ASSUME NEW S \in SUBSET T PROVE TotalWeight(p, S) = f[S]
  <2> DEFINE Q(g) == g = [s \in SUBSET S |->
                            IF s = {} THEN 0
                            ELSE EffectiveWeight(p[Pick(s)]) + g[s \ {Pick(s)}]]
             t == CHOOSE g : Q(g)
  <2>1. TotalWeight(p, S) = t[S]
    BY DEF TotalWeight, MapThenSumSet, MapThenFoldSet, Pick
  <2>2. ASSUME NEW g, NEW s \in SUBSET S
        PROVE  SumStep(w, g, s) = IF s = {} THEN 0
                                  ELSE EffectiveWeight(p[Pick(s)]) + g[s \ {Pick(s)}]
    <3>1. s # {} => Pick(s) \in T
      BY DEF Pick
    <3>2. QED BY <1>2, <3>1 DEF SumStep
  <2>3. ASSUME NEW g PROVE IsSum(S, w, g) <=> Q(g)
    BY <2>2 DEF IsSum
  <2>4. IsFiniteSet(S)
    BY <1>1, FS_Subset
  <2>5. PICK g : IsSum(S, w, g)
    BY <2>4, SumExists
  <2>6. \E h : Q(h)
    BY <2>3, <2>5
  <2> HIDE DEF Q
  <2>7. Q(t)
    BY <2>6
  <2>8. IsSum(S, w, t)
    BY <2>3, <2>7
  <2> HIDE DEF t, w
  <2>9. t[S] = f[S]
    BY <1>1, <1>3, <2>8, SumAgrees
  <2>10. QED BY <2>1, <2>9
<1>5. /\ f[{}] = 0
      /\ \A s \in SUBSET T : f[s] \in Nat
      /\ \A s \in SUBSET T : \A x \in s : f[s] = w[x] + f[s \ {x}]
  <2>1. \A x \in T : w[x] \in Nat
    BY <1>2
  <2> HIDE DEF w, T
  <2>2. QED BY <1>1, <1>3, <2>1, SumAdds
<1>6. ASSUME NEW s \in SUBSET T PROVE WeightSums(p)[s] = f[s]
  BY <1>4 DEF WeightSums
<1> DEFINE W == WeightSums(p)
<1> HIDE DEF w, T, W
<1>7. \A s \in SUBSET T : W[s] = f[s]
  BY <1>6 DEF W
<1>8. Adds(T, w, W)
  <2>1. W[{}] = 0
    BY <1>5, <1>7
  <2>2. \A x \in T : w[x] \in Nat
    BY <1>2
  <2>3. \A s \in SUBSET T : W[s] \in Nat
    BY <1>5, <1>7
  <2>4. ASSUME NEW s \in SUBSET T, NEW x \in s PROVE W[s] = w[x] + W[s \ {x}]
    <3>1. s \ {x} \in SUBSET T
      OBVIOUS
    <3>2. QED BY <1>5, <1>7, <3>1
  <2>5. QED BY <2>1, <2>2, <2>3, <2>4 DEF Adds
<1>9. QED BY <1>8 DEF T, w, W

\* The size of a set is the sum of ones.
LEMMA CardinalityAdds ==
  ASSUME NEW T, IsFiniteSet(T)
  PROVE  Adds(T, [x \in T |-> 1], [s \in SUBSET T |-> Cardinality(s)])
<1> DEFINE w == [x \in T |-> 1]
           W == [s \in SUBSET T |-> Cardinality(s)]
<1>1. W[{}] = 0
  BY FS_EmptySet
<1>2. \A s \in SUBSET T : W[s] \in Nat
  BY FS_Subset, FS_CardinalityType
<1>3. ASSUME NEW s \in SUBSET T, NEW x \in s PROVE W[s] = w[x] + W[s \ {x}]
  <2>1. /\ s \ {x} \in SUBSET T
        /\ Cardinality(s) \in Nat
        /\ Cardinality(s \ {x}) = Cardinality(s) - 1
    BY OneLess
  <2>2. x \in T
    OBVIOUS
  <2>3. QED BY <2>1, <2>2
<1>4. \A x \in T : w[x] \in Nat
  OBVIOUS
<1> HIDE DEF w, W
<1>5. Adds(T, w, W)
  BY <1>1, <1>2, <1>3, <1>4 DEF Adds
<1>6. QED BY <1>5 DEF w, W

\* A set weighs at least what any part of it weighs.
LEMMA AddsMonotone ==
  ASSUME NEW T, IsFiniteSet(T), NEW w, NEW W, Adds(T, w, W),
         NEW s \in SUBSET T, NEW r \in SUBSET s
  PROVE  W[r] <= W[s]
<1> DEFINE Done == {n \in Nat : \A a \in SUBSET T : Cardinality(a) <= n =>
                                  \A b \in SUBSET a : W[b] <= W[a]}
<1>1. ASSUME NEW a \in SUBSET T
      PROVE  /\ Cardinality(a) \in Nat
             /\ Cardinality(a) = 0 <=> a = {}
  <2>1. IsFiniteSet(a)
    BY FS_Subset
  <2>2. QED BY <2>1, FS_CardinalityType, FS_EmptySet
<1>2. 0 \in Done
  <2>1. \A a \in SUBSET T : Cardinality(a) <= 0 => a = {}
    BY <1>1
  <2>2. W[{}] <= W[{}]
    BY DEF Adds
  <2>3. QED BY <2>1, <2>2
<1>3. ASSUME NEW n \in Nat, n \in Done PROVE n + 1 \in Done
  <2> SUFFICES ASSUME NEW a \in SUBSET T, Cardinality(a) <= n + 1,
                      NEW b \in SUBSET a
               PROVE  W[b] <= W[a]
    OBVIOUS
  <2>1. CASE b = a
    BY <2>1 DEF Adds
  <2>2. CASE b # a
    <3>1. PICK x \in a : x \notin b
      BY <2>2
    <3>2. /\ a \ {x} \in SUBSET T
          /\ Cardinality(a) \in Nat
          /\ Cardinality(a \ {x}) = Cardinality(a) - 1
      BY OneLess
    <3>3. Cardinality(a \ {x}) <= n /\ b \in SUBSET (a \ {x})
      BY <3>1, <3>2
    <3>4. W[b] <= W[a \ {x}]
      BY <1>3, <3>2, <3>3
    <3>5. /\ W[a] = w[x] + W[a \ {x}]
          /\ w[x] \in Nat /\ W[a \ {x}] \in Nat /\ W[b] \in Nat
      <4>1. x \in T /\ b \in SUBSET T
        OBVIOUS
      <4>2. QED BY <3>2, <4>1 DEF Adds
    <3>6. QED BY <3>4, <3>5
  <2>3. QED BY <2>1, <2>2
<1>4. \A n \in Nat : n \in Done
  <2> HIDE DEF Done
  <2>1. QED BY <1>2, <1>3, NatSetInduction
<1>5. Cardinality(s) \in Nat /\ Cardinality(s) <= Cardinality(s)
  BY <1>1
<1>6. QED BY <1>4, <1>5

-----------------------------------------------------------------------------
(* Turns.  Laid end to end in the order of the slice, the weights of the    *)
(* targets of H cover the numbers below their sum.                          *)

BelowIn(H, i) == {j \in H : j < i}

Takes(H, w, W, i, pos) == W[BelowIn(H, i)] <= pos /\ pos < W[BelowIn(H, i)] + w[i]

\* What TurnsCover and its parts assume.
Weighed(n, H, w, W) ==
  /\ n \in Nat
  /\ H \in SUBSET (1 .. n)
  /\ Adds(1 .. n, w, W)
  /\ \A i \in H : w[i] >= 1

\* A target's stretch ends before that of a later one begins, within the sum.
LEMMA TurnsApart ==
  ASSUME NEW n, NEW H, NEW w, NEW W, Weighed(n, H, w, W), NEW i \in H
  PROVE  /\ W[BelowIn(H, i)] \in Nat /\ w[i] \in Nat
         /\ W[{j \in H : j <= i}] = W[BelowIn(H, i)] + w[i]
         /\ W[BelowIn(H, i)] + w[i] <= W[H]
         /\ \A k \in H : i < k => W[BelowIn(H, i)] + w[i] <= W[BelowIn(H, k)]
<1> DEFINE U == {j \in H : j <= i}
<1>1. /\ n \in Nat /\ H \in SUBSET (1 .. n) /\ IsFiniteSet(1 .. n)
      /\ Adds(1 .. n, w, W)
  BY FS_Interval DEF Weighed
<1>2. \A j \in H : j \in Int
  BY <1>1
<1>3. U \in SUBSET (1 .. n) /\ i \in U
  <2>1. U \in SUBSET (1 .. n)
    BY <1>1
  <2>2. i \in Int /\ i <= i
    BY <1>2
  <2>3. QED BY <2>1, <2>2
<1>4. U \ {i} = BelowIn(H, i)
  BY <1>2 DEF BelowIn
<1> HIDE DEF U
<1>5. W[U] = w[i] + W[BelowIn(H, i)]
  <2>1. W[U] = w[i] + W[U \ {i}]
    BY <1>1, <1>3 DEF Adds
  <2>2. QED BY <1>4, <2>1
<1>6. W[BelowIn(H, i)] \in Nat /\ w[i] \in Nat
  <2>1. BelowIn(H, i) \in SUBSET (1 .. n) /\ i \in 1 .. n
    BY <1>1 DEF BelowIn
  <2>2. QED BY <1>1, <2>1 DEF Adds
<1>7. W[U] <= W[H]
  <2>1. U \in SUBSET H
    BY DEF U
  <2>2. QED BY <1>1, <2>1, AddsMonotone
<1>8. ASSUME NEW k \in H, i < k PROVE W[U] <= W[BelowIn(H, k)]
  <2>1. U \in SUBSET BelowIn(H, k)
    BY <1>2, <1>8 DEF BelowIn, U
  <2>2. BelowIn(H, k) \in SUBSET (1 .. n)
    BY <1>1 DEF BelowIn
  <2>3. QED BY <1>1, <2>1, <2>2, AddsMonotone
<1>9. W[U] = W[BelowIn(H, i)] + w[i]
  BY <1>5, <1>6
<1>10. QED BY <1>6, <1>7, <1>8, <1>9 DEF U

\* Every number below the sum of the weights falls to one target.
LEMMA TurnsCover ==
  ASSUME NEW n, NEW H, NEW w, NEW W, Weighed(n, H, w, W), H # {}
  PROVE  /\ W[H] \in Nat /\ W[H] >= 1
         /\ \A pos \in 0 .. (W[H] - 1) : \E i \in H :
              /\ Takes(H, w, W, i, pos)
              /\ \A k \in H : Takes(H, w, W, k, pos) => k = i
<1>1. /\ n \in Nat /\ H \in SUBSET (1 .. n) /\ W[{}] = 0
      /\ W[H] \in Nat
      /\ \A i \in H : w[i] >= 1
  BY DEF Weighed, Adds
<1>2. \A i \in H : i \in Nat
  BY <1>1
<1>3. PICK l \in H : \A j \in H : j <= l
  BY <1>1, LastOf
<1>4. W[BelowIn(H, l)] + w[l] = W[H]
  <2>1. {j \in H : j <= l} = H
    BY <1>3
  <2>2. QED BY <2>1, TurnsApart
<1>5. W[H] >= 1
  <2>1. W[BelowIn(H, l)] \in Nat /\ w[l] \in Nat /\ w[l] >= 1
    BY <1>1, TurnsApart
  <2>2. QED BY <1>1, <1>4, <2>1
<1>6. ASSUME NEW pos \in 0 .. (W[H] - 1)
      PROVE  \E i \in H : /\ Takes(H, w, W, i, pos)
                          /\ \A k \in H : Takes(H, w, W, k, pos) => k = i
  <2> DEFINE U == {i \in H : pos < W[BelowIn(H, i)] + w[i]}
  <2>1. pos \in Nat /\ pos < W[H]
    BY <1>1
  <2>2. l \in U
    BY <1>4, <2>1
  <2>3. U \in SUBSET Nat
    BY <1>2
  <2>4. PICK m \in U : \A j \in U : m <= j
    <3> HIDE DEF U
    <3>1. QED BY <2>2, <2>3, FirstOf
  <2>5. m \in H /\ pos < W[BelowIn(H, m)] + w[m]
    OBVIOUS
  <2>6. W[BelowIn(H, m)] <= pos
    <3>1. CASE BelowIn(H, m) = {}
      BY <1>1, <2>1, <3>1
    <3>2. CASE BelowIn(H, m) # {}
      <4>1. BelowIn(H, m) \in SUBSET (1 .. n)
        BY <1>1 DEF BelowIn
      <4>2. PICK k \in BelowIn(H, m) : \A j \in BelowIn(H, m) : j <= k
        BY <1>1, <3>2, <4>1, LastOf
      <4>3. k \in H /\ k < m
        BY DEF BelowIn
      <4>4. {j \in H : j <= k} = BelowIn(H, m)
        BY <1>2, <2>5, <4>2, <4>3 DEF BelowIn
      <4>5. W[BelowIn(H, m)] = W[BelowIn(H, k)] + w[k]
        BY <4>3, <4>4, TurnsApart
      <4>6. ~ (m <= k)
        BY <1>2, <2>5, <4>3
      <4>7. ~ (pos < W[BelowIn(H, k)] + w[k])
        BY <2>4, <4>3, <4>6
      <4>8. W[BelowIn(H, m)] \in Nat
        BY <2>5, TurnsApart
      <4> HIDE DEF U
      <4>9. QED BY <2>1, <4>5, <4>7, <4>8
    <3>3. QED BY <3>1, <3>2
  <2> HIDE DEF U
  <2>7. Takes(H, w, W, m, pos)
    BY <2>5, <2>6 DEF Takes
  <2>8. ASSUME NEW k \in H, Takes(H, w, W, k, pos) PROVE k = m
    <3>1. /\ W[BelowIn(H, k)] \in Nat /\ w[k] \in Nat
          /\ W[BelowIn(H, m)] \in Nat /\ w[m] \in Nat
      BY <2>5, TurnsApart
    <3>2. ~ (k < m)
      <4>1. k < m => W[BelowIn(H, k)] + w[k] <= W[BelowIn(H, m)]
        BY <2>5, TurnsApart
      <4>2. pos < W[BelowIn(H, k)] + w[k]
        BY <2>8 DEF Takes
      <4>3. QED BY <2>1, <2>6, <3>1, <4>1, <4>2
    <3>3. ~ (m < k)
      <4>1. m < k => W[BelowIn(H, m)] + w[m] <= W[BelowIn(H, k)]
        BY <2>5, TurnsApart
      <4>2. W[BelowIn(H, k)] <= pos
        BY <2>8 DEF Takes
      <4>3. QED BY <2>1, <2>5, <3>1, <4>1, <4>2
    <3>4. k \in Nat /\ m \in Nat
      BY <1>2, <2>5
    <3>5. QED BY <3>2, <3>3, <3>4
  <2>9. QED BY <2>5, <2>7, <2>8
<1>7. QED BY <1>1, <1>5, <1>6

-----------------------------------------------------------------------------
(* Selection. *)

\* The healthy positions are some of the finitely many of the slice.
LEMMA HealthyPositions ==
  ASSUME NEW p \in Pool
  PROVE  /\ Len(p) \in Nat
         /\ DOMAIN p = 1 .. Len(p)
         /\ IsFiniteSet(DOMAIN p)
         /\ HealthyAt(p) \in SUBSET (DOMAIN p)
  BY PoolElements, FS_Interval DEF HealthyAt

\* Counting the healthy targets is weighing them by one each.
Ones(p) == [i \in DOMAIN p |-> 1]

Sizes(p) == [s \in SUBSET (DOMAIN p) |-> Cardinality(s)]

LEMMA RankedPool ==
  ASSUME NEW p \in Pool
  PROVE  /\ Weighed(Len(p), HealthyAt(p), Ones(p), Sizes(p))
         /\ Sizes(p)[HealthyAt(p)] = HealthyCount(p)
         /\ \A i \in HealthyAt(p) :
              /\ Ones(p)[i] = 1
              /\ Sizes(p)[BelowIn(HealthyAt(p), i)] = Rank(p, i)
<1> DEFINE H == HealthyAt(p)
<1>1. /\ Len(p) \in Nat /\ DOMAIN p = 1 .. Len(p) /\ IsFiniteSet(DOMAIN p)
      /\ H \in SUBSET (DOMAIN p)
  BY HealthyPositions
<1>2. \A i \in H : Ones(p)[i] = 1
  BY <1>1 DEF Ones
<1>3. Weighed(Len(p), H, Ones(p), Sizes(p))
  <2>1. Adds(DOMAIN p, Ones(p), Sizes(p))
    BY <1>1, CardinalityAdds DEF Ones, Sizes
  <2> HIDE DEF H
  <2>2. QED BY <1>1, <1>2, <2>1 DEF Weighed
<1>4. Sizes(p)[H] = HealthyCount(p)
  BY <1>1 DEF HealthyCount, Sizes
<1>5. ASSUME NEW i \in H PROVE Sizes(p)[BelowIn(H, i)] = Rank(p, i)
  <2>1. BelowIn(H, i) \in SUBSET (DOMAIN p)
    BY <1>1 DEF BelowIn
  <2>2. Sizes(p)[BelowIn(H, i)] = Cardinality(BelowIn(H, i))
    BY <2>1 DEF Sizes
  <2>3. QED BY <2>2 DEF Rank, BelowIn
<1>6. QED BY <1>2, <1>3, <1>4, <1>5

\* A healthy target's rank is below the number of healthy targets.
LEMMA RankBelow ==
  ASSUME NEW p \in Pool, NEW i \in HealthyAt(p)
  PROVE  /\ HealthyCount(p) \in Nat /\ HealthyCount(p) >= 1
         /\ Rank(p, i) \in Nat /\ Rank(p, i) + 1 <= HealthyCount(p)
<1>1. /\ Weighed(Len(p), HealthyAt(p), Ones(p), Sizes(p))
      /\ Sizes(p)[HealthyAt(p)] = HealthyCount(p)
      /\ Ones(p)[i] = 1
      /\ Sizes(p)[BelowIn(HealthyAt(p), i)] = Rank(p, i)
  BY RankedPool
<1>2. HealthyCount(p) \in Nat /\ HealthyCount(p) >= 1
  BY <1>1, TurnsCover
<1>3. /\ Sizes(p)[BelowIn(HealthyAt(p), i)] \in Nat
      /\ Sizes(p)[BelowIn(HealthyAt(p), i)] + Ones(p)[i] <= Sizes(p)[HealthyAt(p)]
  BY <1>1, TurnsApart
<1>4. QED BY <1>1, <1>2, <1>3

\* Round robin and the client's hash: each number has one healthy target.
LEMMA TurnTaken ==
  ASSUME NEW p \in Pool, HealthyAt(p) # {}, NEW c \in Nat
  PROVE  \E i \in HealthyAt(p) : /\ TurnOf(p, i, c)
                                 /\ \A k \in HealthyAt(p) : TurnOf(p, k, c) => k = i
<1> DEFINE H == HealthyAt(p)
           w == Ones(p)
           W == Sizes(p)
           pos == c % HealthyCount(p)
<1>1. /\ Weighed(Len(p), H, w, W)
      /\ W[H] = HealthyCount(p)
      /\ \A k \in H : w[k] = 1 /\ W[BelowIn(H, k)] = Rank(p, k)
  BY RankedPool
<1>2. H # {}
  OBVIOUS
<1>3. \A k \in H : Rank(p, k) \in Nat
  BY RankBelow
<1> HIDE DEF H, w, W
<1>4. W[H] \in Nat /\ W[H] >= 1
  BY <1>1, <1>2, TurnsCover
<1>5. pos \in 0 .. (W[H] - 1)
  BY <1>1, <1>4
<1>6. \A k \in H : TurnOf(p, k, c) <=> Rank(p, k) = pos
  BY DEF TurnOf
<1> HIDE DEF pos
<1>7. PICK i \in H : /\ Takes(H, w, W, i, pos)
                     /\ \A k \in H : Takes(H, w, W, k, pos) => k = i
  BY <1>1, <1>2, <1>5, TurnsCover
<1>8. ASSUME NEW k \in H PROVE Takes(H, w, W, k, pos) <=> Rank(p, k) = pos
  <2>1. pos \in Int
    BY <1>4, <1>5
  <2>2. QED BY <1>1, <1>3, <2>1 DEF Takes
<1>9. QED BY <1>6, <1>7, <1>8 DEF H

\* The healthy targets are weighed by their weights.
LEMMA WeighedPool ==
  ASSUME NEW p \in Pool
  PROVE  /\ Weighed(Len(p), HealthyAt(p), WeightsOf(p), WeightSums(p))
         /\ WeightSums(p)[HealthyAt(p)] = TotalWeight(p, HealthyAt(p))
         /\ \A i \in HealthyAt(p) :
              /\ WeightsOf(p)[i] = EffectiveWeight(p[i])
              /\ WeightSums(p)[BelowIn(HealthyAt(p), i)] = WeightBefore(p, i)
<1> DEFINE H == HealthyAt(p)
<1>1. /\ Len(p) \in Nat /\ DOMAIN p = 1 .. Len(p)
      /\ H \in SUBSET (DOMAIN p)
  BY HealthyPositions
<1>2. \A i \in H : WeightsOf(p)[i] = EffectiveWeight(p[i]) /\ WeightsOf(p)[i] >= 1
  BY <1>1, EffectiveWeightPositive DEF WeightsOf
<1>3. Weighed(Len(p), H, WeightsOf(p), WeightSums(p))
  <2>1. Adds(1 .. Len(p), WeightsOf(p), WeightSums(p))
    BY <1>1, TotalWeightAdds
  <2> HIDE DEF H
  <2>2. QED BY <1>1, <1>2, <2>1 DEF Weighed
<1>4. WeightSums(p)[H] = TotalWeight(p, H)
  BY <1>1 DEF WeightSums
<1>5. ASSUME NEW i \in H PROVE WeightSums(p)[BelowIn(H, i)] = WeightBefore(p, i)
  <2>1. BelowIn(H, i) \in SUBSET (DOMAIN p)
    BY <1>1 DEF BelowIn
  <2>2. WeightSums(p)[BelowIn(H, i)] = TotalWeight(p, BelowIn(H, i))
    BY <2>1 DEF WeightSums
  <2>3. QED BY <2>2 DEF WeightBefore, BelowIn
<1>6. QED BY <1>2, <1>3, <1>4, <1>5

\* Weighted round robin: each value of the counter has one healthy target.
LEMMA WeightedTurnTaken ==
  ASSUME NEW p \in Pool, HealthyAt(p) # {}, NEW c \in Nat
  PROVE  \E i \in HealthyAt(p) :
           /\ WeightedTurnOf(p, i, c)
           /\ \A k \in HealthyAt(p) : WeightedTurnOf(p, k, c) => k = i
<1> DEFINE H == HealthyAt(p)
           w == WeightsOf(p)
           W == WeightSums(p)
           pos == c % TotalWeight(p, HealthyAt(p))
<1>1. /\ Weighed(Len(p), H, w, W)
      /\ W[H] = TotalWeight(p, HealthyAt(p))
      /\ \A k \in H : /\ w[k] = EffectiveWeight(p[k])
                      /\ W[BelowIn(H, k)] = WeightBefore(p, k)
  BY WeighedPool
<1>2. H # {}
  OBVIOUS
<1>3. \A k \in H : Takes(H, w, W, k, pos) <=> WeightedTurnOf(p, k, c)
  BY <1>1 DEF Takes, WeightedTurnOf
<1> HIDE DEF H, w, W
<1>4. W[H] \in Nat /\ W[H] >= 1
  BY <1>1, <1>2, TurnsCover
<1>5. pos \in 0 .. (W[H] - 1)
  BY <1>1, <1>4
<1> HIDE DEF pos
<1>6. PICK i \in H : /\ Takes(H, w, W, i, pos)
                     /\ \A k \in H : Takes(H, w, W, k, pos) => k = i
  BY <1>1, <1>2, <1>5, TurnsCover
<1>7. QED BY <1>3, <1>6 DEF H

\* The scan for the fewest connections ends at one target.
LEMMA LeastLoadedTaken ==
  ASSUME NEW p \in Pool, HealthyAt(p) # {}
  PROVE  \E i \in HealthyAt(p) : /\ LeastLoaded(p, i)
                                 /\ \A k \in HealthyAt(p) : LeastLoaded(p, k) => k = i
<1> DEFINE H == HealthyAt(p)
           Before(i, j) == \/ p[i].active < p[j].active
                           \/ p[i].active = p[j].active /\ i <= j
           Done == {n \in Nat : (\E j \in H : j <= n) =>
                      \E i \in H : i <= n /\ \A j \in H : j <= n => Before(i, j)}
<1>1. /\ Len(p) \in Nat /\ DOMAIN p = 1 .. Len(p)
      /\ H \in SUBSET (1 .. Len(p))
  BY HealthyPositions
<1>2. \A i \in H : i \in Nat /\ i >= 1 /\ i <= Len(p) /\ p[i].active \in Int
  BY <1>1, PoolElements DEF Target
<1>3. \A i, j, k \in H : Before(i, j) /\ Before(j, k) => Before(i, k)
  BY <1>2
<1>4. \A i, j \in H : Before(i, j) \/ Before(j, i)
  BY <1>2
<1>5. \A i, j \in H : Before(i, j) /\ Before(j, i) => i = j
  BY <1>2
<1>6. \A i \in H : LeastLoaded(p, i) <=> \A j \in H : Before(i, j)
  BY DEF LeastLoaded
<1>7. H # {}
  OBVIOUS
<1> HIDE DEF H, Before
<1>8. 0 \in Done
  BY <1>2
<1>9. ASSUME NEW n \in Nat, n \in Done PROVE n + 1 \in Done
  <2> SUFFICES ASSUME NEW j0 \in H, j0 <= n + 1
               PROVE  \E i \in H : i <= n + 1 /\ \A j \in H : j <= n + 1 => Before(i, j)
    OBVIOUS
  <2>1. \A j \in H : j <= n + 1 <=> j <= n \/ j = n + 1
    BY <1>2
  <2>2. CASE \E j \in H : j <= n
    <3>1. PICK i \in H : i <= n /\ \A j \in H : j <= n => Before(i, j)
      BY <1>9, <2>2
    <3>2. CASE n + 1 \notin H
      BY <2>1, <3>1, <3>2
    <3>3. CASE n + 1 \in H /\ Before(i, n + 1)
      BY <2>1, <3>1, <3>3
    <3>4. CASE n + 1 \in H /\ Before(n + 1, i)
      <4>1. Before(n + 1, n + 1)
        BY <1>4, <3>4
      <4>2. \A j \in H : j <= n => Before(n + 1, j)
        BY <1>3, <3>1, <3>4
      <4>3. n + 1 <= n + 1
        OBVIOUS
      <4>4. QED BY <2>1, <3>4, <4>1, <4>2, <4>3
    <3>5. QED BY <1>4, <3>2, <3>3, <3>4
  <2>3. CASE ~ \E j \in H : j <= n
    <3>1. \A j \in H : j <= n + 1 => j = j0
      BY <2>1, <2>3
    <3>2. Before(j0, j0)
      BY <1>4
    <3>3. QED BY <3>1, <3>2
  <2>4. QED BY <2>2, <2>3
<1>10. \A n \in Nat : n \in Done
  <2> HIDE DEF Done
  <2>1. QED BY <1>8, <1>9, NatSetInduction
<1>11. PICK i \in H : \A j \in H : Before(i, j)
  BY <1>1, <1>2, <1>7, <1>10
<1>12. \A k \in H : LeastLoaded(p, k) => k = i
  BY <1>5, <1>6, <1>11
<1>13. QED BY <1>6, <1>11, <1>12 DEF H

\* Select fails only when no target is healthy, and then returns a healthy one:
\* the same for everyone who asks with the same counter, client and counts,
\* unless the strategy is random.
THEOREM SelectionCorrect ==
  ASSUME NEW p \in Pool, NEW strategy \in Strategies, NEW rr \in Nat, NEW hash \in Nat
  PROVE  /\ Selectable(p, strategy, rr, hash) \in SUBSET HealthyAt(p)
         /\ HealthyAt(p) # {} => Selectable(p, strategy, rr, hash) # {}
         /\ strategy # "Random" =>
              \A i, k \in Selectable(p, strategy, rr, hash) : i = k
<1> DEFINE H == HealthyAt(p)
           S == Selectable(p, strategy, rr, hash)
<1>1. S \in SUBSET H
  BY DEF Selectable
<1>2. CASE H = {}
  BY <1>1, <1>2
<1>3. CASE H # {} /\ strategy = "Random"
  <2>1. S = H
    BY <1>3 DEF Selectable
  <2>2. QED BY <1>3, <2>1
<1>4. CASE H # {} /\ strategy = "RoundRobin"
  <2>1. \A i \in H : i \in S <=> TurnOf(p, i, rr)
    BY <1>4 DEF Selectable
  <2>2. QED BY <1>1, <1>4, <2>1, TurnTaken
<1>5. CASE H # {} /\ strategy = "IPHash"
  <2>1. \A i \in H : i \in S <=> TurnOf(p, i, hash)
    BY <1>5 DEF Selectable
  <2>2. QED BY <1>1, <1>5, <2>1, TurnTaken
<1>6. CASE H # {} /\ strategy = "LeastConn"
  <2>1. \A i \in H : i \in S <=> LeastLoaded(p, i)
    BY <1>6 DEF Selectable
  <2>2. QED BY <1>1, <1>6, <2>1, LeastLoadedTaken
<1>7. CASE H # {} /\ strategy = "WeightedRoundRobin"
  <2>1. \A i \in H : i \in S <=> WeightedTurnOf(p, i, rr)
    BY <1>7 DEF Selectable
  <2>2. QED BY <1>1, <1>7, <2>1, WeightedTurnTaken
<1>8. QED BY <1>2, <1>3, <1>4, <1>5, <1>6, <1>7 DEF Strategies

\* A number and the number t above it have one remainder.
LEMMA SameRemainder ==
  ASSUME NEW t \in Nat, t >= 1, NEW b \in Nat
  PROVE  (b + t) % t = b % t
<1> DEFINE q == b \div t
           r == b % t
           u == (b + t) \div t
           v == (b + t) % t
<1>1. b = t * q + r /\ q \in Int /\ r \in 0 .. (t - 1)
  <2>1. b = t * (b \div t) + (b % t)
    OBVIOUS
  <2>2. b \div t \in Int /\ b % t \in 0 .. (t - 1)
    OBVIOUS
  <2>3. QED BY <2>1, <2>2
<1>2. b + t = t * u + v /\ u \in Int /\ v \in 0 .. (t - 1)
  <2> DEFINE e == b + t
  <2>1. e \in Nat
    OBVIOUS
  <2> HIDE DEF e
  <2>2. e = t * (e \div t) + (e % t)
    BY <2>1
  <2>3. e \div t \in Int /\ e % t \in 0 .. (t - 1)
    BY <2>1
  <2>4. QED BY <2>2, <2>3 DEF e
<1> HIDE DEF q, r, u, v
<1> DEFINE d == u - q - 1
<1>3. d \in Int
  BY <1>1, <1>2
<1>4. t * d = r - v
  <2>1. t * d = t * u - t * q - t
    BY <1>1, <1>2
  <2>2. t * u \in Int /\ t * q \in Int
    BY <1>1, <1>2
  <2>3. QED BY <1>1, <1>2, <2>1, <2>2
<1> HIDE DEF d
<1>5. d >= 1 => t * d >= t
  BY <1>3
<1>6. d <= -1 => t * d <= -t
  BY <1>3
<1>7. d = 0
  BY <1>1, <1>2, <1>3, <1>4, <1>5, <1>6
<1>8. t * 0 = 0
  OBVIOUS
<1>9. r = v
  BY <1>1, <1>2, <1>4, <1>7, <1>8
<1>10. QED BY <1>9 DEF r, v

Window(t, X, a) == {c \in a .. (a + t - 1) : c % t \in X}

Remainders(t, X) == {c \in 0 .. (t - 1) : c \in X}

\* Of any t consecutive values of a counter, as many have a remainder in X as
\* of the first t: moving the window by one exchanges a value for one with the
\* same remainder.
LEMMA WindowCount ==
  ASSUME NEW t \in Nat, t >= 1, NEW X, NEW a \in Nat
  PROVE  Cardinality(Window(t, X, a)) = Cardinality(Remainders(t, X))
<1> DEFINE In(b) == Window(t, X, b)
           Done == {b \in Nat : Cardinality(In(b)) = Cardinality(Remainders(t, X))}
<1>1. ASSUME NEW b \in Nat PROVE IsFiniteSet(In(b))
  <2>1. IsFiniteSet(b .. (b + t - 1))
    BY FS_Interval
  <2>2. QED BY <2>1, FS_Subset DEF Window
<1>2. 0 \in Done
  <2>1. \A c \in 0 .. (t - 1) : c % t = c
    OBVIOUS
  <2>2. 0 .. (0 + t - 1) = 0 .. (t - 1)
    OBVIOUS
  <2>3. In(0) = Remainders(t, X)
    BY <2>1, <2>2 DEF Window, Remainders
  <2>4. QED BY <2>3
<1>3. ASSUME NEW b \in Nat, b \in Done PROVE b + 1 \in Done
  <2>1. (b + t) % t = b % t
    BY SameRemainder
  <2>2. /\ (b + 1) .. (b + 1 + t - 1) = ((b .. (b + t - 1)) \ {b}) \cup {b + t}
        /\ b \in b .. (b + t - 1)
        /\ b + t \notin b .. (b + t - 1)
    OBVIOUS
  <2>3. CASE b % t \in X
    <3>1. In(b + 1) = (In(b) \ {b}) \cup {b + t}
      BY <2>1, <2>2, <2>3 DEF Window
    <3>2. b \in In(b) /\ b + t \notin In(b) \ {b}
      BY <2>2, <2>3 DEF Window
    <3> HIDE DEF In
    <3>3. /\ IsFiniteSet(In(b) \ {b})
          /\ Cardinality(In(b) \ {b}) = Cardinality(In(b)) - 1
      BY <1>1, <3>2, FS_RemoveElement
    <3>4. Cardinality(In(b + 1)) = Cardinality(In(b) \ {b}) + 1
      BY <3>1, <3>2, <3>3, FS_AddElement
    <3>5. Cardinality(In(b)) \in Nat
      BY <1>1, FS_CardinalityType
    <3>6. Cardinality(In(b + 1)) = Cardinality(In(b))
      BY <3>3, <3>4, <3>5
    <3>7. QED BY <1>3, <3>6
  <2>4. CASE b % t \notin X
    <3>1. In(b + 1) = In(b)
      BY <2>1, <2>2, <2>4 DEF Window
    <3> HIDE DEF In
    <3>2. QED BY <1>3, <3>1
  <2>5. QED BY <2>3, <2>4
<1>4. \A b \in Nat : b \in Done
  <2> HIDE DEF Done
  <2>1. QED BY <1>2, <1>3, NatSetInduction
<1>5. QED BY <1>4

\* Weighted round robin gives each healthy target its weight, and round robin
\* one, of as many consecutive calls as the healthy targets have in all, as
\* long as the pool stays the same and the counter does not wrap around.
THEOREM FairShares ==
  ASSUME NEW p \in Pool, NEW i \in HealthyAt(p), NEW first \in Nat, NEW hash
  PROVE  /\ Cardinality({c \in first .. (first + TotalWeight(p, HealthyAt(p)) - 1) :
                           i \in Selectable(p, "WeightedRoundRobin", c, hash)})
              = EffectiveWeight(p[i])
         /\ Cardinality({c \in first .. (first + HealthyCount(p) - 1) :
                           i \in Selectable(p, "RoundRobin", c, hash)}) = 1
<1>1. ASSUME NEW t \in Nat, t >= 1, NEW m \in Nat, NEW v \in Nat, v >= 1, m + v <= t
      PROVE  Cardinality(Window(t, m .. (m + v - 1), first)) = v
  <2>1. Remainders(t, m .. (m + v - 1)) = m .. (m + v - 1)
    BY <1>1 DEF Remainders
  <2>2. Cardinality(m .. (m + v - 1)) = v
    <3>1. m \in Int /\ m + v - 1 \in Int /\ ~ (m > m + v - 1)
      BY <1>1
    <3>2. Cardinality(m .. (m + v - 1)) = (m + v - 1) - m + 1
      BY <3>1, FS_Interval
    <3>3. QED BY <1>1, <3>2
  <2>3. QED BY <1>1, <2>1, <2>2, WindowCount
<1>2. Cardinality({c \in first .. (first + TotalWeight(p, HealthyAt(p)) - 1) :
                     i \in Selectable(p, "WeightedRoundRobin", c, hash)})
        = EffectiveWeight(p[i])
  <2> DEFINE t == TotalWeight(p, HealthyAt(p))
             m == WeightBefore(p, i)
             v == EffectiveWeight(p[i])
  <2>1. /\ Weighed(Len(p), HealthyAt(p), WeightsOf(p), WeightSums(p))
        /\ WeightSums(p)[HealthyAt(p)] = t
        /\ WeightsOf(p)[i] = v
        /\ WeightSums(p)[BelowIn(HealthyAt(p), i)] = m
    BY WeighedPool
  <2>2. /\ t \in Nat /\ t >= 1
        /\ m \in Nat /\ v \in Nat /\ m + v <= t
    <3> DEFINE B == WeightSums(p)[BelowIn(HealthyAt(p), i)]
    <3>1. B \in Nat /\ WeightsOf(p)[i] \in Nat
      BY <2>1, TurnsApart
    <3>2. B + WeightsOf(p)[i] <= WeightSums(p)[HealthyAt(p)]
      BY <2>1, TurnsApart
    <3>3. WeightSums(p)[HealthyAt(p)] \in Nat /\ WeightSums(p)[HealthyAt(p)] >= 1
      BY <2>1, TurnsCover
    <3> HIDE DEF t, m, v
    <3>4. QED BY <2>1, <3>1, <3>2, <3>3
  <2>3. v >= 1
    BY <2>1 DEF Weighed
  <2>4. \A c \in Int : i \in Selectable(p, "WeightedRoundRobin", c, hash)
                         <=> m <= c % t /\ c % t < m + v
    BY DEF Selectable, WeightedTurnOf
  <2> HIDE DEF t, m, v
  <2>5. \A c \in Int : m <= c % t /\ c % t < m + v <=> c % t \in m .. (m + v - 1)
    BY <2>2
  <2>6. {c \in first .. (first + t - 1) : i \in Selectable(p, "WeightedRoundRobin", c, hash)}
          = Window(t, m .. (m + v - 1), first)
    BY <2>4, <2>5 DEF Window
  <2>7. QED BY <1>1, <2>2, <2>3, <2>6 DEF t, v
<1>3. Cardinality({c \in first .. (first + HealthyCount(p) - 1) :
                     i \in Selectable(p, "RoundRobin", c, hash)}) = 1
  <2> DEFINE t == HealthyCount(p)
             m == Rank(p, i)
  <2>1. t \in Nat /\ t >= 1 /\ m \in Nat /\ m + 1 <= t
    BY RankBelow
  <2>2. \A c \in Int : i \in Selectable(p, "RoundRobin", c, hash) <=> m = c % t
    BY DEF Selectable, TurnOf
  <2> HIDE DEF t, m
  <2>3. \A c \in Int : m = c % t <=> c % t \in m .. (m + 1 - 1)
    BY <2>1
  <2>4. {c \in first .. (first + t - 1) : i \in Selectable(p, "RoundRobin", c, hash)}
          = Window(t, m .. (m + 1 - 1), first)
    BY <2>2, <2>3 DEF Window
  <2>5. 1 \in Nat /\ 1 >= 1
    OBVIOUS
  <2>6. QED BY <1>1, <2>1, <2>4, <2>5 DEF t
<1>4. QED BY <1>2, <1>3

=============================================================================
