------------------------ MODULE HealthRotation_proofs ------------------------
(***************************************************************************)
(* Proofs about HealthRotation, for any addresses, any set of them that is *)
(* followed and any thresholds: its types are preserved, every registered  *)
(* check is consistent, and the mark in the pool is what the checker's     *)
(* state means whenever nobody else has touched it.                        *)
(***************************************************************************)
EXTENDS HealthRotation, BackendPool_proofs, SequenceTheorems

-----------------------------------------------------------------------------
(* Sequences: what the operators that move probes and notifications return. *)

\* The elements of a sequence after the one that is removed move down a place.
LEMMA RemoveAtProperties ==
  ASSUME NEW S, NEW s \in Seq(S), NEW i \in DOMAIN s
  PROVE  /\ RemoveAt(s, i) \in Seq(S)
         /\ Len(RemoveAt(s, i)) = Len(s) - 1
         /\ DOMAIN RemoveAt(s, i) = 1 .. (Len(s) - 1)
         /\ \A j \in 1 .. (Len(s) - 1) :
              /\ j < i => RemoveAt(s, i)[j] = s[j]
              /\ j >= i => RemoveAt(s, i)[j] = s[j + 1]
<1> DEFINE front == SubSeq(s, 1, i - 1)
           back  == SubSeq(s, i + 1, Len(s))
<1>1. /\ i \in 1 .. Len(s) /\ Len(s) \in Nat
      /\ \A j \in 1 .. Len(s) : s[j] \in S
  BY ElementOfSeq
<1>2. /\ front \in Seq(S) /\ Len(front) = i - 1
      /\ \A j \in 1 .. (i - 1) : front[j] = s[j]
  <2>1. \A j \in 1 .. (i - 1) : s[j] \in S
    BY <1>1
  <2>2. /\ front \in Seq(S)
        /\ Len(front) = IF 1 <= i - 1 THEN i - 1 - 1 + 1 ELSE 0
        /\ \A j \in 1 .. (i - 1 - 1 + 1) : front[j] = s[1 + j - 1]
    BY <1>1, <2>1, SubSeqProperties
  <2> QED  BY <1>1, <2>2
<1>3. /\ back \in Seq(S) /\ Len(back) = Len(s) - i
      /\ \A j \in 1 .. (Len(s) - i) : back[j] = s[i + j]
  <2>1. \A j \in (i + 1) .. Len(s) : s[j] \in S
    BY <1>1
  <2>2. /\ back \in Seq(S)
        /\ Len(back) = IF i + 1 <= Len(s) THEN Len(s) - (i + 1) + 1 ELSE 0
        /\ \A j \in 1 .. (Len(s) - (i + 1) + 1) : back[j] = s[(i + 1) + j - 1]
    BY <1>1, <2>1, SubSeqProperties
  <2> HIDE DEF back
  <2>3. Len(back) = Len(s) - i
    BY <1>1, <2>2
  <2>4. ASSUME NEW j \in 1 .. (Len(s) - i) PROVE back[j] = s[i + j]
    <3>1. j \in 1 .. (Len(s) - (i + 1) + 1) /\ (i + 1) + j - 1 = i + j
      BY <1>1
    <3> QED  BY <2>2, <3>1
  <2> QED  BY <2>2, <2>3, <2>4
<1> HIDE DEF front, back
<1>4. /\ front \o back \in Seq(S)
      /\ Len(front \o back) = Len(front) + Len(back)
      /\ \A j \in 1 .. Len(front) + Len(back) :
           (front \o back)[j] =
             IF j <= Len(front) THEN front[j] ELSE back[j - Len(front)]
  BY <1>2, <1>3, ConcatProperties
<1>5. RemoveAt(s, i) = front \o back
  BY DEF RemoveAt, front, back
<1>6. Len(RemoveAt(s, i)) = Len(s) - 1
  <2>1. Len(front) + Len(back) = Len(s) - 1
    BY <1>1, <1>2, <1>3
  <2> QED  BY <1>4, <1>5, <2>1
<1>7. DOMAIN RemoveAt(s, i) = 1 .. (Len(s) - 1)
  <2> DEFINE rest == RemoveAt(s, i)
  <2>1. rest \in Seq(S) /\ Len(rest) = Len(s) - 1
    BY <1>4, <1>5, <1>6
  <2> HIDE DEF rest
  <2>2. DOMAIN rest = 1 .. (Len(s) - 1)
    BY <2>1
  <2> QED  BY <2>2 DEF rest
<1>8. ASSUME NEW j \in 1 .. (Len(s) - 1)
      PROVE  /\ j < i => RemoveAt(s, i)[j] = s[j]
             /\ j >= i => RemoveAt(s, i)[j] = s[j + 1]
  <2>1. RemoveAt(s, i)[j] = IF j <= i - 1 THEN front[j] ELSE back[j - (i - 1)]
    <3>1. Len(front) + Len(back) = Len(s) - 1
      BY <1>1, <1>2, <1>3
    <3>2. (front \o back)[j] = IF j <= Len(front) THEN front[j] ELSE back[j - Len(front)]
      BY <1>4, <3>1
    <3> QED  BY <1>2, <1>5, <3>2
  <2>2. CASE j < i
    <3>1. j \in 1 .. (i - 1) /\ j <= i - 1
      BY <1>1, <2>2
    <3> QED  BY <1>1, <1>2, <2>1, <2>2, <3>1
  <2>3. CASE j >= i
    <3>1. /\ j - (i - 1) \in 1 .. (Len(s) - i)
          /\ i + (j - (i - 1)) = j + 1
          /\ ~(j <= i - 1)
      BY <1>1, <2>3
    <3>2. back[j - (i - 1)] = s[i + (j - (i - 1))]
      BY <1>3, <3>1
    <3>3. RemoveAt(s, i)[j] = s[j + 1]
      BY <2>1, <3>1, <3>2
    <3>4. ~(j < i)
      BY <1>1, <2>3
    <3> QED  BY <3>3, <3>4
  <2> QED  BY <1>1, <2>2, <2>3
<1> QED  BY <1>4, <1>5, <1>6, <1>7, <1>8

\* The bound on what is under way for an address, out of the type.
LEMMA WorkBounded ==
  ASSUME TypeOK
  PROVE  \A a \in Checked : Len(probes[a]) + Len(notes[a]) <= MaxProbes
  BY Zenon DEF TypeOK

\* What is left of a sequence was there before.
LEMMA RemoveAtElements ==
  ASSUME NEW S, NEW s \in Seq(S), NEW i \in DOMAIN s,
         NEW j \in DOMAIN RemoveAt(s, i)
  PROVE  \E m \in DOMAIN s : RemoveAt(s, i)[j] = s[m]
<1>1. j \in 1 .. (Len(s) - 1) /\ Len(s) \in Nat /\ DOMAIN s = 1 .. Len(s)
  BY RemoveAtProperties
<1>2. /\ j < i => RemoveAt(s, i)[j] = s[j]
      /\ j >= i => RemoveAt(s, i)[j] = s[j + 1]
  BY <1>1, RemoveAtProperties
<1>3. j \in DOMAIN s /\ j + 1 \in DOMAIN s /\ (j < i \/ j >= i)
  BY <1>1
<1> HIDE DEF RemoveAt
<1> QED  BY <1>2, <1>3

\* An element is appended after all the others.
LEMMA AppendElements ==
  ASSUME NEW S, NEW s \in Seq(S), NEW e \in S
  PROVE  /\ Append(s, e) \in Seq(S)
         /\ Len(Append(s, e)) = Len(s) + 1
         /\ DOMAIN s = 1 .. Len(s)
         /\ DOMAIN Append(s, e) = 1 .. (Len(s) + 1)
         /\ \A j \in DOMAIN s : Append(s, e)[j] = s[j]
         /\ Append(s, e)[Len(s) + 1] = e
  BY AppendProperties

-----------------------------------------------------------------------------
(* The pool: who is in it and who of them is in rotation. *)

\* A backend of this pool is named by its address, once.
Named(p) ==
  /\ DistinctAddresses(p)
  /\ \A i \in DOMAIN p : p[i].cid = p[i].addr

Serving(p, a) == \E i \in DOMAIN p : p[i].addr = a /\ p[i].healthy

\* An operation that leaves every target where it is keeps the names, and who
\* is in rotation as far as it leaves the marks alone.
LEMMA InPlaceServing ==
  ASSUME NEW p \in Pool, NEW q \in Pool, Named(p), DOMAIN q = DOMAIN p,
         \A i \in DOMAIN p : q[i].addr = p[i].addr /\ q[i].cid = p[i].cid
  PROVE  /\ Named(q)
         /\ AddressesOf(q) = AddressesOf(p)
         /\ \A b : (\A i \in DOMAIN p : p[i].addr = b => q[i].healthy = p[i].healthy)
                    => (Serving(q, b) <=> Serving(p, b))
<1>1. Named(q)
  BY DEF Named, DistinctAddresses
<1>2. AddressesOf(q) = AddressesOf(p)
  BY DEF AddressesOf
<1>3. ASSUME NEW b, \A i \in DOMAIN p : p[i].addr = b => q[i].healthy = p[i].healthy
      PROVE  Serving(q, b) <=> Serving(p, b)
  BY <1>3 DEF Serving
<1> QED  BY <1>1, <1>2, <1>3

\* In a pool whose addresses are distinct the first target at an address is
\* the target at that address.
LEMMA OnlyAt ==
  ASSUME NEW p \in Pool, Named(p), NEW a, NEW i \in DOMAIN p
  PROVE  FirstAt(p, i, a) <=> p[i].addr = a
<1>1. /\ Len(p) \in Nat /\ DOMAIN p = 1 .. Len(p)
  BY PoolElements
<1> QED  BY <1>1 DEF FirstAt, Named, DistinctAddresses

\* Marking the backend at one address puts it in rotation or out of it, and
\* leaves the others where they are.
LEMMA MarkEffect ==
  ASSUME NEW p \in Pool, Named(p), NEW a, NEW h \in BOOLEAN
  PROVE  /\ Mark(p, a, h) \in Pool
         /\ Named(Mark(p, a, h))
         /\ AddressesOf(Mark(p, a, h)) = AddressesOf(p)
         /\ a \in AddressesOf(p) => (Serving(Mark(p, a, h), a) <=> h)
         /\ \A b : b # a => (Serving(Mark(p, a, h), b) <=> Serving(p, b))
<1> DEFINE q == Mark(p, a, h)
<1>1. /\ q \in Pool /\ DOMAIN q = DOMAIN p
      /\ \A i \in DOMAIN p : q[i].addr = p[i].addr /\ q[i].cid = p[i].cid
  BY MarkProperties
<1>2. \A i \in DOMAIN p : p[i] \in Target
  BY PoolElements
<1>3. ASSUME NEW i \in DOMAIN p
      PROVE  /\ p[i].addr # a => q[i] = p[i]
             /\ p[i].addr = a => q[i].healthy = h
  <2>1. FirstAt(p, i, a) <=> p[i].addr = a
    BY OnlyAt
  <2>2. CASE h
    <3>1. q[i] = IF FirstAt(p, i, a) THEN [p[i] EXCEPT !.healthy = TRUE, !.fails = 0] ELSE p[i]
      BY <2>2 DEF Mark, MarkHealthy
    <3>2. [p[i] EXCEPT !.healthy = TRUE, !.fails = 0].healthy = TRUE
      BY <1>2 DEF Target
    <3> QED  BY <2>1, <2>2, <3>1, <3>2
  <2>3. CASE ~h
    <3>1. q[i] = IF FirstAt(p, i, a) THEN [p[i] EXCEPT !.healthy = FALSE] ELSE p[i]
      BY <2>3 DEF Mark, MarkUnhealthy
    <3>2. [p[i] EXCEPT !.healthy = FALSE].healthy = FALSE
      BY <1>2 DEF Target
    <3> QED  BY <2>1, <2>3, <3>1, <3>2
  <2> QED  BY <2>2, <2>3
<1> HIDE DEF q
<1>4. a \in AddressesOf(p) => (Serving(q, a) <=> h)
  BY <1>1, <1>3 DEF AddressesOf, Serving
<1>5. ASSUME NEW b, b # a
      PROVE  Serving(q, b) <=> Serving(p, b)
  BY <1>1, <1>3, <1>5 DEF Serving
<1>6. Named(q) /\ AddressesOf(q) = AddressesOf(p)
  BY <1>1, InPlaceServing
<1> QED  BY <1>1, <1>4, <1>5, <1>6 DEF q

\* A container that is added, or looked at again, takes its own place and
\* nobody else's.
LEMMA AddEffect ==
  ASSUME NEW p \in Pool, Named(p), NEW a \in Addresses \cap Containers,
         NEW h \in BOOLEAN
  PROVE  LET q == PoolAdd(p, NewTarget(a, a, 1, h))
         IN  /\ q \in Pool
             /\ Named(q)
             /\ AddressesOf(q) = AddressesOf(p) \cup {a}
             /\ \A b : b # a => (Serving(q, b) <=> Serving(p, b))
<1> DEFINE t == NewTarget(a, a, 1, h)
           q == PoolAdd(p, t)
<1>1. t \in Target /\ t.addr = a /\ t.cid = a
  BY DEF NewTarget, Target
<1> HIDE DEF t
<1>2. DistinctAddresses(p) /\ \A i \in DOMAIN p : p[i].cid = p[i].addr
  BY DEF Named
<1>3. q \in Pool /\ DistinctAddresses(q)
  BY <1>1, <1>2, PoolAddType, PoolAddDistinct
<1>4. ASSUME NEW i \in DOMAIN q
      PROVE  \/ q[i].addr = a /\ q[i].cid = a
             \/ \E m \in DOMAIN p : q[i] = p[m] /\ p[m].addr # a
  BY <1>1, <1>2, AddedTargets
<1>5. /\ \A m \in DOMAIN p : p[m].addr # a => \E i \in DOMAIN q : q[i] = p[m]
      /\ AddressesOf(q) = AddressesOf(p) \cup {a}
  BY <1>1, <1>2, AddKeeps
<1> HIDE DEF q
<1>6. Named(q)
  BY <1>2, <1>3, <1>4 DEF Named
<1>7. ASSUME NEW b, b # a
      PROVE  Serving(q, b) <=> Serving(p, b)
  BY <1>4, <1>5, <1>7 DEF Serving
<1> QED  BY <1>3, <1>5, <1>6, <1>7 DEF q, t

\* A container that is removed leaves the others as they are.
LEMMA RemoveEffect ==
  ASSUME NEW p \in Pool, Named(p), NEW a
  PROVE  /\ PoolRemove(p, a) \in Pool
         /\ Named(PoolRemove(p, a))
         /\ AddressesOf(PoolRemove(p, a)) = AddressesOf(p) \ {a}
         /\ \A b : b # a => (Serving(PoolRemove(p, a), b) <=> Serving(p, b))
<1> DEFINE q == PoolRemove(p, a)
<1>1. DistinctAddresses(p) /\ \A i \in DOMAIN p : p[i].cid = p[i].addr
  BY DEF Named
<1>2. q \in Pool /\ DistinctAddresses(q)
  BY <1>1, PoolRemoveType, PoolRemoveDistinct
<1>3. \A i \in DOMAIN q : \E m \in DOMAIN p : q[i] = p[m]
  BY PoolRemoveSubset
<1>4. \A m \in DOMAIN p : p[m].cid # a => \E i \in DOMAIN q : q[i] = p[m]
  BY PoolRemoveKeeps
<1>5. \A i \in DOMAIN q : q[i].cid # a
  <2>1. \A m, n \in DOMAIN p : p[m].cid = a /\ p[n].cid = a => m = n
    BY <1>1 DEF DistinctAddresses
  <2> QED  BY <2>1, PoolRemoveLast
<1> HIDE DEF q
<1>6. Named(q)
  BY <1>1, <1>2, <1>3 DEF Named
<1>7. AddressesOf(q) = AddressesOf(p) \ {a}
  BY <1>1, <1>3, <1>4, <1>5 DEF AddressesOf
<1>8. ASSUME NEW b, b # a
      PROVE  Serving(q, b) <=> Serving(p, b)
  BY <1>1, <1>3, <1>4, <1>8 DEF Serving
<1> QED  BY <1>2, <1>6, <1>7, <1>8 DEF q

\* A request that fails may put a backend out of rotation, and no more.
LEMMA FailureEffect ==
  ASSUME NEW p \in Pool, Named(p), NEW a
  PROVE  /\ RecordFailure(p, a) \in Pool
         /\ Named(RecordFailure(p, a))
         /\ AddressesOf(RecordFailure(p, a)) = AddressesOf(p)
<1> DEFINE q == RecordFailure(p, a)
<1>1. /\ q \in Pool /\ DOMAIN q = DOMAIN p
      /\ \A i \in DOMAIN p :
           \/ q[i] = p[i]
           \/ q[i] = [p[i] EXCEPT !.fails = @ + 1,
                                  !.healthy = IF Ejects(p, i) THEN FALSE ELSE @]
  BY RecordFailureInPlace
<1>2. ASSUME NEW i \in DOMAIN p
      PROVE  q[i].addr = p[i].addr /\ q[i].cid = p[i].cid
  <2> HIDE DEF q
  <2>1. p[i] \in Target
    BY PoolElements
  <2> QED  BY <1>1, <2>1 DEF Target
<1> HIDE DEF q
<1>3. Named(q) /\ AddressesOf(q) = AddressesOf(p)
  BY <1>1, <1>2, InPlaceServing
<1> QED  BY <1>1, <1>3 DEF q

\* One that succeeds does not touch a mark.
LEMMA SuccessEffect ==
  ASSUME NEW p \in Pool, Named(p), NEW a
  PROVE  /\ RecordSuccess(p, a) \in Pool
         /\ Named(RecordSuccess(p, a))
         /\ AddressesOf(RecordSuccess(p, a)) = AddressesOf(p)
         /\ \A b : Serving(RecordSuccess(p, a), b) <=> Serving(p, b)
<1> DEFINE q == RecordSuccess(p, a)
<1>1. /\ q \in Pool /\ DOMAIN q = DOMAIN p
      /\ \A i \in DOMAIN p : q[i] = p[i] \/ q[i] = [p[i] EXCEPT !.fails = 0]
  BY RecordSuccessInPlace
<1>2. ASSUME NEW i \in DOMAIN p
      PROVE  /\ q[i].addr = p[i].addr /\ q[i].cid = p[i].cid
             /\ q[i].healthy = p[i].healthy
  <2> HIDE DEF q
  <2>1. p[i] \in Target
    BY PoolElements
  <2> QED  BY <1>1, <2>1 DEF Target
<1> HIDE DEF q
<1>3. /\ Named(q) /\ AddressesOf(q) = AddressesOf(p)
      /\ \A b : Serving(q, b) <=> Serving(p, b)
  BY <1>1, <1>2, InPlaceServing
<1> QED  BY <1>1, <1>3 DEF q

-----------------------------------------------------------------------------
(* The state machine of a check. *)

\* A probe that passes and one that fails keep a check well formed.
LEMMA CheckType ==
  /\ Garbage \in Check
  /\ \A n \in DOMAIN Tunings : Fresh(n) \in Check
  /\ \A k \in Check : Passed(k) \in Check /\ Failed(k) \in Check
<1>1. MaxCount \in Nat /\ MaxCount >= 2
  BY RotationAssumption
<1>2. ASSUME NEW n \in DOMAIN Tunings PROVE Fresh(n) \in Check
  BY <1>1 DEF Fresh, Check, States
<1>3. 1 \in DOMAIN Tunings
  <2>1. Tunings \in Seq([threshold: Int, recovery: Int]) /\ Tunings # <<>>
    BY RotationAssumption
  <2> QED  BY <2>1
<1>4. ASSUME NEW k \in Check
      PROVE  Passed(k) \in Check /\ Failed(k) \in Check
  <2>1. /\ k.state \in States /\ k.fails \in 0 .. MaxCount /\ k.passes \in 0 .. MaxCount
        /\ k.tuning \in DOMAIN Tunings
    BY DEF Check
  <2>2. Counted(k.fails) \in 0 .. MaxCount /\ Counted(k.passes) \in 0 .. MaxCount
    BY <1>1, <2>1 DEF Counted
  <2>3. Passed(k) \in Check
    <3>1. Passed(k).state \in States
      BY <2>1 DEF Passed, States
    <3> QED  BY <1>1, <2>1, <2>2, <3>1 DEF Passed, Check
  <2>4. Failed(k) \in Check
    <3>1. Failed(k).state \in States
      BY <2>1 DEF Failed, StateAfter, States
    <3> QED  BY <1>1, <2>1, <2>2, <3>1 DEF Failed, Check
  <2> QED  BY <2>3, <2>4
<1> QED  BY <1>2, <1>3, <1>4 DEF Garbage

\* A new check is consistent, a pass makes one consistent whatever it was, and
\* a failure keeps it so.
LEMMA CheckConsistent ==
  /\ \A n \in DOMAIN Tunings : ConsistentFor(Fresh(n))
  /\ \A k \in Check : ConsistentFor(Passed(k))
  /\ \A k \in Check : ConsistentFor(k) => ConsistentFor(Failed(k))
<1>1. /\ MaxCount \in Nat /\ MaxCount >= 2
      /\ \A n \in DOMAIN Tunings :
           /\ ThresholdOf(n) \in Nat /\ ThresholdOf(n) >= 1 /\ ThresholdOf(n) <= MaxCount
           /\ RecoveryOf(n) \in Int
  <2>1. /\ Tunings \in Seq([threshold: Int, recovery: Int])
        /\ \A n \in DOMAIN Tunings : ThresholdOf(n) <= MaxCount
        /\ MaxCount \in Nat \ {0, 1}
    BY RotationAssumption
  <2>2. ASSUME NEW n \in DOMAIN Tunings
        PROVE  /\ ThresholdOf(n) \in Nat /\ ThresholdOf(n) >= 1
               /\ RecoveryOf(n) \in Int
    <3>1. Tunings[n] \in [threshold: Int, recovery: Int]
      <4>1. n \in 1 .. Len(Tunings)
        BY <2>1
      <4> QED  BY <2>1, <4>1, ElementOfSeq
    <3>2. Tunings[n].threshold \in Int /\ Tunings[n].recovery \in Int
      BY <3>1
    <3> QED  BY <3>2 DEF ThresholdOf, RecoveryOf
  <2> QED  BY <2>1, <2>2
<1>2. ASSUME NEW n \in DOMAIN Tunings PROVE ConsistentFor(Fresh(n))
  BY <1>1 DEF ConsistentFor, Fresh
<1>3. ASSUME NEW k \in Check
      PROVE  /\ ConsistentFor(Passed(k))
             /\ ConsistentFor(k) => ConsistentFor(Failed(k))
  <2> DEFINE T == ThresholdOf(k.tuning)
             R == RecoveryOf(k.tuning)
             half == T \div 2
             f == Counted(k.fails)
             s == Counted(k.passes)
  <2>1. /\ k.state \in States /\ k.fails \in 0 .. MaxCount /\ k.passes \in 0 .. MaxCount
        /\ k.tuning \in DOMAIN Tunings
    BY DEF Check
  <2>2. T \in Nat /\ T >= 1 /\ T <= MaxCount /\ R \in Int
    BY <1>1, <2>1
  <2>3. half \in Nat /\ half <= T /\ half < T
    BY <2>2
  <2>4. /\ f \in 1 .. MaxCount /\ f >= k.fails /\ s \in 1 .. MaxCount
        /\ k.fails < f \/ k.fails = MaxCount
    BY <1>1, <2>1 DEF Counted
  <2>5. ConsistentFor(Passed(k))
    <3> DEFINE n == Passed(k)
    <3>1. n.fails = 0 /\ n.passes = s /\ n.tuning = k.tuning
      BY <2>1 DEF Passed
    <3>2. n.state = CASE k.state = "Unknown" -> "Healthy"
                      [] k.state \in {"Unhealthy", "Recovering"} ->
                           IF R <= 0 \/ s >= R THEN "Healthy" ELSE "Recovering"
                      [] k.state = "Degraded" /\ s >= 2 -> "Healthy"
                      [] OTHER -> k.state
      BY <2>1 DEF Passed
    <3> HIDE DEF n, s, f, half, T, R
    <3>3. n.state # "Unhealthy"
      BY <2>1, <3>2 DEF States
    <3>4. n.state = "Recovering" => s < R
      BY <2>1, <2>2, <2>4, <3>2 DEF States
    <3>5. n.state = "Degraded" => s < 2
      BY <2>1, <2>4, <3>2 DEF States
    <3> QED  BY <2>2, <3>1, <3>3, <3>4, <3>5 DEF ConsistentFor, n, T, R
  <2>6. ASSUME ConsistentFor(k)
        PROVE  ConsistentFor(Failed(k))
    <3> DEFINE n == Failed(k)
    <3>1. n.fails = f /\ n.passes = 0 /\ n.tuning = k.tuning
      BY <2>1 DEF Failed
    <3>2. n.state = IF f >= T THEN "Unhealthy"
                    ELSE IF f >= half THEN "Degraded" ELSE k.state
      BY <2>1, <2>2, <2>3, <2>4 DEF Failed, StateAfter
    <3>3. /\ k.state = "Unhealthy" <=> k.fails >= T
          /\ k.state = "Recovering" => k.passes < R
      BY <2>6 DEF ConsistentFor
    <3>4. k.fails >= T => f >= T
      BY <2>1, <2>2, <2>4
    <3> HIDE DEF n, f, half, T, R
    <3>5. n.state = "Unhealthy" <=> f >= T
      BY <2>1, <2>2, <3>2, <3>3, <3>4 DEF States
    <3>6. n.state = "Recovering" => 0 < R
      BY <2>1, <2>2, <3>2, <3>3 DEF States
    <3>7. n.state \in {"Unknown", "Healthy", "Recovering"} => f < half
      BY <2>2, <2>3, <2>4, <3>2
    <3> QED  BY <2>2, <3>1, <3>5, <3>6, <3>7 DEF ConsistentFor, n, T, R, half
  <2> QED  BY <2>5, <2>6
<1> QED  BY <1>2, <1>3

-----------------------------------------------------------------------------
(* The inductive invariant. *)

SoundPool == Named(pool)

\* An address that is being registered is in the pool, and it has an object or
\* can have one.
RoomToRegister ==
  engine.op = "register" =>
    /\ engine.addr \in AddressesOf(pool)
    /\ checks[engine.addr] # None \/ CheckId \ InUse # {}

\* Unless a sweep is due, only addresses in the pool have a check.
ChecksServed ==
  engine.op # "sweep" =>
    \A a \in Checked : checks[a] # None => a \in AddressesOf(pool)

\* The object of an address is no other address's, and no probe of another
\* address will settle on it.
ObjectsApart ==
  \A a, b \in Checked : a # b /\ checks[a] # None =>
    /\ checks[a] # checks[b]
    /\ \A i \in DOMAIN probes[b] : probes[b][i].check # checks[a]

\* The last notification of address a that comes from its registered check.
Newest(a, i) ==
  /\ notes[a][i].check = checks[a]
  /\ \A j \in DOMAIN notes[a] : j > i => notes[a][j].check # checks[a]

\* It says what the state of the check means now, for as long as no two have
\* changed places.
NewestIsCurrent ==
  \A a \in Checked : checks[a] # None /\ drift[a] # "overtaken" =>
    \A i \in DOMAIN notes[a] : Newest(a, i) =>
      (notes[a][i].healthy <=> Serves(heap[checks[a]].state))

IInv ==
  /\ TypeOK
  /\ SoundPool
  /\ RoomToRegister
  /\ ChecksServed
  /\ ObjectsApart
  /\ ChecksConsistent
  /\ NewestIsCurrent
  /\ MarkFollowsState

-----------------------------------------------------------------------------
(* What the history says of a change somebody else makes. *)

\* It is none only if it was none and the mark is what it was, and what was
\* overtaken stays overtaken.
LEMMA MarkedKeeps ==
  ASSUME TypeOK, NEW q
  PROVE  /\ Marked(q) \in [Checked -> Drift]
         /\ \A a \in Checked :
              /\ Marked(q)[a] = "none" =>
                   drift[a] = "none" /\ (Serving(pool, a) <=> Serving(q, a))
              /\ Marked(q)[a] # "overtaken" => drift[a] # "overtaken"
<1>1. drift \in [Checked -> Drift] /\ "marked" \in Drift
  BY DEF TypeOK, Drift
<1>2. ASSUME NEW a \in Checked
      PROVE  Marked(q)[a] =
               IF ~(Serving(pool, a) <=> Serving(q, a)) /\ drift[a] = "none"
               THEN "marked" ELSE drift[a]
  BY DEF Marked, InRotation, Serving
<1>3. Marked(q) = [a \in Checked |-> Marked(q)[a]]
  BY DEF Marked
<1> HIDE DEF Marked
<1>4. \A a \in Checked : Marked(q)[a] \in Drift
  BY <1>1, <1>2
<1>5. Marked(q) \in [Checked -> Drift]
  BY <1>3, <1>4
<1> QED  BY <1>1, <1>2, <1>5

-----------------------------------------------------------------------------
(* Every step preserves the invariant. *)

Probe == [check: CheckId, seen: BOOLEAN]
Note == [check: CheckId, healthy: BOOLEAN]

\* An object is in use when an address, a probe or a notification points at it.
Points(cs, ps, ns, k) ==
  \E a \in Checked :
    \/ k = cs[a]
    \/ \E i \in DOMAIN ps[a] : k = ps[a][i].check
    \/ \E i \in DOMAIN ns[a] : k = ns[a][i].check

LEMMA InUseMeans ==
  /\ \A k : k \in InUse <=> k \in CheckId /\ Points(checks, probes, notes, k)
  /\ \A k : k \in InUse' <=> k \in CheckId /\ Points(checks', probes', notes', k)
<1> QED  BY DEF InUse, Points

\* What an address points at is not collected.
LEMMA CollectedKeeps ==
  ASSUME NEW h \in [CheckId -> Check], heap' = Collected(h),
         checks' \in [Checked -> CheckId \cup {None}]
  PROVE  /\ heap' \in [CheckId -> Check]
         /\ \A a \in Checked : checks'[a] # None => heap'[checks'[a]] = h[checks'[a]]
<1>1. heap' = [k \in CheckId |-> IF k \in InUse' THEN h[k] ELSE Garbage]
  BY DEF Collected
<1>2. Garbage \in Check
  BY CheckType
<1>3. ASSUME NEW a \in Checked, checks'[a] # None
      PROVE  heap'[checks'[a]] = h[checks'[a]]
  <2>1. checks'[a] \in CheckId /\ Points(checks', probes', notes', checks'[a])
    BY <1>3 DEF Points
  <2> QED  BY <1>1, <2>1, InUseMeans
<1> QED  BY <1>1, <1>2, <1>3

\* A pool of addresses that are distinct and not followed; nothing is checked.
LEMMA InitInv == Init => IInv
<1> SUFFICES ASSUME Init PROVE IInv
  OBVIOUS
<1>1. PICK s \in SetToSeqs(Addresses \ Checked) :
        pool = [i \in DOMAIN s |-> NewTarget(s[i], s[i], 1, TRUE)]
  BY DEF Init
<1> DEFINE n == Cardinality(Addresses \ Checked)
<1>2. /\ s \in [1 .. n -> Addresses \ Checked]
      /\ \A i, j \in 1 .. n : i # j => s[i] # s[j]
  BY DEF SetToSeqs
<1> HIDE DEF n
<1>3. /\ pool \in Pool
      /\ Named(pool)
  <2>1. ASSUME NEW i \in 1 .. n
        PROVE  /\ pool[i] \in Target
               /\ pool[i].addr = s[i] /\ pool[i].cid = s[i]
    <3>1. s[i] \in Addresses /\ s[i] \in Containers
      BY <1>2, RotationAssumption
    <3> QED  BY <1>1, <1>2, <3>1 DEF NewTarget, Target
  <2>2. pool = [i \in 1 .. n |-> pool[i]]
    BY <1>1, <1>2
  <2>3. n \in Nat
    BY RotationAssumption, FS_CardinalityType DEF n
  <2>4. pool \in Pool /\ DOMAIN pool = 1 .. n
    BY <2>1, <2>2, <2>3, PoolFunction
  <2>5. Named(pool)
    BY <1>2, <2>1, <2>4 DEF Named, DistinctAddresses
  <2> QED  BY <2>4, <2>5
<1>4. /\ up \in [Checked -> BOOLEAN]
      /\ heap = [k \in CheckId |-> Garbage]
      /\ checks = [a \in Checked |-> None]
      /\ probes = [a \in Checked |-> <<>>]
      /\ notes = [a \in Checked |-> <<>>]
      /\ engine = Idle
      /\ drift = [a \in Checked |-> "none"]
      /\ turn = [a \in Checked |-> 1]
      /\ retuned = {}
  BY DEF Init
<1>5. TypeOK
  <2>1. Garbage \in Check /\ 1 \in DOMAIN Tunings
    BY CheckType DEF Check, Garbage, Fresh
  <2>2. MaxProbes \in Nat
    BY RotationAssumption
  <2>3. "none" \in Drift /\ Idle \in [op: {"idle"}]
    BY DEF Drift, Idle
  <2> QED  BY <1>3, <1>4, <2>1, <2>2, <2>3 DEF TypeOK
<1>6. SoundPool
  BY <1>3 DEF SoundPool
<1>7. engine.op = "idle"
  BY <1>4 DEF Idle
<1>8. RoomToRegister
  BY <1>7 DEF RoomToRegister
<1>9. ChecksServed /\ ObjectsApart /\ ChecksConsistent /\ NewestIsCurrent
  BY <1>4 DEF ChecksServed, ObjectsApart, ChecksConsistent, NewestIsCurrent
<1>10. MarkFollowsState
  BY <1>4 DEF MarkFollowsState, Registered
<1> QED  BY <1>5, <1>6, <1>8, <1>9, <1>10 DEF IInv

\* A probe that starts holds the object that is registered.
LEMMA StartProbeInv ==
  ASSUME IInv, NEW a \in Checked, StartProbe(a)
  PROVE  IInv'
<1> DEFINE e == [check |-> checks[a], seen |-> up[a]]
<1>1. /\ checks[a] # None
      /\ Len(probes[a]) + Len(notes[a]) < MaxProbes
      /\ probes' = [probes EXCEPT ![a] = Append(@, e)]
      /\ UNCHANGED <<pool, up, heap, checks, notes, engine, turn, drift, retuned>>
  BY DEF StartProbe
<1>2. TypeOK /\ probes \in [Checked -> Seq(Probe)] /\ notes \in [Checked -> Seq(Note)]
  BY DEF IInv, TypeOK, Probe, Note
<1>3. e \in Probe
  BY <1>1, <1>2 DEF TypeOK, Probe
<1>4. /\ Append(probes[a], e) \in Seq(Probe)
      /\ Len(Append(probes[a], e)) = Len(probes[a]) + 1
      /\ DOMAIN Append(probes[a], e) = 1 .. (Len(probes[a]) + 1)
      /\ DOMAIN probes[a] = 1 .. Len(probes[a])
      /\ \A j \in DOMAIN probes[a] : Append(probes[a], e)[j] = probes[a][j]
      /\ Append(probes[a], e)[Len(probes[a]) + 1] = e
      /\ Len(probes[a]) \in Nat /\ Len(notes[a]) \in Nat
  BY <1>2, <1>3, AppendElements
<1>5. /\ probes'[a] = Append(probes[a], e)
      /\ \A b \in Checked : b # a => probes'[b] = probes[b]
      /\ probes' \in [Checked -> Seq(Probe)]
  BY <1>1, <1>2, <1>4
<1>6. e.check = checks[a]
  OBVIOUS
<1>7. ASSUME NEW b \in Checked, NEW j \in DOMAIN probes'[b]
      PROVE  \/ j \in DOMAIN probes[b] /\ probes'[b][j] = probes[b][j]
             \/ b = a /\ probes'[b][j].check = checks[a]
  <2> HIDE DEF e
  <2>1. CASE b = a
    <3>1. j \in DOMAIN probes[a] \/ j = Len(probes[a]) + 1
      BY <1>4, <1>5, <2>1
    <3> QED  BY <1>4, <1>5, <1>6, <2>1, <3>1
  <2> QED  BY <1>5, <2>1
<1> HIDE DEF e
<1>8. TypeOK'
  <2>1. \A b \in Checked : Len(probes'[b]) + Len(notes'[b]) <= MaxProbes
    <3>1. MaxProbes \in Nat
      BY RotationAssumption
    <3> QED  BY <1>1, <1>2, <1>4, <1>5, <3>1 DEF TypeOK
  <2> QED  BY <1>1, <1>2, <1>5, <2>1 DEF TypeOK, Probe
<1>9. InUse' \subseteq InUse
  <2>1. \A k : Points(checks', probes', notes', k) => Points(checks, probes, notes, k)
    BY <1>1, <1>7 DEF Points
  <2> QED  BY <2>1, InUseMeans
<1>10. RoomToRegister'
  BY <1>1, <1>9 DEF IInv, RoomToRegister
<1>11. ObjectsApart'
  BY <1>1, <1>7 DEF IInv, ObjectsApart
<1>12. SoundPool' /\ ChecksServed' /\ ChecksConsistent' /\ NewestIsCurrent'
  BY <1>1 DEF IInv, SoundPool, ChecksServed, ChecksConsistent, NewestIsCurrent, Newest
<1>13. MarkFollowsState'
  BY <1>1 DEF IInv, MarkFollowsState, Registered, Quiet, InRotation
<1> QED  BY <1>8, <1>10, <1>11, <1>12, <1>13 DEF IInv

\* A step of another writer leaves the checker alone.  It may change the pool
\* and its history as long as the history admits to it.
LEMMA OtherWriterInv ==
  ASSUME IInv, UNCHANGED checker, UNCHANGED <<turn, retuned>>,
         pool' \in Pool, Named(pool'),
         up' \in [Checked -> BOOLEAN],
         engine' \in [op: {"idle"}] \cup [op: {"register", "sweep"}, addr: Checked],
         drift' \in [Checked -> Drift],
         RoomToRegister', ChecksServed',
         \A a \in Checked : checks[a] # None =>
           /\ drift'[a] # "overtaken" => drift[a] # "overtaken"
           /\ drift'[a] = "none" /\ a \in AddressesOf(pool') =>
                /\ drift[a] = "none" /\ a \in AddressesOf(pool)
                /\ Serving(pool', a) <=> Serving(pool, a)
  PROVE  IInv'
<1>1. UNCHANGED <<heap, checks, probes, notes>>
  BY DEF checker
<1>2. TypeOK'
  BY <1>1 DEF IInv, TypeOK
<1>3. SoundPool'
  BY DEF SoundPool
<1>4. ObjectsApart' /\ ChecksConsistent'
  BY <1>1 DEF IInv, ObjectsApart, ChecksConsistent
<1>5. NewestIsCurrent'
  BY <1>1 DEF IInv, NewestIsCurrent, Newest
<1>6. ASSUME NEW a \in Checked, Registered(a)', Quiet(a)', drift'[a] = "none",
             heap'[checks'[a]].state # "Unknown"
      PROVE  InRotation(a)' <=> Serves(heap'[checks'[a]].state)
  <2>1. checks[a] # None /\ a \in AddressesOf(pool')
    BY <1>1, <1>6 DEF Registered
  <2>2. /\ drift[a] = "none" /\ a \in AddressesOf(pool)
        /\ Serving(pool', a) <=> Serving(pool, a)
    BY <1>6, <2>1
  <2>3. Registered(a) /\ Quiet(a) /\ heap[checks[a]].state # "Unknown"
    BY <1>1, <1>6, <2>1, <2>2 DEF Registered, Quiet
  <2>4. InRotation(a) <=> Serves(heap[checks[a]].state)
    BY <2>2, <2>3 DEF IInv, MarkFollowsState
  <2> QED  BY <1>1, <2>2, <2>4 DEF InRotation, Serving
<1>7. MarkFollowsState'
  BY <1>6 DEF MarkFollowsState
<1> QED  BY <1>2, <1>3, <1>4, <1>5, <1>7 DEF IInv

\* Discovery adds the route: an address that comes anew has no check yet, and
\* one that is there already is changed in the open.
LEMMA AddRouteInv ==
  ASSUME IInv, NEW a \in Checked, NEW h \in DockerSays, AddRoute(a, h)
  PROVE  IInv'
<1>1. /\ engine = Idle
      /\ checks[a] # None \/ CheckId \ InUse # {}
      /\ pool' = PoolAdd(pool, NewTarget(a, a, 1, h))
      /\ engine' = [op |-> "register", addr |-> a]
      /\ drift' = IF a \in AddressesOf(pool) THEN Marked(pool')
                  ELSE [drift EXCEPT ![a] = "none"]
      /\ UNCHANGED up /\ UNCHANGED checker /\ UNCHANGED <<turn, retuned>>
  BY DEF AddRoute
<1>2. TypeOK /\ pool \in Pool /\ Named(pool) /\ drift \in [Checked -> Drift]
  BY DEF IInv, TypeOK, SoundPool
<1>3. a \in Addresses \cap Containers /\ h \in BOOLEAN
  BY RotationAssumption
<1>4. /\ pool' \in Pool /\ Named(pool')
      /\ AddressesOf(pool') = AddressesOf(pool) \cup {a}
      /\ \A b : b # a => (Serving(pool', b) <=> Serving(pool, b))
  BY <1>1, <1>2, <1>3, AddEffect
<1>5. \A b \in Checked : checks[b] # None => b \in AddressesOf(pool)
  BY <1>1 DEF IInv, ChecksServed, Idle
<1>6. ASSUME NEW b \in Checked, checks[b] # None
      PROVE  /\ drift'[b] # "overtaken" => drift[b] # "overtaken"
             /\ drift'[b] = "none" /\ b \in AddressesOf(pool') =>
                  /\ drift[b] = "none" /\ b \in AddressesOf(pool)
                  /\ Serving(pool', b) <=> Serving(pool, b)
  <2>1. CASE a \in AddressesOf(pool)
    BY <1>1, <1>2, <1>5, <1>6, <2>1, MarkedKeeps
  <2>2. CASE a \notin AddressesOf(pool)
    <3>1. b # a
      BY <1>5, <1>6, <2>2
    <3>2. drift'[b] = drift[b]
      BY <1>1, <1>2, <2>2, <3>1
    <3> QED  BY <1>4, <1>5, <1>6, <3>1, <3>2
  <2> QED  BY <2>1, <2>2
<1>7. drift' \in [Checked -> Drift]
  <2>1. "none" \in Drift
    BY DEF Drift
  <2>2. [drift EXCEPT ![a] = "none"] \in [Checked -> Drift]
    BY <1>2, <2>1
  <2>3. Marked(pool') \in [Checked -> Drift]
    BY <1>2, MarkedKeeps
  <2> QED  BY <1>1, <2>2, <2>3
<1>8. RoomToRegister'
  <2>1. UNCHANGED <<checks, probes, notes>>
    BY <1>1 DEF checker
  <2>2. InUse' = InUse
    BY <2>1 DEF InUse
  <2> QED  BY <1>1, <1>4, <2>1, <2>2 DEF RoomToRegister
<1>9. ChecksServed'
  BY <1>1, <1>4, <1>5 DEF ChecksServed, checker
<1>10. /\ engine' \in [op: {"idle"}] \cup [op: {"register", "sweep"}, addr: Checked]
       /\ up' \in [Checked -> BOOLEAN]
  BY <1>1, <1>2 DEF TypeOK
<1> QED  BY <1>1, <1>4, <1>6, <1>7, <1>8, <1>9, <1>10, OtherWriterInv

\* The container stops: its check is swept before anything else happens.
LEMMA RemoveRouteInv ==
  ASSUME IInv, NEW a \in Checked, RemoveRoute(a)
  PROVE  IInv'
<1>1. /\ pool' = PoolRemove(pool, a)
      /\ engine' = [op |-> "sweep", addr |-> a]
      /\ UNCHANGED up /\ UNCHANGED checker /\ UNCHANGED drift
      /\ UNCHANGED <<turn, retuned>>
  BY DEF RemoveRoute
<1>2. TypeOK /\ pool \in Pool /\ Named(pool)
  BY DEF IInv, TypeOK, SoundPool
<1>3. /\ pool' \in Pool /\ Named(pool')
      /\ AddressesOf(pool') = AddressesOf(pool) \ {a}
      /\ \A b : b # a => (Serving(pool', b) <=> Serving(pool, b))
  BY <1>1, <1>2, RemoveEffect
<1>4. RoomToRegister' /\ ChecksServed'
  BY <1>1 DEF RoomToRegister, ChecksServed
<1>5. /\ engine' \in [op: {"idle"}] \cup [op: {"register", "sweep"}, addr: Checked]
      /\ up' \in [Checked -> BOOLEAN]
      /\ drift' \in [Checked -> Drift]
  BY <1>1, <1>2 DEF TypeOK
<1> QED  BY <1>1, <1>3, <1>4, <1>5, OtherWriterInv

\* What the engine has promised holds for as long as no address loses its
\* place in the pool.
LEMMA EngineUndisturbed ==
  ASSUME IInv, UNCHANGED checker, UNCHANGED engine,
         AddressesOf(pool') = AddressesOf(pool)
  PROVE  RoomToRegister' /\ ChecksServed'
<1>1. UNCHANGED <<checks, probes, notes>>
  BY DEF checker
<1>2. InUse' = InUse
  BY <1>1 DEF InUse
<1> QED  BY <1>1, <1>2 DEF IInv, RoomToRegister, ChecksServed

\* A failed request may eject, and the history says so.
LEMMA RequestFailsInv ==
  ASSUME IInv, NEW a \in Checked, RequestFails(a)
  PROVE  IInv'
<1>1. /\ pool' = RecordFailure(pool, a) /\ drift' = Marked(pool')
      /\ UNCHANGED up /\ UNCHANGED checker /\ UNCHANGED engine
      /\ UNCHANGED <<turn, retuned>>
  BY DEF RequestFails
<1>2. TypeOK /\ pool \in Pool /\ Named(pool)
  BY DEF IInv, TypeOK, SoundPool
<1>3. /\ pool' \in Pool /\ Named(pool')
      /\ AddressesOf(pool') = AddressesOf(pool)
  BY <1>1, <1>2, FailureEffect
<1>4. RoomToRegister' /\ ChecksServed'
  BY <1>1, <1>3, EngineUndisturbed
<1>5. /\ drift' \in [Checked -> Drift]
      /\ \A b \in Checked :
           /\ drift'[b] # "overtaken" => drift[b] # "overtaken"
           /\ drift'[b] = "none" =>
                drift[b] = "none" /\ (Serving(pool', b) <=> Serving(pool, b))
  BY <1>1, <1>2, MarkedKeeps
<1>6. /\ engine' \in [op: {"idle"}] \cup [op: {"register", "sweep"}, addr: Checked]
      /\ up' \in [Checked -> BOOLEAN]
  BY <1>1, <1>2 DEF TypeOK
<1> QED  BY <1>1, <1>3, <1>4, <1>5, <1>6, OtherWriterInv

\* A request that succeeds, a container that ceases to answer and what is
\* reported of an address that is not followed change no mark that is.
LEMMA BystanderInv ==
  ASSUME IInv,
         \/ \E a \in Checked : RequestSucceeds(a) \/ Turn(a)
         \/ \E b \in Addresses \ Checked, h \in BOOLEAN : OtherNotify(b, h)
  PROVE  IInv'
<1>1. TypeOK /\ pool \in Pool /\ Named(pool)
  BY DEF IInv, TypeOK, SoundPool
<1>2. UNCHANGED checker /\ UNCHANGED engine /\ UNCHANGED drift /\ UNCHANGED <<turn, retuned>>
  BY DEF RequestSucceeds, Turn, OtherNotify
<1>3. /\ pool' \in Pool /\ Named(pool')
      /\ AddressesOf(pool') = AddressesOf(pool)
      /\ \A b \in Checked : Serving(pool', b) <=> Serving(pool, b)
      /\ up' \in [Checked -> BOOLEAN]
  <2>1. CASE \E a \in Checked : RequestSucceeds(a)
    BY <1>1, <2>1, SuccessEffect DEF RequestSucceeds, TypeOK
  <2>2. CASE \E a \in Checked : Turn(a)
    <3>1. PICK a \in Checked : Turn(a)
      BY <2>2
    <3>2. UNCHANGED pool /\ up' = [up EXCEPT ![a] = ~@]
      BY <3>1 DEF Turn
    <3> QED  BY <1>1, <3>2 DEF TypeOK
  <2>3. CASE \E b \in Addresses \ Checked, h \in BOOLEAN : OtherNotify(b, h)
    <3>1. PICK b \in Addresses \ Checked, h \in BOOLEAN : OtherNotify(b, h)
      BY <2>3
    <3>2. pool' = Mark(pool, b, h) /\ UNCHANGED up
      BY <3>1 DEF OtherNotify
    <3> QED  BY <1>1, <3>2, MarkEffect DEF TypeOK
  <2> QED  BY <2>1, <2>2, <2>3
<1>4. RoomToRegister' /\ ChecksServed'
  BY <1>2, <1>3, EngineUndisturbed
<1>5. /\ engine' \in [op: {"idle"}] \cup [op: {"register", "sweep"}, addr: Checked]
      /\ drift' \in [Checked -> Drift]
  BY <1>1, <1>2 DEF TypeOK
<1> QED  BY <1>2, <1>3, <1>4, <1>5, OtherWriterInv

\* What the registration of an address that is known changes is no state.
LEMMA RetuneInv ==
  ASSUME IInv, NEW a \in Checked, a \in AddressesOf(pool), NEW n \in DOMAIN Tunings,
         checks[a] # None, Retune(a, n),
         turn' \in [Checked -> DOMAIN Tunings],
         engine.op = "register", engine' = Idle,
         UNCHANGED <<pool, up, probes, notes, drift>>
  PROVE  IInv'
<1> DEFINE k == checks[a]
<1>1. /\ heap' = [heap EXCEPT ![k].tuning = n]
      /\ retuned' = IF heap[k].tuning = n THEN retuned ELSE retuned \cup {a}
      /\ UNCHANGED checks
  BY DEF Retune
<1>2. TypeOK /\ k \in CheckId /\ heap \in [CheckId -> Check] /\ retuned \subseteq Checked
  <2>1. TypeOK
    BY DEF IInv
  <2> QED  BY <2>1 DEF TypeOK
<1>3. engine'.op = "idle" /\ engine' \in [op: {"idle"}]
  BY DEF Idle
<1> HIDE DEF k
<1>4. heap[k] \in Check
  BY <1>2
<1>5. /\ heap'[k] = [heap[k] EXCEPT !.tuning = n]
      /\ \A j \in CheckId : j # k => heap'[j] = heap[j]
  BY <1>1, <1>2
<1>6. /\ heap[k] = [state |-> heap[k].state, fails |-> heap[k].fails,
                    passes |-> heap[k].passes, tuning |-> heap[k].tuning]
      /\ heap[k].state \in States /\ heap[k].fails \in 0 .. MaxCount
      /\ heap[k].passes \in 0 .. MaxCount
  BY <1>4 DEF Check
<1>7. heap'[k] = [state |-> heap[k].state, fails |-> heap[k].fails,
                  passes |-> heap[k].passes, tuning |-> n]
  BY <1>5, <1>6
<1>8. heap'[k] \in Check
  BY <1>6, <1>7 DEF Check
<1>9. heap' \in [CheckId -> Check]
  <2>1. heap' = [j \in CheckId |-> heap'[j]]
    BY <1>1, <1>2
  <2>2. \A j \in CheckId : heap'[j] \in Check
    BY <1>2, <1>5, <1>8
  <2> HIDE DEF Check
  <2> QED  BY <2>1, <2>2
<1>10. \A b \in Checked : checks[b] # None =>
         heap'[checks[b]].state = heap[checks[b]].state
  <2>1. ASSUME NEW b \in Checked, checks[b] # None
        PROVE  heap'[checks[b]].state = heap[checks[b]].state
    <3>1. checks[b] \in CheckId
      BY <1>2, <2>1 DEF TypeOK
    <3>2. CASE checks[b] = k
      BY <1>7, <3>2
    <3>3. CASE checks[b] # k
      BY <1>5, <3>1, <3>3
    <3> QED  BY <3>2, <3>3
  <2> QED  BY <2>1
<1>11. TypeOK'
  BY <1>1, <1>2, <1>3, <1>9 DEF TypeOK
<1>12. SoundPool' /\ RoomToRegister'
  BY <1>3 DEF IInv, SoundPool, RoomToRegister
<1>13. ChecksServed' /\ ObjectsApart'
  BY <1>1 DEF IInv, ChecksServed, ObjectsApart
<1>14. ChecksConsistent'
  <2> SUFFICES ASSUME NEW b \in Checked, b \notin retuned', checks[b] # None
               PROVE  ConsistentFor(heap'[checks[b]])
    BY <1>1 DEF ChecksConsistent
  <2>1. b \notin retuned
    BY <1>1
  <2>2. ConsistentFor(heap[checks[b]])
    BY <2>1 DEF IInv, ChecksConsistent
  <2>3. CASE b = a
    <3>1. heap[k].tuning = n
      BY <1>1, <2>3
    <3>2. heap'[k] = heap[k]
      BY <1>6, <1>7, <3>1
    <3> QED  BY <2>2, <2>3, <3>2 DEF k
  <2>4. CASE b # a
    <3>1. checks[b] # k /\ checks[b] \in CheckId
      BY <1>2, <2>4 DEF IInv, ObjectsApart, TypeOK, k
    <3> QED  BY <1>5, <2>2, <3>1
  <2> QED  BY <2>3, <2>4
<1>15. NewestIsCurrent'
  BY <1>1, <1>10 DEF IInv, NewestIsCurrent, Newest
<1>16. MarkFollowsState'
  <2> SUFFICES ASSUME NEW b \in Checked, Registered(b)', Quiet(b)', drift[b] = "none",
                      heap'[checks[b]].state # "Unknown"
               PROVE  InRotation(b)' <=> Serves(heap'[checks[b]].state)
    BY <1>1 DEF MarkFollowsState
  <2>1. /\ Registered(b) /\ Quiet(b) /\ checks[b] # None
        /\ InRotation(b)' <=> InRotation(b)
    BY <1>1 DEF Registered, Quiet, InRotation
  <2>2. heap'[checks[b]].state = heap[checks[b]].state
    BY <1>10, <2>1
  <2> QED  BY <2>1, <2>2 DEF IInv, MarkFollowsState
<1> QED  BY <1>11, <1>12, <1>13, <1>14, <1>15, <1>16 DEF IInv

\* An address that has no check gets an object nothing points at.
LEMMA NewCheckInv ==
  ASSUME IInv, NEW a \in Checked, a \in AddressesOf(pool), NEW n \in DOMAIN Tunings,
         engine.addr = a, checks[a] = None, NewCheck(a, n),
         turn' \in [Checked -> DOMAIN Tunings],
         engine.op = "register", engine' = Idle,
         UNCHANGED <<pool, up, probes, notes, drift>>
  PROVE  IInv'
<1>2. TypeOK
  BY DEF IInv
<1>3. engine'.op = "idle" /\ engine' \in [op: {"idle"}]
  BY DEF Idle
<1>4. RoomToRegister' /\ SoundPool'
  BY <1>3 DEF RoomToRegister, IInv, SoundPool
<1>5. \A b \in Checked : checks[b] # None => b \in AddressesOf(pool)
  BY DEF IInv, ChecksServed
<1>7. IInv'
  <2> DEFINE k == CHOOSE k \in CheckId : k \notin InUse
  <2>1. /\ heap' = [heap EXCEPT ![k] = Fresh(n)]
        /\ checks' = [checks EXCEPT ![a] = k]
        /\ UNCHANGED retuned
    BY DEF NewCheck
  <2>2. k \in CheckId /\ k \notin InUse
    <3>1. \E j \in CheckId : j \notin InUse
      BY DEF IInv, RoomToRegister
    <3> QED  BY <3>1
  <2> HIDE DEF k
  <2>3. /\ heap \in [CheckId -> Check] /\ checks \in [Checked -> CheckId \cup {None}]
        /\ k # None
    BY <1>2, <2>2 DEF TypeOK, CheckId, None
  <2>4. /\ heap'[k] = Fresh(n) /\ checks'[a] = k
        /\ \A j \in CheckId : j # k => heap'[j] = heap[j]
        /\ \A b \in Checked : b # a => checks'[b] = checks[b]
    BY <1>2, <2>1, <2>2, <2>3
  <2>5. ASSUME NEW b \in Checked
        PROVE  /\ checks[b] # k
               /\ \A i \in DOMAIN probes[b] : probes[b][i].check # k
               /\ \A i \in DOMAIN notes[b] : notes[b][i].check # k
    BY <2>2, InUseMeans DEF Points
  <2>6. ASSUME NEW b \in Checked, b # a, checks'[b] # None
        PROVE  /\ checks'[b] = checks[b] /\ checks[b] # None
               /\ heap'[checks'[b]] = heap[checks[b]]
    <3>1. checks'[b] = checks[b] /\ checks[b] \in CheckId /\ checks[b] # k
      BY <2>3, <2>4, <2>5, <2>6
    <3> QED  BY <2>4, <2>6, <3>1
  <2>7. TypeOK'
    <3>1. Fresh(n) \in Check
      BY CheckType
    <3>2. heap' \in [CheckId -> Check] /\ checks' \in [Checked -> CheckId \cup {None}]
      BY <1>2, <2>1, <2>2, <2>3, <3>1
    <3> QED  BY <1>2, <1>3, <2>1, <3>2 DEF TypeOK
  <2>8. ChecksServed'
    BY <1>2, <1>5, <2>4 DEF ChecksServed
  <2>9. ObjectsApart'
    <3> SUFFICES ASSUME NEW b \in Checked, NEW c \in Checked, b # c, checks'[b] # None
                 PROVE  /\ checks'[b] # checks'[c]
                        /\ \A i \in DOMAIN probes[c] : probes[c][i].check # checks'[b]
      BY DEF ObjectsApart
    <3>1. CASE b = a
      BY <2>4, <2>5, <3>1
    <3>2. CASE b # a
      <4>1. checks'[b] = checks[b] /\ checks[b] # None
        BY <2>6, <3>2
      <4>2. /\ checks[b] # checks[c]
            /\ \A i \in DOMAIN probes[c] : probes[c][i].check # checks[b]
        BY <4>1 DEF IInv, ObjectsApart
      <4> QED  BY <2>4, <2>5, <4>1, <4>2
    <3> QED  BY <3>1, <3>2
  <2>10. ChecksConsistent'
    <3> SUFFICES ASSUME NEW b \in Checked, b \notin retuned, checks'[b] # None
                 PROVE  ConsistentFor(heap'[checks'[b]])
      BY <2>1 DEF ChecksConsistent
    <3>1. CASE b = a
      BY <2>4, <3>1, CheckConsistent
    <3>2. CASE b # a
      BY <2>6, <3>2 DEF IInv, ChecksConsistent
    <3> QED  BY <3>1, <3>2
  <2>11. NewestIsCurrent'
    <3> SUFFICES ASSUME NEW b \in Checked, checks'[b] # None, drift[b] # "overtaken",
                        NEW i \in DOMAIN notes[b], Newest(b, i)'
                 PROVE  notes[b][i].healthy <=> Serves(heap'[checks'[b]].state)
      BY DEF NewestIsCurrent
    <3>1. b # a
      BY <2>4, <2>5 DEF Newest
    <3>2. Newest(b, i)
      BY <2>6, <3>1 DEF Newest
    <3> QED  BY <2>6, <3>1, <3>2 DEF IInv, NewestIsCurrent
  <2>12. MarkFollowsState'
    <3> SUFFICES ASSUME NEW b \in Checked, Registered(b)', Quiet(b)', drift[b] = "none",
                        heap'[checks'[b]].state # "Unknown"
                 PROVE  InRotation(b)' <=> Serves(heap'[checks'[b]].state)
      BY DEF MarkFollowsState
    <3>1. b # a
      BY <2>4 DEF Fresh
    <3>2. /\ Registered(b) /\ Quiet(b)
          /\ heap'[checks'[b]] = heap[checks[b]]
      BY <2>6, <3>1 DEF Registered, Quiet
    <3>3. InRotation(b)' <=> InRotation(b)
      BY DEF InRotation
    <3> QED  BY <3>2, <3>3 DEF IInv, MarkFollowsState
  <2> QED  BY <1>4, <2>7, <2>8, <2>9, <2>10, <2>11, <2>12 DEF IInv
<1> QED  BY <1>7

\* Register keeps the object of an address that has one and makes one for an
\* address that has none.
LEMMA RegisterInv ==
  ASSUME IInv, Register
  PROVE  IInv'
<1> DEFINE a == engine.addr
<1>1. /\ engine.op = "register" /\ engine' = Idle
      /\ UNCHANGED <<pool, up, probes, notes, drift>>
  BY DEF Register
<1>2. /\ a \in Checked /\ a \in AddressesOf(pool)
      /\ turn \in [Checked -> DOMAIN Tunings]
  <2>1. /\ engine \in [op: {"idle"}] \cup [op: {"register", "sweep"}, addr: Checked]
        /\ turn \in [Checked -> DOMAIN Tunings]
    BY DEF IInv, TypeOK
  <2> QED  BY <1>1, <2>1 DEF IInv, RoomToRegister
<1>3. PICK n \in DOMAIN Tunings :
        /\ turn' = [turn EXCEPT ![a] = n]
        /\ IF checks[a] # None THEN Retune(a, n) ELSE NewCheck(a, n)
  BY DEF Register
<1>4. turn' \in [Checked -> DOMAIN Tunings]
  BY <1>2, <1>3
<1> QED  BY <1>1, <1>2, <1>3, <1>4, RetuneInv, NewCheckInv

\* Sweep takes registrations away and nothing else.
LEMMA SweepInv ==
  ASSUME IInv, Sweep
  PROVE  IInv'
<1>1. /\ engine' = Idle
      /\ checks' = [a \in Checked |-> IF a \in AddressesOf(pool) THEN checks[a] ELSE None]
      /\ retuned' = {a \in retuned : checks'[a] # None}
      /\ UNCHANGED <<pool, up, probes, notes, turn, drift>>
      /\ heap' = Collected(heap)
  BY DEF Sweep
<1>2. TypeOK
  BY DEF IInv
<1>3. engine'.op = "idle" /\ engine' \in [op: {"idle"}]
  BY <1>1 DEF Idle
<1>4. \A a \in Checked : checks'[a] = None \/ (a \in AddressesOf(pool) /\ checks'[a] = checks[a])
  BY <1>1
<1>5. /\ heap' \in [CheckId -> Check]
      /\ \A a \in Checked : checks'[a] # None =>
           checks'[a] = checks[a] /\ heap'[checks'[a]] = heap[checks[a]]
  <2>1. /\ heap \in [CheckId -> Check]
        /\ checks' \in [Checked -> CheckId \cup {None}]
    BY <1>1, <1>2 DEF TypeOK
  <2> QED  BY <1>1, <1>4, <2>1, CollectedKeeps
<1>6. TypeOK'
  BY <1>1, <1>2, <1>3, <1>5 DEF TypeOK
<1>7. SoundPool' /\ RoomToRegister' /\ ChecksServed'
  BY <1>1, <1>3, <1>4 DEF IInv, SoundPool, RoomToRegister, ChecksServed
<1>8. ObjectsApart'
  BY <1>1, <1>4 DEF IInv, ObjectsApart
<1>9. ChecksConsistent'
  <2> SUFFICES ASSUME NEW b \in Checked, b \notin retuned', checks'[b] # None
               PROVE  ConsistentFor(heap'[checks'[b]])
    BY DEF ChecksConsistent
  <2>1. b \notin retuned
    BY <1>1
  <2> QED  BY <1>5, <2>1 DEF IInv, ChecksConsistent
<1>10. NewestIsCurrent'
  BY <1>1, <1>5 DEF IInv, NewestIsCurrent, Newest
<1>11. MarkFollowsState'
  BY <1>1, <1>5 DEF IInv, MarkFollowsState, Registered, Quiet, InRotation
<1> QED  BY <1>6, <1>7, <1>8, <1>9, <1>10, <1>11 DEF IInv

\* A probe settles: the object moves on, and when its state has changed the
\* notification of it goes behind all that are under way.
LEMMA SettleInv ==
  ASSUME IInv, NEW a \in Checked, NEW i \in DOMAIN probes[a], Settle(a, i)
  PROVE  IInv'
<1> DEFINE k == probes[a][i].check
<1>1. /\ TypeOK /\ heap \in [CheckId -> Check]
      /\ probes \in [Checked -> Seq(Probe)] /\ notes \in [Checked -> Seq(Note)]
      /\ checks \in [Checked -> CheckId \cup {None}]
  BY DEF IInv, TypeOK, Probe, Note
<1>2. k \in CheckId /\ probes[a][i].seen \in BOOLEAN /\ up[a] \in BOOLEAN
  <2>1. probes[a][i] \in Probe
    BY <1>1
  <2> QED  BY <1>1, <2>1 DEF Probe, TypeOK
<1>3. PICK healthy \in BOOLEAN :
        LET new == IF healthy THEN Passed(heap[k]) ELSE Failed(heap[k])
        IN  /\ heap' = Collected([heap EXCEPT ![k] = new])
            /\ probes' = [probes EXCEPT ![a] = RemoveAt(@, i)]
            /\ retuned' = IF healthy /\ checks[a] = k THEN retuned \ {a} ELSE retuned
            /\ notes' = IF new.state = heap[k].state THEN notes
                        ELSE [notes EXCEPT ![a] =
                                Append(@, [check |-> k, healthy |-> Serves(new.state)])]
            /\ UNCHANGED <<pool, up, checks, engine, turn, drift>>
  BY <1>2 DEF Settle
<1> DEFINE new == IF healthy THEN Passed(heap[k]) ELSE Failed(heap[k])
           n   == [check |-> k, healthy |-> Serves(new.state)]
<1>4. /\ heap' = Collected([heap EXCEPT ![k] = new])
      /\ probes' = [probes EXCEPT ![a] = RemoveAt(@, i)]
      /\ new.state = heap[k].state => notes' = notes
      /\ new.state # heap[k].state => notes' = [notes EXCEPT ![a] = Append(@, n)]
      /\ retuned' = IF healthy /\ checks[a] = k THEN retuned \ {a} ELSE retuned
      /\ UNCHANGED <<pool, up, checks, engine, turn, drift>>
  BY <1>3
<1>5. /\ new \in Check
      /\ healthy \/ ConsistentFor(heap[k]) => ConsistentFor(new)
  <2>1. heap[k] \in Check
    BY <1>1, <1>2
  <2> QED  BY <2>1, CheckType, CheckConsistent
<1>6. n \in Note /\ n.check = k /\ n.healthy = Serves(new.state)
  BY <1>2 DEF Note, Serves
<1> HIDE DEF new, n
\* The probe is gone and no other has come.
<1>7. /\ probes' \in [Checked -> Seq(Probe)]
      /\ Len(probes[a]) \in Nat /\ Len(probes'[a]) = Len(probes[a]) - 1
      /\ \A b \in Checked : b # a => probes'[b] = probes[b]
      /\ \A b \in Checked : \A j \in DOMAIN probes'[b] :
           \E m \in DOMAIN probes[b] : probes'[b][j] = probes[b][m]
  <2>1. /\ RemoveAt(probes[a], i) \in Seq(Probe)
        /\ Len(RemoveAt(probes[a], i)) = Len(probes[a]) - 1
        /\ \A j \in DOMAIN RemoveAt(probes[a], i) :
             \E m \in DOMAIN probes[a] : RemoveAt(probes[a], i)[j] = probes[a][m]
    BY <1>1, RemoveAtProperties, RemoveAtElements
  <2>2. /\ probes'[a] = RemoveAt(probes[a], i)
        /\ \A b \in Checked : b # a => probes'[b] = probes[b]
        /\ probes' \in [Checked -> Seq(Probe)]
    BY <1>1, <1>4, <2>1
  <2>3. Len(probes[a]) \in Nat
    BY <1>1
  <2>4. ASSUME NEW b \in Checked, NEW j \in DOMAIN probes'[b]
        PROVE  \E m \in DOMAIN probes[b] : probes'[b][j] = probes[b][m]
    <3>1. CASE b = a
      BY <2>1, <2>2, <2>4, <3>1
    <3> QED  BY <2>2, <2>4, <3>1
  <2> HIDE DEF k
  <2> QED  BY <2>1, <2>2, <2>3, <2>4
\* The notifications under way are where they were; one may have come.
<1>8. /\ notes' \in [Checked -> Seq(Note)]
      /\ \A b \in Checked : b # a => notes'[b] = notes[b]
      /\ \A b \in Checked : \A j \in DOMAIN notes[b] :
           j \in DOMAIN notes'[b] /\ notes'[b][j] = notes[b][j]
      /\ \A b \in Checked : \A j \in DOMAIN notes'[b] :
           \/ j \in DOMAIN notes[b]
           \/ /\ b = a /\ new.state # heap[k].state /\ notes'[b][j] = n
              /\ \A m \in DOMAIN notes'[b] : m <= j
      /\ new.state # heap[k].state =>
           \E j \in DOMAIN notes'[a] : notes'[a][j] = n /\ \A m \in DOMAIN notes[a] : m < j
      /\ Len(notes[a]) \in Nat /\ Len(notes'[a]) <= Len(notes[a]) + 1
  <2>1. CASE new.state = heap[k].state
    <3>1. Len(notes[a]) \in Nat
      BY <1>1
    <3> QED  BY <1>1, <1>4, <2>1, <3>1
  <2>2. CASE new.state # heap[k].state
    <3>1. /\ Append(notes[a], n) \in Seq(Note)
          /\ Len(Append(notes[a], n)) = Len(notes[a]) + 1
          /\ DOMAIN notes[a] = 1 .. Len(notes[a])
          /\ DOMAIN Append(notes[a], n) = 1 .. (Len(notes[a]) + 1)
          /\ \A j \in DOMAIN notes[a] : Append(notes[a], n)[j] = notes[a][j]
          /\ Append(notes[a], n)[Len(notes[a]) + 1] = n
          /\ Len(notes[a]) \in Nat
      BY <1>1, <1>6, AppendElements
    <3>2. /\ notes'[a] = Append(notes[a], n)
          /\ \A b \in Checked : b # a => notes'[b] = notes[b]
          /\ notes' \in [Checked -> Seq(Note)]
      BY <1>1, <1>4, <2>2, <3>1
    <3>3. /\ \A j \in DOMAIN notes[a] : j \in DOMAIN notes'[a] /\ notes'[a][j] = notes[a][j]
          /\ \A j \in DOMAIN notes'[a] :
               \/ j \in DOMAIN notes[a]
               \/ notes'[a][j] = n /\ \A m \in DOMAIN notes'[a] : m <= j
          /\ \E j \in DOMAIN notes'[a] : notes'[a][j] = n /\ \A m \in DOMAIN notes[a] : m < j
          /\ Len(notes'[a]) <= Len(notes[a]) + 1
      <4> DEFINE last == Len(notes[a]) + 1
      <4>1. /\ last \in DOMAIN notes'[a] /\ notes'[a][last] = n
            /\ \A m \in DOMAIN notes[a] : m < last
            /\ \A m \in DOMAIN notes'[a] : m <= last
            /\ \A m \in DOMAIN notes'[a] : m \in DOMAIN notes[a] \/ m = last
        BY <3>1, <3>2
      <4>2. \A j \in DOMAIN notes[a] : j \in DOMAIN notes'[a] /\ notes'[a][j] = notes[a][j]
        BY <3>1, <3>2
      <4>3. Len(notes'[a]) <= Len(notes[a]) + 1
        BY <3>1, <3>2
      <4> HIDE DEF last
      <4> QED  BY <4>1, <4>2, <4>3
    <3> QED  BY <2>2, <3>1, <3>2, <3>3
  <2> QED  BY <2>1, <2>2
\* An object of another address does not move, nor does one that is not k.
<1>9. /\ heap' \in [CheckId -> Check]
      /\ \A b \in Checked : checks[b] = k => heap'[checks[b]] = new
      /\ \A b \in Checked : checks[b] # None /\ (b # a \/ checks[b] # k) =>
           heap'[checks[b]] = heap[checks[b]]
  <2>1. ASSUME NEW b \in Checked, checks[b] # None, b # a \/ checks[b] # k
        PROVE  checks[b] # k
    BY <2>1 DEF IInv, ObjectsApart
  <2> DEFINE h == [heap EXCEPT ![k] = new]
  <2>2. h \in [CheckId -> Check] /\ h[k] = new /\ \A m \in CheckId : m # k => h[m] = heap[m]
    BY <1>1, <1>2, <1>5
  <2>3. heap' = Collected(h) /\ UNCHANGED checks
    BY <1>4
  <2> HIDE DEF h
  <2>4. /\ heap' \in [CheckId -> Check]
        /\ \A b \in Checked : checks[b] # None => heap'[checks[b]] = h[checks[b]]
    BY <1>1, <2>2, <2>3, CollectedKeeps
  <2>5. k # None /\ \A b \in Checked : checks[b] # None => checks[b] \in CheckId
    BY <1>1, <1>2 DEF None, CheckId
  <2> HIDE DEF k
  <2> QED  BY <2>1, <2>2, <2>4, <2>5
<1> HIDE DEF k
<1>10. TypeOK'
  <2>1. heap' \in [CheckId -> Check] /\ retuned' \subseteq Checked
    BY <1>1, <1>4, <1>9 DEF TypeOK
  <2>2. ASSUME NEW b \in Checked
        PROVE  Len(probes'[b]) + Len(notes'[b]) <= MaxProbes
    <3>1. /\ MaxProbes \in Nat /\ Len(probes'[b]) \in Nat /\ Len(notes'[b]) \in Nat
          /\ Len(probes[b]) + Len(notes[b]) <= MaxProbes
      <4>1. MaxProbes \in Nat
        BY RotationAssumption
      <4>2. Len(probes'[b]) \in Nat /\ Len(notes'[b]) \in Nat
        BY <1>7, <1>8
      <4>3. Len(probes[b]) + Len(notes[b]) <= MaxProbes
        BY WorkBounded DEF IInv
      <4> QED  BY <4>1, <4>2, <4>3
    <3>2. CASE b = a
      <4>1. /\ Len(probes'[a]) = Len(probes[a]) - 1 /\ Len(probes[a]) \in Nat
            /\ Len(notes'[a]) <= Len(notes[a]) + 1 /\ Len(notes[a]) \in Nat
        BY <1>7, <1>8
      <4>2. ASSUME NEW p \in Nat, NEW q \in Nat, NEW s \in Nat, NEW t \in Nat, NEW m \in Nat,
                   p + q <= m, s = p - 1, t <= q + 1
            PROVE  s + t <= m
        BY <4>2
      <4>3. /\ Len(probes'[a]) \in Nat /\ Len(notes'[a]) \in Nat /\ MaxProbes \in Nat
            /\ Len(probes[a]) + Len(notes[a]) <= MaxProbes
        BY <3>1, <3>2
      <4>4. Len(probes'[a]) + Len(notes'[a]) <= MaxProbes
        <5> DEFINE p == Len(probes[a])
                   q == Len(notes[a])
                   s == Len(probes'[a])
                   t == Len(notes'[a])
        <5>1. /\ p \in Nat /\ q \in Nat /\ s \in Nat /\ t \in Nat /\ MaxProbes \in Nat
              /\ p + q <= MaxProbes /\ s = p - 1 /\ t <= q + 1
          BY <4>1, <4>3
        <5> HIDE DEF p, q, s, t
        <5>2. s + t <= MaxProbes
          BY <4>2, <5>1
        <5> QED  BY <5>2 DEF s, t
      <4> QED  BY <3>2, <4>4
    <3>3. CASE b # a
      BY <1>7, <1>8, <3>1, <3>3
    <3> QED  BY <3>2, <3>3
  <2> QED  BY <1>1, <1>4, <1>7, <1>8, <2>1, <2>2 DEF TypeOK, Probe, Note
<1>11. SoundPool' /\ ChecksServed'
  BY <1>4 DEF IInv, SoundPool, ChecksServed
<1>12. RoomToRegister'
  <2>1. ASSUME NEW x, Points(checks', probes', notes', x)
        PROVE  Points(checks, probes, notes, x)
    <3>1. PICK b \in Checked : \/ x = checks'[b]
                               \/ \E j \in DOMAIN probes'[b] : x = probes'[b][j].check
                               \/ \E j \in DOMAIN notes'[b] : x = notes'[b][j].check
      BY <2>1 DEF Points
    <3>2. CASE x = checks'[b]
      BY <1>4, <3>2 DEF Points
    <3>3. CASE \E j \in DOMAIN probes'[b] : x = probes'[b][j].check
      BY <1>7, <3>3 DEF Points
    <3>4. CASE \E j \in DOMAIN notes'[b] : x = notes'[b][j].check
      <4>1. PICK j \in DOMAIN notes'[b] : x = notes'[b][j].check
        BY <3>4
      <4>2. CASE j \in DOMAIN notes[b]
        BY <1>8, <4>1, <4>2 DEF Points
      <4>3. CASE j \notin DOMAIN notes[b]
        <5>1. x = probes[a][i].check
          BY <1>6, <1>8, <4>1, <4>3 DEF k
        <5> QED  BY <5>1 DEF Points
      <4> QED  BY <4>2, <4>3
    <3> QED  BY <3>1, <3>2, <3>3, <3>4
  <2>2. InUse' \subseteq InUse
    BY <2>1, InUseMeans
  <2> QED  BY <1>4, <2>2 DEF IInv, RoomToRegister
<1>13. ObjectsApart'
  BY <1>4, <1>7 DEF IInv, ObjectsApart
<1>14. ChecksConsistent'
  <2> SUFFICES ASSUME NEW b \in Checked, b \notin retuned', checks[b] # None
               PROVE  ConsistentFor(heap'[checks[b]])
    BY <1>4 DEF ChecksConsistent
  <2>1. b \notin retuned => ConsistentFor(heap[checks[b]])
    BY DEF IInv, ChecksConsistent
  <2>2. CASE b = a /\ checks[b] = k
    <3>1. healthy \/ b \notin retuned
      BY <1>4, <2>2
    <3> QED  BY <1>5, <1>9, <2>1, <2>2, <3>1
  <2>3. CASE b # a \/ checks[b] # k
    <3>1. b \notin retuned
      BY <1>4, <2>3
    <3> QED  BY <1>9, <2>1, <2>3, <3>1
  <2> QED  BY <2>2, <2>3
<1>15. NewestIsCurrent'
  <2> SUFFICES ASSUME NEW b \in Checked, checks[b] # None, drift[b] # "overtaken",
                      NEW j \in DOMAIN notes'[b], Newest(b, j)'
               PROVE  notes'[b][j].healthy <=> Serves(heap'[checks[b]].state)
    BY <1>4 DEF NewestIsCurrent
  <2>1. /\ notes'[b][j].check = checks[b]
        /\ \A m \in DOMAIN notes'[b] : m > j => notes'[b][m].check # checks[b]
    BY <1>4 DEF Newest
  <2>2. CASE j \in DOMAIN notes[b]
    <3>1. notes'[b][j] = notes[b][j]
      BY <1>8, <2>2
    <3>2. Newest(b, j)
      BY <1>8, <2>1, <3>1 DEF Newest
    <3>3. notes[b][j].healthy <=> Serves(heap[checks[b]].state)
      BY <2>2, <3>2 DEF IInv, NewestIsCurrent
    <3>4. heap'[checks[b]].state = heap[checks[b]].state
      <4>1. CASE b # a \/ checks[b] # k
        BY <1>9, <4>1
      <4>2. CASE b = a /\ checks[b] = k
        <5>1. new.state = heap[k].state
          BY <1>6, <1>8, <2>1, <2>2, <4>2
        <5> QED  BY <1>9, <4>2, <5>1
      <4> QED  BY <4>1, <4>2
    <3> QED  BY <3>1, <3>3, <3>4
  <2>3. CASE j \notin DOMAIN notes[b]
    <3>1. b = a /\ notes'[b][j] = n
      BY <1>8, <2>3
    <3>2. checks[b] = k
      BY <1>6, <2>1, <3>1
    <3> QED  BY <1>6, <1>9, <3>1, <3>2
  <2> QED  BY <2>2, <2>3
<1>16. MarkFollowsState'
  <2> SUFFICES ASSUME NEW b \in Checked, Registered(b)', Quiet(b)', drift[b] = "none",
                      heap'[checks[b]].state # "Unknown"
               PROVE  InRotation(b)' <=> Serves(heap'[checks[b]].state)
    BY <1>4 DEF MarkFollowsState
  <2>1. /\ Registered(b) /\ checks[b] # None
        /\ \A m \in DOMAIN notes'[b] : notes'[b][m].check # checks[b]
        /\ InRotation(b)' <=> InRotation(b)
    BY <1>4 DEF Registered, Quiet, InRotation
  <2>2. Quiet(b)
    BY <1>8, <2>1 DEF Quiet
  <2>3. heap'[checks[b]].state = heap[checks[b]].state
    <3>1. CASE b # a \/ checks[b] # k
      BY <1>9, <2>1, <3>1
    <3>2. CASE b = a /\ checks[b] = k
      <4>1. new.state = heap[k].state
        BY <1>6, <1>8, <2>1, <3>2
      <4> QED  BY <1>9, <3>2, <4>1
    <3> QED  BY <3>1, <3>2
  <2> QED  BY <2>1, <2>2, <2>3 DEF IInv, MarkFollowsState
<1> QED  BY <1>10, <1>11, <1>12, <1>13, <1>14, <1>15, <1>16 DEF IInv

\* A notification writes the mark.  Only when it comes from the registered
\* object and no earlier one of that object is still under way does the
\* history say that the mark is the checker's again.
LEMMA NotifyInv ==
  ASSUME IInv, NEW a \in Checked, NEW i \in DOMAIN notes[a], Notify(a, i)
  PROVE  IInv'
<1> DEFINE n     == notes[a][i]
           early == \E j \in 1 .. (i - 1) : notes[a][j].check = n.check
<1>1. /\ TypeOK /\ pool \in Pool /\ Named(pool) /\ drift \in [Checked -> Drift]
      /\ notes \in [Checked -> Seq(Note)]
  BY DEF IInv, TypeOK, SoundPool, Note
<1>2. /\ pool' = Mark(pool, a, n.healthy)
      /\ notes' = [notes EXCEPT ![a] = RemoveAt(@, i)]
      /\ n.check # checks[a] => drift' = Marked(pool')
      /\ n.check = checks[a] =>
           drift' = [drift EXCEPT ![a] =
                       IF early \/ @ = "overtaken" THEN "overtaken" ELSE "none"]
      /\ UNCHANGED <<up, checks, probes, engine, turn, retuned>>
      /\ heap' = Collected(heap)
  BY DEF Notify
\* The objects that are registered stay.
<1>16. /\ heap' \in [CheckId -> Check]
       /\ \A b \in Checked : checks[b] # None => heap'[checks[b]] = heap[checks[b]]
  <2>1. heap \in [CheckId -> Check] /\ checks' \in [Checked -> CheckId \cup {None}]
    BY <1>1, <1>2 DEF TypeOK
  <2> QED  BY <1>2, <2>1, CollectedKeeps
<1>3. n \in Note /\ n.healthy \in BOOLEAN
  <2>1. notes[a][i] \in Note
    BY <1>1
  <2> QED  BY <2>1 DEF Note
<1>4. /\ pool' \in Pool /\ Named(pool')
      /\ AddressesOf(pool') = AddressesOf(pool)
      /\ a \in AddressesOf(pool) => (Serving(pool', a) <=> n.healthy)
      /\ \A b : b # a => (Serving(pool', b) <=> Serving(pool, b))
  BY <1>1, <1>2, <1>3, MarkEffect
\* The others of the address stay in their order.
<1>5. /\ RemoveAt(notes[a], i) \in Seq(Note)
      /\ Len(notes[a]) \in Nat /\ DOMAIN notes[a] = 1 .. Len(notes[a])
      /\ Len(RemoveAt(notes[a], i)) = Len(notes[a]) - 1
      /\ DOMAIN RemoveAt(notes[a], i) = 1 .. (Len(notes[a]) - 1)
      /\ \A j \in 1 .. (Len(notes[a]) - 1) :
           /\ j < i => RemoveAt(notes[a], i)[j] = notes[a][j]
           /\ j >= i => RemoveAt(notes[a], i)[j] = notes[a][j + 1]
  BY <1>1, RemoveAtProperties
<1>6. /\ notes'[a] = RemoveAt(notes[a], i)
      /\ \A b \in Checked : b # a => notes'[b] = notes[b]
      /\ notes' \in [Checked -> Seq(Note)]
  BY <1>1, <1>2, <1>5
<1>7. /\ \A j \in DOMAIN notes'[a] :
           /\ j < i => j \in DOMAIN notes[a] /\ notes'[a][j] = notes[a][j]
           /\ j >= i => j + 1 \in DOMAIN notes[a] /\ notes'[a][j] = notes[a][j + 1]
      /\ \A m \in DOMAIN notes[a] :
           /\ m < i => m \in DOMAIN notes'[a] /\ notes'[a][m] = notes[a][m]
           /\ m > i => m - 1 \in DOMAIN notes'[a] /\ notes'[a][m - 1] = notes[a][m]
      /\ i \in Nat /\ DOMAIN notes'[a] \subseteq Nat /\ DOMAIN notes[a] \subseteq Nat
  <2>1. ASSUME NEW m \in DOMAIN notes[a], m > i
        PROVE  m - 1 \in DOMAIN notes'[a] /\ notes'[a][m - 1] = notes[a][m]
    <3>1. m - 1 \in 1 .. (Len(notes[a]) - 1) /\ m - 1 >= i /\ (m - 1) + 1 = m
      BY <1>5, <2>1
    <3> QED  BY <1>5, <1>6, <3>1
  <2> HIDE DEF n
  <2>2. /\ i \in 1 .. Len(notes[a]) /\ i \in Nat
        /\ DOMAIN notes'[a] = 1 .. (Len(notes[a]) - 1)
    BY <1>1, <1>5, <1>6
  <2>3. ASSUME NEW j \in DOMAIN notes'[a]
        PROVE  /\ j < i => j \in DOMAIN notes[a] /\ notes'[a][j] = notes[a][j]
               /\ j >= i => j + 1 \in DOMAIN notes[a] /\ notes'[a][j] = notes[a][j + 1]
    <3>1. j \in 1 .. (Len(notes[a]) - 1)
      BY <2>2, <2>3
    <3>2. j \in 1 .. Len(notes[a]) /\ j + 1 \in 1 .. Len(notes[a])
      BY <1>5, <3>1
    <3> QED  BY <1>5, <1>6, <3>1, <3>2
  <2>4. ASSUME NEW m \in DOMAIN notes[a], m < i
        PROVE  m \in DOMAIN notes'[a] /\ notes'[a][m] = notes[a][m]
    <3>1. m \in 1 .. (Len(notes[a]) - 1)
      BY <1>5, <2>2, <2>4
    <3> QED  BY <1>5, <1>6, <2>4, <3>1
  <2>5. DOMAIN notes'[a] \subseteq Nat /\ DOMAIN notes[a] \subseteq Nat
    BY <1>5, <2>2
  <2> QED  BY <2>1, <2>2, <2>3, <2>4, <2>5
<1>8. ASSUME NEW b \in Checked, NEW j \in DOMAIN notes'[b]
      PROVE  \E m \in DOMAIN notes[b] : notes'[b][j] = notes[b][m]
  <2>1. CASE b = a
    <3>1. j < i \/ j >= i
      BY <1>7, <2>1
    <3> QED  BY <1>7, <2>1, <3>1
  <2> QED  BY <1>6, <2>1
<1> HIDE DEF n, early
\* What the history of an address can have become.
<1>9. /\ drift' \in [Checked -> Drift]
      /\ \A b \in Checked : drift'[b] # "overtaken" => drift[b] # "overtaken"
      /\ \A b \in Checked : drift'[b] = "none" /\ (b # a \/ n.check # checks[a]) =>
           drift[b] = "none" /\ (Serving(pool', b) <=> Serving(pool, b))
      /\ n.check = checks[a] /\ drift'[a] # "overtaken" => ~early
  <2>1. CASE n.check # checks[a]
    BY <1>1, <1>2, <2>1, MarkedKeeps
  <2>2. CASE n.check = checks[a]
    <3>1. "overtaken" \in Drift /\ "none" \in Drift
      BY DEF Drift
    <3>2. /\ drift' \in [Checked -> Drift]
          /\ \A b \in Checked : b # a => drift'[b] = drift[b]
          /\ drift'[a] # "overtaken" => ~early /\ drift[a] # "overtaken"
      BY <1>1, <1>2, <2>2, <3>1
    <3> QED  BY <1>4, <2>2, <3>2
  <2> QED  BY <2>1, <2>2
<1>10. TypeOK'
  <2>1. ASSUME NEW b \in Checked
        PROVE  Len(probes[b]) + Len(notes'[b]) <= MaxProbes
    <3>1. /\ MaxProbes \in Nat /\ Len(probes[b]) \in Nat /\ Len(notes[b]) \in Nat
          /\ Len(probes[b]) + Len(notes[b]) <= MaxProbes
      <4>1. MaxProbes \in Nat
        BY RotationAssumption
      <4>2. TypeOK
        BY <1>1
      <4>3. Len(probes[b]) + Len(notes[b]) <= MaxProbes
        BY <4>2, WorkBounded
      <4>4. Len(probes[b]) \in Nat /\ Len(notes[b]) \in Nat
        BY <4>2 DEF TypeOK
      <4> QED  BY <4>1, <4>3, <4>4
    <3>2. Len(notes'[b]) \in Nat /\ Len(notes'[b]) <= Len(notes[b])
      <4>1. CASE b = a
        BY <1>5, <1>6, <4>1
      <4> QED  BY <1>6, <3>1, <4>1
    <3>3. \A p, q, t, m \in Nat : p + q <= m /\ t <= q => p + t <= m
      OBVIOUS
    <3> QED  BY <3>1, <3>2, <3>3
  <2> QED  BY <1>1, <1>2, <1>4, <1>6, <1>9, <1>16, <2>1 DEF TypeOK, Note
<1>11. SoundPool' /\ ChecksServed'
  BY <1>2, <1>4 DEF IInv, SoundPool, ChecksServed
<1>12. RoomToRegister'
  <2>1. \A x : Points(checks', probes', notes', x) => Points(checks, probes, notes, x)
    BY <1>2, <1>8 DEF Points
  <2>2. InUse' \subseteq InUse
    BY <2>1, InUseMeans
  <2> QED  BY <1>2, <1>4, <2>2 DEF IInv, RoomToRegister
<1>13. ObjectsApart' /\ ChecksConsistent'
  BY <1>2, <1>16 DEF IInv, ObjectsApart, ChecksConsistent
<1>14. NewestIsCurrent'
  <2> SUFFICES ASSUME NEW b \in Checked, checks[b] # None, drift'[b] # "overtaken",
                      NEW j \in DOMAIN notes'[b], Newest(b, j)'
               PROVE  notes'[b][j].healthy <=> Serves(heap[checks[b]].state)
    BY <1>2, <1>16 DEF NewestIsCurrent
  <2>1. /\ notes'[b][j].check = checks[b]
        /\ \A m \in DOMAIN notes'[b] : m > j => notes'[b][m].check # checks[b]
    BY <1>2 DEF Newest
  <2>2. drift[b] # "overtaken"
    BY <1>9
  <2>3. CASE b # a
    <3>1. notes'[b] = notes[b]
      BY <1>6, <2>3
    <3>2. j \in DOMAIN notes[b] /\ Newest(b, j)
      BY <2>1, <3>1 DEF Newest
    <3>3. notes[b][j].healthy <=> Serves(heap[checks[b]].state)
      BY <2>2, <3>2 DEF IInv, NewestIsCurrent
    <3> QED  BY <3>1, <3>3
  <2>4. CASE b = a
    <3>1. CASE j < i
      \* The one that has gone was behind it: it is not of this object.
      <4>1. n.check # checks[a]
        BY <1>5, <1>7, <1>9, <2>1, <2>4, <3>1 DEF early
      <4>2. ASSUME NEW m \in DOMAIN notes[a], m > j
            PROVE  notes[a][m].check # checks[a]
        <5>1. CASE m < i
          BY <1>7, <2>1, <2>4, <4>2, <5>1
        <5>2. CASE m = i
          BY <4>1, <5>2 DEF n
        <5>3. CASE m > i
          <6>1. m - 1 \in DOMAIN notes'[a] /\ notes'[a][m - 1] = notes[a][m] /\ m - 1 > j
            BY <1>7, <2>4, <3>1, <5>3
          <6> QED  BY <2>1, <2>4, <6>1
        <5> QED  BY <1>7, <5>1, <5>2, <5>3
      <4>3. /\ j \in DOMAIN notes[a] /\ notes'[a][j] = notes[a][j]
            /\ Newest(a, j)
        BY <1>7, <2>1, <2>4, <3>1, <4>2 DEF Newest
      <4> QED  BY <2>2, <2>4, <4>3 DEF IInv, NewestIsCurrent
    <3>2. CASE j >= i
      <4>1. j + 1 \in DOMAIN notes[a] /\ notes'[a][j] = notes[a][j + 1]
        BY <1>7, <2>4, <3>2
      <4>2. ASSUME NEW m \in DOMAIN notes[a], m > j + 1
            PROVE  notes[a][m].check # checks[a]
        <5>1. m - 1 \in DOMAIN notes'[a] /\ notes'[a][m - 1] = notes[a][m] /\ m - 1 > j
          BY <1>7, <2>4, <3>2, <4>2
        <5> QED  BY <2>1, <2>4, <5>1
      <4>3. Newest(a, j + 1)
        BY <2>1, <2>4, <4>1, <4>2 DEF Newest
      <4> QED  BY <2>2, <2>4, <4>1, <4>3 DEF IInv, NewestIsCurrent
    <3> QED  BY <1>7, <2>4, <3>1, <3>2
  <2> QED  BY <2>3, <2>4
<1>15. MarkFollowsState'
  <2> SUFFICES ASSUME NEW b \in Checked, Registered(b)', Quiet(b)', drift'[b] = "none",
                      heap[checks[b]].state # "Unknown"
               PROVE  Serving(pool', b) <=> Serves(heap[checks[b]].state)
    BY <1>2, <1>16 DEF MarkFollowsState, InRotation, Serving, Registered
  <2>1. /\ checks[b] # None /\ b \in AddressesOf(pool)
        /\ \A m \in DOMAIN notes'[b] : notes'[b][m].check # checks[b]
    BY <1>2, <1>4 DEF Registered, Quiet
  <2>2. CASE b # a \/ n.check # checks[a]
    <3>1. drift[b] = "none" /\ (Serving(pool', b) <=> Serving(pool, b))
      BY <1>9, <2>2
    <3>2. Quiet(b)
      <4>1. CASE b # a
        BY <1>6, <2>1, <4>1 DEF Quiet
      <4>2. CASE b = a
        <5>1. ASSUME NEW m \in DOMAIN notes[a]
              PROVE  notes[a][m].check # checks[a]
          <6>1. CASE m = i
            BY <2>2, <4>2, <6>1 DEF n
          <6>2. CASE m < i \/ m > i
            BY <1>7, <2>1, <4>2, <6>2
          <6> QED  BY <1>7, <6>1, <6>2
        <5> QED  BY <4>2, <5>1 DEF Quiet
      <4> QED  BY <4>1, <4>2
    <3>3. Registered(b)
      BY <2>1 DEF Registered
    <3>4. InRotation(b) <=> Serves(heap[checks[b]].state)
      BY <3>1, <3>2, <3>3 DEF IInv, MarkFollowsState
    <3> QED  BY <3>1, <3>4 DEF InRotation, Serving
  <2>3. CASE b = a /\ n.check = checks[a]
    \* It was the last one of its object, and the newest.
    <3>1. ASSUME NEW m \in DOMAIN notes[a], m > i
          PROVE  notes[a][m].check # checks[a]
      BY <1>7, <2>1, <2>3, <3>1
    <3>2. Newest(a, i)
      BY <2>3, <3>1 DEF Newest, n
    <3>3. drift[a] # "overtaken"
      BY <1>9, <2>3
    <3>4. n.healthy <=> Serves(heap[checks[a]].state)
      BY <2>1, <2>3, <3>2, <3>3 DEF IInv, NewestIsCurrent, n
    <3> QED  BY <1>4, <2>1, <2>3, <3>4
  <2> QED  BY <2>2, <2>3
<1> QED  BY <1>10, <1>11, <1>12, <1>13, <1>14, <1>15 DEF IInv

LEMMA NextInv == IInv /\ [Next]_vars => IInv'
<1> SUFFICES ASSUME IInv, [Next]_vars
             PROVE  IInv'
  OBVIOUS
<1>1. CASE \E a \in Checked : StartProbe(a)
  BY <1>1, StartProbeInv
<1>2. CASE \E a \in Checked : Settling(a)
  BY <1>2, SettleInv DEF Settling
<1>3. CASE \E a \in Checked : Notifying(a)
  BY <1>3, NotifyInv DEF Notifying
<1>4. CASE \E a \in Checked, h \in DockerSays : AddRoute(a, h)
  BY <1>4, AddRouteInv
<1>5. CASE \E a \in Checked : RemoveRoute(a)
  BY <1>5, RemoveRouteInv
<1>6. CASE \E a \in Checked : RequestFails(a)
  BY <1>6, RequestFailsInv
<1>7. CASE \/ \E a \in Checked : RequestSucceeds(a) \/ Turn(a)
           \/ \E b \in Addresses \ Checked, h \in BOOLEAN : OtherNotify(b, h)
  BY <1>7, BystanderInv
<1>8. CASE Register
  BY <1>8, RegisterInv
<1>9. CASE Sweep
  BY <1>9, SweepInv
<1>10. CASE UNCHANGED vars
  <2>1. UNCHANGED <<pool, up, heap, checks, probes, notes, engine, turn, drift, retuned>>
    BY <1>10 DEF vars
  <2>2. TypeOK' /\ SoundPool' /\ ChecksServed'
    BY <2>1 DEF IInv, TypeOK, SoundPool, ChecksServed
  <2>3. InUse' = InUse
    BY <2>1 DEF InUse
  <2>4. RoomToRegister' /\ ObjectsApart' /\ ChecksConsistent'
    BY <2>1, <2>3 DEF IInv, RoomToRegister, ObjectsApart, ChecksConsistent
  <2>5. NewestIsCurrent'
    BY <2>1 DEF IInv, NewestIsCurrent, Newest
  <2>6. MarkFollowsState'
    BY <2>1 DEF IInv, MarkFollowsState, Registered, Quiet, InRotation
  <2> QED  BY <2>2, <2>4, <2>5, <2>6 DEF IInv
<1> QED  BY <1>1, <1>2, <1>3, <1>4, <1>5, <1>6, <1>7, <1>8, <1>9, <1>10 DEF Next

LEMMA InvariantHolds == Spec => []IInv
<1> QED  BY InitInv, NextInv, PTL DEF Spec

-----------------------------------------------------------------------------
(* The theorems. *)

\* The pool, the check objects and everything that points at them keep their
\* types, and Register always finds an object to give out.
THEOREM TypeCorrect == Spec => []TypeOK
<1>1. IInv => TypeOK
  BY DEF IInv
<1> QED  BY <1>1, InvariantHolds, PTL

\* However probes overlap and registrations come and go (checkOne), the state
\* of a registered check is the one its counters account for.
THEOREM ConsistentCorrect == Spec => []ChecksConsistent
<1>1. IInv => ChecksConsistent
  BY DEF IInv
<1> QED  BY <1>1, InvariantHolds, PTL

\* Once every callback of its check has run (SetBackendHealth), a backend is in
\* rotation exactly if its check's state says so, unless discovery, a failed
\* request or two callbacks in the wrong order have come in between.
THEOREM MarkCorrect == Spec => []MarkFollowsState
<1>1. IInv => MarkFollowsState
  BY DEF IInv
<1> QED  BY <1>1, InvariantHolds, PTL

=============================================================================
