--------------------------- MODULE Limits_proofs ----------------------------
(***************************************************************************)
(* The safety properties of Limits, for any number of clients and requests *)
(* and any thresholds, sizes and rates.                                    *)
(***************************************************************************)
EXTENDS Limits, FiniteSetTheorems, TLAPS

-----------------------------------------------------------------------------
(* Quantities. *)

LEMMA FullIs ==
  /\ Full \in Nat /\ Full >= Unit
  /\ Unit \in Nat /\ Unit >= 1
  /\ Most \in Nat /\ Most = Full + Unit
  /\ IdleMax \in Nat
  /\ IdleCap \in Nat /\ IdleCap >= Full /\ IdleCap > IdleMax
<1>1. MaxSize \in Nat /\ MaxSize >= 1 /\ Unit \in Nat /\ Unit >= 1 /\ IdleMax \in Nat
  BY ConstantsAssumption
<1>2. MaxSize * Unit \in Nat /\ MaxSize * Unit >= Unit
  BY <1>1
<1>3. (MaxSize + 1) * Unit = MaxSize * Unit + Unit
  BY <1>1
<1>4. QED BY <1>1, <1>2, <1>3 DEF Full, Most, IdleCap

\* A bucket holds no more than its size when it is refilled.
LEMMA RefilledIs ==
  ASSUME NEW b \in Bucket
  PROVE  /\ Refilled(b) \in 0 .. Full
         /\ Refilled(b) <= b.tokens + b.idle
         /\ b.tokens + b.idle <= Full => Refilled(b) = b.tokens + b.idle
         /\ b.tokens \in 0 .. Full /\ b.idle \in 0 .. IdleCap
         /\ b.tokens <= Refilled(b)
  BY FullIs DEF Bucket, Refilled, Least

LEMMA NoneIsNoBucket == None \notin Bucket
<1>1. \A b \in Bucket : b \in [tokens: Int, idle: Int]
  BY FullIs DEF Bucket
<1>2. QED BY <1>1, NoneAssumption

\* What a client owes after one more token.
LEMMA ChargeIs ==
  ASSUME debt \in [Clients -> 0 .. (Most + Unit)], NEW c \in Clients, Charge(c)
  PROVE  /\ debt' \in [Clients -> 0 .. (Most + Unit)]
         /\ debt'[c] <= debt[c] + Unit
         /\ \A d \in Clients \ {c} : debt'[d] = debt[d]
  BY FullIs DEF Charge, Least

-----------------------------------------------------------------------------
(* Types. *)

Breaker == [state: {"closed", "open", "halfopen"},
            failures: 0 .. Threshold, successes: 0 .. SuccessMin - 1]

BucketsOK == buckets \in [Clients -> Bucket \cup {None}] /\ Cardinality(Present) <= MaxBuckets

LEMMA PresentIsFinite ==
  /\ IsFiniteSet(Present) /\ Cardinality(Present) \in Nat
  /\ IsFiniteSet(Present') /\ Cardinality(Present') \in Nat
<1>1. Present \in SUBSET Clients /\ Present' \in SUBSET Clients
  BY DEF Present
<1>2. QED BY <1>1, ClientsAssumption, FS_Subset, FS_CardinalityType

\* A limiter never keeps more buckets than it may.
LEMMA NewBucketKeepsBuckets ==
  ASSUME BucketsOK, NEW c \in Clients, NewBucket(c)
  PROVE  BucketsOK'
<1>1. PICK gone \in IF AtCapacity THEN {{d} : d \in Oldest} ELSE {{}} :
        buckets' = [d \in Clients |-> IF d = c THEN [tokens |-> Full, idle |-> 0]
                                      ELSE IF d \in gone THEN None ELSE buckets[d]]
  BY DEF NewBucket
<1>2. buckets[c] = None
  BY DEF NewBucket
<1>3. [tokens |-> Full, idle |-> 0] \in Bucket
  BY FullIs DEF Bucket
<1>4. buckets' \in [Clients -> Bucket \cup {None}]
  BY <1>1, <1>3 DEF BucketsOK
<1>5. [tokens |-> Full, idle |-> 0] # None
  BY <1>3, NoneIsNoBucket
<1>6. Present' = (Present \ gone) \cup {c} /\ c \notin Present
  BY <1>1, <1>2, <1>5 DEF Present
<1>7. MaxBuckets \in Nat /\ MaxBuckets >= 1
  BY ConstantsAssumption
<1>8. Cardinality(Present') <= MaxBuckets
  <2>1. CASE ~AtCapacity
    <3>1. gone = {}
      BY <1>1, <2>1
    <3>2. Present' = Present \cup {c}
      BY <1>6, <3>1
    <3>3. Cardinality(Present') = Cardinality(Present) + 1
      BY <1>6, <3>2, PresentIsFinite, FS_AddElement
    <3>4. QED BY <1>7, <2>1, <3>3, PresentIsFinite DEF AtCapacity
  <2>2. CASE AtCapacity
    <3>1. PICK d \in Oldest : gone = {d}
      BY <1>1, <2>2
    <3>2. d \in Present
      BY <3>1 DEF Oldest
    <3>3. /\ IsFiniteSet(Present \ {d})
          /\ Cardinality(Present \ {d}) = Cardinality(Present) - 1
      BY <3>2, PresentIsFinite, FS_RemoveElement
    <3>4. Present' = (Present \ {d}) \cup {c} /\ c \notin Present \ {d}
      BY <1>6, <3>1
    <3>5. Cardinality(Present') = Cardinality(Present \ {d}) + 1
      BY <3>3, <3>4, FS_AddElement
    <3>6. QED BY <3>3, <3>5, PresentIsFinite DEF BucketsOK
  <2>3. QED BY <2>1, <2>2
<1>9. QED BY <1>4, <1>8 DEF BucketsOK

LEMMA FewerBuckets ==
  ASSUME BucketsOK, Present' \subseteq Present
  PROVE  Cardinality(Present') <= MaxBuckets
<1>1. Cardinality(Present') <= Cardinality(Present)
  BY PresentIsFinite, FS_Subset
<1>2. QED BY <1>1, PresentIsFinite, ConstantsAssumption DEF BucketsOK

\* What the breaker does to its state, whatever a request reports.
LEMMA RecordKeepsTypes ==
  ASSUME TypeOK, RecordSuccess \/ RecordFailure
  PROVE  /\ breaker' \in Breaker
         /\ past' \in BOOLEAN /\ streak' \in 0 .. Threshold /\ good' \in 0 .. SuccessMin
<1>1. Threshold \in Nat \ {0} /\ SuccessMin \in Nat \ {0}
  BY ConstantsAssumption
<1>2. breaker \in Breaker /\ past \in BOOLEAN /\ streak \in 0 .. Threshold /\ good \in 0 .. SuccessMin
  BY DEF TypeOK, Breaker
<1>3. ASSUME NEW n \in 0 .. Threshold
      PROVE  Least(n + 1, Threshold) \in 0 .. Threshold
  BY <1>1 DEF Least
<1>4. ASSUME NEW n \in 0 .. SuccessMin
      PROVE  Least(n + 1, SuccessMin) \in 0 .. SuccessMin
  BY <1>1 DEF Least
<1>5. CASE RecordSuccess
  <2>1. past' \in BOOLEAN /\ streak' \in 0 .. Threshold /\ good' \in 0 .. SuccessMin
    BY <1>1, <1>2, <1>4, <1>5 DEF RecordSuccess
  <2>2. CASE breaker.state = "open"
    BY <1>2, <1>5, <2>1, <2>2 DEF RecordSuccess
  <2>3. CASE breaker.state = "closed"
    BY <1>1, <1>2, <1>5, <2>1, <2>3 DEF RecordSuccess, Breaker
  <2>4. CASE breaker.state = "halfopen" /\ breaker.successes + 1 < SuccessMin
    BY <1>1, <1>2, <1>5, <2>1, <2>4 DEF RecordSuccess, Breaker
  <2>5. CASE breaker.state = "halfopen" /\ ~(breaker.successes + 1 < SuccessMin)
    <3>1. breaker' = [state |-> "closed", failures |-> 0, successes |-> 0]
      BY <1>5, <2>5 DEF RecordSuccess
    <3>2. QED BY <1>1, <2>1, <3>1 DEF Breaker
  <2>6. QED BY <1>2, <2>2, <2>3, <2>4, <2>5 DEF Breaker
<1>6. CASE RecordFailure
  <2>1. past' \in BOOLEAN /\ streak' \in 0 .. Threshold /\ good' \in 0 .. SuccessMin
    <3>1. past' = FALSE /\ streak' = Least(streak + 1, Threshold) /\ good' = 0
      BY <1>6 DEF RecordFailure
    <3>2. 0 \in 0 .. SuccessMin
      BY <1>1
    <3>3. QED BY <1>2, <1>3, <3>1, <3>2
  <2>2. Least(breaker.failures + 1, Threshold) \in 0 .. Threshold
    BY <1>2, <1>3 DEF Breaker
  <2>3. breaker' \in Breaker
    BY <1>2, <1>6, <2>2 DEF RecordFailure, Breaker
  <2>4. QED BY <2>1, <2>3
<1>7. QED BY <1>5, <1>6

LEMMA AllowKeepsTypes ==
  ASSUME TypeOK, Allow
  PROVE  /\ breaker' \in Breaker
         /\ good' \in 0 .. SuccessMin
<1>1. SuccessMin \in Nat \ {0}
  BY ConstantsAssumption
<1>2. breaker \in Breaker /\ good \in 0 .. SuccessMin
  BY DEF TypeOK, Breaker
<1>3. HalfOpened \in Breaker
  <2>1. 0 \in 0 .. (SuccessMin - 1)
    BY <1>1
  <2>2. [breaker EXCEPT !.state = "halfopen"] \in Breaker
    BY <1>2 DEF Breaker
  <2>3. ASSUME NEW b \in Breaker PROVE [b EXCEPT !.successes = 0] \in Breaker
    BY <2>1 DEF Breaker
  <2>4. HalfOpened = [[breaker EXCEPT !.state = "halfopen"] EXCEPT !.successes = 0]
    BY DEF HalfOpened
  <2>5. QED BY <2>2, <2>3, <2>4
<1>4. QED BY <1>1, <1>2, <1>3 DEF Allow

\* The limiter's half of an admission.
LEMMA AdmissionKeepsTypes ==
  ASSUME TypeOK, NEW c \in Clients, NewBucket(c) \/ TakeToken(c) \/ NoToken(c)
  PROVE  BucketsOK' /\ debt' \in [Clients -> 0 .. (Most + Unit)] /\ evicted' \subseteq Clients
<1>0. BucketsOK
  BY DEF TypeOK, BucketsOK
<1>1. CASE NewBucket(c)
  <2>1. BucketsOK'
    BY <1>0, <1>1, NewBucketKeepsBuckets
  <2>2. debt' \in [Clients -> 0 .. (Most + Unit)]
    BY <1>1, ChargeIs DEF NewBucket, TypeOK
  <2>3. evicted' \subseteq Clients
    <3>1. PICK gone : evicted' = evicted \cup {d \in gone : debt[d] > 0} /\ gone \subseteq Clients
      BY <1>1 DEF NewBucket, Oldest, Present
    <3>2. QED BY <3>1 DEF TypeOK
  <2>4. QED BY <2>1, <2>2, <2>3
<1>2. CASE TakeToken(c) \/ NoToken(c)
  <2>1. buckets[c] \in Bucket
    BY <1>2 DEF TypeOK, TakeToken, NoToken
  <2>2. PICK b \in Bucket : buckets' = [buckets EXCEPT ![c] = b]
    <3>1. CASE TakeToken(c)
      <4>1. [tokens |-> Refilled(buckets[c]) - Unit, idle |-> 0] \in Bucket
        BY <2>1, <3>1, RefilledIs, FullIs DEF Bucket, TakeToken
      <4>2. QED BY <3>1, <4>1 DEF TakeToken
    <3>2. CASE NoToken(c)
      <4>1. [tokens |-> Refilled(buckets[c]), idle |-> 0] \in Bucket
        BY <2>1, RefilledIs, FullIs DEF Bucket
      <4>2. QED BY <3>2, <4>1 DEF NoToken
    <3>3. QED BY <1>2, <3>1, <3>2
  <2>3. buckets' \in [Clients -> Bucket \cup {None}]
    BY <2>2 DEF TypeOK
  <2>4. Present' \subseteq Present
    BY <2>1, <2>2, NoneIsNoBucket DEF Present, TypeOK
  <2>5. BucketsOK'
    BY <1>0, <2>3, <2>4, FewerBuckets DEF BucketsOK
  <2>6. debt' \in [Clients -> 0 .. (Most + Unit)] /\ evicted' \subseteq Clients
    BY <1>2, ChargeIs DEF TakeToken, NoToken, TypeOK
  <2>7. QED BY <2>5, <2>6
<1>3. QED BY <1>1, <1>2

LEMMA ArriveKeepsTypes ==
  ASSUME TypeOK, NEW r \in Requests, NEW c \in Clients, Arrive(r, c)
  PROVE  TypeOK'
<1>1. reqs' \in [Requests -> {"idle", "backend", "refused"}]
  BY DEF Arrive, TypeOK
<1>2. BucketsOK' /\ debt' \in [Clients -> 0 .. (Most + Unit)] /\ evicted' \subseteq Clients
  BY AdmissionKeepsTypes DEF Arrive
<1>3. /\ breaker' \in Breaker
      /\ good' \in 0 .. SuccessMin
  BY AllowKeepsTypes DEF Arrive
<1>4. /\ past' \in BOOLEAN /\ streak' \in 0 .. Threshold /\ up' \in BOOLEAN
      /\ pause' \in [Clients -> 0 .. IdleMax + 1]
  BY FullIs DEF Arrive, TypeOK
<1>5. QED BY <1>1, <1>2, <1>3, <1>4 DEF TypeOK, BucketsOK, Breaker

\* A tick and a clean-up leave no bucket behind where there was none.
LEMMA TickKeepsTypes ==
  ASSUME TypeOK, Tick \/ Cleanup
  PROVE  /\ BucketsOK' /\ evicted' \subseteq Clients
         /\ debt' \in [Clients -> 0 .. (Most + Unit)]
         /\ pause' \in [Clients -> 0 .. IdleMax + 1]
<1>0. BucketsOK
  BY DEF TypeOK, BucketsOK
<1>1. CASE Tick
  <2>1. ASSUME NEW c \in Clients, buckets[c] # None
        PROVE  [buckets[c] EXCEPT !.idle = Least(@ + 1, IdleCap)] \in Bucket
    <3>1. buckets[c] \in Bucket
      BY <2>1 DEF TypeOK
    <3>2. Least(buckets[c].idle + 1, IdleCap) \in 0 .. IdleCap
      BY <3>1, FullIs DEF Bucket, Least
    <3>3. QED BY <3>1, <3>2 DEF Bucket
  <2>2. buckets' \in [Clients -> Bucket \cup {None}]
    BY <1>1, <2>1 DEF Tick
  <2>3. Present' \subseteq Present
    BY <1>1 DEF Tick, Present
  <2>4. BucketsOK'
    BY <1>0, <2>2, <2>3, FewerBuckets DEF BucketsOK
  <2>5. ASSUME NEW c \in Clients
        PROVE  /\ (IF debt[c] = 0 \/ pause[c] >= IdleMax THEN 0 ELSE debt[c] - 1)
                    \in 0 .. (Most + Unit)
               /\ Least(pause[c] + 1, IdleMax + 1) \in 0 .. IdleMax + 1
    <3>1. debt[c] \in 0 .. (Most + Unit) /\ pause[c] \in 0 .. IdleMax + 1
      BY DEF TypeOK
    <3>2. QED BY <3>1, FullIs DEF Least
  <2>6. /\ debt' \in [Clients -> 0 .. (Most + Unit)]
        /\ pause' \in [Clients -> 0 .. IdleMax + 1]
    BY <1>1, <2>5 DEF Tick
  <2>7. evicted' \subseteq Clients
    BY <1>1 DEF Tick, TypeOK
  <2>8. QED BY <2>4, <2>6, <2>7
<1>2. CASE Cleanup
  <2>1. buckets' \in [Clients -> Bucket \cup {None}]
    BY <1>2 DEF Cleanup, TypeOK
  <2>2. Present' \subseteq Present
    BY <1>2 DEF Cleanup, Present
  <2>3. BucketsOK'
    BY <1>0, <2>1, <2>2, FewerBuckets DEF BucketsOK
  <2>4. QED BY <1>2, <2>3 DEF Cleanup, TypeOK
<1>3. QED BY <1>1, <1>2

\* Every variable keeps its type; with it a limiter keeps no more buckets than
\* maxBuckets, however many clients come (RateLimiter.allow in ratelimit.go).
THEOREM TypeCorrect == Spec => []TypeOK
<1>1. Init => TypeOK
  <2>1. SUFFICES ASSUME Init PROVE TypeOK
    OBVIOUS
  <2>2. Present = {}
    BY <2>1 DEF Init, Present
  <2>3. Cardinality(Present) = 0
    BY <2>2, FS_EmptySet
  <2>4. Threshold \in Nat \ {0} /\ SuccessMin \in Nat \ {0} /\ MaxBuckets \in Nat \ {0}
    BY ConstantsAssumption
  <2>5. /\ breaker \in Breaker
        /\ streak \in 0 .. Threshold /\ good \in 0 .. SuccessMin
    BY <2>1, <2>4 DEF Init, Breaker
  <2>6. /\ reqs \in [Requests -> {"idle", "backend", "refused"}]
        /\ buckets \in [Clients -> Bucket \cup {None}]
        /\ debt \in [Clients -> 0 .. (Most + Unit)]
        /\ pause \in [Clients -> 0 .. IdleMax + 1]
    BY <2>1, FullIs DEF Init
  <2>7. past \in BOOLEAN /\ up \in BOOLEAN /\ evicted \subseteq Clients
    BY <2>1 DEF Init
  <2>8. Cardinality(Present) <= MaxBuckets
    BY <2>3, <2>4
  <2>9. QED BY <2>5, <2>6, <2>7, <2>8 DEF TypeOK, Breaker
<1>2. TypeOK /\ [Next]_vars => TypeOK'
  <2>1. SUFFICES ASSUME TypeOK, [Next]_vars PROVE TypeOK'
    OBVIOUS
  <2>2. ASSUME NEW r \in Requests, NEW c \in Clients, Arrive(r, c) PROVE TypeOK'
    BY <2>1, <2>2, ArriveKeepsTypes
  <2>3. ASSUME UNCHANGED limiter PROVE BucketsOK' /\ debt' = debt /\ pause' = pause /\ evicted' = evicted
    BY <2>1, <2>3 DEF limiter, TypeOK, BucketsOK, Present
  <2>4. ASSUME NEW r \in Requests, Refused(r) \/ Succeeds(r) \/ Fails(r) PROVE TypeOK'
    <3>1. reqs' \in [Requests -> {"idle", "backend", "refused"}] /\ up' = up
      BY <2>1, <2>4 DEF Refused, Succeeds, Fails, TypeOK
    <3>2. RecordSuccess \/ RecordFailure
      BY <2>4 DEF Refused, Succeeds, Fails
    <3>3. BucketsOK' /\ debt' = debt /\ pause' = pause /\ evicted' = evicted
      BY <2>3, <2>4 DEF Refused, Succeeds, Fails
    <3>4. QED BY <2>1, <3>1, <3>2, <3>3, RecordKeepsTypes DEF TypeOK, BucketsOK, Breaker
  <2>5. ASSUME NEW r \in Requests, Aborts(r) PROVE TypeOK'
    <3>1. reqs' \in [Requests -> {"idle", "backend", "refused"}]
      BY <2>1, <2>5 DEF Aborts, TypeOK
    <3>2. BucketsOK' /\ debt' = debt /\ pause' = pause /\ evicted' = evicted
      BY <2>3, <2>5 DEF Aborts
    <3>3. QED BY <2>1, <2>5, <3>1, <3>2 DEF Aborts, record, TypeOK, BucketsOK
  <2>6. ASSUME WindowPasses \/ BackendChanges PROVE TypeOK'
    <3>1. BucketsOK' /\ debt' = debt /\ pause' = pause /\ evicted' = evicted
      BY <2>3, <2>6 DEF WindowPasses, BackendChanges
    <3>2. QED BY <2>1, <2>6, <3>1 DEF WindowPasses, BackendChanges, record, TypeOK, BucketsOK
  <2>7. ASSUME Tick \/ Cleanup PROVE TypeOK'
    <3>1. UNCHANGED <<record, reqs, up>>
      BY <2>7 DEF Tick, Cleanup
    <3>2. QED BY <2>1, <2>7, <3>1, TickKeepsTypes DEF record, TypeOK, BucketsOK
  <2>8. ASSUME UNCHANGED vars PROVE TypeOK'
    <3>1. BucketsOK' /\ debt' = debt /\ pause' = pause /\ evicted' = evicted
      BY <2>3, <2>8 DEF vars
    <3>2. QED BY <2>1, <2>8, <3>1 DEF vars, record, TypeOK, BucketsOK
  <2>9. QED BY <2>1, <2>2, <2>4, <2>5, <2>6, <2>7, <2>8 DEF Next
<1>3. QED BY <1>1, <1>2, PTL DEF Spec

-----------------------------------------------------------------------------
(* The limit. *)

\* What a client with a bucket can still get and what it got add up to no more
\* than Most, ...
Balanced(b, owed) == Refilled(b) + owed <= Most

DebtInv ==
  \A c \in Clients \ evicted :
    /\ buckets[c] = None => debt[c] = 0
    /\ buckets[c] # None => Balanced(buckets[c], debt[c])

\* ... and by the time cleanup may take the bucket it owes nothing: a client
\* without a bucket has nothing to gain by a new one.
PauseInv ==
  \A c \in Clients :
    /\ pause[c] > IdleMax => debt[c] = 0
    /\ buckets[c] # None => buckets[c].idle <= pause[c] \/ pause[c] > IdleMax

LEMMA TakenIsBalanced ==
  ASSUME NEW b \in Bucket, NEW owed \in Nat, NEW more \in Nat, Balanced(b, owed),
         Refilled(b) >= Unit, more <= owed + Unit
  PROVE  Balanced([tokens |-> Refilled(b) - Unit, idle |-> 0], more)
<1>1. /\ Refilled(b) \in 0 .. Full /\ Refilled(b) + owed <= Most
      /\ Full \in Nat /\ Unit \in Nat /\ Most = Full + Unit
  BY RefilledIs, FullIs DEF Balanced
<1>2. Refilled([tokens |-> Refilled(b) - Unit, idle |-> 0]) = Refilled(b) - Unit
  BY <1>1 DEF Refilled, Least
<1>3. more <= Most
  BY <1>1
<1>4. QED BY <1>1, <1>2, <1>3 DEF Balanced

LEMMA RefusedIsBalanced ==
  ASSUME NEW b \in Bucket, NEW owed \in Nat, Balanced(b, owed)
  PROVE  Balanced([tokens |-> Refilled(b), idle |-> 0], owed)
<1>1. /\ Refilled(b) \in 0 .. Full /\ Refilled(b) + owed <= Most
      /\ Full \in Nat /\ Most \in Nat
  BY RefilledIs, FullIs DEF Balanced
<1>2. Refilled([tokens |-> Refilled(b), idle |-> 0]) = Refilled(b)
  BY <1>1 DEF Refilled, Least
<1>3. QED BY <1>1, <1>2 DEF Balanced

LEMMA WaitedIsBalanced ==
  ASSUME NEW b \in Bucket, NEW owed \in Nat, owed = 0 \/ Balanced(b, owed)
  PROVE  /\ [b EXCEPT !.idle = Least(@ + 1, IdleCap)] \in Bucket
         /\ owed = 0 => Balanced([b EXCEPT !.idle = Least(@ + 1, IdleCap)], 0)
         /\ owed # 0 => Balanced([b EXCEPT !.idle = Least(@ + 1, IdleCap)], owed - 1)
<1>1. /\ b.tokens \in 0 .. Full /\ b.idle \in 0 .. IdleCap
      /\ Full \in Nat /\ Most \in Nat /\ Most >= Full /\ IdleCap \in Nat
  BY RefilledIs, FullIs
<1> DEFINE later == [b EXCEPT !.idle = Least(@ + 1, IdleCap)]
<1>2. later.tokens = b.tokens /\ later.idle = Least(b.idle + 1, IdleCap)
  BY DEF Bucket
<1>3. later.idle \in 0 .. IdleCap /\ later.idle <= b.idle + 1
  BY <1>1, <1>2 DEF Least
<1>4. Refilled(later) <= Full /\ Refilled(later) <= Refilled(b) + 1
  BY <1>1, <1>2, <1>3 DEF Refilled, Least
<1>5. Refilled(later) \in Nat /\ Refilled(b) \in Nat
  BY <1>1, <1>2, <1>3 DEF Refilled, Least
<1>0. later \in Bucket
  BY <1>1, <1>3 DEF Bucket
<1> HIDE DEF later
<1>6. ASSUME owed = 0
      PROVE  Balanced(later, 0)
  BY <1>1, <1>4, <1>5 DEF Balanced
<1>7. ASSUME owed # 0
      PROVE  Balanced(later, owed - 1)
  BY <1>1, <1>4, <1>5, <1>7 DEF Balanced
<1>8. QED BY <1>0, <1>6, <1>7 DEF later

LEMMA AdmissionKeepsDebtInv ==
  ASSUME TypeOK, DebtInv, NEW c \in Clients, NewBucket(c) \/ TakeToken(c) \/ NoToken(c)
  PROVE  DebtInv'
<1>0. /\ debt \in [Clients -> Nat]
      /\ buckets \in [Clients -> Bucket \cup {None}]
  BY FullIs DEF TypeOK
<1>00. debt \in [Clients -> 0 .. (Most + Unit)]
  BY DEF TypeOK
<1>1. CASE NewBucket(c)
  <2>1. PICK gone \in IF AtCapacity THEN {{d} : d \in Oldest} ELSE {{}} :
          /\ buckets' = [d \in Clients |-> IF d = c THEN [tokens |-> Full, idle |-> 0]
                                          ELSE IF d \in gone THEN None ELSE buckets[d]]
          /\ evicted' = evicted \cup {d \in gone : debt[d] > 0}
    BY <1>1 DEF NewBucket
  <2>2. /\ debt' \in [Clients -> 0 .. (Most + Unit)]
        /\ debt'[c] <= debt[c] + Unit
        /\ \A d \in Clients \ {c} : debt'[d] = debt[d]
    BY <1>00, <1>1, ChargeIs DEF NewBucket
  <2>3. ASSUME NEW d \in Clients \ evicted', d # c
        PROVE  /\ buckets'[d] = None => debt'[d] = 0
               /\ buckets'[d] # None => Balanced(buckets'[d], debt'[d])
    <3>1. d \in Clients \ evicted /\ debt'[d] = debt[d] /\ debt[d] \in Nat
      BY <1>0, <2>1, <2>2, <2>3
    <3>2. CASE d \in gone
      BY <2>1, <2>3, <3>1, <3>2
    <3>3. CASE d \notin gone
      BY <2>1, <2>3, <3>1, <3>3 DEF DebtInv
    <3>4. QED BY <3>2, <3>3
  <2>4. ASSUME c \in Clients \ evicted'
        PROVE  buckets'[c] # None /\ Balanced(buckets'[c], debt'[c])
    <3>1. debt[c] = 0
      BY <1>1, <2>1, <2>4 DEF NewBucket, DebtInv
    <3>2. debt'[c] <= Unit /\ debt'[c] \in Nat
      BY <2>2, <3>1, FullIs
    <3>3. buckets'[c] = [tokens |-> Full, idle |-> 0]
      BY <2>1
    <3>4. [tokens |-> Full, idle |-> 0] \in Bucket
      BY FullIs DEF Bucket
    <3>5. Refilled([tokens |-> Full, idle |-> 0]) = Full
      BY FullIs DEF Refilled, Least
    <3>6. QED BY <3>2, <3>3, <3>4, <3>5, FullIs, NoneIsNoBucket DEF Balanced
  <2>5. QED BY <2>3, <2>4 DEF DebtInv
<1>2. CASE TakeToken(c) \/ NoToken(c)
  <2>1. /\ buckets[c] \in Bucket /\ buckets[c] # None /\ evicted' = evicted
        /\ \A d \in Clients \ {c} : buckets'[d] = buckets[d]
    BY <1>0, <1>2 DEF TakeToken, NoToken
  <2>2. /\ debt' \in [Clients -> 0 .. (Most + Unit)]
        /\ \A d \in Clients \ {c} : debt'[d] = debt[d]
    BY <1>00, <1>2, ChargeIs DEF TakeToken, NoToken
  <2>3. ASSUME c \notin evicted
        PROVE  buckets'[c] # None /\ Balanced(buckets'[c], debt'[c])
    <3>1. Balanced(buckets[c], debt[c]) /\ debt[c] \in Nat /\ debt'[c] \in Nat
      BY <1>0, <2>1, <2>2, <2>3, FullIs DEF DebtInv
    <3>2. CASE TakeToken(c)
      <4>1. /\ buckets'[c] = [tokens |-> Refilled(buckets[c]) - Unit, idle |-> 0]
            /\ Refilled(buckets[c]) >= Unit
        BY <1>0, <3>2 DEF TakeToken
      <4>2. debt'[c] <= debt[c] + Unit
        BY <1>00, <3>2, ChargeIs DEF TakeToken
      <4>3. [tokens |-> Refilled(buckets[c]) - Unit, idle |-> 0] \in Bucket
        BY <2>1, <4>1, RefilledIs, FullIs DEF Bucket
      <4>4. QED BY <2>1, <3>1, <4>1, <4>2, <4>3, TakenIsBalanced, NoneIsNoBucket
    <3>3. CASE NoToken(c)
      <4>1. buckets'[c] = [tokens |-> Refilled(buckets[c]), idle |-> 0] /\ debt'[c] = debt[c]
        BY <1>0, <3>3 DEF NoToken
      <4>2. [tokens |-> Refilled(buckets[c]), idle |-> 0] \in Bucket
        BY <2>1, RefilledIs, FullIs DEF Bucket
      <4>3. QED BY <2>1, <3>1, <4>1, <4>2, RefusedIsBalanced, NoneIsNoBucket
    <3>4. QED BY <1>2, <3>2, <3>3
  <2>4. QED BY <2>1, <2>2, <2>3 DEF DebtInv
<1>3. QED BY <1>1, <1>2

LEMMA TickKeepsDebtInv ==
  ASSUME TypeOK, DebtInv, Tick
  PROVE  DebtInv'
<1>1. SUFFICES ASSUME NEW c \in Clients, c \notin evicted'
               PROVE  /\ buckets'[c] = None => debt'[c] = 0
                      /\ buckets'[c] # None => Balanced(buckets'[c], debt'[c])
  BY DEF DebtInv
<1>2. /\ debt[c] \in Nat /\ debt'[c] \in Nat /\ buckets[c] \in Bucket \cup {None}
      /\ debt'[c] = 0 \/ (debt[c] # 0 /\ debt'[c] = debt[c] - 1)
      /\ c \in evicted => ~(debt'[c] > 0)
  <2>1. debt[c] \in Nat /\ buckets[c] \in Bucket \cup {None}
    BY FullIs DEF TypeOK
  <2>2. debt'[c] = IF debt[c] = 0 \/ pause[c] >= IdleMax THEN 0 ELSE debt[c] - 1
    BY DEF Tick
  <2>3. c \in evicted => ~(debt'[c] > 0)
    BY <1>1 DEF Tick
  <2>4. QED BY <2>1, <2>2, <2>3
<1>3. CASE buckets[c] = None
  <2>1. buckets'[c] = None
    BY <1>3 DEF Tick
  <2>2. debt[c] = 0 \/ debt'[c] = 0
    <3>1. c \in evicted => debt'[c] = 0
      BY <1>2
    <3>2. c \notin evicted => debt[c] = 0
      BY <1>3 DEF DebtInv
    <3>3. QED BY <3>1, <3>2
  <2>3. QED BY <1>2, <2>1, <2>2
<1>4. CASE buckets[c] # None
  <2> DEFINE later == [buckets[c] EXCEPT !.idle = Least(@ + 1, IdleCap)]
  <2>1. buckets[c] \in Bucket /\ buckets'[c] = later
    BY <1>2, <1>4 DEF Tick
  <2>2. 0 \in Nat /\ later \in Bucket /\ Balanced(later, 0)
    BY <2>1, WaitedIsBalanced
  <2>3. CASE debt'[c] = 0
    BY <2>1, <2>2, <2>3, NoneIsNoBucket
  <2>4. CASE debt'[c] # 0
    <3>1. c \notin evicted /\ debt[c] # 0 /\ debt'[c] = debt[c] - 1
      BY <1>2, <2>4
    <3>2. Balanced(buckets[c], debt[c])
      BY <1>4, <3>1 DEF DebtInv
    <3>3. Balanced(later, debt[c] - 1)
      BY <1>2, <2>1, <3>1, <3>2, WaitedIsBalanced
    <3>4. QED BY <2>1, <2>2, <3>1, <3>3, NoneIsNoBucket
  <2>5. QED BY <2>3, <2>4
<1>5. QED BY <1>3, <1>4

LEMMA CleanupKeepsDebtInv ==
  ASSUME TypeOK, DebtInv, PauseInv, Cleanup
  PROVE  DebtInv'
<1>1. SUFFICES ASSUME NEW c \in Clients, c \notin evicted
               PROVE  /\ buckets'[c] = None => debt[c] = 0
                      /\ buckets'[c] # None => Balanced(buckets'[c], debt[c])
  BY DEF DebtInv, Cleanup
<1>2. CASE c \in Present /\ buckets[c].idle > IdleMax
  <2>1. buckets[c] \in Bucket /\ buckets[c] # None /\ buckets'[c] = None
    BY <1>2 DEF Cleanup, Present, TypeOK
  <2>2. buckets[c].idle \in Nat /\ pause[c] \in Nat /\ IdleMax \in Nat
    BY <2>1, RefilledIs, FullIs DEF TypeOK
  <2>3. pause[c] > IdleMax
    BY <1>2, <2>1, <2>2 DEF PauseInv
  <2>4. QED BY <2>1, <2>3 DEF PauseInv
<1>3. CASE ~(c \in Present /\ buckets[c].idle > IdleMax)
  <2>1. buckets'[c] = buckets[c]
    BY <1>3 DEF Cleanup
  <2>2. QED BY <1>1, <2>1 DEF DebtInv
<1>4. QED BY <1>2, <1>3

LEMMA AdmissionKeepsPauseInv ==
  ASSUME TypeOK, PauseInv, NEW r \in Requests, NEW c \in Clients, Arrive(r, c)
  PROVE  PauseInv'
<1>1. /\ pause' = [pause EXCEPT ![c] = 0]
      /\ NewBucket(c) \/ TakeToken(c) \/ NoToken(c)
  BY DEF Arrive
<1>2. /\ debt'[c] \in Nat /\ \A d \in Clients \ {c} : debt'[d] = debt[d]
      /\ IdleMax \in Nat /\ pause \in [Clients -> 0 .. IdleMax + 1]
  <2>1. debt \in [Clients -> 0 .. (Most + Unit)]
    BY DEF TypeOK
  <2>2. CASE NewBucket(c) \/ TakeToken(c)
    BY <2>1, <2>2, ChargeIs, FullIs DEF NewBucket, TakeToken, TypeOK
  <2>3. CASE NoToken(c)
    BY <2>1, <2>3, FullIs DEF NoToken, TypeOK
  <2>4. QED BY <1>1, <2>2, <2>3
<1>3. pause'[c] = 0 /\ \A d \in Clients \ {c} : pause'[d] = pause[d]
  BY <1>1, <1>2
<1>4. buckets'[c].idle = 0 /\ \A d \in Clients \ {c} : buckets'[d] \in {buckets[d], None}
  <2>1. CASE NewBucket(c)
    BY <2>1 DEF NewBucket
  <2>2. CASE TakeToken(c) \/ NoToken(c)
    BY <2>2 DEF TakeToken, NoToken, TypeOK
  <2>3. QED BY <1>1, <2>1, <2>2
<1>5. SUFFICES ASSUME NEW d \in Clients
               PROVE  /\ pause'[d] > IdleMax => debt'[d] = 0
                      /\ buckets'[d] # None => buckets'[d].idle <= pause'[d] \/ pause'[d] > IdleMax
  BY DEF PauseInv
<1>6. CASE d = c
  BY <1>2, <1>3, <1>4, <1>6
<1>7. CASE d # c
  BY <1>2, <1>3, <1>4, <1>7 DEF PauseInv
<1>8. QED BY <1>6, <1>7

LEMMA TimeKeepsPauseInv ==
  ASSUME TypeOK, PauseInv, Tick \/ Cleanup
  PROVE  PauseInv'
<1>1. SUFFICES ASSUME NEW c \in Clients
               PROVE  /\ pause'[c] > IdleMax => debt'[c] = 0
                      /\ buckets'[c] # None => buckets'[c].idle <= pause'[c] \/ pause'[c] > IdleMax
  BY DEF PauseInv
<1>2. pause[c] \in 0 .. IdleMax + 1 /\ IdleMax \in Nat /\ IdleCap \in Nat
  BY FullIs DEF TypeOK
<1>3. CASE Tick
  <2>1. /\ pause'[c] = Least(pause[c] + 1, IdleMax + 1)
        /\ pause[c] >= IdleMax => debt'[c] = 0
    BY <1>3 DEF Tick
  <2>2. ASSUME buckets'[c] # None
        PROVE  buckets'[c].idle <= pause'[c] \/ pause'[c] > IdleMax
    <3>1. buckets[c] # None /\ buckets[c] \in Bucket
      BY <1>3, <2>2 DEF Tick, TypeOK
    <3>2. buckets'[c] = [buckets[c] EXCEPT !.idle = Least(buckets[c].idle + 1, IdleCap)]
      BY <1>3, <3>1 DEF Tick
    <3>3. buckets'[c].idle = Least(buckets[c].idle + 1, IdleCap) /\ buckets[c].idle \in Nat
      BY <1>2, <3>1, <3>2 DEF Bucket
    <3>4. buckets[c].idle <= pause[c] \/ pause[c] > IdleMax
      BY <3>1 DEF PauseInv
    <3>5. QED BY <1>2, <2>1, <3>3, <3>4 DEF Least
  <2>3. QED BY <1>2, <2>1, <2>2 DEF Least
<1>4. CASE Cleanup
  BY <1>4 DEF Cleanup, PauseInv
<1>5. QED BY <1>3, <1>4

LEMMA LimitInvStep ==
  ASSUME TypeOK, DebtInv, PauseInv, [Next]_vars
  PROVE  DebtInv' /\ PauseInv'
<1>1. ASSUME NEW r \in Requests, NEW c \in Clients, Arrive(r, c)
      PROVE  DebtInv' /\ PauseInv'
  <2>1. NewBucket(c) \/ TakeToken(c) \/ NoToken(c)
    BY <1>1 DEF Arrive
  <2>2. QED BY <1>1, <2>1, AdmissionKeepsDebtInv, AdmissionKeepsPauseInv
<1>2. ASSUME Tick \/ Cleanup PROVE DebtInv' /\ PauseInv'
  BY <1>2, TickKeepsDebtInv, CleanupKeepsDebtInv, TimeKeepsPauseInv
<1>3. ASSUME UNCHANGED limiter PROVE DebtInv' /\ PauseInv'
  BY <1>3 DEF limiter, DebtInv, PauseInv
<1>4. QED BY <1>1, <1>2, <1>3
      DEF Next, vars, Refused, Succeeds, Fails, Aborts, WindowPasses, BackendChanges

LEMMA LimitInvHolds == Spec => [](TypeOK /\ DebtInv /\ PauseInv)
<1>1. Init => DebtInv /\ PauseInv
  BY DEF Init, DebtInv, PauseInv
<1>2. TypeOK /\ DebtInv /\ PauseInv /\ [Next]_vars => DebtInv' /\ PauseInv'
  BY LimitInvStep
<1>3. QED BY <1>1, <1>2, TypeCorrect, PTL DEF Spec

\* A client gets no more than a full bucket, one free request and what is
\* refilled meanwhile, in every stretch without a pause of more than five
\* minutes, for any number of clients and any rate and window
\* (RateLimiter.allow and cleanup in ratelimit.go).
THEOREM LimitCorrect == Spec => []LimitHolds
<1>1. TypeOK /\ DebtInv => LimitHolds
  <2>1. SUFFICES ASSUME TypeOK, DebtInv, NEW c \in Clients \ evicted PROVE debt[c] <= Most
    BY DEF LimitHolds
  <2>2. debt[c] \in Nat /\ buckets[c] \in Bucket \cup {None}
    BY <2>1, FullIs DEF TypeOK
  <2>3. CASE buckets[c] = None
    BY <2>1, <2>3, FullIs DEF DebtInv
  <2>4. CASE buckets[c] # None
    <3>1. Refilled(buckets[c]) \in Nat
      BY <2>2, <2>4, RefilledIs, FullIs
    <3>2. Refilled(buckets[c]) + debt[c] <= Most
      BY <2>1, <2>4 DEF DebtInv, Balanced
    <3>3. QED BY <2>2, <3>1, <3>2, FullIs
  <2>5. QED BY <2>3, <2>4
<1>2. QED BY <1>1, LimitInvHolds, PTL

\* What a client owes falls by one in every tick of its pause.
OwedInv == \A c \in Clients \ evicted : debt[c] = 0 \/ debt[c] + pause[c] <= Most

LEMMA OwedInvStep ==
  ASSUME TypeOK, OwedInv, TypeOK', LimitHolds', [Next]_vars
  PROVE  OwedInv'
<1>1. ASSUME NEW r \in Requests, NEW c \in Clients, Arrive(r, c)
      PROVE  OwedInv'
  <2>1. pause' = [pause EXCEPT ![c] = 0] /\ pause \in [Clients -> 0 .. IdleMax + 1]
    BY <1>1 DEF Arrive, TypeOK
  <2>2. evicted \subseteq evicted' /\ \A d \in Clients \ {c} : debt'[d] = debt[d]
    BY <1>1, ChargeIs DEF Arrive, NewBucket, TakeToken, NoToken, TypeOK
  <2>3. debt'[c] \in Nat /\ 0 \in Nat /\ Most \in Nat
    BY FullIs DEF TypeOK
  <2>4. ASSUME NEW d \in Clients \ evicted'
        PROVE  debt'[d] = 0 \/ debt'[d] + pause'[d] <= Most
    <3>1. CASE d = c
      BY <2>1, <2>3, <2>4, <3>1 DEF LimitHolds
    <3>2. CASE d # c
      BY <2>1, <2>2, <2>4, <3>2 DEF OwedInv
    <3>3. QED BY <3>1, <3>2
  <2>5. QED BY <2>4 DEF OwedInv
<1>2. ASSUME Tick
      PROVE  OwedInv'
  <2>1. SUFFICES ASSUME NEW c \in Clients \ evicted', debt'[c] # 0
                 PROVE  debt'[c] + pause'[c] <= Most
    BY DEF OwedInv
  <2>2. /\ debt'[c] = IF debt[c] = 0 \/ pause[c] >= IdleMax THEN 0 ELSE debt[c] - 1
        /\ pause'[c] = Least(pause[c] + 1, IdleMax + 1)
        /\ c \in evicted => ~(debt'[c] > 0)
    BY <1>2, <2>1 DEF Tick
  <2>3. /\ debt[c] \in Nat /\ debt'[c] \in Nat /\ pause[c] \in Nat
        /\ IdleMax \in Nat /\ Most \in Nat
    BY FullIs DEF TypeOK
  <2>4. c \notin evicted /\ debt[c] # 0 /\ debt'[c] = debt[c] - 1
    BY <2>1, <2>2, <2>3
  <2>5. debt[c] + pause[c] <= Most /\ pause'[c] <= pause[c] + 1
    BY <2>2, <2>3, <2>4 DEF OwedInv, Least
  <2>6. pause'[c] \in Nat
    BY <2>2, <2>3 DEF Least
  <2>7. QED BY <2>3, <2>4, <2>5, <2>6
<1>3. ASSUME UNCHANGED <<debt, pause, evicted>> PROVE OwedInv'
  BY <1>3 DEF OwedInv
<1>4. QED BY <1>1, <1>2, <1>3
      DEF Next, vars, limiter, Refused, Succeeds, Fails, Aborts, WindowPasses, Cleanup,
          BackendChanges

\* A pause forgives no client anything it has not waited off.
NothingForgiven ==
  [][Tick => \A c \in Clients \ evicted :
               debt'[c] = IF debt[c] = 0 THEN 0 ELSE debt[c] - 1]_vars

\* If a bucket fills up in the time after which cleanup takes it, as it does
\* with a window of less than five minutes, the pauses of LimitHolds forgive
\* nothing: the limit then holds over any stretch of time whatever
\* (RateLimiter.cleanup in ratelimit.go).
THEOREM ShortWindowsCorrect ==
  ASSUME IdleMax >= Most
  PROVE  Spec => NothingForgiven
<1>1. Init => OwedInv
  BY DEF Init, OwedInv
<1>2. TypeOK /\ OwedInv /\ TypeOK' /\ LimitHolds' /\ [Next]_vars => OwedInv'
  BY OwedInvStep
<1>3. TypeOK /\ OwedInv /\ [Next]_vars
      => [Tick => \A c \in Clients \ evicted :
                    debt'[c] = IF debt[c] = 0 THEN 0 ELSE debt[c] - 1]_vars
  <2>1. SUFFICES ASSUME TypeOK, OwedInv, Tick, NEW c \in Clients \ evicted
                 PROVE  debt'[c] = IF debt[c] = 0 THEN 0 ELSE debt[c] - 1
    OBVIOUS
  <2>2. debt'[c] = IF debt[c] = 0 \/ pause[c] >= IdleMax THEN 0 ELSE debt[c] - 1
    BY <2>1 DEF Tick
  <2>3. /\ debt[c] \in Nat /\ pause[c] \in Nat /\ IdleMax \in Nat /\ Most \in Nat
        /\ debt[c] = 0 \/ debt[c] + pause[c] <= Most
    BY <2>1, FullIs DEF TypeOK, OwedInv
  <2>4. QED BY <2>2, <2>3
<1>4. QED BY <1>1, <1>2, <1>3, TypeCorrect, LimitCorrect, PTL DEF Spec, NothingForgiven

-----------------------------------------------------------------------------
(* The breaker. *)

\* A closed breaker counts the failures in a row.
StreakInv ==
  breaker.state = "closed" => breaker.failures = streak /\ streak < Threshold

\* A half-open breaker counts the successes since it was half-opened.
GoodInv == breaker.state = "halfopen" => good = breaker.successes

BreakerInv == TypeOK /\ StreakInv /\ GoodInv

LEMMA RecordFailureStep ==
  ASSUME BreakerInv, RecordFailure
  PROVE  /\ StreakInv' /\ GoodInv'
         /\ breaker.state = "closed" => (breaker'.state # "closed" <=> streak' = Threshold)
         /\ breaker'.state = "closed" => breaker.state = "closed"
<1>1. Threshold \in Nat \ {0}
  BY ConstantsAssumption
<1>2. /\ breaker \in Breaker
      /\ streak \in 0 .. Threshold
  BY DEF BreakerInv, TypeOK, Breaker
<1> DEFINE failures == Least(breaker.failures + 1, Threshold)
<1>3. /\ breaker'.failures = failures
      /\ breaker'.state = IF breaker.state = "halfopen" \/ failures = Threshold THEN "open"
                          ELSE breaker.state
      /\ streak' = Least(streak + 1, Threshold)
  BY <1>2 DEF RecordFailure, Breaker
<1>4. failures \in Nat
  BY <1>1, <1>2 DEF Least, Breaker
<1>5. CASE breaker.state = "closed"
  <2>1. failures = streak' /\ (failures = Threshold \/ failures < Threshold)
    BY <1>1, <1>2, <1>3, <1>5 DEF BreakerInv, StreakInv, Least
  <2> HIDE DEF failures
  <2>2. QED BY <1>1, <1>3, <1>4, <1>5, <2>1 DEF StreakInv, GoodInv
<1>6. CASE breaker.state # "closed"
  <2> HIDE DEF failures
  <2>1. breaker'.state = "open" \/ (breaker'.state = breaker.state /\ breaker.state # "halfopen")
    BY <1>3
  <2>2. QED BY <1>6, <2>1 DEF StreakInv, GoodInv
<1>7. QED BY <1>5, <1>6

LEMMA RecordSuccessStep ==
  ASSUME BreakerInv, RecordSuccess
  PROVE  /\ StreakInv' /\ GoodInv'
         /\ breaker.state = "closed" => (breaker'.state # "closed" <=> streak' = Threshold)
         /\ breaker.state # "closed" /\ breaker'.state = "closed" => good' = SuccessMin
<1>1. Threshold \in Nat \ {0} /\ SuccessMin \in Nat \ {0}
  BY ConstantsAssumption
<1>2. /\ breaker \in Breaker
      /\ good \in 0 .. SuccessMin
  BY DEF BreakerInv, TypeOK, Breaker
<1>3. streak' = 0 /\ good' = Least(good + 1, SuccessMin)
  BY DEF RecordSuccess
<1>4. CASE breaker.state = "open"
  <2>1. breaker' = breaker
    BY <1>4 DEF RecordSuccess
  <2>2. QED BY <1>4, <2>1 DEF StreakInv, GoodInv
<1>5. CASE breaker.state = "closed"
  <2>1. breaker'.state = "closed" /\ breaker'.failures = 0
    BY <1>2, <1>5 DEF RecordSuccess, Breaker
  <2>2. QED BY <1>1, <1>3, <1>5, <2>1 DEF StreakInv, GoodInv
<1>6. CASE breaker.state = "halfopen" /\ breaker.successes + 1 < SuccessMin
  <2>1. breaker'.state = "halfopen" /\ breaker'.successes = breaker.successes + 1
    BY <1>2, <1>6 DEF RecordSuccess, Breaker
  <2>2. good = breaker.successes
    BY <1>6 DEF BreakerInv, GoodInv
  <2>3. good' = breaker.successes + 1
    BY <1>1, <1>2, <1>3, <1>6, <2>2 DEF Least, Breaker
  <2>4. QED BY <1>6, <2>1, <2>3 DEF StreakInv, GoodInv
<1>7. CASE breaker.state = "halfopen" /\ ~(breaker.successes + 1 < SuccessMin)
  <2>1. breaker' = [state |-> "closed", failures |-> 0, successes |-> 0]
    BY <1>7 DEF RecordSuccess
  <2>2. good = breaker.successes
    BY <1>7 DEF BreakerInv, GoodInv
  <2>3. good' = SuccessMin
    BY <1>1, <1>2, <1>3, <1>7, <2>2 DEF Least, Breaker
  <2>4. QED BY <1>1, <1>3, <1>7, <2>1, <2>3 DEF StreakInv, GoodInv
<1>8. QED BY <1>2, <1>4, <1>5, <1>6, <1>7 DEF Breaker

LEMMA AllowStep ==
  ASSUME BreakerInv, Allow, streak' = streak
  PROVE  /\ StreakInv' /\ GoodInv'
         /\ breaker.state = "closed" => breaker' = breaker /\ streak # Threshold
         /\ breaker'.state = "closed" => breaker.state = "closed"
<1>1. Threshold \in Nat /\ breaker \in Breaker /\ streak \in Nat
  BY ConstantsAssumption DEF BreakerInv, TypeOK, Breaker
<1>2. CASE breaker.state = "open"
  <2>1. breaker'.state = "halfopen" /\ breaker'.successes = 0 /\ good' = 0
    BY <1>1, <1>2 DEF Allow, HalfOpened, Breaker
  <2>2. QED BY <1>2, <2>1 DEF StreakInv, GoodInv
<1>3. CASE breaker.state # "open"
  <2>1. breaker' = breaker /\ good' = good
    BY <1>3 DEF Allow
  <2>2. QED BY <1>1, <2>1 DEF BreakerInv, StreakInv, GoodInv
<1>4. QED BY <1>2, <1>3

\* What any step does to the breaker.
LEMMA BreakerStep ==
  ASSUME BreakerInv, [Next]_vars
  PROVE  /\ StreakInv' /\ GoodInv'
         /\ breaker.state = "closed" => (breaker'.state # "closed" <=> streak' = Threshold)
         /\ breaker.state # "closed" /\ breaker'.state = "closed" => good' = SuccessMin
<1>1. ASSUME NEW r \in Requests, NEW c \in Clients, Arrive(r, c)
      PROVE  Allow /\ streak' = streak
  BY <1>1 DEF Arrive
<1>2. ASSUME NEW r \in Requests, Refused(r) \/ Succeeds(r) \/ Fails(r)
      PROVE  RecordSuccess \/ RecordFailure
  BY <1>2 DEF Refused, Succeeds, Fails
<1>3. CASE breaker' = breaker /\ streak' = streak /\ good' = good
  <2>1. breaker.state = "closed" => streak # Threshold
    BY ConstantsAssumption DEF BreakerInv, StreakInv, TypeOK
  <2>2. QED BY <1>3, <2>1 DEF BreakerInv, StreakInv, GoodInv
<1>4. \/ Allow /\ streak' = streak
      \/ RecordSuccess \/ RecordFailure
      \/ breaker' = breaker /\ streak' = streak /\ good' = good
  BY <1>1, <1>2 DEF Next, Aborts, WindowPasses, Tick, Cleanup, BackendChanges, record, vars
<1>5. CASE Allow /\ streak' = streak
  BY <1>5, AllowStep
<1>6. CASE RecordSuccess
  BY <1>6, RecordSuccessStep
<1>7. CASE RecordFailure
  BY <1>7, RecordFailureStep
<1>8. QED BY <1>3, <1>4, <1>5, <1>6, <1>7

\* A closed breaker counts failures in a row and a half-open one successes,
\* whatever mixes into its results (recordFailure and recordSuccess in
\* circuitbreaker.go).
THEOREM BreakerInvHolds == Spec => []BreakerInv
<1>1. Init => StreakInv /\ GoodInv
  BY ConstantsAssumption DEF Init, StreakInv, GoodInv
<1>2. TypeOK /\ StreakInv /\ GoodInv /\ [Next]_vars => StreakInv' /\ GoodInv'
  BY BreakerStep DEF BreakerInv
<1>3. BreakerInv <=> TypeOK /\ StreakInv /\ GoodInv
  BY DEF BreakerInv
<1>4. QED BY <1>1, <1>2, <1>3, TypeCorrect, PTL DEF Spec

\* A closed breaker opens with the Threshold-th failure in a row, whatever
\* state the requests were admitted in whose results it counts (recordFailure
\* and recordSuccess in circuitbreaker.go).
THEOREM TripsCorrect == Spec => TripsOnStreak
<1>1. BreakerInv /\ [Next]_vars
      => [breaker.state = "closed" => (breaker'.state # "closed" <=> streak' = Threshold)]_vars
  BY BreakerStep
<1>2. QED BY <1>1, BreakerInvHolds, PTL DEF Spec, TripsOnStreak

\* A breaker closes with the last of SuccessMin successes in a row since it was
\* half-opened (recordSuccess in circuitbreaker.go).
THEOREM ClosesCorrect == Spec => ClosesAfterSuccesses
<1>1. BreakerInv /\ [Next]_vars
      => [breaker.state # "closed" /\ breaker'.state = "closed" => good' = SuccessMin]_vars
  BY BreakerStep
<1>2. QED BY <1>1, BreakerInvHolds, PTL DEF Spec, ClosesAfterSuccesses

=============================================================================
