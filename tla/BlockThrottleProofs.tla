------------------------ MODULE BlockThrottleProofs -------------------------
(***************************************************************************)
(* Proofs about the block throttle, for every divisor and for any number   *)
(* of blocks.  TypeOK /\ Quota is inductive: the distance                  *)
(* submitted * divisor - foundBlocks lies in 0..divisor-1 and the throttle *)
(* lets a block through exactly when it is 0.                              *)
(***************************************************************************)
EXTENDS BlockThrottle, TLAPS

\* Division with remainder, as the provers need it.
LEMMA Division ==
    ASSUME NEW a \in Nat, NEW b \in Nat \ {0}
    PROVE  /\ a \div b \in Nat
           /\ a % b \in 0..(b - 1)
           /\ a = b * (a \div b) + (a % b)
OBVIOUS

\* A larger quotient is at least one whole divisor away.
LEMMA Multiples ==
    ASSUME NEW b \in Nat \ {0}, NEW q \in Int, NEW d \in Int, q > d
    PROVE  b * q >= b * d + b
OBVIOUS

\* Quotient and remainder are determined by the dividend.
LEMMA RemainderUnique ==
    ASSUME NEW a \in Nat, NEW b \in Nat \ {0},
           NEW q \in Int, NEW r \in 0..(b - 1), a = b * q + r
    PROVE  a % b = r
<1> DEFINE d == a \div b
           s == a % b
<1>1. d \in Nat /\ s \in 0..(b - 1) /\ a = b * d + s
  BY Division
<1> HIDE DEF d, s
<1>2. ~(q > d)
  BY <1>1, Multiples
<1>3. ~(d > q)
  BY <1>1, Multiples
<1>4. q = d
  BY <1>1, <1>2, <1>3
<1>5. s = r
  BY <1>1, <1>4
<1> QED
  BY <1>5 DEF s

\* Under the quota, the next block is let through exactly when every group of
\* divisor blocks begun so far is complete.
LEMMA NextAllowed ==
    ASSUME NEW n \in Nat \ {0}, NEW f \in Nat, NEW s \in Nat,
           f <= s * n, s * n < f + n
    PROVE  (n <= 1 \/ (f + 1) % n = 1) <=> f = s * n
<1>1. CASE n = 1
  BY <1>1
<1>2. \A q \in Int, r \in 0..(n - 1) : f + 1 = n * q + r => (f + 1) % n = r
  <2> SUFFICES ASSUME NEW q \in Int, NEW r \in 0..(n - 1), f + 1 = n * q + r
               PROVE  (f + 1) % n = r
    OBVIOUS
  <2>1. f + 1 \in Nat
    OBVIOUS
  <2> QED
    BY <2>1, RemainderUnique, Zenon
<1>3. CASE n > 1 /\ f = s * n
  <2>1. s \in Int /\ 1 \in 0..(n - 1) /\ f + 1 = n * s + 1
    BY <1>3
  <2>2. (f + 1) % n = 1
    BY <1>2, <2>1, Zenon
  <2> QED
    BY <1>3, <2>2
<1>4. CASE n > 1 /\ f + 1 = s * n
  <2>1. s \in Int /\ 0 \in 0..(n - 1) /\ f + 1 = n * s + 0
    BY <1>4
  <2>2. (f + 1) % n = 0
    BY <1>2, <2>1, Zenon
  <2> QED
    BY <1>4, <2>2
<1>5. CASE n > 1 /\ f + 1 < s * n
  <2> DEFINE q == s - 1
             r == f + 1 - n * q
  <2>1. q \in Int /\ n * q = s * n - n
    BY <1>5
  <2>2. r \in 0..(n - 1) /\ r > 1 /\ f + 1 = n * q + r
    BY <1>5, <2>1
  <2> HIDE DEF q, r
  <2>3. (f + 1) % n = r
    BY <1>2, <2>1, <2>2, Zenon
  <2> QED
    BY <1>5, <2>2, <2>3
<1> QED
  BY <1>1, <1>3, <1>4, <1>5

\* Every throttle starts with no block found and a divisor of at least one.
LEMMA InitQuota == Init => TypeOK /\ Quota
<1> SUFFICES ASSUME Init PROVE TypeOK /\ Quota
  OBVIOUS
<1>1. PICK d \in Configured \cap Nat : divisor = NewBlockThrottle(d)
  BY DEF Init
<1>2. divisor \in Nat \ {0}
  BY <1>1 DEF NewBlockThrottle
<1> QED
  BY <1>2 DEF Init, TypeOK, Quota

\* A call of Allow keeps the quota.
LEMMA AllowQuota ==
    ASSUME TypeOK, Quota, Allow
    PROVE  TypeOK' /\ Quota'
<1>1. TypeOK'
  BY DEF TypeOK, Allow
<1>2. Allows(foundBlocks + 1) <=> foundBlocks = submitted * divisor
  BY NextAllowed DEF TypeOK, Quota, Allows
<1>3. CASE foundBlocks = submitted * divisor
  <2>1. /\ foundBlocks' = foundBlocks + 1
        /\ submitted' = submitted + 1
        /\ throttled' = throttled
        /\ divisor' = divisor
    BY <1>2, <1>3 DEF Allow
  <2>2. (submitted + 1) * divisor = submitted * divisor + divisor
    BY DEF TypeOK
  <2> QED
    BY <1>3, <2>1, <2>2 DEF TypeOK, Quota
<1>4. CASE foundBlocks # submitted * divisor
  <2>1. /\ foundBlocks' = foundBlocks + 1
        /\ submitted' = submitted
        /\ throttled' = throttled + 1
        /\ divisor' = divisor
    BY <1>2, <1>4 DEF Allow
  <2> QED
    BY <1>4, <2>1 DEF TypeOK, Quota
<1> QED
  BY <1>1, <1>3, <1>4

LEMMA NextQuota == TypeOK /\ Quota /\ [Next]_vars => TypeOK' /\ Quota'
<1>1. TypeOK /\ Quota /\ UNCHANGED vars => TypeOK' /\ Quota'
  BY DEF vars, TypeOK, Quota
<1> QED
  BY <1>1, AllowQuota DEF Next

\* The counters stay naturals and the divisor stays positive.
THEOREM ThrottleTypeCorrect == Spec => []TypeOK
<1>1. TypeOK /\ Quota /\ [Next]_vars => (TypeOK /\ Quota)'
  BY NextQuota
<1> QED
  BY InitQuota, <1>1, PTL DEF Spec

\* For every divisor N, after any number of found blocks exactly one in N of
\* them, rounded up, has been submitted; the first one always is.
THEOREM QuotaHolds == Spec => []Quota
<1>1. TypeOK /\ Quota /\ [Next]_vars => (TypeOK /\ Quota)'
  BY NextQuota
<1> QED
  BY InitQuota, <1>1, PTL DEF Spec
=============================================================================
