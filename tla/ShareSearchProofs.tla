-------------------------- MODULE ShareSearchProofs --------------------------
(***************************************************************************)
(* Proofs about the search, for any number of miners and threads, nonce    *)
(* spaces of any size and digits of any base and number.  No header is     *)
(* hashed twice in a search of a job, nor for two connections or by two    *)
(* threads until the pool's extraNonce1 counter wraps: what a search tried *)
(* lies behind its worker, and a header names the connection and the       *)
(* residue class it belongs to.  And the pool rebuilds the very header a   *)
(* miner hashed and decides as the miner did: comparing digits is          *)
(* comparing numbers, which is shown by induction on the digits.           *)
(***************************************************************************)
EXTENDS ShareSearch, FiniteSetTheorems, FunctionTheorems, WellFoundedInduction, TLAPS

\* Division with remainder, as the provers need it.
LEMMA Division ==
    ASSUME NEW a \in Nat, NEW b \in Nat \ {0}
    PROVE  /\ a \div b \in Nat
           /\ a % b \in 0..(b - 1)
           /\ a = b * (a \div b) + (a % b)
OBVIOUS

\* A larger quotient is at least one whole divisor away.
LEMMA Multiples ==
    ASSUME NEW b \in Nat \ {0}, NEW q \in Int, NEW d \in Int, q > d
    PROVE  b * q >= b * d + b
OBVIOUS

\* Adding the divisor keeps the remainder: a thread stays in its residue class.
LEMMA SameClass ==
    ASSUME NEW a \in Nat, NEW b \in Nat \ {0}
    PROVE  (a + b) % b = a % b
<1> DEFINE d == a \div b
           r == a % b
           q == (a + b) \div b
           s == (a + b) % b
<1>1. d \in Nat /\ r \in 0..(b - 1) /\ a = b * d + r
  BY Division
<1>2. q \in Nat /\ s \in 0..(b - 1) /\ a + b = b * q + s
  <2>1. a + b \in Nat
    OBVIOUS
  <2> QED BY <2>1, Division
<1> HIDE DEF d, r, q, s
<1>3. b * (d + 1) = b * d + b
  BY <1>1
<1>4. ~(q > d + 1)
  BY <1>1, <1>2, <1>3, Multiples
<1>5. ~(d + 1 > q)
  BY <1>1, <1>2, <1>3, Multiples
<1>6. q = d + 1
  BY <1>1, <1>2, <1>4, <1>5
<1>7. s = r
  BY <1>1, <1>2, <1>3, <1>6
<1> QED BY <1>7 DEF r, s

\* A remainder of a dividend below twice the divisor.
LEMMA SmallRemainder ==
    ASSUME NEW a \in Nat, NEW b \in Nat \ {0}, a < b + b
    PROVE  (a < b => a % b = a) /\ (~(a < b) => a % b = a - b)
<1>1. a % b \in 0..(b - 1) /\ a \div b \in Nat /\ a = b * (a \div b) + (a % b)
  BY Division
<1>2. CASE a \div b = 0
  BY <1>1, <1>2
<1>3. CASE a \div b = 1
  BY <1>1, <1>3
<1>4. CASE a \div b > 1
  <2>1. b * (a \div b) >= b * 1 + b
    BY <1>1, <1>4, Multiples
  <2> QED BY <1>1, <2>1
<1> QED BY <1>1, <1>2, <1>3, <1>4

\* Distinct nonces make distinct headers.
LEMMA TagCounts ==
    ASSUME NEW ns, IsFiniteSet(ns), NEW e, NEW n2,
           NEW T, \A t : t \in T <=> \E n \in ns : t = <<e, n2, n>>
    PROVE  IsFiniteSet(T) /\ Cardinality(T) = Cardinality(ns)
<1> DEFINE f == [n \in ns |-> <<e, n2, n>>]
<1>1. f \in Bijection(ns, T)
  <2>1. f \in [ns -> T] /\ \A a, b \in ns : f[a] = f[b] => a = b
    OBVIOUS
  <2>2. \A t \in T : \E n \in ns : f[n] = t
    OBVIOUS
  <2> QED BY <2>1, <2>2, Fun_IsBij
<1>2. ExistsBijection(ns, T)
  BY <1>1 DEF ExistsBijection
<1> QED BY <1>2, FS_Bijection

-----------------------------------------------------------------------------
\* Where a sweep's launches begin, and that the launch ends with the nonces.
LaunchStart(x) == \E k \in Nat : x = 1 + Batch * k /\ x + Batch <= Nonces + 1

LEMMA FirstLaunch == 1 % Nonces = 1 /\ LaunchStart(1)
<1>1. Nonces \in Nat \ {0} /\ Batch \in Nat \ {0} /\ 1 + Batch <= Nonces + 1 /\ 1 < Nonces
  BY SpacesAssumption
<1>2. 1 % Nonces = 1
  BY <1>1, SmallRemainder
<1>3. 0 \in Nat /\ 1 = 1 + Batch * 0
  BY <1>1
<1> QED BY <1>1, <1>2, <1>3 DEF LaunchStart

\* A launch tries nonces from its first one on.
LEMMA LaunchAhead ==
    ASSUME NEW x \in Nat \ {0}, x + Batch <= Nonces + 1, NEW n \in Launch(x)
    PROVE  n \in Nat /\ x <= n /\ n < x + Batch /\ n < Nonces
<1>1. Nonces \in Nat \ {0} /\ Batch \in Nat \ {0}
  BY SpacesAssumption
<1>2. PICK i \in 0..Batch - 1 : n = (x + i) % Nonces
  BY DEF Launch
<1>3. n # 0
  BY DEF Launch
<1>4. x + i \in Nat /\ x + i <= Nonces
  BY <1>1, <1>2
<1>5. PICK a \in Nat : a = x + i /\ a < Nonces + Nonces
  BY <1>1, <1>4
<1>6. (a < Nonces => a % Nonces = a) /\ (~(a < Nonces) => a % Nonces = a - Nonces)
  BY <1>1, <1>5, SmallRemainder
<1>7. n = a % Nonces
  BY <1>2, <1>5
<1>8. a < Nonces
  BY <1>1, <1>3, <1>4, <1>5, <1>6, <1>7
<1> QED BY <1>1, <1>2, <1>5, <1>6, <1>7, <1>8

LEMMA LaunchFinite ==
    ASSUME NEW x \in Nat \ {0}, x + Batch <= Nonces + 1
    PROVE  IsFiniteSet(Launch(x)) /\ Launch(x) \subseteq 0..(Nonces - 1)
<1>1. Nonces \in Nat \ {0}
  BY SpacesAssumption
<1>2. \A n \in Launch(x) : n \in 0..(Nonces - 1)
  BY <1>1, LaunchAhead
<1>3. IsFiniteSet(0..(Nonces - 1))
  BY <1>1, FS_Interval
<1> QED BY <1>2, <1>3, FS_Subset

\* The next launch begins behind this one's nonces, or the sweep is over.
LEMMA LaunchNext ==
    ASSUME NEW x \in Nat, LaunchStart(x)
    PROVE  LET next == (x + Batch) % Nonces
           IN  next \in 0..(Nonces - 1) /\ (next < x \/ (next = x + Batch /\ LaunchStart(next)))
<1> DEFINE next == (x + Batch) % Nonces
<1>1. Nonces \in Nat \ {0} /\ Batch \in Nat \ {0} /\ Batch < Nonces /\ Nonces % Batch = 0
  BY SpacesAssumption
<1>2. PICK k \in Nat : x = 1 + Batch * k /\ x + Batch <= Nonces + 1
  BY DEF LaunchStart
<1>3. x + Batch \in Nat /\ Nonces \in Nat /\ x + Batch < Nonces + Nonces
  BY <1>1, <1>2
<1>4. PICK a \in Nat : a = x + Batch
  BY <1>3
<1>5. next = a % Nonces
  BY <1>4
<1>6. (a < Nonces => a % Nonces = a) /\ (~(a < Nonces) => a % Nonces = a - Nonces)
  BY <1>1, <1>3, <1>4, SmallRemainder
<1> HIDE DEF next
<1>7. CASE a < Nonces
  <2>1. PICK K \in Nat : Nonces = Batch * K
    <3>1. Nonces \div Batch \in Nat /\ Nonces = Batch * (Nonces \div Batch) + (Nonces % Batch)
      BY <1>1, Division
    <3>2. PICK K \in Nat : K = Nonces \div Batch
      BY <3>1
    <3>3. Nonces = Batch * K + 0
      BY <1>1, <3>1, <3>2
    <3>4. Batch * K \in Nat
      BY <1>1
    <3>5. Nonces = Batch * K
      BY <3>3, <3>4
    <3> QED BY <3>5
  <2>2. Batch * (k + 1) = Batch * k + Batch /\ Batch * (k + 2) = Batch * k + Batch + Batch
    BY <1>1
  <2>3. K >= k + 2
    <3>1. ~(k + 1 >= K)
      <4>1. CASE k + 1 = K
        BY <1>1, <1>2, <1>4, <1>7, <2>1, <2>2, <4>1
      <4>2. CASE k + 1 > K
        <5>1. Batch * (k + 1) >= Batch * K + Batch
          BY <1>1, <2>1, <4>2, Multiples
        <5> QED BY <1>1, <1>2, <1>4, <1>7, <2>1, <2>2, <5>1
      <4> QED BY <2>1, <4>1, <4>2
    <3> QED BY <2>1, <3>1
  <2>4. Batch * K >= Batch * (k + 2)
    <3>1. CASE K = k + 2
      BY <1>1, <3>1
    <3>2. CASE K > k + 2
      <4>1. Batch * K >= Batch * (k + 2) + Batch
        BY <1>1, <2>1, <3>2, Multiples
      <4>2. Batch * K \in Nat /\ Batch * (k + 2) \in Nat
        BY <1>1, <2>1
      <4> QED BY <1>1, <4>1, <4>2
    <3> QED BY <2>1, <2>3, <3>1, <3>2
  <2>5. x + Batch = 1 + Batch * (k + 1) /\ x + Batch + Batch <= Nonces + 1
    BY <1>1, <1>2, <2>1, <2>2, <2>4
  <2>6. k + 1 \in Nat
    OBVIOUS
  <2>7. LaunchStart(x + Batch)
    BY <2>5, <2>6, Zenon DEF LaunchStart
  <2> QED BY <1>1, <1>4, <1>5, <1>6, <1>7, <2>7
<1>8. CASE ~(a < Nonces)
  <2>1. next = x + Batch - Nonces /\ next \in 0..1
    BY <1>1, <1>2, <1>3, <1>4, <1>5, <1>6, <1>8
  <2>2. next < x
    BY <1>1, <1>3, <2>1
  <2> QED BY <1>1, <2>1, <2>2
<1> QED BY <1>7, <1>8
-----------------------------------------------------------------------------
\* What a worker has left behind.
Behind(w, n2, n) == n2 < extraNonce2[w] \/ (n2 = extraNonce2[w] /\ n < nonce[w])

\* Connections are numbered as they are drawn, their extraNonce1 is the number
\* as far as it fits, and a worker's job has the one of its connection.
Sessions ==
    /\ \A m \in Miners :
          /\ connection[m] <= nonce1
          /\ extraNonce1[m] # -1 => connection[m] # 0 /\ extraNonce1[m] = connection[m] % ExtraNonce1s
    /\ \A m, k \in Miners : connection[m] = connection[k] /\ connection[m] # 0 => m = k
    /\ \A w \in Workers : searching[w] \in {-1, extraNonce1[w[1]]}

\* A CPU thread is in its residue class, a GPU sweep at the start of a launch.
InClass ==
    \A w \in Workers : searching[w] # -1 =>
        /\ w[1] \in CpuMiners => extraNonce2[w] % Threads = w[2]
        /\ w[1] \notin CpuMiners => LaunchStart(nonce[w])

\* A header tells the connection and the thread that hashed it.
Attributed ==
    /\ \A t \in tried :
          /\ t[1] <= nonce1
          /\ t[3][1] = t[1] % ExtraNonce1s
          /\ t[2][1] \in CpuMiners => t[3][2] % Threads = t[2][2]
          /\ \A m \in Miners : connection[m] = t[1] => t[2][1] = m
    /\ \A s, t \in tried : s[1] = t[1] => s[2][1] = t[2][1]

\* A search leaves its headers behind it, each counted once.
Counted ==
    \A w \in Workers :
        /\ IsFiniteSet(search[w]) /\ hashes[w] = Cardinality(search[w])
        /\ \A h \in search[w] : Behind(w, h[2], h[3])

SearchInv == TypeOK /\ Sessions /\ InClass /\ Attributed /\ Counted

\* Every worker is a thread of a CPU miner or the sweep of a GPU.
LEMMA WorkerKinds ==
    ASSUME NEW w \in Workers
    PROVE  /\ w = <<w[1], w[2]>> /\ w[1] \in Miners
           /\ w[1] \in CpuMiners => w[2] \in 0..Threads - 1
           /\ w[1] \notin CpuMiners => w[1] \in GpuMiners /\ w[2] = 0
           /\ w[1] \in GpuMiners => w[1] \notin CpuMiners
  BY SpacesAssumption DEF Workers, Miners

\* Headers a worker has still in front of it are not among those of its search.
LEMMA AheadIsFresh ==
    ASSUME TypeOK, Counted, NEW w \in Workers, NEW e, NEW n \in Nat, nonce[w] <= n
    PROVE  <<e, extraNonce2[w], n>> \notin search[w]
<1> DEFINE h == <<e, extraNonce2[w], n>>
<1>1. SUFFICES ASSUME h \in search[w] PROVE FALSE
  OBVIOUS
<1>2. h[2] = extraNonce2[w] /\ h[3] = n
  OBVIOUS
<1> HIDE DEF h
<1>3. Behind(w, extraNonce2[w], n)
  BY <1>1, <1>2 DEF Counted
<1>4. extraNonce2[w] \in Nat /\ nonce[w] \in Nat
  BY SpacesAssumption DEF TypeOK
<1> QED BY <1>3, <1>4 DEF Behind

\* The connection a worker hashes for, and its extraNonce1.
LEMMA SearchesItsConnection ==
    ASSUME TypeOK, Sessions, NEW w \in Workers, searching[w] # -1
    PROVE  /\ connection[w[1]] \in 1..MaxConnections /\ connection[w[1]] <= nonce1
           /\ searching[w] = extraNonce1[w[1]]
           /\ searching[w] = connection[w[1]] % ExtraNonce1s
           /\ searching[w] \in 0..ExtraNonce1s - 1
<1>1. w[1] \in Miners
  BY WorkerKinds
<1>2. searching[w] = extraNonce1[w[1]]
  BY DEF Sessions
<1>3. connection[w[1]] # 0 /\ extraNonce1[w[1]] = connection[w[1]] % ExtraNonce1s
      /\ connection[w[1]] <= nonce1
  BY <1>1, <1>2 DEF Sessions
<1>4. connection[w[1]] \in 0..MaxConnections /\ searching[w] \in -1..(ExtraNonce1s - 1)
  BY <1>1 DEF TypeOK
<1> QED BY <1>2, <1>3, <1>4, SpacesAssumption

\* A worker that hashes nonces from its own on, and moves behind them, keeps
\* the invariant: the step that CPU threads and GPU launches share.
LEMMA TryKeeps ==
    ASSUME SearchInv,
           NEW w \in Workers, NEW ns \in SUBSET (0..(Nonces - 1)), IsFiniteSet(ns),
           \A n \in ns : nonce[w] <= n,
           Try(w, ns), UNCHANGED <<targetVars, connectionVars, searching>>,
           NEW y \in 0..(Nonces - 1), NEW k \in Nat,
           nonce' = [nonce EXCEPT ![w] = y], extraNonce2' = [extraNonce2 EXCEPT ![w] = k],
           \/ k > extraNonce2[w]
           \/ k = extraNonce2[w] /\ y >= nonce[w] /\ \A n \in ns : n < y,
           w[1] \in CpuMiners => k % Threads = w[2],
           w[1] \notin CpuMiners => LaunchStart(y),
           verdict' \in [miner : Decisions, pool : Decisions]
    PROVE  SearchInv'
<1>0. PICK e, n2, c : e = searching[w] /\ n2 = extraNonce2[w] /\ c = connection[w[1]]
  OBVIOUS
<1> DEFINE H == {<<e, n2, n>> : n \in ns}
           T == {<<c, w, h>> : h \in H}
<1>1. TypeOK /\ Sessions /\ InClass /\ Attributed /\ Counted
  BY DEF SearchInv
<1>2. /\ search' = [search EXCEPT ![w] = search[w] \cup H]
      /\ hashes' = [hashes EXCEPT ![w] = hashes[w] + Cardinality(ns)]
      /\ tried' = tried \cup T /\ e # -1 /\ n2 < ExtraNonce2s
  <2>1. search' = [search EXCEPT ![w] = @ \cup H] /\ hashes' = [hashes EXCEPT ![w] = @ + Cardinality(ns)]
        /\ tried' = tried \cup T /\ e # -1 /\ n2 < ExtraNonce2s
    BY <1>0 DEF Try
  <2> QED BY <1>1, <2>1 DEF TypeOK
<1>3. /\ e \in 0..ExtraNonce1s - 1 /\ e = c % ExtraNonce1s
      /\ c \in 1..MaxConnections /\ c <= nonce1 /\ w[1] \in Miners
  BY <1>0, <1>1, <1>2, SearchesItsConnection, WorkerKinds
<1>4. n2 \in 0..ExtraNonce2s - 1 /\ n2 \in Nat /\ nonce[w] \in Nat /\ \A n \in ns : n \in Nat
  BY <1>0, <1>1, <1>2, SpacesAssumption DEF TypeOK
<1>5. H \subseteq Headers /\ T \subseteq (1..MaxConnections) \X Workers \X Headers
  BY <1>3, <1>4 DEF Headers
<1>6. IsFiniteSet(H) /\ Cardinality(H) = Cardinality(ns)
  <2>1. \A t : t \in H <=> \E n \in ns : t = <<e, n2, n>>
    OBVIOUS
  <2> HIDE DEF H
  <2>2. IsFiniteSet(ns)
    OBVIOUS
  <2> QED BY <2>1, <2>2, TagCounts, ZenonT(30)
<1>7. H \cap search[w] = {}
  BY <1>0, <1>1, <1>4, AheadIsFresh
<1>8. Cardinality(ns) \in Nat
  BY FS_CardinalityType
<1>9. UNCHANGED <<shareTarget, blockTarget, nonce1, extraNonce1, connection, searching>>
  BY DEF targetVars, connectionVars
<1>10. nonce'[w] = y /\ extraNonce2'[w] = k
       /\ \A v \in Workers : v # w => nonce'[v] = nonce[v] /\ extraNonce2'[v] = extraNonce2[v]
  BY <1>1 DEF TypeOK
<1>11. TypeOK'
  <2>1. nonce' \in [Workers -> 0..(Nonces - 1)] /\ extraNonce2' \in [Workers -> Nat]
    BY <1>1 DEF TypeOK
  <2>2. search' \in [Workers -> SUBSET Headers]
    <3> HIDE DEF H
    <3> QED BY <1>1, <1>2, <1>5 DEF TypeOK
  <2>3. hashes' \in [Workers -> Nat]
    BY <1>1, <1>2, <1>8 DEF TypeOK
  <2>4. tried' \subseteq (1..MaxConnections) \X Workers \X Headers
    <3> HIDE DEF T
    <3> QED BY <1>1, <1>2, <1>5 DEF TypeOK
  <2> QED BY <1>1, <1>9, <2>1, <2>2, <2>3, <2>4 DEF TypeOK
<1>12. Sessions'
  BY <1>1, <1>9 DEF Sessions
<1>13. InClass'
  <2> SUFFICES ASSUME NEW v \in Workers, searching'[v] # -1
               PROVE  /\ v[1] \in CpuMiners => extraNonce2'[v] % Threads = v[2]
                      /\ v[1] \notin CpuMiners => LaunchStart(nonce'[v])
    BY DEF InClass, LaunchStart
  <2>1. CASE v # w
    BY <1>1, <1>9, <1>10, <2>1 DEF InClass
  <2>2. CASE v = w
    BY <1>10, <2>2
  <2> QED BY <2>1, <2>2
<1>14. Attributed'
  <2>1. ASSUME NEW t \in T
        PROVE  /\ t[1] = c /\ t[2] = w /\ t[3][1] = e /\ t[3][2] = n2
    <3>1. PICK n \in ns : t = <<c, w, <<e, n2, n>>>>
      OBVIOUS
    <3> QED BY <3>1
  <2>2. w[1] \in CpuMiners => n2 % Threads = w[2]
    BY <1>0, <1>1, <1>2 DEF InClass
  <2>3. \A m \in Miners : connection[m] = c => w[1] = m
    BY <1>0, <1>1, <1>3 DEF Sessions
  <2> HIDE DEF T
  <2>4. ASSUME NEW t \in tried'
        PROVE  /\ t[1] <= nonce1'
               /\ t[3][1] = t[1] % ExtraNonce1s
               /\ t[2][1] \in CpuMiners => t[3][2] % Threads = t[2][2]
               /\ \A m \in Miners : connection'[m] = t[1] => t[2][1] = m
    <3>1. CASE t \in tried
      BY <1>1, <1>9, <3>1 DEF Attributed
    <3>2. CASE t \in T
      BY <1>3, <1>9, <2>1, <2>2, <2>3, <3>2
    <3> QED BY <1>2, <3>1, <3>2
  <2>5. ASSUME NEW s \in tried', NEW t \in tried', s[1] = t[1]
        PROVE  s[2][1] = t[2][1]
    <3>1. CASE s \in tried /\ t \in tried
      BY <1>1, <2>5, <3>1 DEF Attributed
    <3>2. CASE s \in T
      BY <1>0, <1>3, <1>9, <2>1, <2>4, <2>5, <3>2
    <3>3. CASE t \in T
      BY <1>0, <1>3, <1>9, <2>1, <2>4, <2>5, <3>3
    <3> QED BY <1>2, <3>1, <3>2, <3>3
  <2> QED BY <2>4, <2>5 DEF Attributed
<1>15. Counted'
  <2> SUFFICES ASSUME NEW v \in Workers
               PROVE  /\ IsFiniteSet(search'[v]) /\ hashes'[v] = Cardinality(search'[v])
                      /\ \A h \in search'[v] : Behind(v, h[2], h[3])'
    BY DEF Counted
  <2>1. CASE v # w
    <3>1. search'[v] = search[v] /\ hashes'[v] = hashes[v]
      BY <1>1, <1>2, <2>1 DEF TypeOK
    <3> QED BY <1>1, <1>10, <2>1, <3>1 DEF Counted, Behind
  <2>2. CASE v = w
    <3>1. search'[w] = search[w] \cup H /\ hashes'[w] = hashes[w] + Cardinality(ns)
      <4> HIDE DEF H
      <4> QED BY <1>1, <1>2 DEF TypeOK
    <3>2. IsFiniteSet(search[w]) /\ hashes[w] = Cardinality(search[w])
      BY <1>1 DEF Counted
    <3>3. IsFiniteSet(search[w] \cup H)
          /\ Cardinality(search[w] \cup H)
                = Cardinality(search[w]) + Cardinality(H) - Cardinality(search[w] \cap H)
      BY <1>6, <3>2, FS_Union
    <3>4. Cardinality(search[w] \cap H) = 0
      <4> HIDE DEF H
      <4>1. search[w] \cap H = {}
        BY <1>7
      <4> QED BY <4>1, FS_EmptySet
    <3>5. Cardinality(search[w]) \in Nat /\ Cardinality(H) \in Nat
      BY <1>6, <3>2, FS_CardinalityType
    <3>6. hashes'[w] = Cardinality(search'[w])
      <4> HIDE DEF H
      <4> QED BY <1>6, <3>1, <3>2, <3>3, <3>4, <3>5
    <3>7. ASSUME NEW h \in search'[w] PROVE Behind(w, h[2], h[3])'
      <4>1. CASE h \in search[w]
        <5>1. Behind(w, h[2], h[3])
          BY <1>1, <4>1 DEF Counted
        <5>2. h[2] \in Nat /\ h[3] \in Nat
          <6>1. h \in Headers
            BY <1>1, <4>1 DEF TypeOK
          <6> QED BY <6>1, SpacesAssumption DEF Headers
        <5> QED BY <1>0, <1>4, <1>10, <5>1, <5>2, SpacesAssumption DEF Behind
      <4>2. CASE h \in H
        <5>1. PICK n \in ns : h = <<e, n2, n>>
          BY <4>2
        <5>2. h[2] = n2 /\ h[3] = n
          BY <5>1
        <5> QED BY <1>0, <1>4, <1>10, <5>2, SpacesAssumption DEF Behind
      <4> HIDE DEF H
      <4> QED BY <3>1, <4>1, <4>2
    <3> HIDE DEF H
    <3> QED BY <2>2, <3>1, <3>3, <3>6, <3>7
  <2> QED BY <2>1, <2>2
<1> QED BY <1>11, <1>12, <1>13, <1>14, <1>15 DEF SearchInv
-----------------------------------------------------------------------------
\* The decisions are among the three.
LEMMA DecisionTypes ==
    ASSUME NEW sum, NEW h
    PROVE  ClassifySolution(sum) \in Decisions /\ EvaluateSubmit(h) \in Decisions
  BY DEF ClassifySolution, EvaluateSubmit, Decisions

LEMMA ResultType ==
    ASSUME NEW w, NEW n, NEW sum, Result(w, n, sum)
    PROVE  verdict' \in [miner : Decisions, pool : Decisions]
<1>1. CASE verdict' = Nothing
  BY <1>1 DEF Nothing, Decisions
<1>2. CASE Submit(w, n, sum)
  BY <1>2, DecisionTypes DEF Submit
<1> QED BY <1>1, <1>2 DEF Result

LEMMA InitSearch == Init => SearchInv
<1> SUFFICES ASSUME Init PROVE SearchInv
  OBVIOUS
<1>1. TypeOK
  <2>1. shareTarget \in 0..PowLimit
    <3>1. PICK d \in Difficulties : shareTarget = ShareTarget(d)
      BY DEF Init
    <3>2. d \in Nat \ {0} /\ PowLimit \in Nat
      BY SpacesAssumption
    <3>3. PICK q \in Nat : q = PowLimit \div d
      BY <3>2, Division
    <3>4. shareTarget = IF q > PowLimit THEN PowLimit ELSE q
      BY <3>1, <3>3 DEF ShareTarget
    <3> QED BY <3>2, <3>3, <3>4
  <2>2. verdict \in [miner : Decisions, pool : Decisions]
    BY DEF Init, Nothing, Decisions
  <2> QED BY <2>1, <2>2, SpacesAssumption DEF Init, TypeOK
<1>2. Sessions
  <2>1. ASSUME NEW w \in Workers PROVE searching[w] = -1
    BY DEF Init
  <2>2. ASSUME NEW m \in Miners PROVE extraNonce1[m] = -1 /\ connection[m] = 0 /\ nonce1 = 0
    BY DEF Init
  <2> QED BY <2>1, <2>2 DEF Sessions
<1>3. InClass
  BY DEF Init, InClass
<1>4. Attributed
  BY DEF Init, Attributed
<1>5. Counted
  BY FS_EmptySet DEF Init, Counted
<1> QED BY <1>1, <1>2, <1>3, <1>4, <1>5 DEF SearchInv

LEMMA NextExtraNonce1Type ==
    ASSUME nonce1 \in Nat
    PROVE  NextExtraNonce1 \in 0..(ExtraNonce1s - 1) /\ NextExtraNonce1 = (nonce1 + 1) % ExtraNonce1s
<1>1. PICK c \in Nat : c = nonce1 + 1
  OBVIOUS
<1>2. c % ExtraNonce1s \in 0..(ExtraNonce1s - 1)
  BY SpacesAssumption, Division
<1> QED BY <1>1, <1>2 DEF NextExtraNonce1

\* A connection has a number nobody has or had, and its workers do not run.
LEMMA ConnectKeeps ==
    ASSUME SearchInv, NEW m \in Miners, Connect(m)
    PROVE  SearchInv'
<1>0. PICK v, c : v = NextExtraNonce1 /\ c = nonce1 + 1
  OBVIOUS
<1>1. TypeOK /\ Sessions /\ InClass /\ Attributed /\ Counted
  BY DEF SearchInv
<1>2. nonce1 \in Nat /\ nonce1' = c /\ c \in 1..MaxConnections /\ nonce1 < c
  BY <1>0, <1>1, SpacesAssumption DEF TypeOK, Connect
<1>3. v \in 0..(ExtraNonce1s - 1) /\ v = c % ExtraNonce1s
  BY <1>0, <1>2, NextExtraNonce1Type
<1>4. extraNonce1' = [extraNonce1 EXCEPT ![m] = v] /\ connection' = [connection EXCEPT ![m] = c]
      /\ searching' = [w \in Workers |-> IF w[1] = m THEN -1 ELSE searching[w]]
  BY <1>0, <1>2 DEF Connect
<1>5. UNCHANGED <<shareTarget, blockTarget, extraNonce2, nonce, search, hashes, tried, verdict>>
  BY DEF Connect, targetVars, searchVars
<1>6. TypeOK'
  <2>1. /\ extraNonce1' \in [Miners -> -1..(ExtraNonce1s - 1)]
        /\ connection' \in [Miners -> 0..MaxConnections]
    BY <1>1, <1>2, <1>3, <1>4, SpacesAssumption DEF TypeOK
  <2>2. searching' \in [Workers -> -1..(ExtraNonce1s - 1)]
    BY <1>1, <1>4, SpacesAssumption DEF TypeOK
  <2>3. nonce1' \in 0..MaxConnections
    BY <1>2, SpacesAssumption
  <2> QED BY <1>1, <1>5, <2>1, <2>2, <2>3 DEF TypeOK
<1>7. \A k \in Miners : connection[k] <= nonce1 /\ connection[k] \in Nat
  BY <1>1, SpacesAssumption DEF TypeOK, Sessions
<1>8. \A k \in Miners : /\ connection'[k] = IF k = m THEN c ELSE connection[k]
                        /\ extraNonce1'[k] = IF k = m THEN v ELSE extraNonce1[k]
  BY <1>1, <1>4 DEF TypeOK
<1>9. Sessions'
  <2>1. ASSUME NEW k \in Miners
        PROVE  /\ connection'[k] <= nonce1'
               /\ extraNonce1'[k] # -1 =>
                     connection'[k] # 0 /\ extraNonce1'[k] = connection'[k] % ExtraNonce1s
    <3>1. CASE k = m
      BY <1>2, <1>3, <1>8, <3>1
    <3>2. CASE k # m
      <4>1. connection[k] <= c
        BY <1>2, <1>7
      <4> QED BY <1>1, <1>2, <1>8, <3>2, <4>1 DEF Sessions
    <3> QED BY <3>1, <3>2
  <2>2. ASSUME NEW j \in Miners, NEW k \in Miners, connection'[j] = connection'[k], connection'[j] # 0
        PROVE  j = k
    BY <1>1, <1>2, <1>7, <1>8, <2>2 DEF Sessions
  <2>3. ASSUME NEW w \in Workers PROVE searching'[w] \in {-1, extraNonce1'[w[1]]}
    BY <1>1, <1>4, <1>8, WorkerKinds DEF Sessions
  <2> QED BY <2>1, <2>2, <2>3 DEF Sessions
<1>10. InClass'
  <2>1. ASSUME NEW w \in Workers, searching'[w] # -1 PROVE searching[w] # -1
    BY <1>4, <2>1
  <2> QED BY <1>1, <1>5, <2>1 DEF InClass, LaunchStart
<1>11. Attributed'
  <2>1. ASSUME NEW t \in tried
        PROVE  t[1] <= nonce1' /\ \A k \in Miners : connection'[k] = t[1] => t[2][1] = k
    <3>1. t[1] <= nonce1 /\ t[1] \in Nat
      BY <1>1 DEF Attributed, TypeOK
    <3> QED BY <1>1, <1>2, <1>8, <3>1 DEF Attributed
  <2> QED BY <1>1, <1>5, <2>1 DEF Attributed
<1>12. Counted'
  BY <1>1, <1>5 DEF Counted, Behind
<1> QED BY <1>6, <1>9, <1>10, <1>11, <1>12 DEF SearchInv

\* A worker is sent back to its start with nothing counted.
LEMMA RestartKeeps ==
    ASSUME SearchInv, NEW w \in Workers, Restart(w)
    PROVE  SearchInv'
<1>1. TypeOK /\ Sessions /\ InClass /\ Attributed /\ Counted
  BY DEF SearchInv
<1>2. UNCHANGED <<shareTarget, blockTarget, nonce1, extraNonce1, connection, tried, verdict>>
  BY DEF Restart, targetVars, connectionVars
<1>3. Start(w)[1] \in Nat /\ Start(w)[2] \in 0..(Nonces - 1)
  BY WorkerKinds, FirstLaunch, SpacesAssumption DEF Start
<1>4. \A v \in Workers :
          /\ searching'[v] = IF v = w THEN extraNonce1[w[1]] ELSE searching[v]
          /\ extraNonce2'[v] = IF v = w THEN Start(w)[1] ELSE extraNonce2[v]
          /\ nonce'[v] = IF v = w THEN Start(w)[2] ELSE nonce[v]
          /\ search'[v] = IF v = w THEN {} ELSE search[v]
          /\ hashes'[v] = IF v = w THEN 0 ELSE hashes[v]
  BY <1>1 DEF TypeOK, Restart
<1>5. TypeOK'
  <2>1. searching' \in [Workers -> -1..(ExtraNonce1s - 1)]
    <3>1. extraNonce1[w[1]] \in -1..(ExtraNonce1s - 1)
      BY <1>1, WorkerKinds DEF TypeOK
    <3> QED BY <1>1, <3>1 DEF TypeOK, Restart
  <2>2. extraNonce2' \in [Workers -> Nat] /\ nonce' \in [Workers -> 0..(Nonces - 1)]
    BY <1>1, <1>3 DEF TypeOK, Restart
  <2>3. search' \in [Workers -> SUBSET Headers] /\ hashes' \in [Workers -> Nat]
    BY <1>1 DEF TypeOK, Restart
  <2> QED BY <1>1, <1>2, <2>1, <2>2, <2>3 DEF TypeOK
<1>6. Sessions'
  BY <1>1, <1>2, <1>4 DEF Sessions
<1>7. InClass'
  <2> SUFFICES ASSUME NEW v \in Workers, searching'[v] # -1
               PROVE  /\ v[1] \in CpuMiners => extraNonce2'[v] % Threads = v[2]
                      /\ v[1] \notin CpuMiners => LaunchStart(nonce'[v])
    BY DEF InClass, LaunchStart
  <2>1. CASE v # w
    BY <1>1, <1>4, <2>1 DEF InClass
  <2>2. CASE v = w
    <3>1. extraNonce2'[w] = Start(w)[1] /\ nonce'[w] = Start(w)[2]
      BY <1>4
    <3>2. CASE w[1] \in CpuMiners
      <4>1. w[2] \in 0..Threads - 1 /\ Threads \in Nat \ {0}
        BY <3>2, WorkerKinds, SpacesAssumption
      <4>2. PICK i \in Nat : i = w[2] /\ i < Threads
        BY <4>1
      <4>3. i % Threads = i
        BY <4>1, <4>2, SmallRemainder
      <4> QED BY <2>2, <3>1, <3>2, <4>2, <4>3 DEF Start
    <3>3. CASE w[1] \notin CpuMiners
      BY <2>2, <3>1, <3>3, FirstLaunch DEF Start
    <3> QED BY <3>2, <3>3
  <2> QED BY <2>1, <2>2
<1>8. Attributed'
  BY <1>1, <1>2 DEF Attributed
<1>9. Counted'
  <2> SUFFICES ASSUME NEW v \in Workers
               PROVE  /\ IsFiniteSet(search'[v]) /\ hashes'[v] = Cardinality(search'[v])
                      /\ \A h \in search'[v] : Behind(v, h[2], h[3])'
    BY DEF Counted
  <2>1. CASE v # w
    BY <1>1, <1>4, <2>1 DEF Counted, Behind
  <2>2. CASE v = w
    BY <1>4, <2>2, FS_EmptySet
  <2> QED BY <2>1, <2>2
<1> QED BY <1>5, <1>6, <1>7, <1>8, <1>9 DEF SearchInv

\* A CPU thread's step: one header, then the next nonce or extraNonce2.
LEMMA CpuStepKeeps ==
    ASSUME SearchInv, NEW w \in Workers, CpuStep(w)
    PROVE  SearchInv'
<1>1. TypeOK /\ InClass
  BY DEF SearchInv
<1>2. PICK n, n2 : n = nonce[w] /\ n2 = extraNonce2[w]
  OBVIOUS
<1>3. n \in 0..(Nonces - 1) /\ n2 \in Nat /\ Nonces \in Nat \ {0} /\ Threads \in Nat \ {0}
  BY <1>1, <1>2, SpacesAssumption DEF TypeOK
<1>4. w[1] \in CpuMiners /\ searching[w] # -1
  BY DEF CpuStep, Try
<1>5. Try(w, {n}) /\ UNCHANGED <<targetVars, connectionVars, searching>>
  BY <1>2 DEF CpuStep
<1>6. {n} \in SUBSET (0..(Nonces - 1)) /\ IsFiniteSet({n}) /\ \A i \in {n} : nonce[w] <= i
  <2>1. IsFiniteSet({n})
    BY FS_Singleton
  <2> QED BY <1>2, <1>3, <2>1
\* The next nonce.
<1>7. PICK m : m = (n + 1) % Nonces
  OBVIOUS
<1>8. m \in 0..(Nonces - 1) /\ (m = 0 \/ m = n + 1)
  <2>1. PICK c \in Nat : c = n + 1 /\ c <= Nonces
    BY <1>3
  <2>2. (c < Nonces => c % Nonces = c) /\ (~(c < Nonces) => c % Nonces = c - Nonces)
    BY <1>3, <2>1, SmallRemainder
  <2> QED BY <1>3, <1>7, <2>1, <2>2
<1>9. nonce' = [nonce EXCEPT ![w] = m] /\ nonce'[w] = m
  BY <1>1, <1>2, <1>7 DEF CpuStep, TypeOK
<1>10. PICK k : k = IF m = 0 THEN n2 + Threads ELSE n2
  OBVIOUS
<1>11. extraNonce2' = [extraNonce2 EXCEPT ![w] = k] /\ k \in Nat
  <2>1. extraNonce2' = [extraNonce2 EXCEPT ![w] = IF m = 0 THEN n2 + Threads ELSE n2]
    BY <1>1, <1>2, <1>9 DEF CpuStep, TypeOK
  <2> QED BY <1>3, <1>10, <2>1
<1>12. k % Threads = w[2]
  <2>1. n2 % Threads = w[2]
    BY <1>1, <1>2, <1>4 DEF InClass
  <2>2. (n2 + Threads) % Threads = n2 % Threads
    BY <1>3, SameClass
  <2> QED BY <1>10, <2>1, <2>2
<1>13. \/ k > extraNonce2[w]
       \/ k = extraNonce2[w] /\ m >= nonce[w] /\ \A i \in {n} : i < m
  BY <1>2, <1>3, <1>8, <1>10
<1>14. verdict' \in [miner : Decisions, pool : Decisions]
  BY ResultType DEF CpuStep
<1> QED BY <1>4, <1>5, <1>6, <1>8, <1>9, <1>11, <1>12, <1>13, <1>14, TryKeeps

\* A GPU's launch: its nonces, then the next launch or the next extraNonce2.
LEMMA GpuStepKeeps ==
    ASSUME SearchInv, NEW w \in Workers, GpuStep(w)
    PROVE  SearchInv'
<1>1. TypeOK /\ InClass
  BY DEF SearchInv
<1>2. PICK x, n2 : x = nonce[w] /\ n2 = extraNonce2[w]
  OBVIOUS
<1>3. x \in 0..(Nonces - 1) /\ n2 \in Nat /\ Nonces \in Nat \ {0} /\ Batch \in Nat \ {0}
  BY <1>1, <1>2, SpacesAssumption DEF TypeOK
<1>4. w[1] \notin CpuMiners /\ searching[w] # -1
  BY WorkerKinds DEF GpuStep, Try
<1>5. LaunchStart(x)
  BY <1>1, <1>2, <1>4 DEF InClass
<1>6. x \in Nat \ {0} /\ x + Batch <= Nonces + 1
  <2>1. PICK k \in Nat : x = 1 + Batch * k /\ x + Batch <= Nonces + 1
    BY <1>5 DEF LaunchStart
  <2>2. Batch * k \in Nat
    BY <1>3
  <2> QED BY <2>1, <2>2
<1>7. PICK ns : ns = Launch(x)
  OBVIOUS
<1>8. ns \in SUBSET (0..(Nonces - 1)) /\ IsFiniteSet(ns)
  BY <1>6, <1>7, LaunchFinite
<1>9. \A n \in ns : n \in Nat /\ x <= n /\ n < x + Batch
  BY <1>6, <1>7, LaunchAhead
<1>10. Try(w, ns) /\ UNCHANGED <<targetVars, connectionVars, searching>>
  BY <1>2, <1>7 DEF GpuStep
<1>11. PICK next : next = (x + Batch) % Nonces
  OBVIOUS
<1>12. next \in 0..(Nonces - 1) /\ (next < x \/ (next = x + Batch /\ LaunchStart(next)))
  BY <1>5, <1>6, <1>11, LaunchNext
<1>13. 1 % Nonces = 1 /\ LaunchStart(1) /\ 1 \in 0..(Nonces - 1)
  BY FirstLaunch, SpacesAssumption
\* The sweep starts again with the next extraNonce2, or launches again.
<1>14. PICK y, k : /\ nonce' = [nonce EXCEPT ![w] = y] /\ extraNonce2' = [extraNonce2 EXCEPT ![w] = k]
                   /\ \/ y = 1 /\ k = n2 + 1
                      \/ y = next /\ k = n2 /\ ~(next < x)
  <2>1. \/ nonce' = [nonce EXCEPT ![w] = 1] /\ extraNonce2' = [extraNonce2 EXCEPT ![w] = n2 + 1]
        \/ /\ nonce' = [nonce EXCEPT ![w] = IF next < x THEN 1 ELSE next]
           /\ extraNonce2' = [extraNonce2 EXCEPT ![w] = IF next < x THEN n2 + 1 ELSE n2]
    BY <1>1, <1>2, <1>11, <1>13 DEF GpuStep, TypeOK
  <2> QED BY <2>1
<1>15. y \in 0..(Nonces - 1) /\ k \in Nat /\ LaunchStart(y)
  BY <1>3, <1>12, <1>13, <1>14
<1>16. verdict' \in [miner : Decisions, pool : Decisions]
  <2>1. \/ \E n, sum : Result(w, n, sum)
        \/ verdict' = Nothing
    BY DEF GpuStep
  <2> QED BY <2>1, ResultType DEF Nothing, Decisions
<1>17. \A n \in ns : nonce[w] <= n
  BY <1>2, <1>9
<1>18. \/ k > extraNonce2[w]
       \/ k = extraNonce2[w] /\ y >= nonce[w] /\ \A n \in ns : n < y
  BY <1>2, <1>3, <1>9, <1>12, <1>14
<1> QED BY <1>4, <1>8, <1>10, <1>14, <1>15, <1>16, <1>17, <1>18, TryKeeps

LEMMA SearchUnchanged ==
    ASSUME SearchInv, UNCHANGED vars
    PROVE  SearchInv'
  BY DEF SearchInv, Sessions, TypeOK, InClass, Attributed, Counted, Behind,
         LaunchStart, vars, targetVars, connectionVars, cursorVars, searchVars

-----------------------------------------------------------------------------
\* SearchInv holds in every reachable state: Connect draws a number nobody
\* has, each worker's step moves it past what it has just hashed, and a restart
\* forgets the search it ends.
THEOREM SearchPartition == Spec => []SearchInv
<1>1. SearchInv /\ [Next]_vars => SearchInv'
  <2> SUFFICES ASSUME SearchInv, [Next]_vars PROVE SearchInv'
    OBVIOUS
  <2>1. ASSUME NEW m \in Miners, Connect(m) PROVE SearchInv'
    BY <2>1, ConnectKeeps
  <2>2. ASSUME NEW w \in Workers, CpuStep(w) PROVE SearchInv'
    BY <2>2, CpuStepKeeps
  <2>3. ASSUME NEW w \in Workers, GpuStep(w) PROVE SearchInv'
    BY <2>3, GpuStepKeeps
  <2>4. ASSUME NEW w \in Workers, Restart(w) PROVE SearchInv'
    BY <2>4, RestartKeeps
  <2>5. CASE Finished
    BY <2>5, SearchUnchanged DEF Finished
  <2>6. CASE UNCHANGED vars
    BY <2>6, SearchUnchanged
  <2> QED BY <2>1, <2>2, <2>3, <2>4, <2>5, <2>6 DEF Next
<1> QED BY <1>1, InitSearch, PTL DEF Spec

\* The state of the search keeps its types: every nonce and extraNonce1 stays in
\* its field's range (mineJob's and the host's counters, assignExtraNonce1).
THEOREM SearchTypeCorrect == Spec => []TypeOK
<1>1. SearchInv => TypeOK
  BY DEF SearchInv
<1> QED BY <1>1, SearchPartition, PTL

\* Until the counter wraps, a header names the connection that hashed it, and
\* its extraNonce2 the thread.
LEMMA HeaderNamesWorker ==
    ASSUME SearchInv, nonce1 <= ExtraNonce1s, NEW s \in tried, NEW t \in tried, s[3] = t[3]
    PROVE  s[1] = t[1] /\ s[2] = t[2]
<1>1. TypeOK /\ Attributed /\ ExtraNonce1s \in Nat \ {0} /\ nonce1 \in Nat
  BY SpacesAssumption DEF SearchInv, TypeOK
<1>2. PICK a, b : a = s[1] /\ b = t[1]
  OBVIOUS
<1>3. a \in Nat \ {0} /\ b \in Nat \ {0} /\ a <= ExtraNonce1s /\ b <= ExtraNonce1s
  BY <1>1, <1>2, SpacesAssumption DEF TypeOK, Attributed
<1>4. a % ExtraNonce1s = b % ExtraNonce1s
  BY <1>1, <1>2 DEF Attributed
<1>5. a = b
  <2>1. /\ a < ExtraNonce1s => a % ExtraNonce1s = a
        /\ ~(a < ExtraNonce1s) => a % ExtraNonce1s = a - ExtraNonce1s
    BY <1>1, <1>3, SmallRemainder
  <2>2. /\ b < ExtraNonce1s => b % ExtraNonce1s = b
        /\ ~(b < ExtraNonce1s) => b % ExtraNonce1s = b - ExtraNonce1s
    BY <1>1, <1>3, SmallRemainder
  <2> QED BY <1>1, <1>3, <1>4, <2>1, <2>2
<1>6. s[2] \in Workers /\ t[2] \in Workers /\ s[2][1] = t[2][1]
  BY <1>1, <1>2, <1>5 DEF TypeOK, Attributed
<1>7. s[2][2] = t[2][2]
  <2>1. CASE s[2][1] \in CpuMiners
    BY <1>1, <1>6, <2>1 DEF Attributed
  <2>2. CASE s[2][1] \notin CpuMiners
    BY <1>6, <2>2, WorkerKinds
  <2> QED BY <2>1, <2>2
<1>8. s[2] = <<s[2][1], s[2][2]>> /\ t[2] = <<t[2][1], t[2][2]>>
  BY <1>6, WorkerKinds
<1> QED BY <1>2, <1>5, <1>6, <1>7, <1>8

\* Whatever the number of miners and threads and the sizes of the nonce spaces,
\* no search of a job hashes a header twice, however often notifications send
\* its workers back to the start, and until the pool's counter wraps no header is
\* hashed for two connections or by two threads: the residue classes of mineJob
\* and the extraNonce1 of assignExtraNonce1 part the work.
THEOREM NoHeaderTwice == Spec => []NoDoubleWork
<1>1. SearchInv => NoDoubleWork
  <2> SUFFICES ASSUME SearchInv PROVE NoDoubleWork
    OBVIOUS
  <2>1. \A w \in Workers : hashes[w] = Cardinality(search[w])
    BY DEF SearchInv, Counted
  <2>2. nonce1 <= ExtraNonce1s =>
            \A s, t \in tried : s[3] = t[3] => s[1] = t[1] /\ s[2] = t[2]
    BY HeaderNamesWorker
  <2> QED BY <2>1, <2>2 DEF NoDoubleWork
<1> QED BY <1>1, SearchPartition, PTL

-----------------------------------------------------------------------------
\* Quotient and remainder are unique.
LEMMA QuotientIs ==
    ASSUME NEW a \in Nat, NEW b \in Nat \ {0}, NEW q \in Nat, NEW r \in Nat,
           a = b * q + r, r < b
    PROVE  a \div b = q
<1> DEFINE d == a \div b
<1>1. d \in Nat /\ a % b \in 0..(b - 1) /\ a = b * d + (a % b)
  BY Division
<1> HIDE DEF d
<1>2. ~(q > d)
  <2> SUFFICES ASSUME q > d PROVE FALSE
    OBVIOUS
  <2>1. b * q >= b * d + b
    BY <1>1, Multiples
  <2> QED BY <1>1, <2>1
<1>3. ~(d > q)
  <2> SUFFICES ASSUME d > q PROVE FALSE
    OBVIOUS
  <2>1. b * d >= b * q + b
    BY <1>1, Multiples
  <2> QED BY <1>1, <2>1
<1> QED BY <1>1, <1>2, <1>3 DEF d

\* A non-empty set of natural numbers has a least one.  Applied to the numbers a
\* statement is false of, it is induction.
LEMMA LeastNumber ==
    ASSUME NEW T, T \subseteq Nat, T # {}
    PROVE  \E m \in T : \A k \in T : m <= k
<1> DEFINE R == {p \in Nat \X Nat : p[1] < p[2]}
<1>1. IsWellFoundedOn(R, Nat)
  BY NatLessThanWellFounded DEF OpToRel
<1>2. PICK m \in T : \A k \in T : ~(<<k, m>> \in R)
  BY <1>1, WFMin
<1>3. \A k \in T : ~(k < m)
  BY <1>2
<1> QED BY <1>3

LEMMA SetInduction ==
    ASSUME NEW T, 0 \in T, \A n \in Nat : n \in T => n + 1 \in T
    PROVE  Nat \subseteq T
<1> SUFFICES ASSUME Nat \ T # {} PROVE FALSE
  OBVIOUS
<1>1. PICK m \in Nat \ T : \A k \in Nat \ T : m <= k
  BY LeastNumber
<1>2. m # 0 /\ m - 1 \in Nat /\ m - 1 \in T
  BY <1>1
<1>3. (m - 1) + 1 \in T
  BY <1>2
<1> QED BY <1>1, <1>3

\* Functions defined by recursion along the naturals exist.
Recursion(g, n, V, base, F) ==
    /\ g \in [0..n -> V] /\ g[0] = base
    /\ \A k \in 1..n : g[k] = F[<<g[k - 1], k - 1>>]

LEMMA RecursionExists ==
    ASSUME NEW V, NEW base \in V, NEW F \in [V \X Nat -> V], NEW n \in Nat
    PROVE  \E g : Recursion(g, n, V, base, F)
<1> DEFINE Rec(g, m) == Recursion(g, m, V, base, F)
           T == {m \in Nat : \E g : Rec(g, m)}
<1>1. 0 \in T
  <2> DEFINE g == [k \in 0..0 |-> base]
  <2>1. Rec(g, 0)
    BY DEF Recursion
  <2> QED BY <2>1
<1>2. ASSUME NEW m \in Nat, m \in T PROVE m + 1 \in T
  <2>1. PICK h : Rec(h, m)
    BY <1>2
  <2> DEFINE g == [k \in 0..(m + 1) |-> IF k = m + 1 THEN F[<<h[m], m>>] ELSE h[k]]
  <2>2. \A k \in 0..m : k \in 0..(m + 1) /\ k # m + 1
    OBVIOUS
  <2>3. \A k \in 0..m : g[k] = h[k]
    BY <2>2
  <2>4. m \in 0..m /\ 0 \in 0..m /\ m + 1 \in 0..(m + 1)
    OBVIOUS
  <2>5. h[m] \in V /\ g[m + 1] = F[<<h[m], m>>]
    BY <2>1, <2>4 DEF Recursion
  <2>6. \A k \in 0..(m + 1) : k \in 0..m \/ k = m + 1
    OBVIOUS
  <2>7. \A k \in 0..(m + 1) : g[k] \in V
    BY <2>1, <2>3, <2>5, <2>6 DEF Recursion
  <2>8. g \in [0..(m + 1) -> V]
    BY <2>7
  <2> HIDE DEF g
  <2>9. ASSUME NEW k \in 1..(m + 1)
        PROVE  g[k] = F[<<g[k - 1], k - 1>>]
    <3>1. CASE k = m + 1
      <4>1. k - 1 = m
        BY <3>1
      <4> QED BY <2>3, <2>4, <2>5, <3>1, <4>1
    <3>2. CASE k # m + 1
      <4>1. k \in 1..m /\ k \in 0..m /\ k - 1 \in 0..m
        BY <3>2
      <4> QED BY <2>1, <2>3, <4>1 DEF Recursion
    <3> QED BY <3>1, <3>2
  <2>10. Rec(g, m + 1)
    BY <2>1, <2>3, <2>4, <2>8, <2>9 DEF Recursion
  <2> HIDE DEF Rec
  <2> QED BY <2>10
<1> HIDE DEF T
<1>3. n \in T
  BY <1>1, <1>2, SetInduction
<1> QED BY <1>3 DEF T

LEMMA PowerDef ==
    /\ Power = [k \in 0..Width |-> IF k = 0 THEN 1 ELSE Base * Power[k - 1]]
    /\ \A k \in 0..Width : Power[k] \in Nat \ {0}
<1> DEFINE V == Nat \ {0}
           F == [p \in V \X Nat |-> Base * p[1]]
<1>1. Width \in Nat /\ Base \in Nat \ {0}
  BY SpacesAssumption
<1>2. F \in [V \X Nat -> V] /\ 1 \in V
  BY <1>1
<1>3. \A a \in Nat \ {0}, k \in Nat : F[<<a, k>>] = Base * a
  OBVIOUS
<1> HIDE DEF F, V
<1>4. PICK g : Recursion(g, Width, V, 1, F)
  BY <1>1, <1>2, RecursionExists
<1> USE DEF V
<1>5. \A k \in 0..Width : k # 0 => k \in 1..Width /\ k - 1 \in 0..Width /\ k - 1 \in Nat
  BY <1>1
<1>6. g = [k \in 0..Width |-> IF k = 0 THEN 1 ELSE Base * g[k - 1]]
  BY <1>3, <1>4, <1>5 DEF Recursion
<1>7. Power = [k \in 0..Width |-> IF k = 0 THEN 1 ELSE Base * Power[k - 1]]
  BY <1>6 DEF Power
<1>8. ASSUME NEW k \in Nat PROVE k \in 0..Width => Power[k] \in Nat \ {0}
  <2> DEFINE T == {i \in Nat : i \in 0..Width => Power[i] \in Nat \ {0}}
  <2>1. 0 \in T
    BY <1>1, <1>7
  <2>2. ASSUME NEW i \in Nat, i \in T PROVE i + 1 \in T
    <3> SUFFICES ASSUME i + 1 \in 0..Width PROVE Power[i + 1] \in Nat \ {0}
      OBVIOUS
    <3>1. i \in 0..Width /\ i + 1 # 0 /\ (i + 1) - 1 = i
      BY <1>1
    <3>2. Power[i + 1] = Base * Power[i] /\ Power[i] \in Nat \ {0}
      BY <1>7, <2>2, <3>1
    <3> QED BY <1>1, <3>2
  <2> HIDE DEF T
  <2>3. k \in T
    BY <2>1, <2>2, SetInduction
  <2> QED BY <2>3 DEF T
<1> QED BY <1>1, <1>7, <1>8

\* The number the first k digits of a hash make, as HashToBig adds them up.
UpTo(sum) ==
    CHOOSE upTo : upTo = [k \in 0..Width |-> IF k = 0 THEN 0
                                             ELSE upTo[k - 1] + sum[k - 1] * Power[k - 1]]

LEMMA HashToBigIs == \A sum : HashToBig(sum) = UpTo(sum)[Width]
BY DEF HashToBig, UpTo

LEMMA PowerFacts ==
    /\ Width \in Nat \ {0} /\ Base \in Nat \ {0, 1}
    /\ Power[0] = 1
    /\ \A k \in 0..Width - 1 : Power[k + 1] = Base * Power[k]
    /\ \A k \in 0..Width : Power[k] \in Nat \ {0}
<1>1. Width \in Nat \ {0} /\ Base \in Nat \ {0, 1}
  BY SpacesAssumption
<1>2. 0 \in 0..Width
  BY <1>1
<1>3. \A k \in 0..Width - 1 : k + 1 \in 0..Width /\ k + 1 # 0 /\ (k + 1) - 1 = k
  BY <1>1
<1> QED BY <1>1, <1>2, <1>3, PowerDef

\* A number with a digit more.
LEMMA OneDigitMore ==
    ASSUME NEW value \in Nat, NEW digit \in 0..(Base - 1), NEW p \in Nat \ {0}, value < p
    PROVE  digit * p \in Nat /\ value + digit * p < Base * p
<1>1. Base \in Nat
  BY PowerFacts
<1>2. p * Base >= p * digit + p
  BY <1>1, Multiples
<1>3. p * Base = Base * p /\ p * digit = digit * p /\ digit * p \in Nat
  BY <1>1
<1>4. \A a, b, c \in Nat : b >= a + p => value + a < b
  OBVIOUS
<1>5. Base * p \in Nat
  BY <1>1
<1> QED BY <1>2, <1>3, <1>4, <1>5

LEMMA UpToFacts ==
    ASSUME NEW sum \in Sums
    PROVE  /\ UpTo(sum)[0] = 0
           /\ \A k \in 0..Width - 1 : UpTo(sum)[k + 1] = UpTo(sum)[k] + sum[k] * Power[k]
           /\ \A k \in 0..Width : UpTo(sum)[k] \in Nat /\ UpTo(sum)[k] < Power[k]
<1> DEFINE F == [p \in Nat \X Nat |-> IF p[2] \in 0..Width - 1 THEN p[1] + sum[p[2]] * Power[p[2]]
                                                             ELSE 0]
<1>1. Width \in Nat /\ \A k \in 0..Width - 1 : sum[k] \in 0..(Base - 1) /\ k \in 0..Width
  BY PowerFacts DEF Sums
<1>2. \A k \in 0..Width - 1 : sum[k] \in Nat /\ Power[k] \in Nat
  BY <1>1, PowerFacts
<1>3. \A k \in 0..Width - 1 : sum[k] * Power[k] \in Nat
  BY <1>2
<1>4. F \in [Nat \X Nat -> Nat] /\ 0 \in Nat
  BY <1>3
<1>5. \A a \in Nat, k \in 0..Width - 1 : F[<<a, k>>] = a + sum[k] * Power[k]
  BY <1>1
<1> HIDE DEF F
<1>6. PICK g : Recursion(g, Width, Nat, 0, F)
  BY <1>1, <1>4, RecursionExists
<1>7. \A k \in 0..Width : k # 0 => k \in 1..Width /\ k - 1 \in 0..Width - 1 /\ k - 1 \in 0..Width
  BY <1>1
<1>8. g = [k \in 0..Width |-> IF k = 0 THEN 0 ELSE g[k - 1] + sum[k - 1] * Power[k - 1]]
  BY <1>5, <1>6, <1>7 DEF Recursion
<1> DEFINE u == UpTo(sum)
<1>9. u = [k \in 0..Width |-> IF k = 0 THEN 0 ELSE u[k - 1] + sum[k - 1] * Power[k - 1]]
  BY <1>8 DEF UpTo
<1> HIDE DEF u
<1>10. u[0] = 0
  BY <1>1, <1>9
<1>11. \A k \in 0..Width - 1 : u[k + 1] = u[k] + sum[k] * Power[k]
  <2>1. \A k \in 0..Width - 1 : k + 1 \in 0..Width /\ k + 1 # 0 /\ (k + 1) - 1 = k
    BY <1>1
  <2> QED BY <1>9, <2>1
<1>12. ASSUME NEW k \in Nat PROVE k \in 0..Width => u[k] \in Nat /\ u[k] < Power[k]
  <2> DEFINE T == {i \in Nat : i \in 0..Width => u[i] \in Nat /\ u[i] < Power[i]}
  <2>1. 0 \in T
    BY <1>1, <1>10, PowerFacts
  <2>2. ASSUME NEW i \in Nat, i \in T PROVE i + 1 \in T
    <3> SUFFICES ASSUME i + 1 \in 0..Width PROVE u[i + 1] \in Nat /\ u[i + 1] < Power[i + 1]
      OBVIOUS
    <3>1. i \in 0..Width - 1 /\ i \in 0..Width
      BY <1>1
    <3>2. u[i] \in Nat /\ u[i] < Power[i] /\ Power[i] \in Nat \ {0} /\ sum[i] \in 0..(Base - 1)
      BY <1>1, <2>2, <3>1, PowerFacts
    <3>3. sum[i] * Power[i] \in Nat /\ u[i] + sum[i] * Power[i] < Base * Power[i]
      BY <3>2, OneDigitMore
    <3>4. u[i + 1] = u[i] + sum[i] * Power[i] /\ Power[i + 1] = Base * Power[i]
      BY <1>11, <3>1, PowerFacts
    <3> QED BY <3>2, <3>3, <3>4
  <2> HIDE DEF T
  <2>3. k \in T
    BY <2>1, <2>2, SetInduction
  <2> QED BY <2>3 DEF T
<1>13. \A k \in 0..Width : u[k] \in Nat /\ u[k] < Power[k]
  BY <1>1, <1>12
<1> QED BY <1>10, <1>11, <1>13 DEF u

\* The highest differing digit decides which of two numbers is smaller.
LEMMA HighestDigitDecides ==
    ASSUME NEW s \in Sums, NEW t \in Sums, NEW d \in 0..Width - 1, s[d] < t[d],
           \A j \in 0..Width - 1 : j > d => s[j] = t[j]
    PROVE  UpTo(s)[Width] < UpTo(t)[Width]
<1> DEFINE a == UpTo(s)
           b == UpTo(t)
<1>1. /\ \A k \in 0..Width - 1 : a[k + 1] = a[k] + s[k] * Power[k]
      /\ \A k \in 0..Width : a[k] \in Nat /\ a[k] < Power[k]
      /\ \A k \in 0..Width - 1 : b[k + 1] = b[k] + t[k] * Power[k]
      /\ \A k \in 0..Width : b[k] \in Nat /\ b[k] < Power[k]
  BY UpToFacts
<1> HIDE DEF a, b
<1>2. /\ Width \in Nat
      /\ \A k \in 0..Width - 1 : s[k] \in Nat /\ t[k] \in Nat /\ k \in 0..Width
      /\ \A k \in 0..Width - 1 : Power[k] \in Nat \ {0}
  BY PowerFacts DEF Sums
<1>3. a[d + 1] < b[d + 1]
  <2>1. Power[d] * t[d] >= Power[d] * s[d] + Power[d]
    BY <1>2, Multiples
  <2>2. Power[d] * t[d] = t[d] * Power[d] /\ Power[d] * s[d] = s[d] * Power[d]
        /\ t[d] * Power[d] \in Nat /\ s[d] * Power[d] \in Nat
    BY <1>2
  <2>3. a[d] \in Nat /\ b[d] \in Nat /\ a[d] < Power[d] /\ Power[d] \in Nat
    BY <1>1, <1>2
  <2>4. a[d + 1] = a[d] + s[d] * Power[d] /\ b[d + 1] = b[d] + t[d] * Power[d]
    BY <1>1
  <2>5. \A u, v, p, x, y \in Nat : u < p /\ y >= x + p => u + x < v + y
    OBVIOUS
  <2> QED BY <2>1, <2>2, <2>3, <2>4, <2>5
<1>4. ASSUME NEW k \in Nat
      PROVE  k \in (d + 1)..Width => a[k] < b[k]
  <2> DEFINE T == {i \in Nat : i \in (d + 1)..Width => a[i] < b[i]}
  <2>1. 0 \in T
    OBVIOUS
  <2>2. ASSUME NEW i \in Nat, i \in T PROVE i + 1 \in T
    <3> SUFFICES ASSUME i + 1 \in (d + 1)..Width PROVE a[i + 1] < b[i + 1]
      OBVIOUS
    <3>1. CASE i = d
      BY <1>3, <3>1
    <3>2. CASE i # d
      <4>1. i \in (d + 1)..Width /\ i \in 0..Width - 1 /\ i > d
        BY <1>2, <3>2
      <4>2. a[i] < b[i] /\ s[i] = t[i] /\ a[i] \in Nat /\ b[i] \in Nat
        BY <1>1, <1>2, <2>2, <4>1
      <4>3. a[i + 1] = a[i] + s[i] * Power[i] /\ b[i + 1] = b[i] + s[i] * Power[i]
        BY <1>1, <4>1, <4>2
      <4>4. s[i] * Power[i] \in Nat
        BY <1>2, <4>1
      <4> QED BY <4>2, <4>3, <4>4
    <3> QED BY <3>1, <3>2
  <2> HIDE DEF T
  <2>3. k \in T
    BY <2>1, <2>2, SetInduction
  <2> QED BY <2>3 DEF T
<1>5. Width \in (d + 1)..Width
  BY <1>2
<1> QED BY <1>2, <1>4, <1>5 DEF a, b

\* The digits of a number, the least significant one first, and its parts above them.
Digits(n) == Reversed(ToTargetBytes(n))

LEMMA DigitsAre ==
    \A n \in Nat : /\ Digits(n) \in Sums
                   /\ \A i \in 0..Width - 1 : Digits(n)[i] = (n \div Power[i]) % Base
                   /\ \A i \in 0..Width - 1 : ToTargetBytes(n)[i] = Digits(n)[Width - 1 - i]
<1> SUFFICES ASSUME NEW n \in Nat
             PROVE  /\ Digits(n) \in Sums
                    /\ \A i \in 0..Width - 1 : Digits(n)[i] = (n \div Power[i]) % Base
                    /\ \A i \in 0..Width - 1 : ToTargetBytes(n)[i] = Digits(n)[Width - 1 - i]
  OBVIOUS
<1>1. /\ Width \in Nat \ {0}
      /\ \A i \in 0..Width - 1 : /\ Width - 1 - i \in 0..Width - 1
                                 /\ Width - 1 - (Width - 1 - i) = i
                                 /\ i \in 0..Width
  BY PowerFacts
<1>2. \A i \in 0..Width - 1 : ToTargetBytes(n)[Width - 1 - i] = (n \div Power[i]) % Base
  BY <1>1 DEF ToTargetBytes
<1>3. \A i \in 0..Width - 1 : Digits(n)[i] = ToTargetBytes(n)[Width - 1 - i]
  BY DEF Digits, Reversed
<1>4. \A i \in 0..Width - 1 : (n \div Power[i]) % Base \in 0..Base - 1
  <2> SUFFICES ASSUME NEW i \in 0..Width - 1
               PROVE  (n \div Power[i]) % Base \in 0..Base - 1
    OBVIOUS
  <2>1. Power[i] \in Nat \ {0} /\ Base \in Nat \ {0}
    BY <1>1, PowerFacts
  <2>2. n \div Power[i] \in Nat
    BY <2>1, Division
  <2> QED BY <2>1, <2>2, Division
<1>5. Digits(n) \in Sums
  BY <1>2, <1>3, <1>4 DEF Sums, Digits, Reversed
<1> QED BY <1>1, <1>2, <1>3, <1>5

\* HashToBig of a number's digits is the number: toTargetBytes loses nothing.
LEMMA DigitsMakeTheNumber ==
    ASSUME NEW n \in Nat, n < Power[Width]
    PROVE  UpTo(Digits(n))[Width] = n
<1> DEFINE u == UpTo(Digits(n))
           q(k) == n \div Power[k]
<1>1. /\ u[0] = 0
      /\ \A k \in 0..Width - 1 : u[k + 1] = u[k] + Digits(n)[k] * Power[k]
      /\ \A k \in 0..Width : u[k] \in Nat /\ u[k] < Power[k]
      /\ \A k \in 0..Width - 1 : Digits(n)[k] = q(k) % Base
  BY UpToFacts, DigitsAre
<1>2. \A k \in 0..Width : q(k) \in Nat
  <2> SUFFICES ASSUME NEW k \in 0..Width PROVE q(k) \in Nat
    OBVIOUS
  <2>1. Power[k] \in Nat \ {0}
    BY PowerFacts
  <2> QED BY <2>1, Division
<1> HIDE DEF u
<1>3. ASSUME NEW k \in Nat
      PROVE  k \in 0..Width => n = Power[k] * q(k) + u[k]
  <2> DEFINE T == {i \in Nat : i \in 0..Width => n = Power[i] * q(i) + u[i]}
  <2>1. 0 \in T
    <3>1. Power[0] = 1 /\ u[0] = 0 /\ n \div 1 = n
      BY <1>1, PowerFacts
    <3> QED BY <3>1
  <2>2. ASSUME NEW i \in Nat, i \in T PROVE i + 1 \in T
    <3> SUFFICES ASSUME i + 1 \in 0..Width PROVE n = Power[i + 1] * q(i + 1) + u[i + 1]
      OBVIOUS
    <3>1. i \in 0..Width - 1 /\ i \in 0..Width
      BY PowerFacts
    <3>2. PICK p \in Nat \ {0} : p = Power[i]
      BY <3>1, PowerFacts
    <3>3. PICK r \in Nat : r = q(i) \div Base
      BY <1>2, <3>1, PowerFacts, Division
    <3>4. PICK x \in Nat : x = q(i) % Base
      BY <1>2, <3>1, PowerFacts, Division
    <3>5. q(i) = Base * r + x
      BY <1>2, <3>1, <3>3, <3>4, PowerFacts, Division
    <3>6. u[i + 1] = u[i] + x * p /\ Power[i + 1] = Base * p
      BY <1>1, <3>1, <3>2, <3>4, PowerFacts
    <3>7. n = p * (Base * r + x) + u[i]
      BY <2>2, <3>1, <3>2, <3>5
    <3>8. p * (Base * r + x) = (Base * p) * r + x * p
      BY PowerFacts
    <3>9. n = (Base * p) * r + u[i + 1] /\ u[i + 1] \in Nat /\ u[i + 1] < Base * p
      <4>1. u[i] \in Nat /\ u[i + 1] \in Nat /\ u[i + 1] < Base * p
        BY <1>1, <3>1, <3>6
      <4>2. (Base * p) * r \in Nat /\ x * p \in Nat
        BY PowerFacts
      <4> QED BY <3>6, <3>7, <3>8, <4>1, <4>2
    <3>10. q(i + 1) = r
      <4>1. PICK b \in Nat \ {0} : b = Base * p
        BY PowerFacts
      <4>2. PICK c \in Nat : c = u[i + 1]
        BY <3>9
      <4>3. n = b * r + c /\ c < b
        BY <3>9, <4>1, <4>2
      <4>4. n \div b = r
        BY <4>3, QuotientIs
      <4> QED BY <3>6, <4>1, <4>4
    <3> QED BY <3>6, <3>9, <3>10
  <2> HIDE DEF T
  <2>3. k \in T
    BY <2>1, <2>2, SetInduction
  <2> QED BY <2>3 DEF T
<1>4. n = Power[Width] * q(Width) + u[Width]
  BY <1>3, PowerFacts
<1>5. q(Width) = 0
  <2>1. PICK b \in Nat \ {0} : b = Power[Width]
    BY PowerFacts
  <2>2. n = b * 0 + n
    BY <2>1
  <2>3. n \div b = 0
    BY <2>1, <2>2, QuotientIs
  <2> QED BY <2>1, <2>3
<1>6. u[Width] \in Nat /\ Power[Width] \in Nat
  BY <1>1, PowerFacts
<1> HIDE DEF q
<1> QED BY <1>4, <1>5, <1>6 DEF u

LEMMA HighestDifference ==
    ASSUME NEW s \in Sums, NEW t \in Sums, s # t
    PROVE  \E d \in 0..Width - 1 :
              s[d] # t[d] /\ \A j \in 0..Width - 1 : j > d => s[j] = t[j]
<1> DEFINE T == {k \in Nat : k \in 0..Width - 1 /\ s[Width - 1 - k] # t[Width - 1 - k]}
<1>1. /\ Width \in Nat
      /\ \A i \in 0..Width - 1 : /\ Width - 1 - i \in 0..Width - 1 /\ Width - 1 - i \in Nat
                                 /\ Width - 1 - (Width - 1 - i) = i
  BY PowerFacts
<1>2. PICK i \in 0..Width - 1 : s[i] # t[i]
  <2> DEFINE I == 0..Width - 1
             D == 0..Base - 1
  <2>1. s \in [I -> D] /\ t \in [I -> D]
    BY DEF Sums
  <2> HIDE DEF I, D
  <2>2. \E i \in I : s[i] # t[i]
    BY <2>1
  <2> QED BY <2>2 DEF I
<1>3. Width - 1 - i \in T
  BY <1>1, <1>2
<1>4. PICK m \in T : \A k \in T : m <= k
  BY <1>3, LeastNumber
<1>5. ASSUME NEW j \in 0..Width - 1, j > Width - 1 - m, s[j] # t[j]
      PROVE  FALSE
  <2>1. Width - 1 - j \in T
    BY <1>1, <1>5
  <2>2. m <= Width - 1 - j
    BY <1>4, <2>1
  <2> QED BY <1>1, <1>5, <2>2
<1> QED BY <1>1, <1>4, <1>5

\* cmpHashTarget mirrors the comparison of the numbers (miner.go:104-107).
LEMMA CmpIsNumeric ==
    ASSUME NEW sum \in Sums, NEW n \in Nat, n < Power[Width]
    PROVE  /\ CmpHashTarget(sum, ToTargetBytes(n)) \in {-1, 0, 1}
           /\ CmpHashTarget(sum, ToTargetBytes(n)) = -1 <=> HashToBig(sum) < n
           /\ CmpHashTarget(sum, ToTargetBytes(n)) = 1 <=> HashToBig(sum) > n
<1> DEFINE t == Digits(n)
           be == ToTargetBytes(n)
           differing == {i \in 0..Width - 1 : sum[Width - 1 - i] # be[i]}
           first == CHOOSE i \in differing : \A j \in differing : i <= j
<1>1. /\ t \in Sums /\ \A i \in 0..Width - 1 : be[i] = t[Width - 1 - i]
      /\ HashToBig(sum) = UpTo(sum)[Width] /\ n = UpTo(t)[Width]
  BY DigitsAre, HashToBigIs, DigitsMakeTheNumber
<1>2. UpTo(sum)[Width] \in Nat /\ UpTo(t)[Width] \in Nat
  BY <1>1, UpToFacts, PowerFacts
<1>3. CmpHashTarget(sum, be) =
        IF differing = {} THEN 0 ELSE IF sum[Width - 1 - first] < be[first] THEN -1 ELSE 1
  BY DEF CmpHashTarget
<1>4. /\ Width \in Nat
      /\ \A i \in 0..Width - 1 : /\ Width - 1 - i \in 0..Width - 1
                                 /\ Width - 1 - (Width - 1 - i) = i
  BY PowerFacts
<1> HIDE DEF t, be, first
<1>5. CASE sum = t
  <2>1. differing = {}
    BY <1>1, <1>5
  <2>2. HashToBig(sum) = n
    BY <1>1, <1>5
  <2> QED BY <1>1, <1>2, <1>3, <2>1, <2>2 DEF be
<1>6. CASE sum # t
  <2>1. PICK d \in 0..Width - 1 :
           sum[d] # t[d] /\ \A j \in 0..Width - 1 : j > d => sum[j] = t[j]
    BY <1>1, <1>6, HighestDifference
  <2>2. Width - 1 - d \in differing
    BY <1>1, <1>4, <2>1
  <2>3. ASSUME NEW j \in differing PROVE Width - 1 - d <= j
    <3>1. sum[Width - 1 - j] # t[Width - 1 - j] /\ Width - 1 - j \in 0..Width - 1
      BY <1>1, <1>4
    <3>2. ~(Width - 1 - j > d)
      BY <2>1, <3>1
    <3> QED BY <1>4, <3>2
  <2>4. first \in differing /\ \A j \in differing : first <= j
    BY <2>2, <2>3 DEF first
  <2>5. first = Width - 1 - d
    <3>1. first <= Width - 1 - d /\ Width - 1 - d <= first /\ first \in 0..Width - 1
      BY <2>2, <2>3, <2>4
    <3> QED BY <1>4, <3>1
  <2>6. Width - 1 - first = d /\ be[first] = t[d]
    BY <1>1, <1>4, <2>4, <2>5
  <2>7. sum[d] \in Int /\ t[d] \in Int
    BY <1>1, PowerFacts DEF Sums
  <2>8. CASE sum[d] < t[d]
    <3>1. UpTo(sum)[Width] < UpTo(t)[Width]
      BY <1>1, <2>1, <2>8, HighestDigitDecides
    <3>2. CmpHashTarget(sum, be) = -1
      BY <1>3, <2>2, <2>6, <2>8
    <3> QED BY <1>1, <1>2, <3>1, <3>2 DEF be
  <2>9. CASE t[d] < sum[d]
    <3>1. UpTo(t)[Width] < UpTo(sum)[Width]
      BY <1>1, <2>1, <2>9, HighestDigitDecides
    <3>2. CmpHashTarget(sum, be) = 1
      BY <1>3, <2>2, <2>6, <2>7, <2>9
    <3> QED BY <1>1, <1>2, <3>1, <3>2 DEF be
  <2> QED BY <2>1, <2>7, <2>8, <2>9
<1> QED BY <1>5, <1>6

\* So does the kernel's, on the reversed target.
LEMMA KernelIsNumeric ==
    ASSUME NEW sum \in Sums, shareTarget \in Nat, shareTarget < Power[Width]
    PROVE  KernelAccepts(sum) <=> HashToBig(sum) <= shareTarget
<1> DEFINE t == Digits(shareTarget)
           differing == {i \in 0..Width - 1 : sum[i] # t[i]}
<1>1. /\ t \in Sums /\ HashToBig(sum) = UpTo(sum)[Width] /\ shareTarget = UpTo(t)[Width]
  BY DigitsAre, HashToBigIs, DigitsMakeTheNumber
<1>2. UpTo(sum)[Width] \in Nat /\ UpTo(t)[Width] \in Nat
  BY <1>1, UpToFacts, PowerFacts
<1>3. KernelAccepts(sum) <=>
         \A i \in differing : (\A j \in differing : j <= i) => sum[i] < t[i]
  BY DEF KernelAccepts, Digits
<1> HIDE DEF t
<1>4. CASE sum = t
  BY <1>1, <1>2, <1>3, <1>4
<1>5. CASE sum # t
  <2>1. PICK d \in 0..Width - 1 :
           sum[d] # t[d] /\ \A j \in 0..Width - 1 : j > d => sum[j] = t[j]
    BY <1>1, <1>5, HighestDifference
  <2>2. d \in differing /\ \A j \in differing : j <= d
    <3>1. \A j \in differing : ~(j > d)
      BY <2>1
    <3> QED BY <2>1, <3>1
  <2>3. ASSUME NEW i \in differing, \A j \in differing : j <= i
        PROVE  i = d
    <3>1. i <= d /\ d <= i
      BY <2>2, <2>3
    <3> QED BY <3>1
  <2>4. KernelAccepts(sum) <=> sum[d] < t[d]
    BY <1>3, <2>2, <2>3
  <2>5. sum[d] \in Int /\ t[d] \in Int
    BY <1>1, PowerFacts DEF Sums
  <2>6. sum[d] < t[d] => UpTo(sum)[Width] < UpTo(t)[Width]
    BY <1>1, <2>1, HighestDigitDecides
  <2>7. t[d] < sum[d] => UpTo(t)[Width] < UpTo(sum)[Width]
    BY <1>1, <2>1, HighestDigitDecides
  <2> QED BY <1>1, <1>2, <2>1, <2>4, <2>5, <2>6, <2>7
<1> QED BY <1>4, <1>5

-----------------------------------------------------------------------------
\* The lengths of the byte strings that are copied.
LEMMA Sizes ==
    \A f : /\ DOMAIN f = 0..3 => Size(f) = 4
           /\ DOMAIN f = 0..7 => Size(f) = 8
           /\ DOMAIN f = 0..31 => Size(f) = 32
           /\ DOMAIN f = 0..143 => Size(f) = 144
<1>1. ASSUME NEW f, NEW n \in Nat, DOMAIN f = 0..n
      PROVE  Size(f) = n + 1
  <2>1. Cardinality(0..n) = n + 1
    <3>1. \A a, b \in Int : Cardinality(a..b) = IF a > b THEN 0 ELSE b - a + 1
      BY FS_Interval
    <3> QED BY <3>1
  <2> QED BY <1>1, <2>1 DEF Size
<1>2. \A f : \A n \in {3, 7, 31, 143} : DOMAIN f = 0..n => Size(f) = n + 1
  BY <1>1
<1> QED BY <1>2

DataByte(i) == <<"data", 0, i>>

\* A header of the node's bytes with the three searched values in their places.
HeaderByte(n1, n2, n, i) ==
    IF i \in 140..143 THEN <<"nonce", n, i - 140>>
    ELSE IF i \in 144..147 THEN <<"extraNonce1", n1, i - 144>>
    ELSE IF i \in 148..155 THEN <<"extraNonce2", n2, i - 148>>
    ELSE DataByte(i)

LEMMA FieldsAre ==
    /\ DOMAIN Data = 0..191 /\ \A i \in 0..191 : Data[i] = DataByte(i)
    /\ DOMAIN Notification.version = 0..3
    /\ \A i \in 0..3 : Notification.version[i] = DataByte(i)
    /\ DOMAIN Notification.prevHash = 0..31
    /\ \A i \in 0..31 : Notification.prevHash[i] = DataByte(4 + i)
    /\ DOMAIN Notification.genTx1 = 0..143
    /\ \A i \in 0..143 : Notification.genTx1[i] = DataByte(36 + i)
    /\ DOMAIN Notification.ntime = 0..3
    /\ \A i \in 0..3 : Notification.ntime[i] = DataByte(136 + i)
<1> USE DEF prevBlockOffset, merkleRootOffset, timestampOffset, HeaderLen
<1>1. DOMAIN Data = 0..191 /\ \A i \in 0..191 : Data[i] = DataByte(i)
  BY DEF Data, Bytes, DataByte
<1>2. /\ Notification.version = Slice(Data, 0, 4) /\ Notification.prevHash = Slice(Data, 4, 36)
      /\ Notification.genTx1 = Slice(Data, 36, 180) /\ Notification.ntime = Slice(Data, 136, 140)
  BY DEF Notification
<1>3. /\ DOMAIN Slice(Data, 0, 4) = 0..3
      /\ \A i \in 0..3 : Slice(Data, 0, 4)[i] = Data[0 + i]
  BY DEF Slice
<1>4. /\ DOMAIN Slice(Data, 4, 36) = 0..31
      /\ \A i \in 0..31 : Slice(Data, 4, 36)[i] = Data[4 + i]
  BY DEF Slice
<1>5. /\ DOMAIN Slice(Data, 36, 180) = 0..143
      /\ \A i \in 0..143 : Slice(Data, 36, 180)[i] = Data[36 + i]
  BY DEF Slice
<1>6. /\ DOMAIN Slice(Data, 136, 140) = 0..3
      /\ \A i \in 0..3 : Slice(Data, 136, 140)[i] = Data[136 + i]
  BY DEF Slice
<1> QED BY <1>1, <1>2, <1>3, <1>4, <1>5, <1>6

\* buildJob restores the blob's header from the fields of mining.notify.
LEMMA JobIs ==
    ASSUME NEW n1
    PROVE  /\ DOMAIN BuildJob(Notification, n1) = 0..179
           /\ \A i \in 0..179 : BuildJob(Notification, n1)[i] =
                 IF i \in 144..147 THEN <<"extraNonce1", n1, i - 144>> ELSE DataByte(i)
<1> DEFINE zero == Bytes("zero", 0, 180)
           version == Copy(zero, 0, Notification.version)
           prevHash == Copy(version, 4, Notification.prevHash)
           genTx1 == Copy(prevHash, 36, Notification.genTx1)
           ntime == Copy(genTx1, 136, Notification.ntime)
           nonce1Bytes == Bytes("extraNonce1", n1, 4)
<1>1. BuildJob(Notification, n1) = Copy(ntime, 144, nonce1Bytes)
  BY DEF BuildJob, HeaderLen, prevBlockOffset, merkleRootOffset, timestampOffset, extraDataOffset
<1>2. DOMAIN zero = 0..179
  BY DEF Bytes
<1>3. /\ DOMAIN nonce1Bytes = 0..3
      /\ \A i \in 0..3 : nonce1Bytes[i] = <<"extraNonce1", n1, i>>
  BY DEF Bytes
<1> HIDE DEF zero, nonce1Bytes
<1>4. /\ DOMAIN version = 0..179
      /\ \A i \in 0..179 : i < 4 => version[i] = DataByte(i)
  <2>1. /\ DOMAIN version = DOMAIN zero
        /\ \A i \in DOMAIN zero : version[i] = IF i \in 0..3 THEN Notification.version[i - 0]
                                                            ELSE zero[i]
    <3>1. Size(Notification.version) = 4
      BY FieldsAre, Sizes
    <3> QED BY <3>1 DEF Copy
  <2>2. \A i \in 0..3 : i - 0 = i
    OBVIOUS
  <2>3. \A i \in 0..3 : Notification.version[i - 0] = DataByte(i)
    BY <2>2, FieldsAre
  <2>4. ASSUME NEW i \in 0..179, i < 4 PROVE version[i] = DataByte(i)
    <3>1. i \in DOMAIN zero /\ i \in 0..3
      BY <1>2, <2>4
    <3> QED BY <2>1, <2>3, <3>1
  <2> QED BY <1>2, <2>1, <2>4
<1> HIDE DEF version
<1>5. /\ DOMAIN prevHash = 0..179
      /\ \A i \in 0..179 : i < 36 => prevHash[i] = DataByte(i)
  <2>1. /\ DOMAIN prevHash = DOMAIN version
        /\ \A i \in DOMAIN version : prevHash[i] = IF i \in 4..35 THEN Notification.prevHash[i - 4]
                                                                 ELSE version[i]
    <3>1. Size(Notification.prevHash) = 32
      BY FieldsAre, Sizes
    <3> QED BY <3>1 DEF Copy
  <2>2. \A i \in 4..35 : i - 4 \in 0..31 /\ 4 + (i - 4) = i
    OBVIOUS
  <2>3. \A i \in 4..35 : Notification.prevHash[i - 4] = DataByte(i)
    BY <2>2, FieldsAre
  <2>4. ASSUME NEW i \in 0..179, i < 36 PROVE prevHash[i] = DataByte(i)
    <3>1. i \in DOMAIN version
      BY <1>4
    <3>2. CASE i \in 4..35
      BY <2>1, <2>3, <3>1, <3>2
    <3>3. CASE i \notin 4..35
      <4>1. prevHash[i] = version[i]
        BY <2>1, <3>1, <3>3
      <4> QED BY <1>4, <2>4, <3>3, <4>1
    <3> QED BY <3>2, <3>3
  <2> QED BY <1>4, <2>1, <2>4
<1> HIDE DEF prevHash
<1>6. /\ DOMAIN genTx1 = 0..179
      /\ \A i \in 0..179 : genTx1[i] = DataByte(i)
  <2>1. /\ DOMAIN genTx1 = DOMAIN prevHash
        /\ \A i \in DOMAIN prevHash : genTx1[i] = IF i \in 36..179 THEN Notification.genTx1[i - 36]
                                                                  ELSE prevHash[i]
    <3>1. Size(Notification.genTx1) = 144
      BY FieldsAre, Sizes
    <3> QED BY <3>1 DEF Copy
  <2>2. \A i \in 36..179 : i - 36 \in 0..143 /\ 36 + (i - 36) = i
    OBVIOUS
  <2>3. \A i \in 36..179 : Notification.genTx1[i - 36] = DataByte(i)
    BY <2>2, FieldsAre
  <2>4. ASSUME NEW i \in 0..179 PROVE genTx1[i] = DataByte(i)
    <3>1. i \in DOMAIN prevHash
      BY <1>5
    <3>2. CASE i \in 36..179
      BY <2>1, <2>3, <3>1, <3>2
    <3>3. CASE i \notin 36..179
      <4>1. genTx1[i] = prevHash[i]
        BY <2>1, <3>1, <3>3
      <4> QED BY <1>5, <2>4, <3>3, <4>1
    <3> QED BY <3>2, <3>3
  <2> QED BY <1>5, <2>1, <2>4
<1> HIDE DEF genTx1
<1>7. /\ DOMAIN ntime = 0..179
      /\ \A i \in 0..179 : ntime[i] = DataByte(i)
  <2>1. /\ DOMAIN ntime = DOMAIN genTx1
        /\ \A i \in DOMAIN genTx1 : ntime[i] = IF i \in 136..139 THEN Notification.ntime[i - 136]
                                                                ELSE genTx1[i]
    <3>1. Size(Notification.ntime) = 4
      BY FieldsAre, Sizes
    <3> QED BY <3>1 DEF Copy
  <2>2. \A i \in 136..139 : i - 136 \in 0..3 /\ 136 + (i - 136) = i
    OBVIOUS
  <2>3. \A i \in 136..139 : Notification.ntime[i - 136] = DataByte(i)
    BY <2>2, FieldsAre
  <2>4. ASSUME NEW i \in 0..179 PROVE ntime[i] = DataByte(i)
    <3>1. i \in DOMAIN genTx1
      BY <1>6
    <3>2. CASE i \in 136..139
      BY <2>1, <2>3, <3>1, <3>2
    <3>3. CASE i \notin 136..139
      <4>1. ntime[i] = genTx1[i]
        BY <2>1, <3>1, <3>3
      <4> QED BY <1>6, <2>4, <3>3, <4>1
    <3> QED BY <3>2, <3>3
  <2> QED BY <1>6, <2>1, <2>4
<1> HIDE DEF ntime
<1>8. /\ DOMAIN Copy(ntime, 144, nonce1Bytes) = DOMAIN ntime
      /\ \A i \in DOMAIN ntime : Copy(ntime, 144, nonce1Bytes)[i] =
            IF i \in 144..147 THEN nonce1Bytes[i - 144] ELSE ntime[i]
  <2>1. Size(nonce1Bytes) = 4
    BY <1>3, Sizes
  <2> QED BY <2>1 DEF Copy
<1>9. \A i \in 144..147 : i - 144 \in 0..3
  OBVIOUS
<1> QED BY <1>1, <1>3, <1>7, <1>8, <1>9

\* The four byte and eight byte values as they are copied.
LEMMA ValueBytes ==
    ASSUME NEW field, NEW value
    PROVE  /\ DOMAIN Bytes(field, value, 4) = 0..3 /\ Size(Bytes(field, value, 4)) = 4
           /\ \A i \in 0..3 : Bytes(field, value, 4)[i] = <<field, value, i>>
           /\ DOMAIN Bytes(field, value, 8) = 0..7 /\ Size(Bytes(field, value, 8)) = 8
           /\ \A i \in 0..7 : Bytes(field, value, 8)[i] = <<field, value, i>>
<1>1. /\ DOMAIN Bytes(field, value, 4) = 0..3
      /\ \A i \in 0..3 : Bytes(field, value, 4)[i] = <<field, value, i>>
  BY DEF Bytes
<1>2. /\ DOMAIN Bytes(field, value, 8) = 0..7
      /\ \A i \in 0..7 : Bytes(field, value, 8)[i] = <<field, value, i>>
  BY DEF Bytes
<1> QED BY <1>1, <1>2, Sizes

\* What the miners hash,
LEMMA HashedIs ==
    ASSUME NEW n1, NEW n2, NEW n
    PROVE  /\ DOMAIN HashedHeader(n1, n2, n) = 0..179
           /\ \A i \in 0..179 : HashedHeader(n1, n2, n)[i] = HeaderByte(n1, n2, n, i)
<1> DEFINE job == BuildJob(Notification, n1)
           nonce2Bytes == Bytes("extraNonce2", n2, 8)
           nonceBytes == Bytes("nonce", n, 4)
           second == Copy(job, 148, nonce2Bytes)
<1>1. HashedHeader(n1, n2, n) = Copy(second, 140, nonceBytes)
  BY DEF HashedHeader, extraNonce2Offset, nonceOffset
<1>2. /\ Size(nonce2Bytes) = 8 /\ Size(nonceBytes) = 4
      /\ \A i \in 0..7 : nonce2Bytes[i] = <<"extraNonce2", n2, i>>
      /\ \A i \in 0..3 : nonceBytes[i] = <<"nonce", n, i>>
  BY ValueBytes
<1>3. /\ DOMAIN job = 0..179
      /\ \A i \in 0..179 : job[i] = IF i \in 144..147 THEN <<"extraNonce1", n1, i - 144>>
                                                      ELSE DataByte(i)
  BY JobIs
<1> HIDE DEF job, nonce2Bytes, nonceBytes
<1>4. /\ DOMAIN second = DOMAIN job
      /\ \A i \in DOMAIN job : second[i] = IF i \in 148..155 THEN nonce2Bytes[i - 148] ELSE job[i]
  BY <1>2 DEF Copy
<1> HIDE DEF second
<1>5. /\ DOMAIN Copy(second, 140, nonceBytes) = DOMAIN second
      /\ \A i \in DOMAIN second : Copy(second, 140, nonceBytes)[i] =
            IF i \in 140..143 THEN nonceBytes[i - 140] ELSE second[i]
  BY <1>2 DEF Copy
<1>6. /\ \A i \in 148..155 : i - 148 \in 0..7 /\ i \notin 140..143 /\ i \notin 144..147
      /\ \A i \in 140..143 : i - 140 \in 0..3
  OBVIOUS
<1>7. ASSUME NEW i \in 0..179
      PROVE  HashedHeader(n1, n2, n)[i] = HeaderByte(n1, n2, n, i)
  <2>1. CASE i \in 140..143
    <3>1. HashedHeader(n1, n2, n)[i] = nonceBytes[i - 140]
      BY <1>1, <1>3, <1>4, <1>5, <2>1
    <3> QED BY <1>2, <1>6, <2>1, <3>1 DEF HeaderByte
  <2>2. CASE i \in 148..155
    <3>1. HashedHeader(n1, n2, n)[i] = second[i] /\ second[i] = nonce2Bytes[i - 148]
      BY <1>1, <1>3, <1>4, <1>5, <1>6, <2>2
    <3> QED BY <1>2, <1>6, <2>2, <3>1 DEF HeaderByte
  <2>3. CASE i \notin 140..143 /\ i \notin 148..155
    <3>1. HashedHeader(n1, n2, n)[i] = job[i]
      BY <1>1, <1>3, <1>4, <1>5, <2>3
    <3> QED BY <1>3, <2>3, <3>1 DEF HeaderByte
  <2> QED BY <2>1, <2>2, <2>3
<1> QED BY <1>1, <1>3, <1>4, <1>5, <1>7

\* and what the pool rebuilds.
LEMMA SolvedIs ==
    ASSUME NEW n1, NEW n2, NEW n
    PROVE  LET solved == BuildSolvedHeader(n1, n2, Notification.ntime, n)
           IN  /\ DOMAIN solved = 0..179
               /\ \A i \in 0..179 : solved[i] = HeaderByte(n1, n2, n, i)
<1> DEFINE nonce1Bytes == Bytes("extraNonce1", n1, 4)
           nonce2Bytes == Bytes("extraNonce2", n2, 8)
           nonceBytes == Bytes("nonce", n, 4)
           first == Copy(Data, 144, nonce1Bytes)
           second == Copy(first, 148, nonce2Bytes)
           time == Copy(second, 136, Notification.ntime)
           whole == Copy(time, 140, nonceBytes)
           solved == BuildSolvedHeader(n1, n2, Notification.ntime, n)
<1>1. solved = Slice(whole, 0, 180)
  <2>1. 144 + 4 = 148
    OBVIOUS
  <2> QED BY <2>1 DEF BuildSolvedHeader, extraDataOffset, timestampOffset, nonceOffset, HeaderLen
<1>2. /\ Size(nonce1Bytes) = 4 /\ Size(nonce2Bytes) = 8 /\ Size(nonceBytes) = 4
      /\ \A i \in 0..3 : nonce1Bytes[i] = <<"extraNonce1", n1, i>>
      /\ \A i \in 0..7 : nonce2Bytes[i] = <<"extraNonce2", n2, i>>
      /\ \A i \in 0..3 : nonceBytes[i] = <<"nonce", n, i>>
  BY ValueBytes
<1>3. DOMAIN Data = 0..191 /\ \A i \in 0..191 : Data[i] = DataByte(i)
  BY FieldsAre
<1> HIDE DEF nonce1Bytes, nonce2Bytes, nonceBytes, solved
<1>4. /\ DOMAIN first = DOMAIN Data
      /\ \A i \in DOMAIN Data : first[i] = IF i \in 144..147 THEN nonce1Bytes[i - 144] ELSE Data[i]
  BY <1>2 DEF Copy
<1> HIDE DEF first
<1>5. /\ DOMAIN second = DOMAIN first
      /\ \A i \in DOMAIN first : second[i] = IF i \in 148..155 THEN nonce2Bytes[i - 148]
                                                               ELSE first[i]
  BY <1>2 DEF Copy
<1> HIDE DEF second
<1>6. /\ DOMAIN time = DOMAIN second
      /\ \A i \in DOMAIN second : time[i] = IF i \in 136..139 THEN Notification.ntime[i - 136]
                                                              ELSE second[i]
  <2>1. Size(Notification.ntime) = 4
    BY FieldsAre, Sizes
  <2> QED BY <2>1 DEF Copy
<1> HIDE DEF time
<1>7. /\ DOMAIN whole = DOMAIN time
      /\ \A i \in DOMAIN time : whole[i] = IF i \in 140..143 THEN nonceBytes[i - 140] ELSE time[i]
  BY <1>2 DEF Copy
<1> HIDE DEF whole
<1>8. DOMAIN solved = 0..179 /\ \A i \in 0..179 : solved[i] = whole[0 + i]
  BY <1>1 DEF Slice
<1>9. \A i \in 136..139 : Notification.ntime[i - 136] = DataByte(i)
  <2>1. \A i \in 136..139 : i - 136 \in 0..3 /\ 136 + (i - 136) = i
    OBVIOUS
  <2> QED BY <2>1, FieldsAre
<1>10. /\ \A i \in 144..147 : i - 144 \in 0..3
       /\ \A i \in 148..155 : i - 148 \in 0..7
       /\ \A i \in 140..143 : i - 140 \in 0..3
  OBVIOUS
<1>11. ASSUME NEW i \in 0..179
       PROVE  solved[i] = HeaderByte(n1, n2, n, i)
  <2>1. solved[i] = whole[i] /\ i \in 0..191
    BY <1>8
  <2>2. i \in DOMAIN Data /\ i \in DOMAIN first /\ i \in DOMAIN second /\ i \in DOMAIN time
    BY <1>3, <1>4, <1>5, <1>6, <2>1, SMTT(30)
  <2>3. whole[i] = IF i \in 140..143 THEN nonceBytes[i - 140] ELSE time[i]
    BY <1>7, <2>2
  <2>4. time[i] = IF i \in 136..139 THEN Notification.ntime[i - 136] ELSE second[i]
    BY <1>6, <2>2
  <2>5. second[i] = IF i \in 148..155 THEN nonce2Bytes[i - 148] ELSE first[i]
    BY <1>5, <2>2
  <2>6. first[i] = IF i \in 144..147 THEN nonce1Bytes[i - 144] ELSE Data[i]
    BY <1>4, <2>2
  <2>7. Data[i] = DataByte(i)
    BY <1>3, <2>1
  <2>8. CASE i \in 140..143
    <3>1. nonceBytes[i - 140] = <<"nonce", n, i - 140>>
      BY <1>2, <1>10, <2>8
    <3> QED BY <2>1, <2>3, <2>8, <3>1 DEF HeaderByte
  <2>9. CASE i \in 144..147
    <3>1. nonce1Bytes[i - 144] = <<"extraNonce1", n1, i - 144>>
      BY <1>2, <1>10, <2>9
    <3>2. i \notin 140..143 /\ i \notin 136..139 /\ i \notin 148..155
      BY <2>9
    <3> QED BY <2>1, <2>3, <2>4, <2>5, <2>6, <2>9, <3>1, <3>2 DEF HeaderByte
  <2>10. CASE i \in 148..155
    <3>1. nonce2Bytes[i - 148] = <<"extraNonce2", n2, i - 148>>
      BY <1>2, <1>10, <2>10
    <3>2. i \notin 140..143 /\ i \notin 136..139 /\ i \notin 144..147
      BY <2>10
    <3> QED BY <2>1, <2>3, <2>4, <2>5, <2>10, <3>1, <3>2 DEF HeaderByte
  <2>11. CASE i \in 136..139
    <3>1. i \notin 140..143 /\ i \notin 144..147 /\ i \notin 148..155
      BY <2>11
    <3>2. Notification.ntime[i - 136] = DataByte(i)
      BY <1>9, <2>11
    <3> QED BY <2>1, <2>3, <2>4, <2>11, <3>1, <3>2 DEF HeaderByte
  <2>12. CASE i < 136 \/ i > 155
    <3>1. i \notin 136..139 /\ i \notin 140..143 /\ i \notin 144..147 /\ i \notin 148..155
      BY <2>12
    <3> QED BY <2>1, <2>3, <2>4, <2>5, <2>6, <2>7, <3>1 DEF HeaderByte
  <2>13. \/ i \in 140..143 \/ i \in 144..147 \/ i \in 148..155 \/ i \in 136..139
         \/ i < 136 \/ i > 155
    OBVIOUS
  <2> QED BY <2>8, <2>9, <2>10, <2>11, <2>12, <2>13
<1> QED BY <1>8, <1>11 DEF solved

\* The pool rebuilds every header as it was hashed, byte by byte.
LEMMA HeadersAgree ==
    \A n1 \in 0..ExtraNonce1s - 1, n2 \in 0..ExtraNonce2s - 1, n \in 0..Nonces - 1 :
        Rebuilt[n1][n2][n]
<1>1. ASSUME NEW n1, NEW n2, NEW n
      PROVE  BuildSolvedHeader(n1, n2, Notification.ntime, n) = HashedHeader(n1, n2, n)
  <2> DEFINE a == BuildSolvedHeader(n1, n2, Notification.ntime, n)
             b == HashedHeader(n1, n2, n)
  <2>1. DOMAIN a = 0..179 /\ DOMAIN b = 0..179 /\ \A i \in 0..179 : a[i] = b[i]
    BY HashedIs, SolvedIs
  <2>2. a = [i \in DOMAIN a |-> a[i]] /\ b = [i \in DOMAIN b |-> b[i]]
    BY DEF BuildSolvedHeader, Slice, HashedHeader, Copy
  <2> HIDE DEF a, b
  <2>3. a = b
    BY <2>1, <2>2
  <2> QED BY <2>3 DEF a, b
<1>2. ASSUME NEW n1 \in 0..ExtraNonce1s - 1, NEW n2 \in 0..ExtraNonce2s - 1,
             NEW n \in 0..Nonces - 1
      PROVE  Rebuilt[n1][n2][n]
  <2>1. BuildSolvedHeader(n1, n2, Notification.ntime, n) = HashedHeader(n1, n2, n)
    BY <1>1
  <2> QED BY <2>1 DEF Rebuilt
<1> QED BY <1>2

-----------------------------------------------------------------------------
\* The three comparisons decide alike.
LEMMA DecisionsAgree ==
    ASSUME TypeOK, NEW sum \in Sums
    PROVE  /\ ClassifySolution(sum) = EvaluateSubmit(HashToBig(sum))
           /\ KernelAccepts(sum) <=> EvaluateSubmit(HashToBig(sum)) # "Rejected"
<1>1. /\ shareTarget \in Nat /\ shareTarget < Power[Width]
      /\ blockTarget \in Nat /\ blockTarget < Power[Width]
  <2>1. /\ shareTarget \in Nat /\ shareTarget <= PowLimit
        /\ blockTarget \in Nat /\ blockTarget <= PowLimit
    BY SpacesAssumption DEF TypeOK
  <2>2. PowLimit \in Nat /\ Power[Width] \in Nat
    BY SpacesAssumption, PowerFacts
  <2> QED BY <2>1, <2>2, TargetsAssumption
<1>2. HashToBig(sum) \in Nat
  BY HashToBigIs, UpToFacts, PowerFacts
<1>3. PICK hash \in Nat : hash = HashToBig(sum)
  BY <1>2
<1>4. PICK share \in {-1, 0, 1} : share = CmpHashTarget(sum, ToTargetBytes(shareTarget))
  BY <1>1, CmpIsNumeric
<1>5. PICK block \in {-1, 0, 1} : block = CmpHashTarget(sum, ToTargetBytes(blockTarget))
  BY <1>1, CmpIsNumeric
<1>6. share = 1 <=> hash > shareTarget
  BY <1>1, <1>3, <1>4, CmpIsNumeric
<1>7. block = 1 <=> hash > blockTarget
  BY <1>1, <1>3, <1>5, CmpIsNumeric
<1>8. ClassifySolution(sum) = IF share = 1 THEN "Rejected"
                              ELSE IF block # 1 THEN "SubmitBlock" ELSE "AcceptedShare"
  BY <1>4, <1>5 DEF ClassifySolution
<1>9. KernelAccepts(sum) <=> hash <= shareTarget
  BY <1>1, <1>3, KernelIsNumeric
<1> QED BY <1>1, <1>3, <1>6, <1>7, <1>8, <1>9 DEF EvaluateSubmit

SameVerdict == verdict.miner = verdict.pool

\* Every hash is judged alike: the pool's header is the one that was hashed.
LEMMA ResultAgrees ==
    ASSUME TypeOK, Sessions, NEW w \in Workers, extraNonce2[w] \in 0..ExtraNonce2s - 1,
           NEW n \in 0..Nonces - 1, NEW sum \in Sums, searching[w] # -1, Result(w, n, sum)
    PROVE  SameVerdict'
<1>1. searching[w] \in 0..ExtraNonce1s - 1 /\ searching[w] = extraNonce1[w[1]]
  BY SearchesItsConnection
<1>2. Rebuilt[searching[w]][extraNonce2[w]][n]
  BY <1>1, HeadersAgree
<1>3. CASE Submit(w, n, sum)
  <2>1. verdict' = [miner |-> ClassifySolution(sum), pool |-> EvaluateSubmit(HashToBig(sum))]
    BY <1>1, <1>2, <1>3 DEF Submit
  <2> QED BY <2>1, DecisionsAgree DEF SameVerdict
<1>4. CASE verdict' = Nothing
  BY <1>4 DEF Nothing, SameVerdict
<1> QED BY <1>3, <1>4 DEF Result

LEMMA SameVerdictStep == SearchInv /\ SameVerdict /\ [Next]_vars => SameVerdict'
<1> SUFFICES ASSUME TypeOK, Sessions, SameVerdict, [Next]_vars PROVE SameVerdict'
  BY DEF SearchInv
<1>1. CASE UNCHANGED verdict
  BY <1>1 DEF SameVerdict
<1>2. ASSUME NEW w \in Workers, CpuStep(w) \/ GpuStep(w)
      PROVE  \/ UNCHANGED verdict
             \/ verdict' = Nothing
             \/ /\ searching[w] # -1
                /\ \E n \in 0..Nonces - 1, sum \in Sums : Result(w, n, sum)
  <2>1. CASE CpuStep(w)
    BY <1>2, <2>1 DEF CpuStep, Try, TypeOK
  <2>2. CASE GpuStep(w)
    <3>1. Launch(nonce[w]) \subseteq 0..Nonces - 1
      <4>1. nonce[w] \in Nat /\ Nonces \in Nat \ {0} /\ Batch \in Nat
        BY <1>2, SpacesAssumption DEF TypeOK
      <4>2. ASSUME NEW i \in 0..Batch - 1 PROVE (nonce[w] + i) % Nonces \in 0..Nonces - 1
        <5>1. nonce[w] + i \in Nat
          BY <4>1
        <5> QED BY <4>1, <5>1, Division
      <4> QED BY <4>2 DEF Launch
    <3> QED BY <2>2, <3>1 DEF GpuStep, Try
  <2> QED BY <1>2, <2>1, <2>2
<1>3. ASSUME NEW w \in Workers, CpuStep(w) \/ GpuStep(w)
      PROVE  SameVerdict'
  <2>2. extraNonce2[w] \in 0..ExtraNonce2s - 1
    <3>1. extraNonce2[w] \in Nat /\ extraNonce2[w] < ExtraNonce2s
      BY <1>3 DEF CpuStep, GpuStep, Try, TypeOK
    <3> QED BY <3>1, SpacesAssumption
  <2>3. CASE verdict' = Nothing
    BY <2>3 DEF Nothing, SameVerdict
  <2> QED BY <1>1, <1>2, <1>3, <2>2, <2>3, ResultAgrees
<1>4. (\E m \in Miners : Connect(m)) \/ (\E w \in Workers : Restart(w)) \/ Finished
        \/ UNCHANGED vars => UNCHANGED verdict
  BY DEF Connect, Restart, Finished, vars
<1> QED BY <1>1, <1>3, <1>4 DEF Next

\* cmpHashTarget, search_nonce and EvaluateSubmit agree on every hash and target,
\* for digits of any base and number, and the header BuildSolvedHeader makes is the
\* one that was hashed: no share is accepted by a miner and rejected by the pool.
THEOREM MinersAndPoolAgree == Spec => []VerdictsAgree
<1>1. Init => SameVerdict
  BY DEF Init, Nothing, SameVerdict
<1>2. TypeOK /\ SameVerdict => VerdictsAgree
  BY DecisionsAgree DEF SameVerdict, VerdictsAgree
<1> QED BY <1>1, <1>2, SearchPartition, SearchTypeCorrect, SameVerdictStep, PTL DEF Spec
=============================================================================
