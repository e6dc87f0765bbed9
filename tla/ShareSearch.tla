----------------------------- MODULE ShareSearch ------------------------------
(***************************************************************************)
(* One job searched by every miner of the pool at once, and its shares     *)
(* checked: the extraNonce1 the server draws (server.go), the extraNonce2  *)
(* and nonce values each CPU thread and each GPU sweep goes through, the   *)
(* header they hash, built from the fields of mining.notify, the targets   *)
(* they compare the hash with, and the header and the decision of the      *)
(* pool's handleSubmit (internal/mining).                                  *)
(*                                                                         *)
(* Header bytes are symbols, each naming the field, value and place it was *)
(* copied from, at the code's offsets.  The proof of work hash is a free   *)
(* choice, the same for the same header.  Hashes and targets are numbers   *)
(* of Width digits; the nonce and extraNonce spaces are small.             *)
(***************************************************************************)
EXTENDS Integers, Sequences, FiniteSets

CONSTANTS
    CpuMiners, GpuMiners,
    Threads,           \* hash threads of a CPU miner
    Nonces,            \* 2^32
    ExtraNonce1s,      \* 2^32
    ExtraNonce2s,      \* bound of the model: values of extraNonce2 (2^64)
    Batch,             \* nonces of one kernel launch (2^26)
    Base, Width,       \* 256 and 32: digits of a hash
    PowLimit,          \* the easiest target
    Difficulties,      \* configured share difficulties
    BlockTargets,      \* targets of the templates' bits
    MaxConnections     \* bound of the model

ASSUME SpacesAssumption ==
    /\ CpuMiners \cap GpuMiners = {}
    /\ Threads \in Nat \ {0} /\ Nonces \in Nat \ {0} /\ ExtraNonce1s \in Nat \ {0}
    /\ Batch \in 1..Nonces - 1 /\ Nonces % Batch = 0
    /\ ExtraNonce2s \in Nat /\ MaxConnections \in Nat
    /\ Base \in Nat \ {0, 1} /\ Width \in Nat \ {0}
    /\ PowLimit \in Nat /\ Difficulties \subseteq Nat \ {0} /\ BlockTargets \subseteq 0..PowLimit

Miners == CpuMiners \cup GpuMiners
Workers == (CpuMiners \X (0..Threads - 1)) \cup (GpuMiners \X {0})

VARIABLES
    shareTarget, blockTarget,
    nonce1,        \* the server's counter, not yet wrapped
    extraNonce1,   \* of each miner's connection, -1 without one
    connection,    \* which connection it is, 0 without one (history)
    searching,     \* extraNonce1 in the header of each worker's job, -1 without one
    extraNonce2, nonce,    \* where each worker is
    search,        \* headers hashed since it began its job, by three values (history)
    hashes,        \* hashes computed since then (history)
    tried,         \* headers hashed, by connection and worker (history)
    verdict        \* of the last hash, the miner's and the pool's

targetVars == <<shareTarget, blockTarget>>
connectionVars == <<nonce1, extraNonce1, connection>>
cursorVars == <<searching, extraNonce2, nonce>>
searchVars == <<search, hashes>>
vars == <<targetVars, connectionVars, cursorVars, searchVars, tried, verdict>>

Headers == (0..ExtraNonce1s - 1) \X (0..ExtraNonce2s - 1) \X (0..Nonces - 1)

Decisions == {"Rejected", "AcceptedShare", "SubmitBlock"}

TypeOK ==
    /\ shareTarget \in 0..PowLimit /\ blockTarget \in BlockTargets
    /\ nonce1 \in 0..MaxConnections
    /\ extraNonce1 \in [Miners -> -1..(ExtraNonce1s - 1)]
    /\ connection \in [Miners -> 0..MaxConnections]
    /\ searching \in [Workers -> -1..(ExtraNonce1s - 1)]
    /\ extraNonce2 \in [Workers -> Nat] /\ nonce \in [Workers -> 0..(Nonces - 1)]
    /\ search \in [Workers -> SUBSET Headers] /\ hashes \in [Workers -> Nat]
    /\ tried \subseteq (1..MaxConnections) \X Workers \X Headers
    /\ verdict \in [miner : Decisions, pool : Decisions]

Nothing == [miner |-> "Rejected", pool |-> "Rejected"]

-----------------------------------------------------------------------------
\* Headers.  A byte string is a function on its offsets, from 0.
Bytes(field, value, length) == [i \in 0..length - 1 |-> <<field, value, i>>]
Slice(bytes, first, end) == [i \in 0..end - first - 1 |-> bytes[first + i]]
Size(bytes) == Cardinality(DOMAIN bytes)

\* copy(dst[offset:], src)
Copy(dst, offset, src) ==
    [i \in DOMAIN dst |-> IF i \in offset..offset + Size(src) - 1 THEN src[i - offset] ELSE dst[i]]

HeaderLen == 180
prevBlockOffset == 4
merkleRootOffset == 36
bitsOffset == 116
timestampOffset == 136
nonceOffset == 140
extraDataOffset == 144

\* Mutant of extraNonce2Offset: it overlaps extraNonce1's last byte.
extraNonce2Early == 147

\* extraNonce1 has four bytes, and extraNonce2 follows it: the miner's offset.
extraNonce2Offset == 148

\* The node's data blob.
Data == Bytes("data", 0, 192)

\* sendWork: the fields of mining.notify are slices of the blob.
Notification ==
    [prevHash |-> Slice(Data, prevBlockOffset, merkleRootOffset),
     genTx1 |-> Slice(Data, merkleRootOffset, HeaderLen),
     version |-> Slice(Data, 0, 4),
     nbits |-> Slice(Data, bitsOffset, bitsOffset + 4),
     ntime |-> Slice(Data, timestampOffset, timestampOffset + 4)]

\* buildJob: the header from the fields, for a connection's extraNonce1.
BuildJob(ntfn, n1) ==
    LET version == Copy(Bytes("zero", 0, HeaderLen), 0, ntfn.version)
        prevHash == Copy(version, prevBlockOffset, ntfn.prevHash)
        genTx1 == Copy(prevHash, merkleRootOffset, ntfn.genTx1)
        ntime == Copy(genTx1, timestampOffset, ntfn.ntime)
    IN  Copy(ntime, extraDataOffset, Bytes("extraNonce1", n1, 4))

\* mineJob of the CPU miner, and headerHex and the host's setNonce for the GPU,
\* put the two values they search in the header.
HashedHeader(n1, n2, n) ==
    Copy(Copy(BuildJob(Notification, n1), extraNonce2Offset, Bytes("extraNonce2", n2, 8)),
         nonceOffset, Bytes("nonce", n, 4))

\* BuildSolvedHeader: the submitted values put in the blob.
BuildSolvedHeader(n1, n2, timestamp, n) ==
    LET first == Copy(Data, extraDataOffset, Bytes("extraNonce1", n1, 4))
        second == Copy(first, extraDataOffset + 4, Bytes("extraNonce2", n2, 8))
        time == Copy(second, timestampOffset, timestamp)
    IN  Slice(Copy(time, nonceOffset, Bytes("nonce", n, 4)), 0, HeaderLen)

\* Whether the pool rebuilds a header as it was hashed.
Rebuilt ==
    [n1 \in 0..ExtraNonce1s - 1 |->
        [n2 \in 0..ExtraNonce2s - 1 |->
            [n \in 0..Nonces - 1 |->
                BuildSolvedHeader(n1, n2, Notification.ntime, n) = HashedHeader(n1, n2, n)]]]

-----------------------------------------------------------------------------
\* Targets.  A hash is a string of digits, the least significant one first.
Power[k \in 0..Width] == IF k = 0 THEN 1 ELSE Base * Power[k - 1]
Sums == [0..Width - 1 -> 0..Base - 1]

\* A target fits in the bytes of a hash (big.Int.FillBytes would panic).
ASSUME TargetsAssumption == PowLimit < Power[Width]

\* HashToBig.
HashToBig(sum) ==
    LET upTo[k \in 0..Width] == IF k = 0 THEN 0 ELSE upTo[k - 1] + sum[k - 1] * Power[k - 1]
    IN  upTo[Width]

\* toTargetBytes: big-endian; and shareTargetHex, which reverses it for the GPU.
ToTargetBytes(target) ==
    [i \in 0..Width - 1 |-> (target \div Power[Width - 1 - i]) % Base]
Reversed(be) == [i \in 0..Width - 1 |-> be[Width - 1 - i]]

\* cmpHashTarget: the first differing digit, from the most significant one,
\* decides.
CmpHashTarget(sum, be) ==
    LET differing == {i \in 0..Width - 1 : sum[Width - 1 - i] # be[i]}
        first == CHOOSE i \in differing : \A j \in differing : i <= j
    IN  IF differing = {} THEN 0 ELSE IF sum[Width - 1 - first] < be[first] THEN -1 ELSE 1

\* classifySolution.
ClassifySolution(sum) ==
    IF CmpHashTarget(sum, ToTargetBytes(shareTarget)) > 0 THEN "Rejected"
    ELSE IF CmpHashTarget(sum, ToTargetBytes(blockTarget)) <= 0 THEN "SubmitBlock"
    ELSE "AcceptedShare"

\* search_nonce accepts a hash whose highest differing digit is below the
\* target's, or that has none.
KernelAccepts(sum) ==
    LET target == Reversed(ToTargetBytes(shareTarget))
        differing == {i \in 0..Width - 1 : sum[i] # target[i]}
    IN  \A i \in differing : (\A j \in differing : j <= i) => sum[i] < target[i]

\* EvaluateSubmit.
EvaluateSubmit(hash) ==
    IF hash > shareTarget THEN "Rejected"
    ELSE IF hash > blockTarget THEN "AcceptedShare"
    ELSE "SubmitBlock"

-----------------------------------------------------------------------------
\* ShareTarget, and setDifficulty in the miners; a difficulty of 0 would fail.
ShareTarget(difficulty) ==
    LET target == PowLimit \div difficulty
    IN  IF target > PowLimit THEN PowLimit ELSE target

Init ==
    /\ shareTarget \in {ShareTarget(d) : d \in Difficulties} /\ blockTarget \in BlockTargets
    /\ nonce1 = 0 /\ extraNonce1 = [m \in Miners |-> -1]
    /\ connection = [m \in Miners |-> 0] /\ searching = [w \in Workers |-> -1]
    /\ extraNonce2 = [w \in Workers |-> 0] /\ nonce = [w \in Workers |-> 0]
    /\ search = [w \in Workers |-> {}] /\ hashes = [w \in Workers |-> 0]
    /\ tried = {} /\ verdict = Nothing

\* Where the search of a job begins: a CPU thread at its index and nonce 0, the
\* GPU at extraNonce2 0 and nonce 1.
Start(w) == IF w[1] \in CpuMiners THEN <<w[2], 0>> ELSE <<0, 1 % Nonces>>

\* Mutant of NextExtraNonce1: the counter is wider than the field.
NextExtraNonce1Wide == nonce1 + 1

\* assignExtraNonce1's value: a counter that wraps.
NextExtraNonce1 == (nonce1 + 1) % ExtraNonce1s

\* A miner connects, or connects again, and is given an extraNonce1: its workers
\* have ended, and wait for the handshake.
Connect(m) ==
    /\ nonce1 < MaxConnections
    /\ nonce1' = nonce1 + 1
    /\ extraNonce1' = [extraNonce1 EXCEPT ![m] = NextExtraNonce1]
    /\ connection' = [connection EXCEPT ![m] = nonce1']
    /\ searching' = [w \in Workers |-> IF w[1] = m THEN -1 ELSE searching[w]]
    /\ UNCHANGED <<targetVars, extraNonce2, nonce, searchVars, tried, verdict>>

\* A worker begins the miner's job: after the handshake (the notification that
\* ends the subscription comes before the authorization, so that the job is of
\* this connection; see CpuMiner), and again from its start at every
\* mining.notify, one that repeats the job included.
Restart(w) ==
    /\ extraNonce1[w[1]] # -1
    /\ searching' = [searching EXCEPT ![w] = extraNonce1[w[1]]]
    /\ extraNonce2' = [extraNonce2 EXCEPT ![w] = Start(w)[1]]
    /\ nonce' = [nonce EXCEPT ![w] = Start(w)[2]]
    /\ search' = [search EXCEPT ![w] = {}]
    /\ hashes' = [hashes EXCEPT ![w] = 0]
    /\ UNCHANGED <<targetVars, connectionVars, tried, verdict>>

\* handleSubmit: the pool rebuilds the header with its connection's extraNonce1
\* and decides on its hash, which is another one if the header is.
Submit(w, n, sum) ==
    \E poolSum \in IF /\ searching[w] = extraNonce1[w[1]]
                      /\ Rebuilt[searching[w]][extraNonce2[w]][n]
                   THEN {sum} ELSE Sums :
        verdict' = [miner |-> ClassifySolution(sum), pool |-> EvaluateSubmit(HashToBig(poolSum))]

\* Searching a header with this hash: a share is submitted.
Result(w, n, sum) ==
    IF ClassifySolution(sum) = "Rejected" THEN verdict' = Nothing ELSE Submit(w, n, sum)

Try(w, ns) ==
    LET headers == {<<searching[w], extraNonce2[w], n>> : n \in ns}
    IN  /\ searching[w] # -1 /\ extraNonce2[w] < ExtraNonce2s
        /\ search' = [search EXCEPT ![w] = @ \cup headers]
        /\ hashes' = [hashes EXCEPT ![w] = @ + Cardinality(ns)]
        /\ tried' = tried \cup {<<connection[w[1]], w, h>> : h \in headers}

\* Mutant of CpuStep: the threads advance by one.
CpuStepByOne(w) ==
    /\ w[1] \in CpuMiners
    /\ Try(w, {nonce[w]})
    /\ \E sum \in Sums : Result(w, nonce[w], sum)
    /\ nonce' = [nonce EXCEPT ![w] = (@ + 1) % Nonces]
    /\ extraNonce2' = [extraNonce2 EXCEPT ![w] = IF nonce'[w] = 0 THEN @ + 1 ELSE @]
    /\ UNCHANGED <<targetVars, connectionVars, searching>>

\* mineJob of the CPU miner: one hash, the next nonce, and with the nonces
\* exhausted the next extraNonce2 of the thread's residue class.
CpuStep(w) ==
    /\ w[1] \in CpuMiners
    /\ Try(w, {nonce[w]})
    /\ \E sum \in Sums : Result(w, nonce[w], sum)
    /\ nonce' = [nonce EXCEPT ![w] = (@ + 1) % Nonces]
    /\ extraNonce2' = [extraNonce2 EXCEPT ![w] = IF nonce'[w] = 0 THEN @ + Threads ELSE @]
    /\ UNCHANGED <<targetVars, connectionVars, searching>>

\* The nonces of a kernel launch; search_nonce leaves out 0.
Launch(start) == {(start + i) % Nonces : i \in 0..Batch - 1} \ {0}

\* handleWork and the round of mineJob it ends: a launch finds nothing and the
\* next follows, unless it would begin before this one (the nonces are
\* exhausted), or it finds a nonce, which onSolution checks again.
GpuStep(w) ==
    LET next == (nonce[w] + Batch) % Nonces
    IN  /\ w[1] \in GpuMiners
        /\ Try(w, Launch(nonce[w]))
        /\ \/ \E n \in Launch(nonce[w]), sum \in Sums :
                 /\ KernelAccepts(sum)
                 /\ Result(w, n, sum)
                 /\ extraNonce2' = [extraNonce2 EXCEPT ![w] = @ + 1]
                 /\ nonce' = [nonce EXCEPT ![w] = 1 % Nonces]
           \/ /\ verdict' = Nothing
              /\ nonce' = [nonce EXCEPT ![w] = IF next < @ THEN 1 % Nonces ELSE next]
              /\ extraNonce2' = [extraNonce2 EXCEPT ![w] = IF next < nonce[w] THEN @ + 1 ELSE @]
        /\ UNCHANGED <<targetVars, connectionVars, searching>>

\* Every worker has searched its share of the bounded extraNonce2 values.
Finished ==
    /\ nonce1 = MaxConnections
    /\ \A w \in Workers : searching[w] # -1 => extraNonce2[w] >= ExtraNonce2s
    /\ UNCHANGED vars

Next ==
    \/ \E m \in Miners : Connect(m)
    \/ \E w \in Workers : Restart(w) \/ CpuStep(w) \/ GpuStep(w)
    \/ Finished

Spec == Init /\ [][Next]_vars

-----------------------------------------------------------------------------
\* A worker hashes no header twice in a search of a job, and two connections
\* never hash the same one, nor two workers of a connection, until the server's
\* counter has wrapped: what is hashed again is what a worker itself hashed
\* before a mining.notify of its connection sent it back to the start.
NoDoubleWork ==
    /\ \A w \in Workers : hashes[w] = Cardinality(search[w])
    /\ nonce1 <= ExtraNonce1s =>
           \A s, t \in tried : s[3] = t[3] => s[1] = t[1] /\ s[2] = t[2]

\* The pool decides about every share that is submitted as its miner did: the
\* header it rebuilds is the one that was hashed, and the comparisons with the
\* targets, digit by digit in Go and reversed in the kernel, and by number in the
\* pool, agree.
VerdictsAgree ==
    /\ verdict.miner = verdict.pool
    /\ \A sum \in Sums : KernelAccepts(sum) <=> EvaluateSubmit(HashToBig(sum)) # "Rejected"
=============================================================================
