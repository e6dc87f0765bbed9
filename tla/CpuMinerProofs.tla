--------------------------- MODULE CpuMinerProofs ----------------------------
(***************************************************************************)
(* Proofs about the CPU miner, for any number of threads, connections and  *)
(* jobs and for queues of any size: a worker whose generation is the       *)
(* current one and whose job is not has loaded the two on different sides  *)
(* of a notification; every share is counted once or lost in a known way;  *)
(* a miner that has read all the pool told it was told the newest job and  *)
(* has the last one it was sent; and no worker mines for another           *)
(* connection than the present one.                                        *)
(***************************************************************************)
EXTENDS CpuMiner, FiniteSetTheorems, SequenceTheorems, TLAPS

\* A worker that has loaded both job and generation, mining or submitting.
Loaded(w) == wpc[w] \notin {"off", "load", "generation"}

GenerationsOK ==
    /\ gen \in Nat /\ wgen \in [Workers -> Nat]
    /\ DOMAIN wpc = Workers /\ DOMAIN wjob = Workers
    /\ \A w \in Workers : wgen[w] <= gen

\* Between the two stores of a notification, and after them.
StaleAreRacers ==
    \A w \in Workers :
        Loaded(w) /\ wgen[w] = gen /\ (built # NoJob \/ wjob[w] # currentJob) => w \in raced

GenerationInv == GenerationsOK /\ StaleAreRacers

-----------------------------------------------------------------------------
LEMMA GenerationInit == Init => GenerationInv
BY DEF Init, GenerationInv, GenerationsOK, StaleAreRacers, Loaded

\* A notification leaves every worker behind, or changes nothing.
LEMMA NotifiedKeeps ==
    ASSUME GenerationInv, NEW id, HandleNotify(id),
           UNCHANGED <<currentJob, wjob, wgen, raced>>,
           DOMAIN wpc' = Workers, \A w \in Workers : Loaded(w)' => Loaded(w)
    PROVE  GenerationInv'
<1>1. CASE extraNonce1 = 0
  BY <1>1 DEF HandleNotify, GenerationInv, GenerationsOK, StaleAreRacers
<1>2. CASE extraNonce1 # 0
  <2>1. GenerationsOK'
    BY <1>2 DEF HandleNotify, GenerationInv, GenerationsOK
  <2>2. \A w \in Workers : wgen'[w] # gen'
    BY <1>2 DEF HandleNotify, GenerationInv, GenerationsOK
  <2> QED BY <2>1, <2>2 DEF GenerationInv, StaleAreRacers
<1> QED BY <1>1, <1>2

\* Steps that leave the jobs alone and start no worker.
LEMMA OthersKeep ==
    ASSUME GenerationInv,
           UNCHANGED <<gen, built, currentJob, wjob, wgen, raced>>,
           DOMAIN wpc' = Workers, \A w \in Workers : Loaded(w)' => Loaded(w)
    PROVE  GenerationInv'
BY DEF GenerationInv, GenerationsOK, StaleAreRacers

LEMMA NotificationKeeps ==
    ASSUME GenerationInv, NEW msg, HandleNotification(msg),
           UNCHANGED <<currentJob, wjob, wgen, raced>>,
           DOMAIN wpc' = Workers, \A w \in Workers : Loaded(w)' => Loaded(w)
    PROVE  GenerationInv'
BY NotifiedKeeps, OthersKeep DEF HandleNotification

-----------------------------------------------------------------------------
LEMMA GenerationStep ==
    ASSUME GenerationInv, [Next]_vars
    PROVE  GenerationInv'
<1> USE DEF poolVars, broadcastVars, linkVars, mainVars, jobVars, workerVars, shareVars
<1>1. DOMAIN wpc = Workers
  BY DEF GenerationInv, GenerationsOK
<1>2. CASE Dial \/ HandshakeFails \/ Cancel \/ Joined \/ Again
  BY <1>2, OthersKeep DEF Dial, HandshakeFails, Cancel, Joined, Again, GenerationInv,
     GenerationsOK, Loaded
<1>3. CASE Handshake
  <2>1. UNCHANGED <<currentJob, wjob, wgen, raced>>
    BY <1>3 DEF Handshake
  <2>2. DOMAIN wpc' = Workers /\ \A w \in Workers : Loaded(w)' => Loaded(w)
    BY <1>1, <1>3 DEF Handshake, Loaded
  <2>3. \/ UNCHANGED <<gen, built>>
        \/ HandleNotification(Head(down))
    BY <1>3 DEF Handshake
  <2> QED BY <2>1, <2>2, <2>3, NotificationKeeps, OthersKeep
<1>4. CASE ReadLock \/ ReadFails
  BY <1>4, OthersKeep DEF ReadLock, ReadFails, GenerationInv, GenerationsOK, Loaded
<1>5. CASE Read
  <2>1. UNCHANGED <<currentJob, wjob, wgen, raced, wpc>>
    BY <1>5 DEF Read
  <2>2. UNCHANGED <<gen, built>> \/ HandleNotification(Head(down))
    BY <1>5 DEF Read
  <2>3. DOMAIN wpc' = Workers /\ \A w \in Workers : Loaded(w)' => Loaded(w)
    BY <1>1, <2>1 DEF Loaded
  <2> QED BY <2>1, <2>2, <2>3, NotificationKeeps, OthersKeep
<1>6. CASE StoreJob
  BY <1>6 DEF StoreJob, GenerationInv, GenerationsOK, StaleAreRacers, Loaded
<1>7. ASSUME NEW w \in Workers, WorkerStep(w)
      PROVE  GenerationInv'
  <2>1. CASE LoadJob(w)
    BY <2>1 DEF LoadJob, Goto, NoShare, GenerationInv, GenerationsOK, StaleAreRacers, Loaded
  <2>2. CASE LoadGeneration(w)
    BY <2>2 DEF LoadGeneration, Goto, NoShare, GenerationInv, GenerationsOK, StaleAreRacers, Loaded
  <2>3. CASE Leave(w) /\ NoShare
    BY <2>3 DEF Leave, Goto, NoShare, GenerationInv, GenerationsOK, StaleAreRacers, Loaded
  <2>4. CASE Check(w)
    <3>1. CASE ~(Leave(w) /\ NoShare)
      BY <2>4, <3>1, OthersKeep DEF Check, Goto, NoShare, GenerationInv, GenerationsOK, Loaded
    <3> QED BY <2>3, <3>1
  <2>5. CASE Miss(w) \/ Hit(w) \/ LockConn(w)
    BY <2>5, OthersKeep DEF Miss, Hit, LockConn, Goto, NoShare, GenerationInv, GenerationsOK, Loaded
  <2>6. CASE Write(w) \/ Register(w)
    BY <2>6, OthersKeep DEF Write, Register, Submitted, Goto, GenerationInv, GenerationsOK, Loaded
  <2> QED BY <1>7, <2>1, <2>2, <2>4, <2>5, <2>6 DEF WorkerStep
<1>8. CASE PoolStep \/ Issue \/ BroadcastStep \/ Lose \/ Stop
  <2>1. UNCHANGED <<gen, built, currentJob, wjob, wgen, raced, wpc>>
    BY <1>8
    DEF PoolStep, Answer, Subscribed, Issue, BroadcastStep, Snapshot, Deliver, Lose, Stop,
        UnchangedMiner
  <2> QED BY <1>1, <2>1, OthersKeep DEF Loaded
<1>9. CASE UNCHANGED vars
  BY <1>1, <1>9, OthersKeep DEF vars, Loaded
<1> QED
  BY <1>2, <1>3, <1>4, <1>5, <1>6, <1>7, <1>8, <1>9
  DEF Next, MainStep, ReaderStep, Finished

\* A worker that mines an old job under the current generation loaded the two on
\* different sides of a notification (miner.go:137-142), for any number of threads.
THEOREM StaleWorkersRaced == Spec => []OnlyRacersAreStale
<1>1. GenerationInv => OnlyRacersAreStale
  BY DEF GenerationInv, StaleAreRacers, OnlyRacersAreStale, Loaded
<1> QED
  BY <1>1, GenerationInit, GenerationStep, PTL DEF Spec

-----------------------------------------------------------------------------
\* Submissions: every share is accounted for.  What is on the wire has to be told
\* apart by where the connection, the handshake and the workers are.
IsResponse(msg) == "id" \in DOMAIN msg
IsJob(msg) == "job" \in DOMAIN msg
SetDifficulty == [method |-> "set_difficulty"]

TypedMain ==
    /\ issued \in 0..MaxJobs /\ session \in 0..MaxSessions /\ extraNonce1 \in 0..session
    /\ handler \in {"read", "difficulty", "work", "send"}
    /\ link \in {"none", "up", "closed"}
    /\ phase \in {"dial", "subscribe", "authorize", "mining", "unwind", "wait", "stopped"}
    /\ target \in {"powLimit", "share"} /\ reader \in {"off", "lock", "recv"}
TypedQueues ==
    /\ up \in Seq(Requests) /\ Len(up) <= UpCap
    /\ down \in Seq(Responses \cup Notifications) /\ Len(down) <= DownCap
TypedJobs == currentJob \in Job /\ built \in Job /\ wjob \in [Workers -> Job]
TypedWorkers ==
    /\ writer \in Workers \cup {Nobody} /\ raced \subseteq Workers
    /\ wpc \in [Workers -> {"off", "load", "generation", "check", "hash",
                            "lock", "write", "register"}]
    /\ gen \in Nat /\ wgen \in [Workers -> Nat]
TypedShares ==
    /\ nextID \in Nat /\ pending \subseteq 1..nextID /\ wid \in [Workers -> Nat]
    /\ counted \in Nat /\ lost \in Nat /\ found \in 0..MaxShares

Typed ==
    TypedMain /\ TypedQueues /\ TypedJobs /\ TypedWorkers /\ TypedShares /\ stopping \in BOOLEAN

\* The queues are a connection's, the connection a phase's, and the goroutines
\* are between the handshake and the return of connectAndMine.
Ends ==
    /\ IF link = "up" THEN /\ phase \in {"subscribe", "authorize", "mining"}
                           /\ ~stopping /\ session # 0
       ELSE up = << >> /\ down = << >>
    /\ reader # "off" \/ (\E w \in Workers : wpc[w] # "off") => phase \in {"mining", "unwind"}
    /\ phase = "mining" /\ reader = "off" => link # "up"

\* The handshake has one request at a time on its way, and then it is over.
Handshaken ==
    /\ \A i \in DOMAIN up : up[i].method = IF phase = "mining" THEN "submit" ELSE phase
    /\ phase # "mining" =>
          /\ Len(up) <= 1
          /\ \A i \in DOMAIN down : IsResponse(down[i]) =>
                up = << >> /\ \A j \in DOMAIN down : IsResponse(down[j]) => j = i
    /\ phase = "subscribe" /\ link = "up" /\ handler # "read" =>
          \E i \in DOMAIN down : IsResponse(down[i])

\* No identifier is used twice,
Distinct ==
    /\ \A i \in DOMAIN up : /\ up[i].id \in 1..nextID
                            /\ \A j \in DOMAIN up : up[j].id = up[i].id => j = i
    /\ \A i \in DOMAIN down : IsResponse(down[i]) =>
          /\ down[i].id \in 1..nextID
          /\ \A j \in DOMAIN up : up[j].id # down[i].id
          /\ \A j \in DOMAIN down : IsResponse(down[j]) /\ down[j].id = down[i].id => j = i

\* nor by a worker that has not sent its own;
Fresh ==
    /\ \A w \in Workers : wpc[w] \in {"lock", "write", "register"} => wid[w] \in 1..nextID
    /\ \A w \in Unsent :
          /\ \A i \in DOMAIN up : up[i].id # wid[w]
          /\ \A i \in DOMAIN down : IsResponse(down[i]) => down[i].id # wid[w]
          /\ \A v \in Unsent : wid[v] = wid[w] => v = w

\* one that is under way is registered, or its worker is about to.
Registering == {w \in Workers : wpc[w] = "register"}
Awaited == InFlight \subseteq pending \cup {wid[w] : w \in Registering}

\* The handler and the broadcasts send jobs that the pool has set, and those of the
\* handler one at least.
PoolTyped ==
    /\ toSend \in 0..issued /\ (handler = "send" => toSend # 0)
    /\ newest \in 0..issued /\ last \in 0..newest /\ (newest # 0 => last # 0)
    /\ broadcasts \subseteq 1..issued
    /\ serving \subseteq Broadcast /\ \A b \in serving : b.job \in 1..issued

Wired == Typed /\ Ends /\ Handshaken /\ Distinct /\ Fresh /\ Awaited /\ SharesAccounted

-----------------------------------------------------------------------------
LEMMA MessageFacts ==
    /\ \A msg \in Responses : /\ IsResponse(msg) /\ ~IsJob(msg) /\ msg # SetDifficulty
                              /\ msg.id \in Nat /\ msg.ok \in BOOLEAN
    /\ \A msg \in Notifications :
          /\ ~IsResponse(msg)
          /\ IsJob(msg) => msg.job \in 1..MaxJobs /\ msg # SetDifficulty
          /\ ~IsJob(msg) => msg = SetDifficulty
    /\ SetDifficulty \in Notifications /\ ~IsJob(SetDifficulty)
    /\ \A msg \in Responses \cup Notifications : IsResponse(msg) <=> msg \in Responses
<1>1. \A msg \in Responses : /\ DOMAIN msg = {"id", "ok"}
                             /\ msg.id \in Nat /\ msg.ok \in BOOLEAN
  BY DEF Responses
<1>2. DOMAIN SetDifficulty = {"method"}
  BY DEF SetDifficulty
<1>3. \A msg \in [method : {"set_difficulty"}] : msg = SetDifficulty
  BY DEF SetDifficulty
<1>4. \A msg \in [method : {"notify"}, job : 1..MaxJobs] :
         DOMAIN msg = {"method", "job"} /\ msg.job \in 1..MaxJobs
  OBVIOUS
<1>5. SetDifficulty \in [method : {"set_difficulty"}]
  BY DEF SetDifficulty
<1> HIDE DEF SetDifficulty
<1> QED BY <1>1, <1>2, <1>3, <1>4, <1>5 DEF IsResponse, IsJob, Notifications

LEMMA MadeMessages ==
    /\ \A job \in 1..MaxJobs : LET msg == [method |-> "notify", job |-> job]
                               IN  msg \in Notifications /\ IsJob(msg) /\ msg.job = job
    /\ \A id \in Nat, ok \in BOOLEAN : LET msg == [id |-> id, ok |-> ok]
                                       IN  msg \in Responses /\ msg.id = id
    /\ \A id \in Nat, method \in {"subscribe", "authorize", "submit"} :
          LET msg == [method |-> method, id |-> id]
          IN  msg \in Requests /\ msg.id = id /\ msg.method = method
BY DEF Notifications, IsJob, Responses, Requests

\* The places of a queue after a message is put at its end,
LEMMA Pushed ==
    ASSUME NEW S, NEW s \in Seq(S), NEW e \in S
    PROVE  /\ Append(s, e) \in Seq(S) /\ Len(Append(s, e)) = Len(s) + 1
           /\ DOMAIN s = 1..Len(s) /\ Len(s) \in Nat
           /\ DOMAIN Append(s, e) = 1..(Len(s) + 1)
           /\ Append(s, e)[Len(s) + 1] = e
           /\ \A i \in DOMAIN s : i \in DOMAIN Append(s, e) /\ Append(s, e)[i] = s[i]
           /\ \A i \in DOMAIN Append(s, e) : i \in DOMAIN s \/ i = Len(s) + 1
<1>1. DOMAIN s = 1..Len(s) /\ Len(s) \in Nat
  BY LenProperties
<1>2. /\ Append(s, e) \in Seq(S) /\ Len(Append(s, e)) = Len(s) + 1
      /\ Append(s, e)[Len(s) + 1] = e
      /\ \A i \in 1..Len(s) : Append(s, e)[i] = s[i]
  BY AppendProperties
<1>3. DOMAIN Append(s, e) = 1..(Len(s) + 1)
  BY <1>2, LenProperties
<1>4. \A n \in Nat : \A i \in 1..(n + 1) : i \in 1..n \/ i = n + 1
  OBVIOUS
<1>5. \A n \in Nat : \A i \in 1..n : i \in 1..(n + 1)
  OBVIOUS
<1> QED BY <1>1, <1>2, <1>3, <1>4, <1>5

\* and after its first is taken.
LEMMA Popped ==
    ASSUME NEW S, NEW s \in Seq(S), s # << >>
    PROVE  /\ Tail(s) \in Seq(S) /\ Len(Tail(s)) = Len(s) - 1
           /\ DOMAIN s = 1..Len(s) /\ Len(s) \in Nat \ {0}
           /\ DOMAIN Tail(s) = 1..(Len(s) - 1)
           /\ 1 \in DOMAIN s /\ Head(s) = s[1] /\ Head(s) \in S
           /\ \A i \in DOMAIN Tail(s) :
                 i \in Nat /\ i + 1 # 1 /\ i + 1 \in DOMAIN s /\ Tail(s)[i] = s[i + 1]
           /\ \A i \in DOMAIN s : i = 1 \/ (i - 1 \in DOMAIN Tail(s) /\ Tail(s)[i - 1] = s[i])
           /\ \A i, j \in DOMAIN Tail(s) : i + 1 = j + 1 => i = j
<1>1. DOMAIN s = 1..Len(s) /\ Len(s) \in Nat \ {0}
  BY LenProperties, EmptySeq
<1>2. /\ Tail(s) \in Seq(S) /\ Len(Tail(s)) = Len(s) - 1 /\ Head(s) \in S
      /\ \A i \in 1..(Len(s) - 1) : Tail(s)[i] = s[i + 1]
  BY HeadTailProperties
<1>3. DOMAIN Tail(s) = 1..(Len(s) - 1)
  BY <1>2, LenProperties
<1>4. Head(s) = s[1]
  BY <1>1
<1>5. \A n \in Nat \ {0} : /\ \A i \in 1..(n - 1) : i \in Nat /\ i + 1 # 1 /\ i + 1 \in 1..n
                           /\ \A i \in 1..n : i = 1 \/ i - 1 \in 1..(n - 1)
                           /\ \A i, j \in 1..(n - 1) : i + 1 = j + 1 => i = j
                           /\ \A i \in 1..n : (i - 1) + 1 = i
                           /\ 1 \in 1..n
  OBVIOUS
<1>6. \A i \in DOMAIN s : i = 1 \/ (i - 1 \in DOMAIN Tail(s) /\ Tail(s)[i - 1] = s[i])
  <2> SUFFICES ASSUME NEW i \in DOMAIN s, i # 1
               PROVE  i - 1 \in DOMAIN Tail(s) /\ Tail(s)[i - 1] = s[i]
    OBVIOUS
  <2>1. i - 1 \in 1..(Len(s) - 1) /\ (i - 1) + 1 = i
    BY <1>1, <1>5
  <2> QED BY <1>2, <1>3, <2>1
<1> QED BY <1>1, <1>2, <1>3, <1>4, <1>5, <1>6

-----------------------------------------------------------------------------
FlightIn(x) ==
    \/ \E i \in DOMAIN up : up[i].method = "submit" /\ up[i].id = x
    \/ phase = "mining" /\ \E i \in DOMAIN down : IsResponse(down[i]) /\ down[i].id = x

LEMMA InFlightIs ==
    /\ \A x : x \in InFlight <=> FlightIn(x)
    /\ \A x : x \in InFlight' <=> FlightIn(x)'
BY DEF InFlight, FlightIn, IsResponse

\* What the conjuncts of Wired say together, in the form the steps use.
LEMMA WiredFacts ==
    ASSUME Wired
    PROVE  /\ TypedMain /\ TypedQueues /\ TypedJobs /\ TypedWorkers /\ TypedShares
           /\ stopping \in BOOLEAN
           /\ Ends /\ Handshaken /\ Distinct /\ Fresh /\ Awaited /\ SharesAccounted
           /\ up \in Seq(Requests) /\ down \in Seq(Responses \cup Notifications)
           /\ DOMAIN up = 1..Len(up) /\ Len(up) \in Nat
           /\ DOMAIN down = 1..Len(down) /\ Len(down) \in Nat
           /\ nextID \in Nat /\ counted \in Nat /\ lost \in Nat /\ found \in Nat
           /\ IsFiniteSet(InFlight) /\ Cardinality(InFlight) \in Nat
           /\ InFlight \subseteq 1..nextID
           /\ IsFiniteSet(Unsent) /\ Cardinality(Unsent) \in Nat /\ Unsent \subseteq Workers
           /\ phase # "mining" => InFlight = {}
           /\ link # "up" => InFlight = {} /\ DOMAIN up = {} /\ DOMAIN down = {}
           /\ up # << >> \/ down # << >> => link = "up"
<1>1. /\ TypedMain /\ TypedQueues /\ TypedJobs /\ TypedWorkers /\ TypedShares
      /\ stopping \in BOOLEAN
      /\ Ends /\ Handshaken /\ Distinct /\ Fresh /\ Awaited /\ SharesAccounted
  BY DEF Wired, Typed
<1>2. up \in Seq(Requests) /\ down \in Seq(Responses \cup Notifications)
  BY <1>1 DEF TypedQueues
<1>3. /\ DOMAIN up = 1..Len(up) /\ Len(up) \in Nat
      /\ DOMAIN down = 1..Len(down) /\ Len(down) \in Nat
  BY <1>2, LenProperties
<1>4. nextID \in Nat /\ counted \in Nat /\ lost \in Nat /\ found \in Nat
  BY <1>1, BoundsAssumption DEF TypedShares
<1>5. InFlight \subseteq 1..nextID
  BY <1>1, InFlightIs DEF FlightIn, Distinct
<1>6. IsFiniteSet(InFlight) /\ Cardinality(InFlight) \in Nat
  <2>1. IsFiniteSet(1..nextID)
    BY <1>4, FS_Interval
  <2>2. IsFiniteSet(InFlight)
    BY <1>5, <2>1, FS_Subset
  <2> QED BY <2>2, FS_CardinalityType
<1>7. IsFiniteSet(Unsent) /\ Cardinality(Unsent) \in Nat /\ Unsent \subseteq Workers
  <2>1. Unsent \subseteq Workers
    BY DEF Unsent
  <2>2. IsFiniteSet(Unsent)
    BY <2>1, WorkersAssumption, FS_Subset
  <2> QED BY <2>1, <2>2, FS_CardinalityType
<1>8. phase # "mining" => InFlight = {}
  <2> SUFFICES ASSUME phase # "mining", NEW x \in InFlight PROVE FALSE
    OBVIOUS
  <2>1. PICK i \in DOMAIN up : up[i].method = "submit"
    BY InFlightIs DEF FlightIn
  <2>2. phase = "submit"
    BY <1>1, <2>1 DEF Handshaken
  <2> QED BY <1>1, <2>2 DEF TypedMain
<1>9. link # "up" => DOMAIN up = {} /\ DOMAIN down = {}
  BY <1>1 DEF Ends
<1>10. link # "up" => InFlight = {}
  BY <1>9, InFlightIs DEF FlightIn
<1>11. up # << >> \/ down # << >> => link = "up"
  BY <1>1 DEF Ends
<1> QED
  BY <1>1, <1>2, <1>3, <1>4, <1>5, <1>6, <1>7, <1>8, <1>9, <1>10, <1>11

LEMMA WiredInit == Init => Wired
<1> SUFFICES ASSUME Init PROVE Wired
  OBVIOUS
<1>1. /\ NoJob \in Job /\ << >> \in Seq(Requests) /\ Len(<< >>) = 0
      /\ << >> \in Seq(Responses \cup Notifications) /\ DOMAIN << >> = {}
  BY BoundsAssumption DEF Job, NoJob
<1>2. TypedMain /\ TypedShares
  BY BoundsAssumption DEF Init, TypedMain, TypedShares
<1>3. TypedQueues
  BY <1>1, CapsAssumption DEF Init, TypedQueues
<1>4. TypedJobs /\ TypedWorkers /\ stopping \in BOOLEAN
  BY <1>1 DEF Init, TypedJobs, TypedWorkers
<1>5. Ends /\ Handshaken /\ Distinct
  BY <1>1, CapsAssumption DEF Init, Ends, Handshaken, Distinct
<1>6. Unsent = {} /\ InFlight = {}
  BY <1>1, InFlightIs DEF Init, Unsent, FlightIn
<1>7. Fresh /\ Awaited
  BY <1>6 DEF Init, Fresh, Awaited
<1>8. SharesAccounted
  BY <1>6, FS_EmptySet DEF Init, SharesAccounted
<1> QED BY <1>2, <1>3, <1>4, <1>5, <1>7, <1>8 DEF Wired, Typed

-----------------------------------------------------------------------------
\* Steps that leave the queues and the submissions as they are.
LEMMA QuietKeeps ==
    ASSUME Wired, Typed', Ends',
           UNCHANGED <<link, up, down, nextID, pending, wid, counted, found, lost>>,
           phase' = phase \/ link # "up",
           handler' = handler \/ handler' = "read",
           \A w \in Workers :
              (wpc'[w] = wpc[w])
              \/ (wpc[w] \notin {"lock", "write", "register"}
                  /\ wpc'[w] \notin {"lock", "write", "register"})
              \/ (wpc[w] = "lock" /\ wpc'[w] = "write")
    PROVE  Wired'
<1>1. InFlight' = InFlight
  <2>1. CASE link # "up"
    <3>1. DOMAIN up' = {} /\ DOMAIN down' = {}
      BY <2>1, WiredFacts
    <3>2. InFlight' = {}
      BY <3>1, InFlightIs DEF FlightIn
    <3> QED BY <2>1, <3>2, WiredFacts
  <2>2. CASE phase' = phase
    <3>1. \A x : FlightIn(x)' <=> FlightIn(x)
      BY <2>2 DEF FlightIn
    <3> QED BY <3>1, InFlightIs
  <2> QED BY <2>1, <2>2
<1>2. Unsent' = Unsent /\ Registering' = Registering
  BY DEF Unsent, Registering
<1>3. Handshaken'
  <2>1. CASE link # "up"
    <3>1. DOMAIN up' = {} /\ DOMAIN down' = {} /\ Len(up') <= 1
      BY <2>1, WiredFacts DEF Ends
    <3> QED BY <2>1, <3>1 DEF Handshaken
  <2>2. CASE phase' = phase
    BY <2>2, WiredFacts DEF Handshaken
  <2> QED BY <2>1, <2>2
<1>4. Distinct'
  BY WiredFacts DEF Distinct
<1>5. Fresh'
  <2>1. Fresh
    BY WiredFacts
  <2>2. \A w \in Workers : wpc'[w] \in {"lock", "write", "register"}
                              => wpc[w] \in {"lock", "write", "register"}
    OBVIOUS
  <2> QED BY <1>2, <2>1, <2>2 DEF Fresh
<1>6. Awaited'
  BY <1>1, <1>2, WiredFacts DEF Awaited
<1>7. SharesAccounted'
  BY <1>1, <1>2, WiredFacts DEF SharesAccounted
<1> QED BY <1>3, <1>4, <1>5, <1>6, <1>7 DEF Wired

LEMMA QuietMainKeeps ==
    ASSUME Wired,
           HandshakeFails \/ Cancel \/ Joined \/ Again \/ ReadLock \/ ReadFails \/ StoreJob
    PROVE  Wired'
<1> USE DEF poolVars, broadcastVars, linkVars, mainVars, jobVars, workerVars, shareVars
<1> DEFINE A == HandshakeFails \/ Cancel \/ Joined \/ Again
           B == ReadLock \/ ReadFails
<1>1. /\ UNCHANGED <<link, up, down, session, nextID, pending, wid, counted, found, lost>>
      /\ UNCHANGED <<issued, handler, extraNonce1, target, stopping, gen, wpc, wjob, wgen>>
      /\ UNCHANGED <<writer, raced>>
  <2>1. CASE A
    BY <2>1 DEF HandshakeFails, Cancel, Joined, Again
  <2>2. CASE B \/ StoreJob
    BY <2>2 DEF ReadLock, ReadFails, StoreJob
  <2> QED BY <2>1, <2>2
<1>2. TypedJobs'
  <2>1. UNCHANGED <<currentJob, built>> \/ (currentJob' = built /\ built' = NoJob)
    BY DEF HandshakeFails, Cancel, Joined, Again, ReadLock, ReadFails, StoreJob
  <2>2. NoJob \in Job
    BY BoundsAssumption DEF Job, NoJob
  <2> HIDE DEF NoJob
  <2> QED BY <1>1, <2>1, <2>2, WiredFacts DEF TypedJobs
<1>3. /\ phase' \in {"dial", "subscribe", "authorize", "mining", "unwind", "wait", "stopped"}
      /\ reader' \in {"off", "lock", "recv"}
  <2>1. TypedMain
    BY WiredFacts
  <2> QED
    BY <2>1 DEF HandshakeFails, Cancel, Joined, Again, ReadLock, ReadFails, StoreJob, TypedMain
<1>4. Typed'
  <2>1. TypedMain'
    BY <1>1, <1>3, WiredFacts DEF TypedMain
  <2>2. TypedQueues' /\ TypedWorkers' /\ TypedShares'
    BY <1>1, WiredFacts DEF TypedQueues, TypedWorkers, TypedShares
  <2>3. stopping' \in BOOLEAN
    BY <1>1, WiredFacts
  <2> QED BY <1>2, <2>1, <2>2, <2>3 DEF Typed
<1>5. Ends /\ TypedMain /\ TypedWorkers
  BY WiredFacts
<1>6. Ends'
  <2>1. CASE HandshakeFails
    BY <1>1, <1>5, <2>1 DEF HandshakeFails, Ends
  <2>2. CASE Cancel
    BY <1>1, <1>5, <2>2 DEF Cancel, Ends
  <2>3. CASE Joined
    BY <1>1, <1>5, <2>3 DEF Joined, Ends
  <2>4. CASE Again
    BY <1>1, <1>5, <2>4 DEF Again, Ends
  <2>5. CASE ReadLock \/ StoreJob
    BY <1>1, <1>5, <2>5 DEF ReadLock, StoreJob, Ends
  <2>6. CASE ReadFails
    BY <1>1, <1>5, <2>6 DEF ReadFails, Ends
  <2> QED BY <2>1, <2>2, <2>3, <2>4, <2>5, <2>6
<1>7. phase' = phase \/ link # "up"
  BY <1>5 DEF HandshakeFails, Cancel, Joined, Again, ReadLock, ReadFails, StoreJob, Ends
<1> QED BY <1>1, <1>4, <1>6, <1>7, QuietKeeps

LEMMA QuietWorkerKeeps ==
    ASSUME Wired, NEW w \in Workers,
           LoadJob(w) \/ LoadGeneration(w) \/ Check(w) \/ Miss(w) \/ LockConn(w)
    PROVE  Wired'
<1> USE DEF poolVars, broadcastVars, linkVars, mainVars, jobVars, workerVars, shareVars, Goto, NoShare, Leave
<1>1. /\ UNCHANGED <<link, up, down, session, nextID, pending, wid, counted, found, lost>>
      /\ UNCHANGED <<issued, handler, phase, extraNonce1, target, stopping, reader>>
      /\ UNCHANGED <<gen, currentJob, built>>
  BY DEF LoadJob, LoadGeneration, Check, Miss, LockConn
<1>2. TypedWorkers
  BY WiredFacts
<1>3. PICK label \in {"off", "load", "generation", "check", "hash", "write"} :
         wpc' = [wpc EXCEPT ![w] = label] /\ (label = "write" => wpc[w] = "lock")
  BY DEF LoadJob, LoadGeneration, Check, Miss, LockConn
<1>4. wpc[w] \in {"load", "generation", "check", "hash", "lock"}
      /\ (wpc[w] = "lock" => wpc'[w] = "write")
  BY <1>2 DEF LoadJob, LoadGeneration, Check, Miss, LockConn, TypedWorkers
<1>5. TypedJobs'
  <2>1. TypedJobs /\ NoJob \in Job
    BY WiredFacts, BoundsAssumption DEF Job, NoJob
  <2>2. \/ wjob' = wjob \/ wjob' = [wjob EXCEPT ![w] = currentJob]
        \/ wjob' = [wjob EXCEPT ![w] = NoJob]
    BY DEF LoadJob, LoadGeneration, Check, Miss, LockConn
  <2> HIDE DEF NoJob
  <2> QED BY <1>1, <2>1, <2>2 DEF TypedJobs
<1>6. TypedWorkers'
  <2>1. writer' \in {writer, w} /\ raced' \in {raced, raced \ {w}, raced \cup {w}}
    BY DEF LoadJob, LoadGeneration, Check, Miss, LockConn
  <2>2. wgen' = wgen \/ wgen' = [wgen EXCEPT ![w] = gen] \/ wgen' = [wgen EXCEPT ![w] = 0]
    BY DEF LoadJob, LoadGeneration, Check, Miss, LockConn
  <2>3. gen' \in Nat /\ wgen' \in [Workers -> Nat]
    BY <1>1, <1>2, <2>2 DEF TypedWorkers
  <2>4. writer' \in Workers \cup {Nobody} /\ raced' \subseteq Workers
    BY <1>2, <2>1 DEF TypedWorkers
  <2>5. wpc' \in [Workers -> {"off", "load", "generation", "check", "hash",
                              "lock", "write", "register"}]
    BY <1>2, <1>3 DEF TypedWorkers
  <2> QED BY <2>3, <2>4, <2>5 DEF TypedWorkers
<1>7. Typed'
  <2>1. TypedMain' /\ TypedQueues' /\ TypedShares'
    BY <1>1, WiredFacts DEF TypedMain, TypedQueues, TypedShares
  <2>2. stopping' \in BOOLEAN
    BY <1>1, WiredFacts
  <2> QED BY <1>5, <1>6, <2>1, <2>2 DEF Typed
<1>8. Ends'
  BY <1>1, <1>4, WiredFacts DEF Ends
<1>9. \A v \in Workers : v # w => wpc'[v] = wpc[v]
  BY <1>2, <1>3 DEF TypedWorkers
<1>10. wpc'[w] = label
  BY <1>2, <1>3 DEF TypedWorkers
<1>11. \A v \in Workers :
          (wpc'[v] = wpc[v])
          \/ (wpc[v] \notin {"lock", "write", "register"}
              /\ wpc'[v] \notin {"lock", "write", "register"})
          \/ (wpc[v] = "lock" /\ wpc'[v] = "write")
  BY <1>3, <1>4, <1>9, <1>10
<1> QED BY <1>1, <1>7, <1>8, <1>11, QuietKeeps

-----------------------------------------------------------------------------
\* The pool tells the miner something, or its handler goes on.
LEMMA PushKeeps ==
    ASSUME Wired, NEW msg \in Notifications, link = "up",
           PoolSends(msg) \/ UNCHANGED down,
           UNCHANGED <<link, up, session, mainVars, jobVars, reader, writer, workerVars,
                       shareVars, raced>>,
           issued' \in 0..MaxJobs, handler' \in {"read", "difficulty", "work", "send"},
           handler' = "read" \/ handler' = handler \/ handler # "read"
    PROVE  Wired'
<1> USE DEF mainVars, jobVars, workerVars, shareVars
<1>1. /\ down' \in Seq(Responses \cup Notifications) /\ Len(down') <= DownCap
      /\ \A i \in DOMAIN down : i \in DOMAIN down' /\ down'[i] = down[i]
      /\ \A i \in DOMAIN down' : IsResponse(down'[i]) => i \in DOMAIN down
  <2>1. CASE UNCHANGED down
    BY <2>1, WiredFacts DEF TypedQueues
  <2>2. CASE PoolSends(msg)
    <3>1. msg \in Responses \cup Notifications /\ ~IsResponse(msg)
      BY MessageFacts
    <3>2. down' = Append(down, msg) /\ Len(down) < DownCap
      BY <2>2 DEF PoolSends
    <3>3. /\ down' \in Seq(Responses \cup Notifications) /\ Len(down') = Len(down) + 1
          /\ Len(down) \in Nat /\ down'[Len(down) + 1] = msg
          /\ \A i \in DOMAIN down : i \in DOMAIN down' /\ down'[i] = down[i]
          /\ \A i \in DOMAIN down' : i \in DOMAIN down \/ i = Len(down) + 1
      <4>1. down \in Seq(Responses \cup Notifications)
        BY WiredFacts
      <4> HIDE DEF mainVars, jobVars, workerVars, shareVars
      <4> QED BY <3>1, <3>2, <4>1, Pushed
    <3>4. Len(down') <= DownCap
      BY <3>2, <3>3, CapsAssumption
    <3> QED BY <3>1, <3>3, <3>4
  <2> QED BY <2>1, <2>2
<1>2. Typed'
  <2>1. TypedMain' /\ TypedQueues'
    BY <1>1, WiredFacts DEF TypedMain, TypedQueues
  <2>2. TypedJobs' /\ TypedWorkers' /\ TypedShares'
    BY WiredFacts DEF TypedJobs, TypedWorkers, TypedShares
  <2>3. stopping' \in BOOLEAN
    BY WiredFacts
  <2> QED BY <2>1, <2>2, <2>3 DEF Typed
<1>3. Ends'
  BY WiredFacts DEF Ends
<1>4. Handshaken'
  BY <1>1, WiredFacts DEF Handshaken
<1>5. Distinct'
  BY <1>1, WiredFacts DEF Distinct
<1>6. InFlight' = InFlight
  <2>1. \A x : FlightIn(x)' <=> FlightIn(x)
    BY <1>1 DEF FlightIn
  <2> QED BY <2>1, InFlightIs
<1>7. Unsent' = Unsent /\ Registering' = Registering
  BY DEF Unsent, Registering
<1>8. Fresh'
  BY <1>1, <1>7, WiredFacts DEF Fresh
<1>9. Awaited' /\ SharesAccounted'
  BY <1>6, <1>7, WiredFacts DEF Awaited, SharesAccounted
<1> QED BY <1>2, <1>3, <1>4, <1>5, <1>8, <1>9 DEF Wired

\* Something of the pool's that the connection does not notice.
LEMMA PoolAloneKeeps ==
    ASSUME Wired, UNCHANGED <<handler, down>>, UnchangedMiner, issued' \in 0..MaxJobs
    PROVE  Wired'
<1> USE DEF UnchangedMiner, mainVars, jobVars, workerVars, shareVars
<1>1. Typed'
  <2>1. TypedMain'
    BY WiredFacts DEF TypedMain
  <2>2. TypedQueues' /\ TypedJobs' /\ TypedWorkers' /\ TypedShares'
    BY WiredFacts DEF TypedQueues, TypedJobs, TypedWorkers, TypedShares
  <2>3. stopping' \in BOOLEAN
    BY WiredFacts
  <2> QED BY <2>1, <2>2, <2>3 DEF Typed
<1>2. Ends'
  BY WiredFacts DEF Ends
<1> QED BY <1>1, <1>2, QuietKeeps

LEMMA PoolKeeps ==
    ASSUME Wired, PoolTyped, Subscribed \/ Issue \/ BroadcastStep
    PROVE  Wired'
<1>1. CASE Subscribed
  <2>1. \E msg \in Notifications : PoolSends(msg) \/ UNCHANGED down
    <3>1. SetDifficulty \in Notifications
      BY MessageFacts
    <3>2. toSend # 0 => [method |-> "notify", job |-> toSend] \in Notifications
      BY WiredFacts, MadeMessages, BoundsAssumption DEF TypedMain, PoolTyped
    <3>3. handler = "send" => toSend # 0
      BY DEF PoolTyped
    <3> QED BY <1>1, <3>1, <3>2, <3>3 DEF Subscribed, PoolSendsJob, SetDifficulty
  <2>2. /\ handler # "read" /\ handler' \in {"read", "difficulty", "work", "send"}
        /\ issued' \in 0..MaxJobs /\ link = "up" /\ UnchangedMiner
    BY <1>1, WiredFacts DEF Subscribed, TypedMain, broadcastVars
  <2> QED BY <2>1, <2>2, PushKeeps DEF UnchangedMiner
<1>2. CASE Issue
  BY <1>2, PoolAloneKeeps, WiredFacts, BoundsAssumption DEF Issue, TypedMain
<1>3. ASSUME NEW j \in broadcasts, Snapshot(j)
      PROVE  Wired'
  BY <1>3, PoolAloneKeeps, WiredFacts DEF Snapshot, TypedMain
<1>4. ASSUME NEW b \in serving, Deliver(b)
      PROVE  Wired'
  <2>1. CASE UNCHANGED down
    BY <1>4, <2>1, PoolAloneKeeps, WiredFacts DEF Deliver, TypedMain
  <2>2. CASE link = "up" /\ PoolSendsJob(b.job)
    <3> DEFINE msg == [method |-> "notify", job |-> b.job]
    <3>1. msg \in Notifications
      BY MadeMessages DEF PoolTyped, Broadcast
    <3>2. PoolSends(msg)
      BY <2>2 DEF PoolSendsJob
    <3>3. /\ issued' \in 0..MaxJobs /\ handler' = handler /\ UnchangedMiner
          /\ handler \in {"read", "difficulty", "work", "send"}
      BY <1>4, WiredFacts DEF Deliver, TypedMain
    <3> HIDE DEF msg
    <3> QED BY <2>2, <3>1, <3>2, <3>3, PushKeeps DEF UnchangedMiner
  <2> QED BY <1>4, <2>1, <2>2 DEF Deliver
<1> QED BY <1>1, <1>2, <1>3, <1>4 DEF BroadcastStep

\* The pool answers the first request.
LEMMA AnswerKeeps ==
    ASSUME Wired, Answer
    PROVE  Wired'
<1> USE DEF mainVars, jobVars, workerVars, shareVars
<1>1. /\ handler = "read" /\ up # << >> /\ up' = Tail(up)
      /\ handler' = IF Head(up).method = "subscribe" THEN "difficulty" ELSE "read"
      /\ UNCHANGED <<issued, link, session, mainVars, jobVars, reader, writer, workerVars,
                     shareVars, raced>>
  BY DEF Answer, broadcastVars
<1>2. link = "up"
  BY <1>1, WiredFacts
<1>3. PICK ok \in BOOLEAN : PoolSends([id |-> Head(up).id, ok |-> ok])
  BY DEF Answer
<1>4. /\ up' \in Seq(Requests) /\ Len(up') = Len(up) - 1 /\ Len(up) \in Nat \ {0}
      /\ 1 \in DOMAIN up /\ Head(up) = up[1] /\ Head(up) \in Requests
      /\ DOMAIN up = 1..Len(up) /\ DOMAIN up' = 1..(Len(up) - 1)
      /\ \A i \in DOMAIN up' :
            i \in Nat /\ i + 1 # 1 /\ i + 1 \in DOMAIN up /\ up'[i] = up[i + 1]
      /\ \A i \in DOMAIN up : i = 1 \/ (i - 1 \in DOMAIN up' /\ up'[i - 1] = up[i])
      /\ \A i, j \in DOMAIN up' : i + 1 = j + 1 => i = j
  BY <1>1, WiredFacts, Popped
<1>5. up[1].id \in 1..nextID /\ up[1].id \in Nat
  <2>1. up[1].id \in 1..nextID /\ nextID \in Nat
    BY <1>4, WiredFacts DEF Distinct
  <2> QED BY <2>1
<1> DEFINE msg == [id |-> up[1].id, ok |-> ok]
<1>6. msg \in Responses /\ msg.id = up[1].id
  BY <1>5, MadeMessages
<1>7. PoolSends(msg)
  BY <1>3, <1>4
<1> HIDE DEF msg
<1>8. msg \in Responses \cup Notifications /\ IsResponse(msg) /\ msg.id = up[1].id
  BY <1>6, MessageFacts
<1>9. /\ down' \in Seq(Responses \cup Notifications) /\ Len(down') = Len(down) + 1
      /\ Len(down) \in Nat /\ Len(down') <= DownCap
      /\ down'[Len(down) + 1] = msg /\ Len(down) + 1 \in DOMAIN down'
      /\ Len(down) + 1 \notin DOMAIN down
      /\ \A i \in DOMAIN down : i \in DOMAIN down' /\ down'[i] = down[i]
      /\ \A i \in DOMAIN down' : i \in DOMAIN down \/ i = Len(down) + 1
  <2>1. down' = Append(down, msg) /\ Len(down) < DownCap
    BY <1>7 DEF PoolSends
  <2>2. /\ down' \in Seq(Responses \cup Notifications) /\ Len(down') = Len(down) + 1
        /\ DOMAIN down = 1..Len(down) /\ DOMAIN down' = 1..(Len(down) + 1)
        /\ Len(down) \in Nat /\ down'[Len(down) + 1] = msg
        /\ \A i \in DOMAIN down : i \in DOMAIN down' /\ down'[i] = down[i]
        /\ \A i \in DOMAIN down' : i \in DOMAIN down \/ i = Len(down) + 1
    BY <1>8, <2>1, WiredFacts, Pushed
  <2>3. Len(down') <= DownCap
    BY <2>1, <2>2, CapsAssumption
  <2>4. Len(down) + 1 \in 1..(Len(down) + 1) /\ Len(down) + 1 \notin 1..Len(down)
    BY <2>2
  <2> QED BY <2>2, <2>3, <2>4
<1>10. Typed'
  <2>1. handler' \in {"read", "difficulty", "work"}
    BY <1>1
  <2>2. TypedMain'
    BY <1>1, <2>1, WiredFacts DEF TypedMain
  <2>3. Len(up') <= UpCap
    BY <1>4, CapsAssumption, WiredFacts DEF TypedQueues
  <2>4. TypedQueues'
    BY <1>4, <1>9, <2>3 DEF TypedQueues
  <2>5. TypedJobs' /\ TypedWorkers' /\ TypedShares'
    BY <1>1, WiredFacts DEF TypedJobs, TypedWorkers, TypedShares
  <2>6. stopping' \in BOOLEAN
    BY <1>1, WiredFacts
  <2> QED BY <2>2, <2>4, <2>5, <2>6 DEF Typed
<1>11. Ends'
  BY <1>1, <1>2, WiredFacts DEF Ends
<1>12. Handshaken'
  <2>1. Handshaken /\ phase' = phase
    BY <1>1, WiredFacts
  <2>2. \A i \in DOMAIN up' : up'[i].method = IF phase = "mining" THEN "submit" ELSE phase
    BY <1>4, <2>1 DEF Handshaken
  <2>3. phase # "mining" => Len(up) = 1 /\ \A i \in DOMAIN down : ~IsResponse(down[i])
    BY <1>1, <1>4, <2>1 DEF Handshaken
  <2>4. phase # "mining" => Len(up') <= 1 /\ up' = << >>
    <3>1. Len(up') = Len(up) - 1 /\ up' \in Seq(Requests)
      BY <1>4
    <3>2. phase # "mining" => Len(up') = 0
      BY <2>3, <3>1
    <3>3. phase # "mining" => up' = << >>
      BY <3>1, <3>2, EmptySeq
    <3> QED BY <3>2, <3>3
  <2>5. phase # "mining" =>
           \A i \in DOMAIN down' : IsResponse(down'[i]) =>
              up' = << >> /\ \A j \in DOMAIN down' : IsResponse(down'[j]) => j = i
    BY <1>9, <2>3, <2>4
  <2>6. \E i \in DOMAIN down' : IsResponse(down'[i])
    BY <1>8, <1>9
  <2> QED BY <2>1, <2>2, <2>4, <2>5, <2>6 DEF Handshaken
<1>13. Distinct'
  <2>1. Distinct /\ nextID' = nextID
    BY <1>1, WiredFacts
  <2>2. ASSUME NEW i \in DOMAIN up'
        PROVE  /\ up'[i].id \in 1..nextID' /\ up'[i].id # up[1].id
               /\ \A j \in DOMAIN up' : up'[j].id = up'[i].id => j = i
    BY <1>4, <2>1 DEF Distinct
  <2>3. ASSUME NEW i \in DOMAIN down, IsResponse(down[i])
        PROVE  /\ down[i].id \in 1..nextID' /\ down[i].id # up[1].id
               /\ \A j \in DOMAIN up' : up'[j].id # down[i].id
               /\ \A j \in DOMAIN down :
                     IsResponse(down[j]) /\ down[j].id = down[i].id => j = i
    BY <1>4, <2>1, <2>3 DEF Distinct
  <2>4. ASSUME NEW i \in DOMAIN down', IsResponse(down'[i])
        PROVE  /\ down'[i].id \in 1..nextID'
               /\ \A j \in DOMAIN up' : up'[j].id # down'[i].id
               /\ \A j \in DOMAIN down' :
                     IsResponse(down'[j]) /\ down'[j].id = down'[i].id => j = i
    <3>1. CASE i = Len(down) + 1
      BY <1>5, <1>8, <1>9, <2>1, <2>2, <2>3, <3>1
    <3>2. CASE i \in DOMAIN down
      BY <1>8, <1>9, <2>3, <2>4, <3>2
    <3> QED BY <1>9, <3>1, <3>2
  <2> QED BY <2>2, <2>4 DEF Distinct
<1>14. InFlight' = InFlight
  <2>1. CASE phase # "mining"
    <3>1. DOMAIN up' = {}
      BY <1>1, <1>4, <2>1, WiredFacts DEF Handshaken
    <3>2. InFlight' = {}
      BY <1>1, <2>1, <3>1, InFlightIs DEF FlightIn
    <3> QED BY <2>1, <3>2, WiredFacts
  <2>2. CASE phase = "mining"
    <3>1. \A i \in DOMAIN up : up[i].method = "submit"
      BY <2>2, WiredFacts DEF Handshaken
    <3>2. \A i \in DOMAIN up' : up'[i].method = "submit"
      BY <1>4, <3>1
    <3>3. phase' = phase
      BY <1>1
    <3>4. ASSUME NEW x, FlightIn(x)
          PROVE  FlightIn(x)'
      <4>1. CASE \E i \in DOMAIN up : up[i].id = x
        <5>1. PICK i \in DOMAIN up : up[i].id = x
          BY <4>1
        <5>2. CASE i = 1
          BY <1>8, <1>9, <2>2, <3>3, <5>1, <5>2 DEF FlightIn
        <5>3. CASE i - 1 \in DOMAIN up' /\ up'[i - 1] = up[i]
          BY <3>2, <5>1, <5>3 DEF FlightIn
        <5> QED BY <1>4, <5>2, <5>3
      <4>2. CASE \E i \in DOMAIN down : IsResponse(down[i]) /\ down[i].id = x
        BY <1>9, <2>2, <3>3, <4>2 DEF FlightIn
      <4> QED BY <3>4, <4>1, <4>2 DEF FlightIn
    <3>5. ASSUME NEW x, FlightIn(x)'
          PROVE  FlightIn(x)
      <4>1. CASE \E i \in DOMAIN up' : up'[i].id = x
        BY <1>4, <3>1, <4>1 DEF FlightIn
      <4>2. CASE \E i \in DOMAIN down' : IsResponse(down'[i]) /\ down'[i].id = x
        BY <1>4, <1>8, <1>9, <2>2, <3>1, <4>2 DEF FlightIn
      <4> QED BY <3>5, <4>1, <4>2 DEF FlightIn
    <3> QED BY <3>4, <3>5, InFlightIs
  <2> QED BY <2>1, <2>2
<1>15. Unsent' = Unsent /\ Registering' = Registering
  BY <1>1 DEF Unsent, Registering
<1>16. Fresh'
  <2>1. Fresh /\ wpc' = wpc /\ wid' = wid /\ nextID' = nextID
    BY <1>1, WiredFacts
  <2>2. ASSUME NEW w \in Unsent
        PROVE  /\ \A i \in DOMAIN up' : up'[i].id # wid[w]
               /\ \A i \in DOMAIN down' : IsResponse(down'[i]) => down'[i].id # wid[w]
    <3>1. \A i \in DOMAIN up : up[i].id # wid[w]
      BY <2>1 DEF Fresh
    <3>2. \A i \in DOMAIN down : IsResponse(down[i]) => down[i].id # wid[w]
      BY <2>1 DEF Fresh
    <3> QED BY <1>4, <1>8, <1>9, <3>1, <3>2
  <2> QED BY <1>15, <2>1, <2>2 DEF Fresh
<1>17. Awaited' /\ SharesAccounted'
  BY <1>1, <1>14, <1>15, WiredFacts DEF Awaited, SharesAccounted
<1> QED BY <1>10, <1>11, <1>12, <1>13, <1>16, <1>17 DEF Wired

-----------------------------------------------------------------------------
\* A submission that changes hands leaves the sum as it is.
LEMMA SumKeeps ==
    ASSUME Wired, UNCHANGED <<found, counted, lost>>,
           IsFiniteSet(InFlight'), IsFiniteSet(Unsent'),
           NEW x, NEW w,
           x \notin InFlight, InFlight' = InFlight \cup {x},
           w \in Unsent, Unsent' = Unsent \ {w}
    PROVE  SharesAccounted'
<1>1. Cardinality(InFlight') = Cardinality(InFlight) + 1
  BY WiredFacts, FS_AddElement
<1>2. Cardinality(Unsent') = Cardinality(Unsent) - 1
  BY WiredFacts, FS_RemoveElement
<1> QED BY <1>1, <1>2, WiredFacts DEF SharesAccounted

\* The connection ends with what is on its way, or is refused in the handshake.
LEMMA DropKeeps ==
    ASSUME Wired, link = "up", link' = "closed", up' = << >>, down' = << >>,
           lost' = lost + Cardinality(InFlight),
           UNCHANGED <<poolVars, session, extraNonce1, target, jobVars, reader, writer,
                       workerVars, nextID, pending, counted, found, raced>>,
           stopping' \in BOOLEAN,
           phase' = phase \/ (phase = "authorize" /\ phase' = "wait")
    PROVE  Wired'
<1> USE DEF poolVars, broadcastVars, jobVars, workerVars
<1>1. /\ << >> \in Seq(Requests) /\ << >> \in Seq(Responses \cup Notifications)
      /\ Len(<< >>) = 0 /\ DOMAIN << >> = {}
  OBVIOUS
<1>2. DOMAIN up' = {} /\ DOMAIN down' = {} /\ Len(up') = 0 /\ Len(down') = 0
  BY <1>1
<1>3. Typed'
  <2>1. TypedMain'
    BY WiredFacts DEF TypedMain
  <2>2. TypedQueues'
    BY <1>1, <1>2, CapsAssumption DEF TypedQueues
  <2>3. TypedJobs' /\ TypedWorkers'
    BY WiredFacts DEF TypedJobs, TypedWorkers
  <2>4. lost' \in Nat
    BY WiredFacts
  <2>5. TypedShares'
    BY <2>4, WiredFacts DEF TypedShares
  <2> QED BY <2>1, <2>2, <2>3, <2>5 DEF Typed
<1>4. Ends'
  BY WiredFacts DEF Ends
<1>5. Handshaken' /\ Distinct'
  BY <1>2 DEF Handshaken, Distinct
<1>6. InFlight' = {}
  BY <1>2, InFlightIs DEF FlightIn
<1>7. Unsent' = Unsent
  BY DEF Unsent
<1>8. Fresh'
  BY <1>2, <1>7, WiredFacts DEF Fresh
<1>9. Awaited'
  BY <1>6 DEF Awaited
<1>10. SharesAccounted'
  <2>1. found = counted + lost + Cardinality(Unsent) + Cardinality(InFlight)
    BY WiredFacts DEF SharesAccounted
  <2>2. Cardinality(InFlight') = 0
    BY <1>6, FS_EmptySet
  <2>3. /\ counted \in Nat /\ lost \in Nat /\ Cardinality(Unsent) \in Nat
        /\ Cardinality(InFlight) \in Nat
    BY WiredFacts
  <2>4. found = counted + (lost + Cardinality(InFlight)) + Cardinality(Unsent) + 0
    BY <2>1, <2>3
  <2> QED BY <1>7, <2>2, <2>4 DEF SharesAccounted
<1> QED BY <1>3, <1>4, <1>5, <1>8, <1>9, <1>10 DEF Wired

LEMMA LoseKeeps ==
    ASSUME Wired, Lose \/ Stop
    PROVE  Wired'
<1>1. CASE Lose
  <2>1. stopping' \in BOOLEAN /\ phase' = phase
    BY <1>1, WiredFacts DEF Lose, mainVars
  <2> QED BY <1>1, <2>1, DropKeeps DEF Lose, Drop, mainVars
<1>2. CASE Stop /\ link = "up"
  <2>1. stopping' \in BOOLEAN /\ phase' = phase
    BY <1>2 DEF Stop
  <2> QED BY <1>2, <2>1, DropKeeps DEF Stop, Drop
<1>3. CASE Stop /\ link # "up"
  <2> USE DEF poolVars, broadcastVars, jobVars, workerVars
  <2>1. /\ UNCHANGED <<poolVars, link, up, down, session, phase, extraNonce1, target, jobVars>>
        /\ UNCHANGED <<reader, writer, workerVars, nextID, pending, counted, found, lost, raced>>
        /\ stopping' = TRUE
    BY <1>3 DEF Stop
  <2>2. Typed'
    <3>1. TypedMain' /\ TypedQueues' /\ TypedJobs' /\ TypedWorkers' /\ TypedShares'
      BY <2>1, WiredFacts DEF TypedMain, TypedQueues, TypedJobs, TypedWorkers, TypedShares
    <3> QED BY <2>1, <3>1 DEF Typed
  <2>3. Ends'
    BY <1>3, <2>1, WiredFacts DEF Ends
  <2> QED BY <2>1, <2>2, <2>3, QuietKeeps
<1> QED BY <1>1, <1>2, <1>3

-----------------------------------------------------------------------------
\* A worker finds a share,
LEMMA HitKeeps ==
    ASSUME Wired, NEW w \in Workers, Hit(w)
    PROVE  Wired'
<1> USE DEF poolVars, broadcastVars, linkVars, mainVars, jobVars
<1>1. /\ wpc[w] = "hash" /\ found < MaxShares /\ found' = found + 1
      /\ nextID' = nextID + 1 /\ wid' = [wid EXCEPT ![w] = nextID + 1]
      /\ wpc' = [wpc EXCEPT ![w] = "lock"]
      /\ UNCHANGED <<poolVars, linkVars, mainVars, jobVars, reader, writer, wjob, wgen>>
      /\ UNCHANGED <<pending, counted, lost, raced>>
  BY DEF Hit, Goto
<1>2. TypedWorkers /\ TypedShares /\ nextID \in Nat /\ found \in Nat /\ MaxShares \in Nat
  BY WiredFacts, BoundsAssumption
<1>3. /\ wpc'[w] = "lock" /\ wid'[w] = nextID + 1
      /\ \A v \in Workers : v # w => wpc'[v] = wpc[v] /\ wid'[v] = wid[v]
  BY <1>1, <1>2 DEF TypedWorkers, TypedShares
<1>4. /\ \A n \in 1..nextID : n \in 1..(nextID + 1) /\ n # nextID + 1
      /\ nextID + 1 \in 1..(nextID + 1) /\ nextID + 1 \in Nat
  BY <1>2
<1>5. Typed'
  <2>1. TypedMain' /\ TypedQueues' /\ TypedJobs'
    BY <1>1, WiredFacts DEF TypedMain, TypedQueues, TypedJobs
  <2>2. TypedWorkers'
    BY <1>1, <1>2 DEF TypedWorkers
  <2>3. TypedShares'
    <3>1. found' \in 0..MaxShares
      BY <1>1, <1>2
    <3>2. wid' \in [Workers -> Nat]
      BY <1>1, <1>2, <1>4 DEF TypedShares
    <3>3. pending' \subseteq 1..nextID'
      BY <1>1, <1>2, <1>4 DEF TypedShares
    <3> QED BY <1>1, <1>2, <1>4, <3>1, <3>2, <3>3 DEF TypedShares
  <2>4. stopping' \in BOOLEAN
    BY <1>1, WiredFacts
  <2> QED BY <2>1, <2>2, <2>3, <2>4 DEF Typed
<1>6. Ends'
  BY <1>1, <1>3, WiredFacts DEF Ends
<1>7. Handshaken'
  BY <1>1, WiredFacts DEF Handshaken
<1>8. Distinct'
  BY <1>1, <1>4, WiredFacts DEF Distinct
<1>9. InFlight' = InFlight
  <2>1. \A x : FlightIn(x)' <=> FlightIn(x)
    BY <1>1 DEF FlightIn
  <2> QED BY <2>1, InFlightIs
<1>10. Unsent' = Unsent \cup {w} /\ w \notin Unsent
  BY <1>1, <1>3 DEF Unsent
<1>11. Registering' = Registering /\ w \notin Registering
  BY <1>1, <1>3 DEF Registering
<1>12. Fresh'
  <2>1. Fresh /\ Distinct
    BY WiredFacts
  <2>2. \A v \in Workers : wpc'[v] \in {"lock", "write", "register"} => wid'[v] \in 1..nextID'
    BY <1>1, <1>3, <1>4, <2>1 DEF Fresh
  <2>3. \A i \in DOMAIN up : up[i].id # nextID + 1
    BY <1>4, <2>1 DEF Distinct
  <2>4. \A i \in DOMAIN down : IsResponse(down[i]) => down[i].id # nextID + 1
    BY <1>4, <2>1 DEF Distinct
  <2>5. \A v \in Unsent : v # w /\ v \in Workers /\ wid'[v] = wid[v] /\ wid[v] \in 1..nextID
    BY <1>3, <1>10, <2>1 DEF Fresh, Unsent
  <2>6. \A v \in Unsent : wid[v] # nextID + 1
    BY <1>4, <2>5
  <2> QED BY <1>1, <1>3, <1>10, <2>1, <2>2, <2>3, <2>4, <2>5, <2>6 DEF Fresh
<1>13. Awaited'
  <2>1. \A v \in Registering : wid'[v] = wid[v]
    BY <1>3, <1>11 DEF Registering
  <2> QED BY <1>1, <1>9, <1>11, <2>1, WiredFacts DEF Awaited
<1>14. SharesAccounted'
  <2>1. Cardinality(Unsent') = Cardinality(Unsent) + 1
    BY <1>10, WiredFacts, FS_AddElement
  <2>2. /\ found = counted + lost + Cardinality(Unsent) + Cardinality(InFlight)
        /\ counted \in Nat /\ lost \in Nat /\ Cardinality(Unsent) \in Nat
        /\ Cardinality(InFlight) \in Nat
    BY WiredFacts DEF SharesAccounted
  <2>3. found + 1 = counted + lost + (Cardinality(Unsent) + 1) + Cardinality(InFlight)
    BY <2>2
  <2> QED BY <1>1, <1>9, <2>1, <2>3 DEF SharesAccounted
<1> QED BY <1>5, <1>6, <1>7, <1>8, <1>12, <1>13, <1>14 DEF Wired

\* sends it, or finds the connection closed,
LEMMA WriteKeeps ==
    ASSUME Wired, NEW w \in Workers, Write(w)
    PROVE  Wired'
<1> USE DEF poolVars, broadcastVars, linkVars, mainVars, jobVars
<1>1. /\ wpc[w] = "write" /\ writer' = Nobody
      /\ UNCHANGED <<poolVars, link, down, session, mainVars, jobVars, reader, wjob, wgen>>
      /\ UNCHANGED <<nextID, pending, found, lost, raced>>
  BY DEF Write
<1>2. TypedWorkers /\ TypedShares /\ TypedQueues /\ Ends /\ Fresh /\ Distinct /\ Handshaken
  BY WiredFacts
<1>3. w \in Unsent /\ wid[w] \in 1..nextID /\ w \notin Registering /\ wid[w] \in Nat
  BY <1>1, <1>2 DEF Unsent, Fresh, Registering, TypedShares
<1>4. CASE /\ link = "up" /\ Len(up) < UpCap
           /\ up' = Append(up, [method |-> "submit", id |-> wid[w]])
           /\ wpc' = [wpc EXCEPT ![w] = "register"]
           /\ UNCHANGED <<counted, wid>>
  <2>1. phase = "mining"
    BY <1>1, <1>2, <1>4 DEF Ends
  <2> DEFINE msg == [method |-> "submit", id |-> wid[w]]
  <2>2. msg \in Requests /\ msg.id = wid[w] /\ msg.method = "submit"
    BY <1>3, MadeMessages
  <2>3. up' = Append(up, msg)
    BY <1>4
  <2> HIDE DEF msg
  <2>4. /\ up' \in Seq(Requests) /\ Len(up') = Len(up) + 1 /\ Len(up) \in Nat
        /\ DOMAIN up = 1..Len(up) /\ DOMAIN up' = 1..(Len(up) + 1)
        /\ up'[Len(up) + 1] = msg
        /\ \A i \in DOMAIN up : i \in DOMAIN up' /\ up'[i] = up[i]
        /\ \A i \in DOMAIN up' : i \in DOMAIN up \/ i = Len(up) + 1
    <3>1. up \in Seq(Requests)
      BY <1>2 DEF TypedQueues
    <3> QED BY <2>2, <2>3, <3>1, Pushed
  <2>5. Len(up) + 1 \in DOMAIN up'
    BY <2>4
  <2>6. /\ wpc'[w] = "register" /\ wid' = wid
        /\ \A v \in Workers : v # w => wpc'[v] = wpc[v]
    BY <1>2, <1>4 DEF TypedWorkers
  <2>7. Typed'
    <3>1. Len(up') <= UpCap
      BY <1>4, <2>4, CapsAssumption
    <3>2. TypedMain' /\ TypedJobs' /\ TypedQueues'
      BY <1>1, <2>4, <3>1, WiredFacts DEF TypedMain, TypedJobs, TypedQueues
    <3>3. TypedWorkers' /\ TypedShares'
      BY <1>1, <1>2, <1>4 DEF TypedWorkers, TypedShares
    <3>4. stopping' \in BOOLEAN
      BY <1>1, WiredFacts
    <3> QED BY <3>2, <3>3, <3>4 DEF Typed
  <2>8. Ends'
    BY <1>1, <1>2, <1>4, <2>1, <2>6 DEF Ends
  <2>9. Handshaken'
    <3>1. \A i \in DOMAIN up' : up'[i].method = "submit"
      BY <1>2, <2>1, <2>2, <2>4 DEF Handshaken
    <3> QED BY <1>1, <2>1, <3>1 DEF Handshaken
  <2>10. Distinct'
    <3>1. \A i \in DOMAIN up : up[i].id # wid[w] /\ up[i].id \in 1..nextID
      BY <1>2, <1>3 DEF Fresh, Distinct
    <3>2. \A i \in DOMAIN down : IsResponse(down[i]) => down[i].id # wid[w]
      BY <1>2, <1>3 DEF Fresh
    <3>3. ASSUME NEW i \in DOMAIN up'
          PROVE  /\ up'[i].id \in 1..nextID
                 /\ \A j \in DOMAIN up' : up'[j].id = up'[i].id => j = i
      <4>1. CASE i = Len(up) + 1
        BY <1>3, <2>2, <2>4, <3>1, <4>1
      <4>2. CASE i \in DOMAIN up
        BY <1>2, <2>2, <2>4, <3>1, <4>2 DEF Distinct
      <4> QED BY <2>4, <4>1, <4>2
    <3>4. ASSUME NEW i \in DOMAIN down, IsResponse(down[i])
          PROVE  /\ down[i].id \in 1..nextID
                 /\ \A j \in DOMAIN up' : up'[j].id # down[i].id
                 /\ \A j \in DOMAIN down :
                       IsResponse(down[j]) /\ down[j].id = down[i].id => j = i
      BY <1>2, <2>2, <2>4, <3>2, <3>4 DEF Distinct
    <3> QED BY <1>1, <3>3, <3>4 DEF Distinct
  <2>11. InFlight' = InFlight \cup {wid[w]} /\ wid[w] \notin InFlight
    <3>1. \A x : FlightIn(x)' <=> FlightIn(x) \/ x = wid[w]
      <4>1. ASSUME NEW x, FlightIn(x)
            PROVE  FlightIn(x)'
        BY <1>1, <2>4, <4>1 DEF FlightIn
      <4>2. ASSUME NEW x, x = wid[w]
            PROVE  FlightIn(x)'
        BY <2>2, <2>4, <2>5, <4>2 DEF FlightIn
      <4>3. ASSUME NEW x, FlightIn(x)'
            PROVE  FlightIn(x) \/ x = wid[w]
        <5>1. CASE \E i \in DOMAIN up' : up'[i].method = "submit" /\ up'[i].id = x
          BY <2>2, <2>4, <5>1 DEF FlightIn
        <5>2. CASE phase' = "mining" /\ \E i \in DOMAIN down' :
                                           IsResponse(down'[i]) /\ down'[i].id = x
          BY <1>1, <5>2 DEF FlightIn
        <5> QED BY <4>3, <5>1, <5>2 DEF FlightIn
      <4> QED BY <4>1, <4>2, <4>3
    <3>2. ~FlightIn(wid[w])
      BY <1>2, <1>3 DEF FlightIn, Fresh
    <3> QED BY <3>1, <3>2, InFlightIs
  <2>12. Unsent' = Unsent \ {w} /\ Registering' = Registering \cup {w}
    BY <1>1, <2>6 DEF Unsent, Registering
  <2>13. Fresh'
    <3>1. \A v \in Workers : wpc'[v] \in {"lock", "write", "register"} => wid[v] \in 1..nextID
      BY <1>2, <1>3, <2>6 DEF Fresh
    <3>2. \A v \in Unsent : v # w => wid[v] # wid[w]
      BY <1>2, <1>3 DEF Fresh
    <3>3. ASSUME NEW v \in Unsent, v # w
          PROVE  /\ \A i \in DOMAIN up' : up'[i].id # wid[v]
                 /\ \A i \in DOMAIN down : IsResponse(down[i]) => down[i].id # wid[v]
                 /\ \A u \in Unsent : wid[u] = wid[v] => u = v
      BY <1>2, <2>2, <2>4, <3>2, <3>3 DEF Fresh
    <3> QED BY <1>1, <2>6, <2>12, <3>1, <3>3 DEF Fresh
  <2>14. Awaited'
    BY <1>1, <2>6, <2>11, <2>12, WiredFacts DEF Awaited
  <2>15. SharesAccounted'
    <3>1. IsFiniteSet(InFlight') /\ IsFiniteSet(Unsent')
      BY <2>11, <2>12, WiredFacts, FS_AddElement, FS_RemoveElement
    <3> QED BY <1>1, <1>3, <1>4, <2>11, <2>12, <3>1, SumKeeps
  <2> QED BY <2>7, <2>8, <2>9, <2>10, <2>13, <2>14, <2>15 DEF Wired
<1>5. CASE link = "closed" /\ counted' = counted + 1 /\ Submitted(w) /\ UNCHANGED up
  <2>1. wpc' = [wpc EXCEPT ![w] = "check"] /\ wid' = [wid EXCEPT ![w] = 0]
    BY <1>5 DEF Submitted, Goto
  <2>2. /\ wpc'[w] = "check" /\ wid'[w] = 0
        /\ \A v \in Workers : v # w => wpc'[v] = wpc[v] /\ wid'[v] = wid[v]
    BY <1>2, <2>1 DEF TypedWorkers, TypedShares
  <2>3. Typed'
    <3>1. TypedMain' /\ TypedJobs' /\ TypedQueues'
      BY <1>1, <1>5, WiredFacts DEF TypedMain, TypedJobs, TypedQueues
    <3>2. TypedWorkers'
      BY <1>1, <1>2, <2>1 DEF TypedWorkers
    <3>3. wid' \in [Workers -> Nat] /\ counted' \in Nat
      BY <1>2, <1>5, <2>1 DEF TypedShares
    <3>4. TypedShares'
      BY <1>1, <1>2, <3>3 DEF TypedShares
    <3>5. stopping' \in BOOLEAN
      BY <1>1, WiredFacts
    <3> QED BY <3>1, <3>2, <3>4, <3>5 DEF Typed
  <2>4. Ends'
    BY <1>1, <1>2, <1>5, <2>2 DEF Ends
  <2>5. DOMAIN up = {} /\ DOMAIN down = {} /\ InFlight = {} /\ up' = up /\ down' = down
    BY <1>1, <1>5, WiredFacts
  <2>6. Handshaken' /\ Distinct'
    BY <1>1, <1>2, <1>5, <2>5 DEF Handshaken, Distinct
  <2>7. InFlight' = {}
    BY <2>5, InFlightIs DEF FlightIn
  <2>8. Unsent' = Unsent \ {w}
    BY <1>1, <2>2 DEF Unsent
  <2>9. Fresh'
    BY <1>1, <1>2, <2>2, <2>5, <2>8 DEF Fresh, Unsent
  <2>10. Awaited'
    BY <2>7 DEF Awaited
  <2>11. SharesAccounted'
    <3>1. Cardinality(Unsent') = Cardinality(Unsent) - 1
      BY <1>3, <2>8, WiredFacts, FS_RemoveElement
    <3>2. /\ found = counted + lost + Cardinality(Unsent) + Cardinality(InFlight)
          /\ counted \in Nat /\ lost \in Nat /\ Cardinality(Unsent) \in Nat
          /\ Cardinality(InFlight) \in Nat
      BY WiredFacts DEF SharesAccounted
    <3>3. found = (counted + 1) + lost + (Cardinality(Unsent) - 1) + Cardinality(InFlight)
      BY <3>2
    <3>4. Cardinality(InFlight') = Cardinality(InFlight)
      BY <2>5, <2>7
    <3> QED BY <1>1, <1>5, <3>1, <3>3, <3>4 DEF SharesAccounted
  <2> QED BY <2>3, <2>4, <2>6, <2>9, <2>10, <2>11 DEF Wired
<1> QED BY <1>4, <1>5 DEF Write, Goto

\* and registers what it has sent.
LEMMA RegisterKeeps ==
    ASSUME Wired, NEW w \in Workers, Register(w)
    PROVE  Wired'
<1> USE DEF poolVars, broadcastVars, linkVars, mainVars, jobVars
<1>1. /\ wpc[w] = "register" /\ pending' = pending \cup {wid[w]}
      /\ wpc' = [wpc EXCEPT ![w] = "check"] /\ wid' = [wid EXCEPT ![w] = 0]
      /\ UNCHANGED <<poolVars, linkVars, mainVars, jobVars, reader, writer, wjob, wgen>>
      /\ UNCHANGED <<nextID, counted, found, lost, raced>>
  BY DEF Register, Submitted, Goto
<1>2. TypedWorkers /\ TypedShares /\ Ends /\ Fresh
  BY WiredFacts
<1>3. /\ wpc'[w] = "check" /\ wid'[w] = 0
      /\ \A v \in Workers : v # w => wpc'[v] = wpc[v] /\ wid'[v] = wid[v]
  BY <1>1, <1>2 DEF TypedWorkers, TypedShares
<1>4. wid[w] \in 1..nextID
  BY <1>1, <1>2 DEF Fresh
<1>5. Typed'
  <2>1. TypedMain' /\ TypedJobs' /\ TypedQueues'
    BY <1>1, WiredFacts DEF TypedMain, TypedJobs, TypedQueues
  <2>2. TypedWorkers' /\ TypedShares'
    BY <1>1, <1>2, <1>4 DEF TypedWorkers, TypedShares
  <2>3. stopping' \in BOOLEAN
    BY <1>1, WiredFacts
  <2> QED BY <2>1, <2>2, <2>3 DEF Typed
<1>6. Ends'
  BY <1>1, <1>2, <1>3 DEF Ends
<1>7. Handshaken' /\ Distinct'
  BY <1>1, WiredFacts DEF Handshaken, Distinct
<1>8. InFlight' = InFlight
  <2>1. \A x : FlightIn(x)' <=> FlightIn(x)
    BY <1>1 DEF FlightIn
  <2> QED BY <2>1, InFlightIs
<1>9. Unsent' = Unsent /\ w \notin Unsent /\ Registering' = Registering \ {w}
  BY <1>1, <1>3 DEF Unsent, Registering
<1>10. Fresh'
  <2>1. \A v \in Unsent : wid'[v] = wid[v]
    BY <1>3, <1>9 DEF Unsent
  <2> QED BY <1>1, <1>2, <1>3, <1>9, <2>1 DEF Fresh
<1>11. Awaited'
  <2>1. \A v \in Registering : v = w \/ (v \in Registering' /\ wid'[v] = wid[v])
    BY <1>3, <1>9 DEF Registering
  <2> QED BY <1>1, <1>8, <2>1, WiredFacts DEF Awaited
<1>12. SharesAccounted'
  BY <1>1, <1>8, <1>9, WiredFacts DEF SharesAccounted
<1> QED BY <1>5, <1>6, <1>7, <1>10, <1>11, <1>12 DEF Wired

-----------------------------------------------------------------------------
\* The miner takes the first message.
LEMMA DownPopped ==
    ASSUME Wired, down # << >>, down' = Tail(down)
    PROVE  /\ link = "up" /\ 1 \in DOMAIN down /\ Head(down) = down[1]
           /\ down[1] \in Responses \cup Notifications
           /\ down' \in Seq(Responses \cup Notifications) /\ Len(down') <= DownCap
           /\ Len(down') = Len(down) - 1 /\ Len(down) \in Nat \ {0}
           /\ DOMAIN down = 1..Len(down) /\ DOMAIN down' = 1..(Len(down) - 1)
           /\ \A i \in DOMAIN down' :
                 i \in Nat /\ i + 1 # 1 /\ i + 1 \in DOMAIN down /\ down'[i] = down[i + 1]
           /\ \A i \in DOMAIN down : i = 1 \/ (i - 1 \in DOMAIN down' /\ down'[i - 1] = down[i])
           /\ \A i, j \in DOMAIN down' : i + 1 = j + 1 => i = j
<1>1. down \in Seq(Responses \cup Notifications) /\ link = "up" /\ Len(down) <= DownCap
  BY WiredFacts DEF TypedQueues
<1>2. /\ 1 \in DOMAIN down /\ Head(down) = down[1] /\ Head(down) \in Responses \cup Notifications
      /\ down' \in Seq(Responses \cup Notifications)
      /\ Len(down') = Len(down) - 1 /\ Len(down) \in Nat \ {0}
      /\ DOMAIN down = 1..Len(down) /\ DOMAIN down' = 1..(Len(down) - 1)
      /\ \A i \in DOMAIN down' :
            i \in Nat /\ i + 1 # 1 /\ i + 1 \in DOMAIN down /\ down'[i] = down[i + 1]
      /\ \A i \in DOMAIN down : i = 1 \/ (i - 1 \in DOMAIN down' /\ down'[i - 1] = down[i])
      /\ \A i, j \in DOMAIN down' : i + 1 = j + 1 => i = j
  BY <1>1, Popped
<1>3. \A n \in Nat \ {0}, m \in Nat : n <= m => n - 1 <= m
  OBVIOUS
<1>4. Len(down') <= DownCap
  BY <1>1, <1>2, <1>3, CapsAssumption
<1> QED BY <1>1, <1>2, <1>4

\* Notifications are nobody's answers.
LEMMA NotificationPopped ==
    ASSUME Wired, down # << >>, down' = Tail(down), ~IsResponse(Head(down)),
           HandleNotification(Head(down)),
           UNCHANGED <<poolVars, link, up, session, phase, stopping, extraNonce1, currentJob,
                       writer, workerVars, shareVars, raced>>,
           reader' = reader \/ (reader = "recv" /\ reader' = "lock")
    PROVE  Wired'
<1> USE DEF poolVars, broadcastVars, workerVars, shareVars
<1>1. /\ \A i \in DOMAIN down' : i \in Nat /\ i + 1 \in DOMAIN down /\ down'[i] = down[i + 1]
      /\ \A i \in DOMAIN down : IsResponse(down[i]) =>
            i - 1 \in DOMAIN down' /\ down'[i - 1] = down[i]
      /\ \A i, j \in DOMAIN down' : i + 1 = j + 1 => i = j
  BY DownPopped
<1>2. Head(down) \in Notifications /\ (IsJob(Head(down)) => Head(down).job \in 1..MaxJobs)
  BY DownPopped, MessageFacts
<1>3. /\ target' \in {"powLimit", "share"}
      /\ gen' \in Nat
  BY WiredFacts DEF HandleNotification, HandleNotify, TypedMain, TypedWorkers
<1>4. built' \in Job
  <2>1. built' = built \/ (IsJob(Head(down)) /\ built' = [id |-> Head(down).job,
                             extraNonce1 |-> extraNonce1, target |-> target])
    BY DEF HandleNotification, HandleNotify, IsJob
  <2>2. extraNonce1 \in 0..MaxSessions /\ target \in {"powLimit", "share"} /\ built \in Job
    BY WiredFacts, BoundsAssumption DEF TypedMain, TypedJobs
  <2>3. \A n \in 1..MaxJobs : n \in 0..MaxJobs
    BY BoundsAssumption
  <2> QED BY <1>2, <2>1, <2>2, <2>3 DEF Job
<1>5. Typed'
  <2>1. TypedMain'
    BY <1>3, WiredFacts DEF TypedMain
  <2>2. TypedQueues'
    BY DownPopped, WiredFacts DEF TypedQueues
  <2>3. TypedJobs' /\ TypedWorkers' /\ TypedShares'
    BY <1>3, <1>4, WiredFacts DEF TypedJobs, TypedWorkers, TypedShares
  <2>4. stopping' \in BOOLEAN
    BY WiredFacts
  <2> QED BY <2>1, <2>2, <2>3, <2>4 DEF Typed
<1>6. Ends'
  <2>1. link = "up" /\ link' = "up"
    BY DownPopped
  <2>2. reader' # "off" <=> reader # "off"
    OBVIOUS
  <2> QED BY <2>1, <2>2, WiredFacts DEF Ends
<1>7. Handshaken'
  <2>1. Handshaken
    BY WiredFacts
  <2>2. ASSUME phase # "mining", NEW i \in DOMAIN down', IsResponse(down'[i])
        PROVE  up' = << >> /\ \A j \in DOMAIN down' : IsResponse(down'[j]) => j = i
    BY <1>1, <2>1, <2>2 DEF Handshaken
  <2>3. (\E i \in DOMAIN down : IsResponse(down[i]))
           => \E i \in DOMAIN down' : IsResponse(down'[i])
    BY <1>1
  <2> QED BY <2>1, <2>2, <2>3 DEF Handshaken
<1>8. Distinct'
  <2>1. Distinct
    BY WiredFacts
  <2>2. ASSUME NEW i \in DOMAIN down', IsResponse(down'[i])
        PROVE  /\ down'[i].id \in 1..nextID
               /\ \A j \in DOMAIN up : up[j].id # down'[i].id
               /\ \A j \in DOMAIN down' : IsResponse(down'[j]) /\ down'[j].id = down'[i].id => j = i
    BY <1>1, <2>1, <2>2 DEF Distinct
  <2> QED BY <2>1, <2>2 DEF Distinct
<1>9. InFlight' = InFlight
  <2>1. ASSUME NEW x
        PROVE  FlightIn(x)' <=> FlightIn(x)
    BY <1>1 DEF FlightIn
  <2> QED BY <2>1, InFlightIs
<1>10. Unsent' = Unsent /\ Registering' = Registering
  BY DEF Unsent, Registering
<1>11. Fresh'
  <2>1. Fresh
    BY WiredFacts
  <2>2. ASSUME NEW w \in Unsent, NEW i \in DOMAIN down', IsResponse(down'[i])
        PROVE  down'[i].id # wid[w]
    BY <1>1, <2>1, <2>2 DEF Fresh
  <2> QED BY <1>10, <2>1, <2>2 DEF Fresh
<1>12. Awaited' /\ SharesAccounted'
  BY <1>9, <1>10, WiredFacts DEF Awaited, SharesAccounted
<1> QED BY <1>5, <1>6, <1>7, <1>8, <1>11, <1>12 DEF Wired

\* The read loop handles a message.
LEMMA ReadKeeps ==
    ASSUME Wired, Read
    PROVE  Wired'
<1> USE DEF poolVars, broadcastVars, jobVars, workerVars
<1>1. /\ reader = "recv" /\ reader' = "lock" /\ down # << >> /\ down' = Tail(down)
      /\ UNCHANGED <<poolVars, link, up, session, phase, stopping, extraNonce1, currentJob>>
      /\ UNCHANGED <<writer, workerVars, nextID, found, raced>>
  BY DEF Read
<1>2. CASE ~IsResponse(Head(down))
  <2>1. HandleNotification(Head(down)) /\ UNCHANGED <<pending, counted, lost>>
    BY <1>2 DEF Read, IsResponse
  <2> QED BY <1>1, <1>2, <2>1, NotificationPopped DEF shareVars
<1>3. CASE IsResponse(Head(down))
  <2> DEFINE id == down[1].id
  <2>1. /\ link = "up" /\ 1 \in DOMAIN down /\ IsResponse(down[1]) /\ Head(down) = down[1]
        /\ \A i \in DOMAIN down' :
              i \in Nat /\ i + 1 # 1 /\ i + 1 \in DOMAIN down /\ down'[i] = down[i + 1]
        /\ \A i \in DOMAIN down : i = 1 \/ (i - 1 \in DOMAIN down' /\ down'[i - 1] = down[i])
        /\ \A i, j \in DOMAIN down' : i + 1 = j + 1 => i = j
    BY <1>1, <1>3, DownPopped
  <2>2. HandleResponse(id) /\ UNCHANGED <<target, gen, built>>
    BY <1>3, <2>1 DEF Read, IsResponse
  <2>3. phase = "mining"
    BY <1>1, <2>1, WiredFacts DEF Ends
  <2>4. Distinct /\ Fresh /\ Handshaken /\ Awaited
    BY WiredFacts
  <2>5. ASSUME NEW i \in DOMAIN down', IsResponse(down'[i])
        PROVE  /\ down'[i].id \in 1..nextID /\ down'[i].id # id
               /\ \A j \in DOMAIN up : up[j].id # down'[i].id
               /\ \A j \in DOMAIN down' : IsResponse(down'[j]) /\ down'[j].id = down'[i].id => j = i
               /\ \A w \in Unsent : down'[i].id # wid[w]
    BY <2>1, <2>4, <2>5 DEF Distinct, Fresh
  <2>6. \A i \in DOMAIN up : up[i].id # id
    BY <2>1, <2>4 DEF Distinct
  <2>7. id \in InFlight /\ InFlight' = InFlight \ {id}
    <3>1. FlightIn(id)
      BY <2>1, <2>3 DEF FlightIn
    <3>2. ASSUME NEW x, FlightIn(x), x # id
          PROVE  FlightIn(x)'
      <4>1. CASE \E i \in DOMAIN up : up[i].method = "submit" /\ up[i].id = x
        BY <1>1, <4>1 DEF FlightIn
      <4>2. CASE \E i \in DOMAIN down : IsResponse(down[i]) /\ down[i].id = x
        BY <1>1, <2>1, <2>3, <3>2, <4>2 DEF FlightIn
      <4> QED BY <3>2, <4>1, <4>2 DEF FlightIn
    <3>3. ASSUME NEW x, FlightIn(x)'
          PROVE  FlightIn(x) /\ x # id
      <4>1. CASE \E i \in DOMAIN up' : up'[i].method = "submit" /\ up'[i].id = x
        BY <1>1, <2>6, <4>1 DEF FlightIn
      <4>2. CASE \E i \in DOMAIN down' : IsResponse(down'[i]) /\ down'[i].id = x
        BY <2>1, <2>3, <2>5, <4>2 DEF FlightIn
      <4> QED BY <3>3, <4>1, <4>2 DEF FlightIn
    <3> HIDE DEF id
    <3> QED BY <3>1, <3>2, <3>3, InFlightIs
  <2> HIDE DEF id
  <2>8. Unsent' = Unsent /\ Registering' = Registering /\ wid' = wid
    BY <1>1 DEF Unsent, Registering
  <2>9. \/ id \in pending /\ pending' = pending \ {id} /\ counted' = counted + 1 /\ lost' = lost
        \/ pending' = pending /\ counted' = counted /\ lost' = lost + 1
    <3>1. CASE id \in pending
      BY <2>2, <3>1 DEF HandleResponse
    <3>2. CASE id \notin pending
      <4>1. \E w \in Workers : wpc[w] = "register" /\ wid[w] = id
        BY <2>4, <2>7, <3>2 DEF Awaited, Registering
      <4> QED BY <2>2, <3>2, <4>1 DEF HandleResponse
    <3> QED BY <3>1, <3>2
  <2>10. Typed'
    <3>1. TypedMain' /\ TypedJobs' /\ TypedWorkers'
      BY <1>1, <2>2, WiredFacts DEF TypedMain, TypedJobs, TypedWorkers
    <3>2. TypedQueues'
      BY <1>1, DownPopped, WiredFacts DEF TypedQueues
    <3>3. counted' \in Nat /\ lost' \in Nat /\ pending' \subseteq pending
      BY <2>9, WiredFacts
    <3>4. TypedShares'
      BY <1>1, <3>3, WiredFacts DEF TypedShares
    <3>5. stopping' \in BOOLEAN
      BY <1>1, WiredFacts
    <3> QED BY <3>1, <3>2, <3>4, <3>5 DEF Typed
  <2>11. Ends'
    BY <1>1, <2>1, WiredFacts DEF Ends
  <2>12. Handshaken'
    BY <1>1, <2>3, <2>4 DEF Handshaken
  <2>13. Distinct'
    BY <1>1, <2>4, <2>5 DEF Distinct
  <2>14. Fresh'
    BY <1>1, <2>4, <2>5, <2>8 DEF Fresh
  <2>15. Awaited'
    BY <2>4, <2>7, <2>8, <2>9 DEF Awaited
  <2>16. SharesAccounted'
    <3>1. Cardinality(InFlight') = Cardinality(InFlight) - 1
      BY <2>7, WiredFacts, FS_RemoveElement
    <3>2. /\ found = counted + lost + Cardinality(Unsent) + Cardinality(InFlight)
          /\ counted \in Nat /\ lost \in Nat /\ Cardinality(Unsent) \in Nat
          /\ Cardinality(InFlight) \in Nat
      BY WiredFacts DEF SharesAccounted
    <3>3. found = counted' + lost' + Cardinality(Unsent) + (Cardinality(InFlight) - 1)
      <4>1. CASE counted' = counted + 1 /\ lost' = lost
        BY <3>2, <4>1
      <4>2. CASE counted' = counted /\ lost' = lost + 1
        BY <3>2, <4>2
      <4> QED BY <2>9, <4>1, <4>2
    <3> QED BY <1>1, <2>8, <3>1, <3>3 DEF SharesAccounted
  <2> QED BY <2>10, <2>11, <2>12, <2>13, <2>14, <2>15, <2>16 DEF Wired
<1> QED BY <1>2, <1>3

-----------------------------------------------------------------------------
\* While no worker runs there is nothing to account for.
LEMMA CalmKeeps ==
    ASSUME Wired, phase \notin {"mining", "unwind"},
           \A w \in Workers : wpc'[w] \notin {"lock", "write", "register"},
           UNCHANGED <<counted, found, lost>>,
           InFlight' = {}, Typed', Ends', Handshaken', Distinct'
    PROVE  Wired'
<1>1. \A w \in Workers : wpc[w] = "off"
  BY WiredFacts DEF Ends
<1>2. Unsent = {} /\ Unsent' = {} /\ InFlight = {}
  BY <1>1, WiredFacts DEF Unsent
<1>3. Fresh' /\ Awaited'
  BY <1>2 DEF Fresh, Awaited
<1>4. SharesAccounted'
  BY <1>2, WiredFacts DEF SharesAccounted
<1> QED BY <1>3, <1>4 DEF Wired

\* A queue of one request.
LEMMA OneRequest ==
    ASSUME NEW method \in {"subscribe", "authorize"}, NEW n \in Nat
    PROVE  LET s == <<[method |-> method, id |-> n + 1]>>
           IN  /\ s \in Seq(Requests) /\ Len(s) = 1 /\ DOMAIN s = {1}
               /\ s[1].method = method /\ s[1].id = n + 1 /\ n + 1 \in 1..(n + 1)
<1> DEFINE request == [method |-> method, id |-> n + 1]
<1>1. n + 1 \in Nat /\ n + 1 \in 1..(n + 1)
  OBVIOUS
<1>2. request \in Requests /\ request.id = n + 1 /\ request.method = method
  BY <1>1 DEF Requests
<1> HIDE DEF request
<1>3. <<request>> \in Seq(Requests) /\ Len(<<request>>) = 1 /\ DOMAIN <<request>> = {1}
      /\ <<request>>[1] = request
  BY <1>2
<1> QED BY <1>1, <1>2, <1>3 DEF request

\* Run dials, or does not get through.
LEMMA DialKeeps ==
    ASSUME Wired, Dial
    PROVE  Wired'
<1> USE DEF jobVars, workerVars
<1>1. /\ phase = "dial"
      /\ UNCHANGED <<issued, down, stopping, extraNonce1, jobVars, reader, writer, workerVars>>
      /\ UNCHANGED <<counted, found, lost, raced>>
  BY DEF Dial, broadcastVars
<1>2. TypedMain /\ TypedShares /\ Ends /\ nextID \in Nat
  BY WiredFacts
<1>3. link # "up" /\ \A w \in Workers : wpc[w] = "off"
  BY <1>1, <1>2 DEF Ends
<1>4. CASE phase' = "wait" /\ UNCHANGED <<session, nextID, link, up, pending, target, handler>>
  <2>1. Typed'
    <3>1. TypedMain' /\ TypedQueues' /\ TypedJobs' /\ TypedWorkers' /\ TypedShares'
      BY <1>1, <1>4, WiredFacts
      DEF TypedMain, TypedQueues, TypedJobs, TypedWorkers, TypedShares
    <3>2. stopping' \in BOOLEAN
      BY <1>1, WiredFacts
    <3> QED BY <3>1, <3>2 DEF Typed
  <2>2. Ends'
    BY <1>1, <1>2, <1>3, <1>4 DEF Ends
  <2> QED BY <1>1, <1>3, <1>4, <2>1, <2>2, QuietKeeps
<1>5. CASE Connect
  <2>1. /\ session < MaxSessions /\ session' = session + 1 /\ nextID' = nextID + 1
        /\ pending' = {} /\ target' = "powLimit" /\ handler' = "read" /\ phase' = "subscribe"
    BY <1>5 DEF Connect
  <2>2. DOMAIN up = {} /\ Len(up) = 0 /\ up \in Seq(Requests) /\ DOMAIN down' = {}
    BY <1>1, <1>3, WiredFacts DEF Ends
  <2>3. /\ up' \in Seq(Requests) /\ Len(up') \in 0..1
        /\ \A i \in DOMAIN up' : i = 1 /\ up'[i].method = "subscribe" /\ up'[i].id \in 1..nextID'
        /\ \/ stopping /\ link' = "closed" /\ up' = up
           \/ ~stopping /\ link' = "up"
    <3>1. CASE stopping
      BY <1>5, <2>2, <3>1 DEF Connect
    <3>2. CASE ~stopping
      <4>1. up' = <<[method |-> "subscribe", id |-> nextID + 1]>> /\ link' = "up"
        BY <1>5, <3>2 DEF Connect
      <4> QED BY <1>2, <2>1, <3>2, <4>1, OneRequest
    <3> QED BY <3>1, <3>2
  <2>4. Typed'
    <3>1. session' \in 0..MaxSessions /\ extraNonce1' \in 0..session' /\ session' # 0
      BY <1>1, <1>2, <2>1, BoundsAssumption DEF TypedMain
    <3>2. TypedMain'
      BY <1>1, <1>2, <2>1, <2>3, <3>1 DEF TypedMain
    <3>3. Len(up') <= UpCap
      BY <2>3, CapsAssumption
    <3>4. TypedQueues' /\ TypedJobs' /\ TypedWorkers'
      BY <1>1, <2>3, <3>3, WiredFacts DEF TypedQueues, TypedJobs, TypedWorkers
    <3>5. TypedShares'
      BY <1>1, <1>2, <2>1 DEF TypedShares
    <3>6. stopping' \in BOOLEAN
      BY <1>1, WiredFacts
    <3> QED BY <3>2, <3>4, <3>5, <3>6 DEF Typed
  <2>5. Ends'
    <3>1. session' # 0
      BY <1>2, <2>1 DEF TypedMain
    <3> QED BY <1>1, <1>2, <1>3, <2>1, <2>3, <3>1 DEF Ends
  <2>6. Handshaken'
    BY <2>1, <2>2, <2>3 DEF Handshaken
  <2>7. Distinct'
    BY <2>2, <2>3 DEF Distinct
  <2>8. InFlight' = {}
    BY <2>1, <2>3, InFlightIs DEF FlightIn
  <2> QED BY <1>1, <1>3, <2>4, <2>5, <2>6, <2>7, <2>8, CalmKeeps
<1> QED BY <1>4, <1>5 DEF Dial

\* The handshake takes a message.
LEMMA HandshakeKeeps ==
    ASSUME Wired, Handshake
    PROVE  Wired'
<1> USE DEF poolVars, broadcastVars
<1>1. /\ phase \in {"subscribe", "authorize"} /\ down # << >>
      /\ UNCHANGED <<poolVars, session, stopping, currentJob, writer, wjob, wgen, wid>>
      /\ UNCHANGED <<pending, counted, found, lost, raced>>
  BY DEF Handshake
<1>2. CASE ~IsResponse(Head(down))
  <2>1. /\ HandleNotification(Head(down)) /\ down' = Tail(down)
        /\ UNCHANGED <<phase, extraNonce1, nextID, link, up, reader, wpc>>
    BY <1>2 DEF Handshake, IsResponse
  <2> QED BY <1>1, <1>2, <2>1, NotificationPopped DEF shareVars, workerVars
<1>3. CASE IsResponse(Head(down)) /\ down' = Tail(down) /\ UNCHANGED <<link, target, gen, built>>
           /\ \/ /\ phase = "subscribe" /\ extraNonce1' = session /\ phase' = "authorize"
                 /\ nextID' = nextID + 1
                 /\ up' = Append(up, [method |-> "authorize", id |-> nextID + 1])
                 /\ UNCHANGED <<reader, wpc>>
              \/ /\ phase = "authorize" /\ phase' = "mining" /\ reader' = "lock"
                 /\ wpc' = [w \in Workers |-> "load"]
                 /\ UNCHANGED <<extraNonce1, nextID, up>>
  <2>1. /\ link = "up" /\ 1 \in DOMAIN down /\ IsResponse(down[1])
        /\ \A i \in DOMAIN down' : i + 1 # 1 /\ i + 1 \in DOMAIN down /\ down'[i] = down[i + 1]
        /\ down' \in Seq(Responses \cup Notifications) /\ Len(down') <= DownCap
    BY <1>1, <1>3, DownPopped
  <2>2. up = << >> /\ \A i \in DOMAIN down' : ~IsResponse(down'[i])
    BY <1>1, <2>1, WiredFacts DEF Handshaken
  <2>3. TypedMain /\ TypedShares /\ TypedWorkers /\ Ends /\ nextID \in Nat
    BY WiredFacts
  <2>4. \A w \in Workers : wpc[w] = "off" /\ wpc'[w] \in {"off", "load"}
    BY <1>1, <1>3, <2>3 DEF Ends
  <2>5. /\ up' \in Seq(Requests) /\ Len(up') \in 0..1
        /\ \A i \in DOMAIN up' : i = 1 /\ up'[i].method = "authorize" /\ up'[i].id \in 1..nextID'
        /\ phase' = "mining" => DOMAIN up' = {}
    <3>1. CASE phase = "subscribe"
      <4>1. up' = <<[method |-> "authorize", id |-> nextID + 1]>> /\ nextID' = nextID + 1
            /\ phase' = "authorize"
        BY <1>3, <2>2, <3>1
      <4> QED BY <2>3, <4>1, OneRequest
    <3>2. CASE phase = "authorize"
      <4>1. up' = << >>
        BY <1>3, <2>2, <3>2
      <4> QED BY <4>1
    <3> QED BY <1>1, <3>1, <3>2
  <2>6. /\ nextID' \in Nat /\ nextID' >= nextID /\ extraNonce1' \in 0..session
        /\ phase' \in {"authorize", "mining"}
    BY <1>3, <2>3 DEF TypedMain
  <2>7. Typed'
    <3>1. TypedMain'
      BY <1>1, <1>3, <2>3, <2>6 DEF TypedMain
    <3>2. Len(up') <= UpCap
      BY <2>5, CapsAssumption
    <3>3. TypedQueues' /\ TypedJobs'
      BY <1>1, <1>3, <2>1, <2>5, <3>2, WiredFacts DEF TypedQueues, TypedJobs
    <3>4. TypedWorkers'
      BY <1>1, <1>3, <2>3 DEF TypedWorkers
    <3>5. TypedShares'
      <4>1. \A n \in 1..nextID : n \in 1..nextID'
        BY <2>3, <2>6
      <4> QED BY <1>1, <2>3, <2>6, <4>1 DEF TypedShares
    <3>6. stopping' \in BOOLEAN
      BY <1>1, WiredFacts
    <3> QED BY <3>1, <3>3, <3>4, <3>5, <3>6 DEF Typed
  <2>8. Ends'
    BY <1>1, <1>3, <2>1, <2>3, <2>4, <2>6 DEF Ends
  <2>9. Handshaken'
    BY <2>2, <2>5, <2>6 DEF Handshaken
  <2>10. Distinct'
    BY <2>2, <2>5 DEF Distinct
  <2>11. InFlight' = {}
    BY <2>2, <2>5, InFlightIs DEF FlightIn
  <2> QED BY <1>1, <2>4, <2>7, <2>8, <2>9, <2>10, <2>11, CalmKeeps
<1>4. CASE /\ IsResponse(Head(down)) /\ phase = "authorize"
           /\ link' = "closed" /\ phase' = "wait" /\ down' = << >> /\ up' = << >>
           /\ UNCHANGED <<extraNonce1, nextID, reader, wpc, target, gen, built>>
  <2>1. link = "up" /\ phase # "mining"
    BY <1>1, WiredFacts
  <2>2. InFlight = {} /\ lost \in Nat
    BY <2>1, WiredFacts
  <2>3. lost' = lost + Cardinality(InFlight)
    BY <1>1, <2>2, FS_EmptySet
  <2>4. stopping' \in BOOLEAN
    BY <1>1, WiredFacts
  <2> QED BY <1>1, <1>4, <2>1, <2>3, <2>4, DropKeeps DEF jobVars, workerVars
<1>5. IsResponse(Head(down)) =>
         \/ /\ down' = Tail(down) /\ UNCHANGED <<link, target, gen, built>>
            /\ \/ /\ phase = "subscribe" /\ extraNonce1' = session /\ phase' = "authorize"
                  /\ nextID' = nextID + 1
                  /\ up' = Append(up, [method |-> "authorize", id |-> nextID + 1])
                  /\ UNCHANGED <<reader, wpc>>
               \/ /\ phase = "authorize" /\ phase' = "mining" /\ reader' = "lock"
                  /\ wpc' = [w \in Workers |-> "load"]
                  /\ UNCHANGED <<extraNonce1, nextID, up>>
         \/ /\ phase = "authorize"
            /\ link' = "closed" /\ phase' = "wait" /\ down' = << >> /\ up' = << >>
            /\ UNCHANGED <<extraNonce1, nextID, reader, wpc, target, gen, built>>
  BY <1>1 DEF Handshake, IsResponse
<1> QED BY <1>2, <1>3, <1>4, <1>5

-----------------------------------------------------------------------------
LEMMA PoolTypedStep == Wired /\ PoolTyped /\ [Next]_vars => PoolTyped'
<1> SUFFICES ASSUME Wired, PoolTyped, [Next]_vars PROVE PoolTyped'
  OBVIOUS
<1> USE DEF PoolTyped
<1>1. issued \in 0..MaxJobs /\ session \in 0..MaxSessions /\ (link = "up" => session # 0)
  BY WiredFacts DEF TypedMain, Ends
<1>2. CASE UNCHANGED poolVars
  BY <1>2 DEF poolVars, sentVars, broadcastVars
<1>3. CASE Dial
  BY <1>1, <1>3 DEF Dial, Connect, sentVars, broadcastVars
<1>4. CASE Answer
  BY <1>4 DEF Answer, sentVars, broadcastVars
<1>5. ASSUME NEW job \in 1..issued, PoolSendsJob(job)
      PROVE  newest' \in 0..issued /\ last' \in 0..newest' /\ (newest' # 0 => last' # 0)
  BY <1>1, <1>5 DEF PoolSendsJob
<1>6. CASE Subscribed
  <2>1. CASE handler = "send"
    <3>1. PoolSendsJob(toSend) /\ toSend \in 1..issued
      BY <1>1, <1>6, <2>1 DEF Subscribed
    <3>2. handler' = "read" /\ toSend' = 0 /\ UNCHANGED broadcastVars
      BY <1>6, <2>1 DEF Subscribed
    <3> QED BY <1>1, <1>5, <3>1, <3>2 DEF broadcastVars
  <2>2. CASE handler # "send"
    BY <1>1, <1>6, <2>2 DEF Subscribed, sentVars, broadcastVars
  <2> QED BY <2>1, <2>2
<1>7. CASE Issue
  BY <1>1, <1>7 DEF Issue, sentVars, UnchangedMiner
<1>8. ASSUME NEW j \in broadcasts, Snapshot(j)
      PROVE  PoolTyped'
  <2>1. PICK job \in j..issued :
           serving' = IF link = "up"
                      THEN serving \cup {[by |-> j, job |-> job, session |-> session]} ELSE serving
    BY <1>8 DEF Snapshot
  <2> DEFINE b == [by |-> j, job |-> job, session |-> session]
  <2>2. link = "up" => b \in Broadcast /\ b.job \in 1..issued
    <3>1. \A k \in 1..issued : k \in 1..MaxJobs
      BY <1>1, BoundsAssumption
    <3>2. j \in 1..MaxJobs /\ job \in 1..MaxJobs /\ job \in 1..issued
      BY <1>1, <3>1
    <3>3. link = "up" => session \in 1..MaxSessions
      BY <1>1
    <3> QED BY <3>2, <3>3 DEF Broadcast
  <2>3. UNCHANGED <<issued, handler, toSend, newest, last>> /\ broadcasts' \subseteq broadcasts
    BY <1>8 DEF Snapshot, sentVars
  <2> HIDE DEF b
  <2>4. serving' \subseteq serving \cup {b} /\ (link # "up" => serving' = serving)
    BY <2>1 DEF b
  <2> QED BY <2>2, <2>3, <2>4
<1>9. ASSUME NEW b \in serving, Deliver(b)
      PROVE  PoolTyped'
  <2>1. UNCHANGED <<issued, broadcasts, handler, toSend>> /\ serving' \subseteq serving
    BY <1>9 DEF Deliver
  <2>2. UNCHANGED sentVars \/ PoolSendsJob(b.job)
    BY <1>9 DEF Deliver
  <2> QED BY <1>5, <2>1, <2>2 DEF sentVars
<1>10. ASSUME NEW w \in Workers, WorkerStep(w)
       PROVE  UNCHANGED poolVars
  BY <1>10 DEF WorkerStep, LoadJob, LoadGeneration, Check, Miss, Hit, LockConn, Write, Register,
               NoShare
<1>11. ASSUME HandshakeFails \/ Cancel \/ Joined \/ Again \/ Handshake
       PROVE  UNCHANGED poolVars
  BY <1>11 DEF HandshakeFails, Cancel, Joined, Again, Handshake
<1>12. ASSUME ReaderStep \/ StoreJob \/ Lose \/ Stop \/ UNCHANGED vars
       PROVE  UNCHANGED poolVars
  BY <1>12 DEF ReaderStep, ReadLock, Read, ReadFails, StoreJob, Lose, Stop, vars
<1> QED
  BY <1>2, <1>3, <1>4, <1>6, <1>7, <1>8, <1>9, <1>10, <1>11, <1>12
  DEF Next, MainStep, PoolStep, BroadcastStep, Finished

LEMMA WiredStep == Wired /\ PoolTyped /\ [Next]_vars => Wired'
<1> SUFFICES ASSUME Wired, PoolTyped, [Next]_vars PROVE Wired'
  OBVIOUS
<1>1. CASE UNCHANGED vars
  <2> USE DEF vars, poolVars, broadcastVars, linkVars, mainVars, jobVars, workerVars, shareVars
  <2>1. Typed'
    <3>1. TypedMain' /\ TypedQueues' /\ TypedJobs' /\ TypedWorkers' /\ TypedShares'
      BY <1>1, WiredFacts DEF TypedMain, TypedQueues, TypedJobs, TypedWorkers, TypedShares
    <3>2. stopping' \in BOOLEAN
      BY <1>1, WiredFacts
    <3> QED BY <3>1, <3>2 DEF Typed
  <2>2. Ends'
    BY <1>1, WiredFacts DEF Ends
  <2> QED BY <1>1, <2>1, <2>2, QuietKeeps
<1>2. ASSUME NEW w \in Workers, WorkerStep(w)
      PROVE  Wired'
  BY <1>2, QuietWorkerKeeps, HitKeeps, WriteKeeps, RegisterKeeps DEF WorkerStep
<1>3. CASE MainStep \/ ReaderStep \/ StoreJob
  BY <1>3, DialKeeps, HandshakeKeeps, ReadKeeps, QuietMainKeeps DEF MainStep, ReaderStep
<1>4. CASE PoolStep \/ Issue \/ BroadcastStep \/ Lose \/ Stop
  BY <1>4, AnswerKeeps, PoolKeeps, LoseKeeps DEF PoolStep
<1> QED BY <1>1, <1>2, <1>3, <1>4 DEF Next, Finished

LEMMA WiredHolds == Spec => [](Wired /\ PoolTyped)
<1>1. Init => PoolTyped
  BY DEF Init, PoolTyped
<1> QED BY <1>1, WiredInit, WiredStep, PoolTypedStep, PTL DEF Spec

\* stratum.go: every share found is counted once as accepted or rejected, on its
\* way, or lost with the connection or to an answer that overtook registerPending,
\* for any number of hash threads, connections and shares and any queues.
THEOREM EveryShareAccounted == Spec => []SharesAccounted
<1>1. Wired => SharesAccounted
  BY DEF Wired
<1> QED BY <1>1, WiredHolds, PTL

\* The queues stay within their bounds, registered submissions are ones that were
\* numbered, and no more shares are counted or lost than were found.
THEOREM CpuTypeCorrect == Spec => []TypeOK
<1>1. Wired /\ PoolTyped => TypeOK
  <2> SUFFICES ASSUME Wired, PoolTyped PROVE TypeOK
    OBVIOUS
  <2>1. /\ found = counted + lost + Cardinality(Unsent) + Cardinality(InFlight)
        /\ counted \in Nat /\ lost \in Nat /\ Cardinality(Unsent) \in Nat
        /\ Cardinality(InFlight) \in Nat
    BY WiredFacts DEF SharesAccounted
  <2>2. counted \in 0..found /\ lost \in 0..found
    BY <2>1
  <2>3. stopping \in BOOLEAN
    BY WiredFacts
  <2> QED
    BY <2>2, <2>3, WiredFacts
    DEF TypeOK, TypedMain, TypedQueues, TypedJobs, TypedWorkers, TypedShares, PoolTyped
<1> QED BY <1>1, WiredHolds, PTL

-----------------------------------------------------------------------------
\* The job at place p of the queue is built with what this connection told: the
\* result of the subscription and the share target come before it.
Told(p) ==
    /\ phase = "subscribe" => \E r \in DOMAIN down : r < p /\ IsResponse(down[r])
    /\ target = "share" \/ \E d \in DOMAIN down : d < p /\ down[d] = SetDifficulty

Subscription == phase # "subscribe" \/ \E i \in DOMAIN down : IsResponse(down[i])
Targeted == target = "share" \/ \E d \in DOMAIN down : down[d] = SetDifficulty
IsLastJob(p) == IsJob(down[p]) /\ \A q \in DOMAIN down : q > p => ~IsJob(down[q])
Latest == [id |-> last, extraNonce1 |-> session, target |-> "share"]

\* The last job the pool sent is the last one in the queue, or the miner has it.
LastIsKept ==
    /\ \A p \in DOMAIN down : IsLastJob(p) => down[p].job = last /\ Told(p)
    /\ (\A p \in DOMAIN down : ~IsJob(down[p]))
          => /\ phase # "subscribe" /\ target = "share"
             /\ IF built = NoJob THEN currentJob = Latest ELSE built = Latest

Settling ==
    link = "up" =>
        /\ phase # "subscribe" => extraNonce1 = session
        /\ Subscription /\ handler # "difficulty" => Targeted
        /\ Subscription /\ handler = "read" /\ last # 0 => LastIsKept

\* The read loop has stored a job before it waits for the next message.
Stored == reader = "recv" => built = NoJob

LEMMA StoredStep == Wired /\ Stored /\ [Next]_vars => Stored'
<1> SUFFICES ASSUME Wired, Stored, [Next]_vars PROVE Stored'
  OBVIOUS
<1> USE DEF linkVars, mainVars, jobVars, workerVars, shareVars
<1>1. CASE UNCHANGED <<reader, built>>
  BY <1>1 DEF Stored
<1>2. CASE Handshake
  <2>1. reader = "off" /\ reader' \in {reader, "lock"}
    <3>1. reader' \in {reader, "lock"} /\ phase \in {"subscribe", "authorize"}
      BY <1>2 DEF Handshake
    <3> QED BY <3>1, WiredFacts DEF Ends
  <2> QED BY <2>1 DEF Stored
<1>3. CASE StoreJob \/ ReadLock \/ Read \/ ReadFails
  BY <1>3 DEF StoreJob, ReadLock, Read, ReadFails, Stored
<1>4. ASSUME NEW w \in Workers, WorkerStep(w)
      PROVE  UNCHANGED <<reader, built>>
  BY <1>4 DEF WorkerStep, LoadJob, LoadGeneration, Check, Miss, Hit, LockConn, Write, Register,
              NoShare
<1>5. ASSUME Dial \/ HandshakeFails \/ Cancel \/ Joined \/ Again
      PROVE  UNCHANGED <<reader, built>>
  BY <1>5 DEF Dial, HandshakeFails, Cancel, Joined, Again
<1>6. ASSUME PoolStep \/ Issue \/ BroadcastStep \/ Lose \/ Stop \/ UNCHANGED vars
      PROVE  UNCHANGED <<reader, built>>
  BY <1>6 DEF PoolStep, Answer, Subscribed, Issue, BroadcastStep, Snapshot, Deliver, Lose, Stop,
              UnchangedMiner, vars
<1> QED
  BY <1>1, <1>2, <1>3, <1>4, <1>5, <1>6 DEF Next, MainStep, ReaderStep, Finished

\* Steps of the others.
LEMMA OthersSettle ==
    ASSUME Settling, UNCHANGED <<link, down, session, phase, target, handler, last>>,
           UNCHANGED <<extraNonce1, built, currentJob>>
    PROVE  Settling'
BY DEF Settling, Subscription, Targeted, LastIsKept, IsLastJob, Told, Latest

LEMMA StoreSettles ==
    ASSUME Settling, StoreJob
    PROVE  Settling'
<1> USE DEF poolVars, sentVars, linkVars, mainVars
<1>1. /\ built # NoJob /\ currentJob' = built /\ built' = NoJob
      /\ UNCHANGED <<link, down, session, phase, target, handler, last, extraNonce1>>
  BY DEF StoreJob
<1>2. Latest' = Latest /\ Subscription' = Subscription /\ Targeted' = Targeted
  BY <1>1 DEF Latest, Subscription, Targeted
<1>3. LastIsKept => LastIsKept'
  BY <1>1, <1>2 DEF LastIsKept, IsLastJob, Told
<1> QED BY <1>1, <1>2, <1>3 DEF Settling

\* A new connection has not been told anything.
LEMMA DialSettles ==
    ASSUME Wired, Dial
    PROVE  Settling'
<1>1. phase = "dial" /\ down' = down /\ DOMAIN down = {} /\ link # "up"
  <2>1. phase = "dial" /\ down' = down
    BY DEF Dial
  <2> QED BY <2>1, WiredFacts DEF Ends
<1>2. link' = "up" => phase' = "subscribe"
  BY <1>1 DEF Dial, Connect
<1>3. phase' = "subscribe" => ~Subscription'
  BY <1>1 DEF Subscription
<1> QED BY <1>2, <1>3 DEF Settling

\* The pool sends a job.
LEMMA NotifySettles ==
    ASSUME Wired, Settling, NEW msg \in Notifications, link = "up", PoolSends(msg),
           IsJob(msg), msg.job = last',
           handler' # "difficulty" => handler # "difficulty",
           UNCHANGED <<link, session, phase, target, extraNonce1, built, currentJob>>
    PROVE  Settling'
<1>1. ~IsResponse(msg) /\ msg \in Responses \cup Notifications /\ msg # SetDifficulty
  BY MessageFacts
<1>2. /\ down' = Append(down, msg) /\ down \in Seq(Responses \cup Notifications)
  BY WiredFacts DEF PoolSends
<1>3. /\ Len(down) \in Nat /\ DOMAIN down = 1..Len(down)
      /\ DOMAIN down' = 1..(Len(down) + 1) /\ down'[Len(down) + 1] = msg
      /\ \A i \in DOMAIN down : i \in DOMAIN down' /\ down'[i] = down[i]
      /\ \A i \in DOMAIN down' : i \in DOMAIN down \/ i = Len(down) + 1
  BY <1>1, <1>2, Pushed
<1>4. /\ Len(down) + 1 \in DOMAIN down'
      /\ \A i \in DOMAIN down : i < Len(down) + 1
  BY <1>3
<1>5. Subscription' => Subscription
  BY <1>1, <1>3 DEF Subscription
<1>6. Targeted => Targeted'
  BY <1>3 DEF Targeted
<1>7. ASSUME Subscription, Targeted
      PROVE  LastIsKept'
  <2>1. ASSUME NEW p \in DOMAIN down', IsLastJob(p)'
        PROVE  p = Len(down) + 1
    BY <1>3, <1>4, <2>1 DEF IsLastJob
  <2>2. ASSUME NEW p, p = Len(down) + 1
        PROVE  Told(p)'
    BY <1>3, <1>4, <1>7, <2>2 DEF Told, Subscription, Targeted
  <2>3. ASSUME NEW p \in DOMAIN down', IsLastJob(p)'
        PROVE  down'[p].job = last' /\ Told(p)'
    BY <1>3, <2>1, <2>2, <2>3
  <2>4. ~\A p \in DOMAIN down' : ~IsJob(down'[p])
    BY <1>3, <1>4
  <2> QED BY <2>3, <2>4 DEF LastIsKept
<1>8. Subscription' /\ handler' # "difficulty" => Subscription /\ Targeted
  BY <1>5 DEF Settling
<1>9. phase' # "subscribe" => extraNonce1' = session'
  BY DEF Settling
<1> QED BY <1>6, <1>7, <1>8, <1>9 DEF Settling

\* What is not a job goes out without changing which job is the last.
LEMMA AppendSettles ==
    ASSUME Wired, LastIsKept, NEW msg \in Responses \cup Notifications, PoolSends(msg),
           ~IsJob(msg),
           UNCHANGED <<session, last, phase, target, built, currentJob>>
    PROVE  LastIsKept'
<1>1. /\ down' = Append(down, msg) /\ down \in Seq(Responses \cup Notifications)
  BY WiredFacts DEF PoolSends
<1>2. /\ Len(down) \in Nat /\ DOMAIN down = 1..Len(down)
      /\ DOMAIN down' = 1..(Len(down) + 1) /\ down'[Len(down) + 1] = msg
      /\ \A i \in DOMAIN down : i \in DOMAIN down' /\ down'[i] = down[i]
      /\ \A i \in DOMAIN down' : i \in DOMAIN down \/ i = Len(down) + 1
  BY <1>1, Pushed
<1>3. ASSUME NEW p \in DOMAIN down', IsLastJob(p)'
      PROVE  p \in DOMAIN down /\ IsLastJob(p)
  BY <1>2, <1>3 DEF IsLastJob
<1>4. ASSUME NEW p \in DOMAIN down, Told(p)
      PROVE  Told(p)'
  BY <1>2, <1>4 DEF Told
<1>5. ASSUME NEW p \in DOMAIN down', IsLastJob(p)'
      PROVE  down'[p].job = last' /\ Told(p)'
  BY <1>2, <1>3, <1>4, <1>5 DEF LastIsKept
<1>6. (\A p \in DOMAIN down' : ~IsJob(down'[p])) => \A p \in DOMAIN down : ~IsJob(down[p])
  BY <1>2
<1>7. Latest' = Latest
  BY DEF Latest
<1> QED BY <1>5, <1>6, <1>7 DEF LastIsKept

\* The pool's handler after the result of a subscription, and its broadcasts.
LEMMA JobSettles ==
    ASSUME Wired, Settling, NEW job \in 1..MaxJobs, link = "up", PoolSendsJob(job),
           handler' # "difficulty" => handler # "difficulty", UnchangedMiner
    PROVE  Settling'
<1> DEFINE msg == [method |-> "notify", job |-> job]
<1>1. msg \in Notifications /\ IsJob(msg) /\ msg.job = job
  BY MadeMessages
<1>2. PoolSends(msg) /\ last' = job
  BY DEF PoolSendsJob
<1>3. UNCHANGED <<link, session, phase, target, extraNonce1, built, currentJob>>
  BY DEF UnchangedMiner, mainVars, jobVars
<1> HIDE DEF msg
<1> QED BY <1>1, <1>2, <1>3, NotifySettles

LEMMA PoolSettles ==
    ASSUME Wired, PoolTyped, Settling, Subscribed \/ Issue \/ BroadcastStep
    PROVE  Settling'
<1> USE DEF mainVars, jobVars, sentVars
<1>1. UnchangedMiner /\ UNCHANGED <<link, session, phase, target, extraNonce1, built, currentJob>>
  BY DEF Subscribed, Issue, BroadcastStep, Snapshot, Deliver, UnchangedMiner
<1>2. CASE UNCHANGED <<handler, down, last>>
  BY <1>1, <1>2, OthersSettle
<1>3. CASE link # "up"
  BY <1>1, <1>3 DEF Settling
<1>4. CASE link = "up" /\ Subscribed
  <2>1. CASE handler = "difficulty"
    <3>1. PoolSends(SetDifficulty) /\ handler' = "work" /\ UNCHANGED last
      BY <1>4, <2>1 DEF Subscribed, SetDifficulty
    <3>2. down \in Seq(Responses \cup Notifications) /\ down' = Append(down, SetDifficulty)
      BY <3>1, WiredFacts DEF PoolSends
    <3>3. SetDifficulty \in Responses \cup Notifications
      BY MessageFacts
    <3>4. /\ Len(down) + 1 \in DOMAIN down' /\ down'[Len(down) + 1] = SetDifficulty
      <4>1. /\ DOMAIN down' = 1..(Len(down) + 1) /\ Len(down) \in Nat
            /\ down'[Len(down) + 1] = SetDifficulty
        BY <3>2, <3>3, Pushed
      <4> QED BY <4>1
    <3>5. Targeted'
      BY <3>4 DEF Targeted
    <3> QED BY <1>1, <3>1, <3>5 DEF Settling
  <2>2. CASE handler = "work"
    <3>1. /\ UNCHANGED <<down, last>>
          /\ handler' = "send" \/ (handler' = "read" /\ issued = 0)
      BY <1>4, <2>2 DEF Subscribed
    <3>2. issued = 0 => last' = 0
      BY <3>1 DEF PoolTyped
    <3>3. Subscription' = Subscription /\ Targeted' = Targeted
      BY <1>1, <3>1 DEF Subscription, Targeted
    <3> QED BY <1>1, <2>2, <3>1, <3>2, <3>3 DEF Settling
  <2>3. CASE handler = "send"
    <3>1. PoolSendsJob(toSend) /\ toSend \in 1..MaxJobs
      BY <1>4, <2>3, WiredFacts, BoundsAssumption DEF Subscribed, PoolTyped, TypedMain
    <3> QED BY <1>1, <1>4, <2>3, <3>1, JobSettles
  <2> QED BY <1>4, <2>1, <2>2, <2>3 DEF Subscribed
<1>5. ASSUME link = "up", NEW b \in serving, Deliver(b), ~UNCHANGED <<handler, down, last>>
      PROVE  Settling'
  <2>1. PoolSendsJob(b.job) /\ handler' = handler /\ b.job \in 1..MaxJobs
    BY <1>5 DEF Deliver, PoolTyped, Broadcast
  <2> QED BY <1>1, <1>5, <2>1, JobSettles
<1>6. Issue \/ (\E j \in broadcasts : Snapshot(j)) => UNCHANGED <<handler, down, last>>
  BY DEF Issue, Snapshot
<1> QED BY <1>2, <1>3, <1>4, <1>5, <1>6 DEF BroadcastStep

\* A connection's first answer is to its subscription; then the handler owes the
\* difficulty.
LEMMA AnswerSettles ==
    ASSUME Wired, Settling, Answer
    PROVE  Settling'
<1> USE DEF mainVars, jobVars
<1>1. /\ up # << >> /\ handler = "read"
      /\ UNCHANGED <<last, link, session, phase, target, extraNonce1, built, currentJob>>
      /\ handler' = IF Head(up).method = "subscribe" THEN "difficulty" ELSE "read"
  BY DEF Answer, sentVars
<1>2. /\ 1 \in DOMAIN up /\ Head(up) = up[1] /\ Head(up).id \in Nat /\ link = "up"
      /\ Head(up).method = IF phase = "mining" THEN "submit" ELSE phase
  <2>1. up \in Seq(Requests) /\ link = "up" /\ Handshaken
    BY <1>1, WiredFacts
  <2>2. 1 \in DOMAIN up /\ Head(up) = up[1] /\ Head(up) \in Requests
    BY <1>1, <2>1, Popped
  <2> QED BY <2>1, <2>2 DEF Handshaken, Requests
<1>3. CASE phase = "subscribe"
  BY <1>1, <1>2, <1>3 DEF Settling
<1>4. CASE phase # "subscribe"
  <2>1. handler' = "read"
    BY <1>1, <1>2, <1>4
  <2>2. PICK ok \in BOOLEAN : PoolSends([id |-> Head(up).id, ok |-> ok])
    BY DEF Answer
  <2> DEFINE msg == [id |-> Head(up).id, ok |-> ok]
  <2>3. msg \in Responses
    BY <1>2, MadeMessages
  <2> HIDE DEF msg
  <2>4. PoolSends(msg) /\ msg \in Responses \cup Notifications /\ ~IsJob(msg)
    BY <2>2, <2>3, MessageFacts DEF msg
  <2>5. Targeted => Targeted'
    <3>1. down' = Append(down, msg) /\ down \in Seq(Responses \cup Notifications)
      BY <2>4, WiredFacts DEF PoolSends
    <3>2. \A i \in DOMAIN down : i \in DOMAIN down' /\ down'[i] = down[i]
      BY <2>4, <3>1, Pushed
    <3> QED BY <1>1, <3>2 DEF Targeted
  <2>6. LastIsKept => LastIsKept'
    BY <1>1, <2>4, AppendSettles
  <2>7. Subscription
    BY <1>4 DEF Subscription
  <2> QED BY <1>1, <1>2, <2>1, <2>5, <2>6, <2>7 DEF Settling
<1> QED BY <1>3, <1>4

\* The miner takes a message: how the queue behind it looks.
LEMMA TakenFacts ==
    ASSUME Wired, Settling, down # << >>, down' = Tail(down),
           UNCHANGED <<last, session>>,
           IsResponse(Head(down)) => phase' # "subscribe",
           Head(down) = SetDifficulty => target' = "share",
           phase # "subscribe" => phase' # "subscribe",
           target = "share" => target' = "share"
    PROVE  /\ Targeted => Targeted'
           /\ \A p \in DOMAIN down' :
                 IsLastJob(p)' => down'[p].job = down[p + 1].job /\ p + 1 \in DOMAIN down
                                  /\ IsLastJob(p + 1) /\ (Told(p + 1) => Told(p)')
           /\ \A p \in DOMAIN down' : Told(p + 1) => Told(p)'
<1>1. /\ 1 \in DOMAIN down /\ Head(down) = down[1]
      /\ DOMAIN down = 1..Len(down) /\ DOMAIN down' = 1..(Len(down) - 1) /\ Len(down) \in Nat
      /\ \A i \in DOMAIN down' :
            i \in Nat /\ i + 1 # 1 /\ i + 1 \in DOMAIN down /\ down'[i] = down[i + 1]
      /\ \A i \in DOMAIN down : i = 1 \/ (i - 1 \in DOMAIN down' /\ down'[i - 1] = down[i])
  BY DownPopped
<1>2. Targeted => Targeted'
  BY <1>1 DEF Targeted
<1>3. ASSUME NEW p \in DOMAIN down', IsLastJob(p)'
      PROVE  /\ down'[p].job = down[p + 1].job /\ p + 1 \in DOMAIN down
             /\ IsLastJob(p + 1)
  <2>1. p \in Nat /\ p + 1 \in DOMAIN down /\ down'[p] = down[p + 1]
    BY <1>1
  <2>2. ASSUME NEW q \in DOMAIN down, q > p + 1
        PROVE  ~IsJob(down[q])
    <3>1. q # 1 /\ q - 1 > p
      BY <1>1, <2>1, <2>2
    <3>2. q - 1 \in DOMAIN down' /\ down'[q - 1] = down[q]
      BY <1>1, <3>1
    <3> QED BY <1>3, <3>1, <3>2 DEF IsLastJob
  <2> QED BY <1>3, <2>1, <2>2 DEF IsLastJob
<1>4. ASSUME NEW p \in DOMAIN down', Told(p + 1)
      PROVE  Told(p)'
  <2>1. p \in Nat
    BY <1>1
  <2>2. ASSUME NEW r \in DOMAIN down, r < p + 1, r # 1
        PROVE  r - 1 \in DOMAIN down' /\ r - 1 < p /\ down'[r - 1] = down[r]
    BY <1>1, <2>1, <2>2
  <2>3. phase' = "subscribe" => \E r \in DOMAIN down' : r < p /\ IsResponse(down'[r])
    BY <1>1, <1>4, <2>2 DEF Told
  <2>4. target' = "share" \/ \E d \in DOMAIN down' : d < p /\ down'[d] = SetDifficulty
    BY <1>1, <1>4, <2>2 DEF Told
  <2> QED BY <2>3, <2>4 DEF Told
<1> QED BY <1>2, <1>3, <1>4

\* The read loop or the handshake takes a message: what it says of this connection
\* was told before the last job, and that job is built with it.
LEMMA TakeSettles ==
    ASSUME Wired, Settling, built = NoJob, down # << >>, down' = Tail(down),
           UNCHANGED <<link, session, handler, last, currentJob>>,
           \/ IsResponse(Head(down)) /\ UNCHANGED <<target, built>> /\ phase' # "subscribe"
           \/ ~IsResponse(Head(down)) /\ HandleNotification(Head(down)) /\ phase' = phase
              /\ extraNonce1' = extraNonce1,
           phase # "subscribe" => phase' # "subscribe",
           phase' # "subscribe" => extraNonce1' = session
    PROVE  Settling'
<1>1. /\ 1 \in DOMAIN down /\ Head(down) = down[1] /\ link = "up"
      /\ down[1] \in Responses \cup Notifications
      /\ \A i \in DOMAIN down' : i + 1 \in DOMAIN down /\ down'[i] = down[i + 1]
      /\ \A i \in DOMAIN down : i = 1 \/ (i - 1 \in DOMAIN down' /\ down'[i - 1] = down[i])
  BY DownPopped
<1>2. Head(down) = SetDifficulty => ~IsResponse(Head(down)) /\ ~IsJob(Head(down))
  BY MessageFacts
<1>3. /\ IsResponse(Head(down)) => phase' # "subscribe"
      /\ Head(down) = SetDifficulty => target' = "share"
      /\ target = "share" => target' = "share"
  BY <1>2 DEF HandleNotification, SetDifficulty
<1>4. /\ Targeted => Targeted'
      /\ \A p \in DOMAIN down' :
            IsLastJob(p)' => down'[p].job = down[p + 1].job /\ p + 1 \in DOMAIN down
                             /\ IsLastJob(p + 1) /\ (Told(p + 1) => Told(p)')
  BY <1>3, TakenFacts
<1>5. Subscription' => Subscription
  BY <1>1 DEF Subscription
<1>6. ASSUME LastIsKept, last # 0
      PROVE  LastIsKept'
  <2>1. ASSUME NEW p \in DOMAIN down', IsLastJob(p)'
        PROVE  down'[p].job = last' /\ Told(p)'
    <3>1. down'[p].job = down[p + 1].job /\ p + 1 \in DOMAIN down
          /\ IsLastJob(p + 1) /\ (Told(p + 1) => Told(p)')
      BY <1>4, <2>1
    <3> QED BY <1>6, <3>1 DEF LastIsKept
  <2>2. ASSUME \A p \in DOMAIN down' : ~IsJob(down'[p])
        PROVE  /\ phase' # "subscribe" /\ target' = "share"
               /\ built' = NoJob => currentJob' = Latest'
               /\ built' # NoJob => built' = Latest'
    <3>1. CASE IsJob(down[1])
      <4>1. IsLastJob(1)
        <5>1. \A q \in DOMAIN down : q > 1 => q # 1
          BY WiredFacts
        <5>2. \A q \in DOMAIN down : q > 1 => ~IsJob(down[q])
          BY <1>1, <2>2, <5>1
        <5> QED BY <3>1, <5>2 DEF IsLastJob
      <4>2. down[1].job = last /\ Told(1)
        BY <1>1, <1>6, <4>1 DEF LastIsKept
      <4>3. \A i \in DOMAIN down : ~(i < 1)
        BY WiredFacts
      <4>4. phase # "subscribe" /\ target = "share"
        BY <4>2, <4>3 DEF Told
      <4>5. ~IsResponse(down[1]) /\ down[1] # SetDifficulty
        BY <1>1, <3>1, MessageFacts
      <4>6. /\ HandleNotification(down[1]) /\ phase' = phase /\ extraNonce1' = extraNonce1
            /\ extraNonce1 = session /\ session # 0
        BY <1>1, <4>4, <4>5, WiredFacts DEF Ends, Settling
      <4>7. target' = target /\ HandleNotify(last)
        BY <3>1, <4>2, <4>5, <4>6 DEF HandleNotification, IsJob, SetDifficulty
      <4>8. built' = Latest /\ Latest' = Latest
        BY <4>4, <4>6, <4>7 DEF HandleNotify, Latest
      <4>9. Latest # NoJob
        BY <1>6 DEF Latest, NoJob
      <4> QED BY <4>4, <4>6, <4>7, <4>8, <4>9
    <3>2. CASE ~IsJob(down[1])
      <4>1. \A p \in DOMAIN down : ~IsJob(down[p])
        BY <1>1, <2>2, <3>2
      <4>2. phase # "subscribe" /\ target = "share" /\ currentJob = Latest
        BY <1>6, <4>1 DEF LastIsKept
      <4>3. built' = built
        BY <1>1, <3>2 DEF HandleNotification, IsJob
      <4>4. Latest' = Latest
        BY DEF Latest
      <4> QED BY <1>3, <4>2, <4>3, <4>4
    <3> QED BY <3>1, <3>2
  <2> QED BY <2>1, <2>2 DEF LastIsKept
<1> QED BY <1>1, <1>4, <1>5, <1>6 DEF Settling

\* The reader and the handshake, and the steps that leave the connection alone.
LEMMA ReadSettles ==
    ASSUME Wired, Settling, Stored, Read
    PROVE  Settling'
<1>1. /\ down # << >> /\ down' = Tail(down) /\ reader = "recv" /\ built = NoJob
      /\ UNCHANGED <<link, session, handler, last, currentJob, phase, extraNonce1>>
  BY DEF Read, Stored, poolVars, sentVars
<1>2. \/ IsResponse(Head(down)) /\ UNCHANGED <<target, built>>
      \/ ~IsResponse(Head(down)) /\ HandleNotification(Head(down))
  BY DEF Read, IsResponse
<1>3. link = "up" /\ phase \in {"mining", "unwind"}
  BY <1>1, DownPopped, WiredFacts DEF Ends
<1> QED BY <1>1, <1>2, <1>3, TakeSettles DEF Settling

LEMMA HandshakeSettles ==
    ASSUME Wired, Settling, Handshake
    PROVE  Settling'
<1>1. /\ phase \in {"subscribe", "authorize"} /\ down # << >> /\ built = NoJob
      /\ UNCHANGED <<session, handler, last, currentJob>>
  BY DEF Handshake, poolVars, sentVars
<1>2. link = "up"
  BY <1>1, WiredFacts
<1>3. CASE ~IsResponse(Head(down))
  <2>1. /\ HandleNotification(Head(down)) /\ down' = Tail(down)
        /\ UNCHANGED <<phase, extraNonce1, link>>
    BY <1>3 DEF Handshake, IsResponse
  <2> QED BY <1>1, <1>2, <1>3, <2>1, TakeSettles DEF Settling
<1>4. CASE IsResponse(Head(down))
  <2>1. \/ link' = "closed"
        \/ /\ down' = Tail(down) /\ UNCHANGED <<link, target, built>>
           /\ \/ phase = "subscribe" /\ extraNonce1' = session /\ phase' = "authorize"
              \/ phase = "authorize" /\ phase' = "mining" /\ extraNonce1' = extraNonce1
    BY <1>1, <1>4 DEF Handshake, IsResponse
  <2>2. ASSUME down' = Tail(down) /\ UNCHANGED <<link, target, built>>,
               \/ phase = "subscribe" /\ extraNonce1' = session /\ phase' = "authorize"
               \/ phase = "authorize" /\ phase' = "mining" /\ extraNonce1' = extraNonce1
        PROVE  Settling'
    BY <1>1, <1>2, <1>4, <2>2, TakeSettles DEF Settling
  <2> QED BY <2>1, <2>2 DEF Settling
<1> QED BY <1>3, <1>4

LEMMA ClosedSettles ==
    ASSUME Settling, link' # "up" \/ UNCHANGED <<link, down, session, phase, target, handler,
                                                last, extraNonce1, built, currentJob>>
    PROVE  Settling'
BY OthersSettle DEF Settling

LEMMA SettlingStep == Wired /\ PoolTyped /\ Settling /\ Stored /\ [Next]_vars => Settling'
<1> SUFFICES ASSUME Wired, PoolTyped, Settling, Stored, [Next]_vars PROVE Settling'
  OBVIOUS
<1> USE DEF poolVars, sentVars, linkVars, mainVars, jobVars, workerVars, shareVars
<1>1. CASE UNCHANGED vars
  BY <1>1, ClosedSettles DEF vars
<1>2. ASSUME NEW w \in Workers, WorkerStep(w)
      PROVE  Settling'
  <2>1. UNCHANGED <<link, down, session, phase, target, handler, last>>
        /\ UNCHANGED <<extraNonce1, built, currentJob>>
    BY <1>2 DEF WorkerStep, LoadJob, LoadGeneration, Check, Miss, Hit, LockConn, Write, Register,
                NoShare
  <2> QED BY <2>1, OthersSettle
<1>3. CASE HandshakeFails \/ Cancel \/ Joined \/ Again
  <2>1. CASE link # "up"
    BY <1>3, <2>1 DEF HandshakeFails, Cancel, Joined, Again, Settling
  <2>2. CASE link = "up"
    <3>1. /\ Cancel
      BY <1>3, <2>2, WiredFacts DEF Ends, HandshakeFails, Joined, Again
    <3>2. FALSE
      BY <2>2, <3>1, WiredFacts DEF Ends, Cancel
    <3> QED BY <3>2
  <2> QED BY <2>1, <2>2
<1>4. CASE ReadLock \/ ReadFails
  <2>1. UNCHANGED <<link, down, session, phase, target, handler, last>>
        /\ UNCHANGED <<extraNonce1, built, currentJob>>
    BY <1>4 DEF ReadLock, ReadFails
  <2> QED BY <2>1, OthersSettle
<1>5. CASE Dial \/ Handshake \/ Read \/ StoreJob
  BY <1>5, DialSettles, HandshakeSettles, ReadSettles, StoreSettles
<1>6. CASE Answer \/ Subscribed \/ Issue \/ BroadcastStep
  BY <1>6, AnswerSettles, PoolSettles
<1>7. CASE Lose \/ Stop
  <2>1. link' # "up"
    BY <1>7 DEF Lose, Stop, Drop
  <2> QED BY <2>1, ClosedSettles
<1> QED
  BY <1>1, <1>2, <1>3, <1>4, <1>5, <1>6, <1>7
  DEF Next, MainStep, ReaderStep, PoolStep, Finished

-----------------------------------------------------------------------------
\* The pool's newest job was sent to the connection, or a goroutine of the pool is
\* going to send it.
OnItsWay ==
    \/ ~Subscription \/ handler \in {"difficulty", "work"}
    \/ handler = "send" /\ toSend = issued
    \/ newest = issued \/ issued \in broadcasts
    \/ \E b \in serving : b.job = issued /\ b.session = session

NewestIsSent == link = "up" /\ issued # 0 => OnItsWay

LEMMA NewestIsSentStep == Wired /\ PoolTyped /\ NewestIsSent /\ [Next]_vars => NewestIsSent'
<1> SUFFICES ASSUME Wired, PoolTyped, NewestIsSent, [Next]_vars, link' = "up", issued' # 0
             PROVE  OnItsWay'
  BY DEF NewestIsSent
<1> USE DEF linkVars, mainVars, sentVars, broadcastVars, UnchangedMiner
<1>1. CASE UNCHANGED <<link, poolVars, session>> /\ (Subscription' => Subscription)
  BY <1>1 DEF poolVars, NewestIsSent, OnItsWay
<1>2. ASSUME UNCHANGED <<phase, down>> PROVE Subscription' = Subscription
  BY <1>2 DEF Subscription
<1>3. CASE Dial
  <2>1. phase' = "subscribe" /\ DOMAIN down' = {}
    <3>1. link # "up" /\ down' = down
      BY <1>3, WiredFacts DEF Dial, Ends
    <3> QED BY <1>3, <3>1, WiredFacts DEF Dial, Connect, Ends
  <2> QED BY <2>1 DEF OnItsWay, Subscription
<1>4. CASE Handshake \/ Read
  <2>1. UNCHANGED <<poolVars, session>> /\ link = "up" /\ down # << >>
    BY <1>4, WiredFacts DEF Handshake, Read
  <2>2. Subscription' => Subscription
    <3>1. phase = "subscribe" /\ phase' # "subscribe" => IsResponse(Head(down))
      BY <1>4, <2>1 DEF Handshake, Read, IsResponse
    <3>2. 1 \in DOMAIN down /\ Head(down) = down[1]
      BY <2>1, WiredFacts, Popped
    <3>3. phase' = phase => (Subscription' => Subscription)
      <4>1. CASE down' = Tail(down)
        BY <2>1, <4>1, DownPopped DEF Subscription
      <4>2. CASE down' # Tail(down)
        BY <1>4, <4>2 DEF Handshake, Read
      <4> QED BY <4>1, <4>2
    <3> QED BY <3>1, <3>2, <3>3 DEF Subscription
  <2> QED BY <1>1, <2>1, <2>2
<1>5. CASE Answer
  <2>1. UNCHANGED <<phase, link, toSend, issued, broadcasts, serving, newest, session>>
        /\ handler = "read"
        /\ handler' = IF Head(up).method = "subscribe" THEN "difficulty" ELSE "read"
    BY <1>5 DEF Answer
  <2>2. Head(up).method = phase \/ phase = "mining"
    <3>1. up # << >> /\ up \in Seq(Requests) /\ Handshaken
      BY <1>5, WiredFacts DEF Answer
    <3>2. 1 \in DOMAIN up /\ Head(up) = up[1]
      BY <3>1, Popped
    <3> QED BY <3>1, <3>2 DEF Handshaken
  <2>3. CASE phase = "subscribe"
    BY <2>1, <2>2, <2>3 DEF OnItsWay
  <2>4. CASE phase # "subscribe"
    BY <2>1, <2>4 DEF NewestIsSent, OnItsWay, Subscription
  <2> QED BY <2>3, <2>4
<1>6. ASSUME NEW job \in 1..issued, PoolSendsJob(job)
      PROVE  /\ newest = issued => newest' = issued
             /\ job = issued => newest' = issued
  <2>1. issued \in Nat /\ newest \in 0..issued /\ newest' = IF job > newest THEN job ELSE newest
    BY <1>6, WiredFacts DEF PoolSendsJob, PoolTyped, TypedMain
  <2> QED BY <2>1
<1>7. ASSUME NEW job \in 1..issued, PoolSendsJob(job), UNCHANGED phase
      PROVE  Subscription' => Subscription
  <2> DEFINE msg == [method |-> "notify", job |-> job]
  <2>1. job \in 1..MaxJobs
    BY <1>7, WiredFacts, BoundsAssumption DEF TypedMain
  <2>2. msg \in Notifications /\ ~IsResponse(msg)
    BY <2>1, MadeMessages, MessageFacts
  <2>3. down' = Append(down, msg) /\ down \in Seq(Responses \cup Notifications)
    BY <1>7, WiredFacts DEF PoolSendsJob, PoolSends
  <2> HIDE DEF msg
  <2>4. \A i \in DOMAIN down' : IsResponse(down'[i]) => i \in DOMAIN down /\ down'[i] = down[i]
    BY <2>2, <2>3, Pushed
  <2> QED BY <1>7, <2>4 DEF Subscription
<1>8. CASE Subscribed
  <2>1. UNCHANGED <<link, phase, session, issued, broadcasts, serving>>
    BY <1>8 DEF Subscribed
  <2>2. CASE handler = "difficulty"
    BY <1>8, <2>2 DEF Subscribed, OnItsWay
  <2>3. CASE handler = "work"
    BY <1>8, <2>1, <2>3 DEF Subscribed, OnItsWay
  <2>4. CASE handler = "send"
    <3>1. PoolSendsJob(toSend) /\ toSend \in 1..issued
      BY <1>8, <2>4, WiredFacts DEF Subscribed, PoolTyped, TypedMain
    <3> QED BY <1>6, <1>7, <2>1, <2>4, <3>1 DEF NewestIsSent, OnItsWay
  <2> QED BY <1>8, <2>2, <2>3, <2>4 DEF Subscribed
<1>9. CASE Issue
  BY <1>9 DEF Issue, OnItsWay
<1>10. ASSUME NEW j \in broadcasts, Snapshot(j)
       PROVE  OnItsWay'
  <2>1. UNCHANGED <<link, phase, session, issued, handler, toSend, newest, down>>
    BY <1>10 DEF Snapshot
  <2>2. serving \subseteq serving' /\ broadcasts' = broadcasts \ {j}
    BY <1>10 DEF Snapshot
  <2>3. CASE j = issued
    <3>1. PICK job \in j..issued :
             serving' = serving \cup {[by |-> j, job |-> job, session |-> session]}
      BY <1>10, <2>1 DEF Snapshot
    <3>2. job = issued
      BY <2>3, WiredFacts DEF TypedMain
    <3> DEFINE b == [by |-> j, job |-> job, session |-> session]
    <3>3. b \in serving' /\ b.job = issued /\ b.session = session
      BY <3>1, <3>2
    <3> QED BY <2>1, <3>3 DEF OnItsWay
  <2>4. CASE j # issued
    BY <2>1, <2>2, <2>4, <1>2 DEF NewestIsSent, OnItsWay
  <2> QED BY <2>3, <2>4
<1>11. ASSUME NEW b \in serving, Deliver(b)
       PROVE  OnItsWay'
  <2>1. UNCHANGED <<link, phase, session, issued, handler, toSend, broadcasts>>
        /\ serving' = serving \ {b}
    BY <1>11 DEF Deliver
  <2>2. CASE b.session = session
    <3>1. PoolSendsJob(b.job) /\ b.job \in 1..issued
      BY <1>11, <2>1, <2>2 DEF Deliver, PoolTyped
    <3> QED BY <1>6, <1>7, <2>1, <3>1 DEF NewestIsSent, OnItsWay
  <2>3. CASE b.session # session
    BY <1>2, <1>11, <2>1, <2>3 DEF Deliver, NewestIsSent, OnItsWay
  <2> QED BY <2>2, <2>3
<1>12. ASSUME NEW w \in Workers, WorkerStep(w)
       PROVE  UNCHANGED <<link, poolVars, session, phase, down>>
  BY <1>12 DEF WorkerStep, LoadJob, LoadGeneration, Check, Miss, Hit, LockConn, Write, Register,
               NoShare
<1>13. ASSUME HandshakeFails \/ Cancel \/ Joined \/ Again \/ ReadLock \/ ReadFails \/ StoreJob
       PROVE  UNCHANGED <<link, poolVars, session, down>>
              /\ (phase = "subscribe" => phase' = "subscribe" \/ link # "up")
  BY <1>13, WiredFacts DEF HandshakeFails, Cancel, Joined, Again, ReadLock, ReadFails, StoreJob, Ends
<1>14. ~(Lose \/ Stop) \/ UNCHANGED <<link, poolVars, session, phase, down>>
  BY DEF Lose, Stop, Drop
<1>15. UNCHANGED vars => UNCHANGED <<link, poolVars, session, phase, down>>
  BY DEF vars
<1> QED
  BY <1>1, <1>2, <1>3, <1>4, <1>5, <1>8, <1>9, <1>10, <1>11, <1>12, <1>13, <1>14, <1>15
  DEF Next, MainStep, ReaderStep, PoolStep, BroadcastStep, Finished, Subscription

\* server.go, client.go and stratum.go: whenever the pool has nothing under way and the
\* miner has read everything, the connection was sent the pool's newest job and the
\* workers are given the last job it was sent, with this connection's extraNonce1
\* and share target, in every order of broadcasts, the subscription's own job and
\* reconnections.
THEOREM MinerSettlesOnLastSent == Spec => []SettledJob
<1>1. Init => Settling /\ Stored /\ NewestIsSent
  BY DEF Init, Settling, Stored, NewestIsSent
<1>2. ASSUME Wired, PoolTyped, Settling, NewestIsSent, link = "up", phase = "mining", handler = "read",
             broadcasts = {}, serving = {}, down = << >>, built = NoJob, issued # 0
      PROVE  /\ newest = issued
             /\ currentJob = [id |-> last, extraNonce1 |-> session, target |-> "share"]
  <2>1. Subscription /\ DOMAIN down = {}
    BY <1>2 DEF Subscription
  <2>2. newest = issued
    BY <1>2, <2>1 DEF NewestIsSent, OnItsWay
  <2>3. last # 0
    BY <1>2, <2>2 DEF PoolTyped
  <2> QED BY <1>2, <2>1, <2>2, <2>3 DEF Settling, LastIsKept, Latest
<1>3. Wired /\ PoolTyped /\ Settling /\ NewestIsSent => SettledJob
  BY <1>2 DEF SettledJob
<1> QED BY <1>1, <1>3, WiredHolds, SettlingStep, StoredStep, NewestIsSentStep, PTL DEF Spec

-----------------------------------------------------------------------------
\* What the workers are given.  A job of this connection's, or none:
Own(job) == job = NoJob \/ (job.extraNonce1 = session /\ job.target = "share")
Held == IF built = NoJob THEN currentJob ELSE built

\* a pool without work has told the miner of none.
Idle ==
    issued = 0 => /\ currentJob = NoJob /\ built = NoJob
                  /\ \A p \in DOMAIN down : ~IsJob(down[p])

\* When the subscription's handler is through, a job built with what it told comes
\* before the answer to authorize, or the miner holds no other and gets no other;
Prepared ==
    \/ \E p \in DOMAIN down :
          /\ IsJob(down[p]) /\ Told(p)
          /\ phase = "authorize" => \A r \in DOMAIN down : IsResponse(down[r]) => p < r
    \/ Own(Held) /\ \A p \in DOMAIN down : IsJob(down[p]) => Told(p)

\* the answer to authorize comes after that.
AnsweredLast ==
    \A r \in DOMAIN down : IsResponse(down[r]) =>
        handler = "read" /\ (target = "share" \/ \E d \in DOMAIN down : d < r /\ down[d] = SetDifficulty)

Shaking ==
    link = "up" /\ phase \in {"subscribe", "authorize"} =>
        /\ Subscription /\ handler = "read" => Prepared
        /\ phase = "authorize" => AnsweredLast

Mining ==
    phase \in {"mining", "unwind"} =>
        /\ target = "share" /\ extraNonce1 = session /\ Own(currentJob) /\ Own(built)
        /\ \A w \in Workers : wpc[w] \notin {"off", "load"} => wjob[w] # NoJob /\ Own(wjob[w])

\* The pool sends a job: it is one it has set, and the last in the queue.
LEMMA JobAppended ==
    ASSUME Wired, NEW job \in 1..issued, PoolSendsJob(job)
    PROVE  /\ issued # 0 /\ Len(down) + 1 \in DOMAIN down'
           /\ IsJob(down'[Len(down) + 1])
           /\ \A i \in DOMAIN down : i < Len(down) + 1 /\ i \in DOMAIN down' /\ down'[i] = down[i]
           /\ \A i \in DOMAIN down' : i \in DOMAIN down \/ i = Len(down) + 1
           /\ \A i \in DOMAIN down' : IsResponse(down'[i]) => i \in DOMAIN down
<1> DEFINE msg == [method |-> "notify", job |-> job]
<1>1. job \in 1..MaxJobs /\ issued # 0
  BY WiredFacts, BoundsAssumption DEF TypedMain
<1>2. msg \in Notifications /\ IsJob(msg) /\ ~IsResponse(msg)
  BY <1>1, MadeMessages, MessageFacts
<1>3. down' = Append(down, msg) /\ down \in Seq(Responses \cup Notifications)
  BY WiredFacts DEF PoolSendsJob, PoolSends
<1> HIDE DEF msg
<1>4. /\ Len(down) \in Nat /\ DOMAIN down = 1..Len(down)
      /\ DOMAIN down' = 1..(Len(down) + 1) /\ down'[Len(down) + 1] = msg
      /\ \A i \in DOMAIN down : i \in DOMAIN down' /\ down'[i] = down[i]
      /\ \A i \in DOMAIN down' : i \in DOMAIN down \/ i = Len(down) + 1
  BY <1>2, <1>3, Pushed
<1> QED BY <1>1, <1>2, <1>4

\* Anything else leaves the jobs in the queue as they are.
LEMMA OtherAppended ==
    ASSUME Wired, NEW msg \in Responses \cup Notifications, PoolSends(msg), ~IsJob(msg)
    PROVE  /\ Len(down) + 1 \in DOMAIN down' /\ down'[Len(down) + 1] = msg
           /\ \A i \in DOMAIN down : i < Len(down) + 1 /\ i \in DOMAIN down' /\ down'[i] = down[i]
           /\ \A i \in DOMAIN down' : i \in DOMAIN down \/ i = Len(down) + 1
           /\ \A i \in DOMAIN down' : IsJob(down'[i]) => i \in DOMAIN down
<1>1. down' = Append(down, msg) /\ down \in Seq(Responses \cup Notifications)
  BY WiredFacts DEF PoolSends
<1>2. /\ Len(down) \in Nat /\ DOMAIN down = 1..Len(down)
      /\ DOMAIN down' = 1..(Len(down) + 1) /\ down'[Len(down) + 1] = msg
      /\ \A i \in DOMAIN down : i \in DOMAIN down' /\ down'[i] = down[i]
      /\ \A i \in DOMAIN down' : i \in DOMAIN down \/ i = Len(down) + 1
  BY <1>1, Pushed
<1> QED BY <1>2

\* Who sends what.
LEMMA PoolSent ==
    ASSUME Wired, PoolTyped, PoolStep \/ Issue \/ BroadcastStep
    PROVE  /\ UNCHANGED <<link, session, phase, extraNonce1, target, currentJob, built, wpc, wjob>>
           /\ \/ UNCHANGED <<issued, handler, down>>
              \/ issued' # 0 /\ UNCHANGED <<handler, down>>
              \/ /\ issued' = issued /\ \E job \in 1..issued : PoolSendsJob(job)
                 /\ handler' = handler \/ (handler = "send" /\ handler' = "read" /\ link = "up")
              \/ /\ handler = "difficulty" /\ handler' = "work" /\ UNCHANGED issued
                 /\ PoolSends(SetDifficulty)
              \/ /\ handler = "work" /\ UNCHANGED <<issued, down>>
                 /\ handler' = "send" \/ (handler' = "read" /\ issued = 0)
              \/ Answer /\ UNCHANGED issued
<1> USE DEF mainVars, jobVars, workerVars, sentVars, broadcastVars, UnchangedMiner
<1>1. CASE Answer
  BY <1>1 DEF Answer
<1>2. CASE Subscribed
  <2>1. UNCHANGED <<issued, link, session, phase, extraNonce1, target, currentJob, built, wpc, wjob>>
    BY <1>2 DEF Subscribed
  <2>2. CASE handler = "send"
    <3>1. PoolSendsJob(toSend) /\ toSend \in 1..issued /\ handler' = "read" /\ link = "up"
      BY <1>2, <2>2, WiredFacts DEF Subscribed, PoolTyped, TypedMain
    <3> QED BY <2>1, <2>2, <3>1
  <2>3. CASE handler # "send"
    BY <1>2, <2>1, <2>3 DEF Subscribed, SetDifficulty
  <2> QED BY <2>2, <2>3
<1>3. CASE Issue
  BY <1>3, WiredFacts DEF Issue, TypedMain
<1>4. ASSUME NEW j \in broadcasts, Snapshot(j)
      PROVE  UNCHANGED <<issued, handler, down>> /\ UnchangedMiner
  BY <1>4 DEF Snapshot
<1>5. ASSUME NEW b \in serving, Deliver(b)
      PROVE  /\ UNCHANGED <<issued, handler>> /\ UnchangedMiner
             /\ UNCHANGED down \/ (PoolSendsJob(b.job) /\ b.job \in 1..issued)
  BY <1>5 DEF Deliver, PoolTyped
<1> QED BY <1>1, <1>2, <1>3, <1>4, <1>5 DEF PoolStep, BroadcastStep

LEMMA IdleStep == Wired /\ PoolTyped /\ Idle /\ [Next]_vars => Idle'
<1> SUFFICES ASSUME Wired, PoolTyped, Idle, [Next]_vars PROVE Idle'
  OBVIOUS
<1> USE DEF poolVars, broadcastVars, linkVars, mainVars, jobVars
<1>1. CASE UNCHANGED <<issued, currentJob, built, down>>
  BY <1>1 DEF Idle
<1>2. CASE UNCHANGED <<issued, currentJob, built>> /\ DOMAIN down' = {}
  BY <1>2 DEF Idle
<1>3. CASE PoolStep \/ Issue \/ BroadcastStep
  <2>1. CASE issued' # 0
    BY <2>1 DEF Idle
  <2>2. CASE UNCHANGED <<issued, down>>
    BY <1>1, <1>3, <2>2, PoolSent
  <2>3. CASE \E job \in 1..issued : PoolSendsJob(job)
    <3>1. issued # 0
      BY <2>3, JobAppended
    <3>2. issued' = issued \/ issued' # 0
      BY <1>3, PoolSent
    <3> QED BY <3>1, <3>2 DEF Idle
  <2>4. CASE Answer \/ PoolSends(SetDifficulty)
    <3>1. PICK msg \in Responses \cup Notifications : PoolSends(msg) /\ ~IsJob(msg)
      <4>1. CASE PoolSends(SetDifficulty)
        BY <4>1, MessageFacts
      <4>2. CASE Answer
        <5>1. up # << >> /\ up \in Seq(Requests)
          BY <4>2, WiredFacts DEF Answer
        <5>2. Head(up) \in Requests
          BY <5>1, Popped
        <5>3. Head(up).id \in Nat
          BY <5>2 DEF Requests
        <5>4. PICK ok \in BOOLEAN : PoolSends([id |-> Head(up).id, ok |-> ok])
          BY <4>2 DEF Answer
        <5>5. [id |-> Head(up).id, ok |-> ok] \in Responses
          BY <5>3, MadeMessages
        <5> QED BY <5>4, <5>5, MessageFacts
      <4> QED BY <2>4, <4>1, <4>2
    <3>2. \A i \in DOMAIN down' : IsJob(down'[i]) => i \in DOMAIN down /\ down'[i] = down[i]
      BY <3>1, OtherAppended
    <3>3. UNCHANGED <<currentJob, built>> /\ (issued' = issued \/ issued' # 0)
      BY <1>3, PoolSent
    <3> QED BY <3>2, <3>3 DEF Idle
  <2> QED BY <1>3, <2>1, <2>2, <2>3, <2>4, PoolSent
<1>4. CASE Handshake \/ Read
  <2>1. UNCHANGED <<issued, currentJob>> /\ down # << >>
    BY <1>4 DEF Handshake, Read
  <2>2. /\ 1 \in DOMAIN down /\ Head(down) = down[1]
        /\ down' = Tail(down) =>
              \A i \in DOMAIN down' : i + 1 \in DOMAIN down /\ down'[i] = down[i + 1]
    <3>1. down \in Seq(Responses \cup Notifications)
      BY WiredFacts
    <3> QED BY <2>1, <3>1, Popped, DownPopped
  <2>3. issued = 0 => ~IsJob(Head(down))
    BY <2>2 DEF Idle
  <2>4. issued = 0 => built' = built
    BY <1>4, <2>3 DEF Handshake, Read, HandleNotification, IsJob
  <2>5. down' = Tail(down) \/ DOMAIN down' = {}
    BY <1>4 DEF Handshake, Read
  <2> QED BY <2>1, <2>2, <2>4, <2>5 DEF Idle
<1>5. CASE StoreJob
  BY <1>5 DEF StoreJob, Idle
<1>6. ASSUME NEW w \in Workers, WorkerStep(w)
      PROVE  UNCHANGED <<issued, currentJob, built, down>>
  BY <1>6 DEF WorkerStep, LoadJob, LoadGeneration, Check, Miss, Hit, LockConn, Write, Register,
              NoShare
<1>7. ASSUME Dial \/ HandshakeFails \/ Cancel \/ Joined \/ Again \/ ReadLock \/ ReadFails
      PROVE  UNCHANGED <<issued, currentJob, built, down>>
  BY <1>7 DEF Dial, HandshakeFails, Cancel, Joined, Again, ReadLock, ReadFails
<1>8. Lose \/ Stop => UNCHANGED <<issued, currentJob, built>> /\ (down' = down \/ DOMAIN down' = {})
  BY DEF Lose, Stop, Drop
<1>9. UNCHANGED vars => UNCHANGED <<issued, currentJob, built, down>>
  BY DEF vars
<1> QED
  BY <1>1, <1>2, <1>3, <1>4, <1>5, <1>6, <1>7, <1>8, <1>9
  DEF Next, MainStep, ReaderStep, Finished

\* The pool keeps to the order.
LEMMA PoolShakes ==
    ASSUME Wired, PoolTyped, Settling, Idle, Shaking, PoolStep \/ Issue \/ BroadcastStep
    PROVE  Shaking'
<1> SUFFICES ASSUME link = "up", phase \in {"subscribe", "authorize"}
             PROVE  /\ Subscription' /\ handler' = "read" => Prepared'
                    /\ phase = "authorize" => AnsweredLast'
  BY PoolSent DEF Shaking
<1>1. /\ UNCHANGED <<link, session, phase, target, currentJob, built>>
      /\ Held' = Held /\ \A job : Own(job)' <=> Own(job)
  BY PoolSent DEF Held, Own
<1>2. CASE UNCHANGED <<handler, down>>
  BY <1>1, <1>2 DEF Shaking, Subscription, Prepared, AnsweredLast, Told
<1>3. ASSUME NEW job \in 1..issued, PoolSendsJob(job),
             handler' = handler \/ (handler = "send" /\ handler' = "read")
      PROVE  /\ Subscription' /\ handler' = "read" => Prepared'
             /\ phase = "authorize" => AnsweredLast'
  <2>1. PICK n :
           /\ n \in DOMAIN down' /\ IsJob(down'[n])
           /\ \A i \in DOMAIN down : i < n /\ i \in DOMAIN down' /\ down'[i] = down[i]
           /\ \A i \in DOMAIN down' : i \in DOMAIN down \/ i = n
           /\ \A i \in DOMAIN down' : IsResponse(down'[i]) => i \in DOMAIN down
    BY <1>3, JobAppended
  <2>2. Subscription' => Subscription
    BY <1>1, <2>1 DEF Subscription
  <2>3. \A p \in DOMAIN down : Told(p) => Told(p)'
    BY <1>1, <2>1 DEF Told
  <2>4. Subscription /\ handler # "difficulty" => Told(n)'
    BY <1>1, <2>1 DEF Told, Subscription, Targeted, Settling
  <2>5. ASSUME Subscription', handler' = "read"
        PROVE  Prepared'
    <3>1. CASE handler = "read"
      <4>1. Prepared /\ Told(n)'
        BY <2>2, <2>4, <2>5, <3>1 DEF Shaking
      <4>2. ASSUME NEW p \in DOMAIN down, IsJob(down[p]), Told(p),
                   phase = "authorize" => \A r \in DOMAIN down : IsResponse(down[r]) => p < r
            PROVE  Prepared'
        BY <1>1, <2>1, <2>3, <4>2 DEF Prepared
      <4>3. CASE Own(Held) /\ \A p \in DOMAIN down : IsJob(down[p]) => Told(p)
        BY <1>1, <2>1, <2>3, <4>1, <4>3 DEF Prepared
      <4> QED BY <4>1, <4>2, <4>3 DEF Prepared
    <3>2. CASE handler = "send"
      <4>1. Told(n)'
        BY <2>2, <2>4, <2>5, <3>2
      <4>2. phase = "authorize" => \A r \in DOMAIN down' : ~IsResponse(down'[r])
        BY <2>1, <3>2 DEF Shaking, AnsweredLast
      <4> QED BY <1>1, <2>1, <4>1, <4>2 DEF Prepared
    <3> QED BY <1>3, <2>5, <3>1, <3>2
  <2>6. phase = "authorize" => AnsweredLast'
    BY <1>1, <1>3, <2>1 DEF Shaking, AnsweredLast
  <2> QED BY <2>5, <2>6
<1>4. CASE handler = "difficulty" /\ handler' = "work" /\ PoolSends(SetDifficulty)
  <2>1. SetDifficulty \in Responses \cup Notifications /\ ~IsJob(SetDifficulty)
        /\ ~IsResponse(SetDifficulty)
    BY MessageFacts
  <2>2. \A i \in DOMAIN down' : IsResponse(down'[i]) => i \in DOMAIN down /\ down'[i] = down[i]
    BY <1>4, <2>1, OtherAppended
  <2> QED BY <1>4, <2>2 DEF Shaking, AnsweredLast
<1>5. CASE handler = "work" /\ UNCHANGED down
           /\ (handler' = "send" \/ (handler' = "read" /\ issued = 0))
  <2>1. phase = "authorize" => AnsweredLast'
    BY <1>1, <1>5 DEF Shaking, AnsweredLast
  <2>2. issued = 0 => Prepared'
    <3>1. issued = 0 => Held = NoJob /\ \A p \in DOMAIN down : ~IsJob(down[p])
      BY DEF Idle, Held
    <3> QED BY <1>1, <1>5, <3>1 DEF Prepared, Own
  <2> QED BY <1>5, <2>1, <2>2
<1>6. CASE Answer
  <2>1. /\ up # << >> /\ handler = "read"
        /\ handler' = IF Head(up).method = "subscribe" THEN "difficulty" ELSE "read"
    BY <1>6 DEF Answer
  <2>2. up \in Seq(Requests) /\ Handshaken
    BY WiredFacts
  <2>3. Head(up).method = phase /\ Head(up).id \in Nat
    <3>1. 1 \in DOMAIN up /\ Head(up) = up[1] /\ Head(up) \in Requests
      BY <2>1, <2>2, Popped
    <3> QED BY <2>2, <3>1 DEF Handshaken, Requests
  <2>4. CASE phase = "subscribe"
    BY <2>1, <2>3, <2>4
  <2>5. CASE phase = "authorize"
    <3>1. handler' = "read"
      BY <2>1, <2>3, <2>5
    <3>2. \A r \in DOMAIN down : ~IsResponse(down[r])
      BY <2>1, <2>2, <2>5 DEF Handshaken
    <3>3. Subscription /\ Prepared /\ Targeted
      BY <2>1, <2>5 DEF Shaking, Settling, Subscription
    <3>4. PICK ok \in BOOLEAN : PoolSends([id |-> Head(up).id, ok |-> ok])
      BY <1>6 DEF Answer
    <3> DEFINE msg == [id |-> Head(up).id, ok |-> ok]
    <3>5. msg \in Responses \cup Notifications /\ ~IsJob(msg) /\ IsResponse(msg) /\ PoolSends(msg)
      BY <2>3, <3>4, MadeMessages, MessageFacts
    <3> HIDE DEF msg
    <3>6. PICK n :
             /\ n \in DOMAIN down' /\ down'[n] = msg
             /\ \A i \in DOMAIN down : i < n /\ i \in DOMAIN down' /\ down'[i] = down[i]
             /\ \A i \in DOMAIN down' : i \in DOMAIN down \/ i = n
             /\ \A i \in DOMAIN down' : IsJob(down'[i]) => i \in DOMAIN down
      BY <3>5, OtherAppended
    <3>7. \A p \in DOMAIN down : Told(p) => Told(p)'
      BY <1>1, <3>6 DEF Told
    <3>8. \A r \in DOMAIN down' : IsResponse(down'[r]) => r = n
      BY <3>2, <3>6
    <3>9. Prepared'
      <4>1. ASSUME NEW p \in DOMAIN down, IsJob(down[p]), Told(p)
            PROVE  Prepared'
        BY <3>6, <3>7, <3>8, <4>1 DEF Prepared
      <4>2. CASE Own(Held) /\ \A p \in DOMAIN down : IsJob(down[p]) => Told(p)
        BY <1>1, <3>6, <3>7, <4>2 DEF Prepared
      <4> QED BY <3>3, <4>1, <4>2 DEF Prepared
    <3>10. AnsweredLast'
      BY <1>1, <3>1, <3>3, <3>6, <3>8 DEF AnsweredLast, Targeted
    <3> QED BY <3>9, <3>10
  <2> QED BY <2>4, <2>5
<1> QED BY <1>2, <1>3, <1>4, <1>5, <1>6, PoolSent

\* The handshake takes a message, and its last one starts the workers.
LEMMA HandshakeShakes ==
    ASSUME Wired, Settling, Shaking, Handshake
    PROVE  /\ Shaking'
           /\ phase' = "mining" => target' = "share" /\ extraNonce1' = session'
                                   /\ Own(currentJob)' /\ Own(built)'
<1>1. /\ phase \in {"subscribe", "authorize"} /\ down # << >> /\ built = NoJob
      /\ UNCHANGED <<session, handler, last, currentJob>> /\ link = "up"
  BY WiredFacts DEF Handshake, poolVars, sentVars
<1>2. /\ 1 \in DOMAIN down /\ Head(down) = down[1] /\ down[1] \in Responses \cup Notifications
      /\ \A i \in DOMAIN down : ~(i < 1)
  <2>1. down \in Seq(Responses \cup Notifications)
    BY WiredFacts
  <2>2. /\ DOMAIN down = 1..Len(down) /\ Len(down) \in Nat /\ 1 \in DOMAIN down
        /\ Head(down) = down[1] /\ Head(down) \in Responses \cup Notifications
    BY <1>1, <2>1, Popped
  <2> QED BY <2>2
<1>3. phase # "subscribe" => extraNonce1 = session /\ session # 0
  BY <1>1, WiredFacts DEF Settling, Ends
<1>4. ASSUME down' = Tail(down)
      PROVE  /\ \A i \in DOMAIN down' :
                   i \in Nat /\ i + 1 # 1 /\ i + 1 \in DOMAIN down /\ down'[i] = down[i + 1]
             /\ \A i \in DOMAIN down : i = 1 \/ (i - 1 \in DOMAIN down' /\ down'[i - 1] = down[i])
             /\ \A i \in DOMAIN down : i \in Nat
  BY <1>1, <1>4, DownPopped
<1>5. \A job : Own(job)' <=> Own(job)
  BY <1>1 DEF Own
<1>6. ASSUME IsResponse(Head(down)), phase = "authorize"
      PROVE  target = "share" /\ Own(currentJob)
  <2>1. AnsweredLast /\ Prepared
    <3>1. AnsweredLast
      BY <1>1, <1>6 DEF Shaking
    <3>2. handler = "read" /\ Subscription
      BY <1>2, <1>6, <3>1 DEF AnsweredLast, Subscription
    <3> QED BY <1>1, <3>1, <3>2 DEF Shaking
  <2>2. target = "share"
    BY <1>2, <1>6, <2>1 DEF AnsweredLast
  <2>3. Own(Held)
    BY <1>2, <1>6, <2>1 DEF Prepared
  <2> QED BY <1>1, <2>2, <2>3 DEF Held
<1>7. ASSUME down' = Tail(down), phase' \in {"subscribe", "authorize"}, link' = "up",
             UNCHANGED target, UNCHANGED built, phase = "subscribe", phase' = "authorize",
             IsResponse(Head(down))
      PROVE  Shaking'
  <2>1. \A r \in DOMAIN down' : ~IsResponse(down'[r])
    <3>1. \A r \in DOMAIN down : IsResponse(down[r]) => r = 1
      BY <1>2, <1>7, WiredFacts DEF Handshaken
    <3> QED BY <1>4, <1>7, <3>1
  <2>2. \A p \in DOMAIN down' : Told(p + 1) => Told(p)'
    <3>1. Head(down) # SetDifficulty
      BY <1>7, MessageFacts
    <3> QED BY <1>1, <1>7, <3>1, TakenFacts
  <2>3. handler = "read" => Prepared
    BY <1>1, <1>2, <1>7 DEF Shaking, Subscription
  <2>4. ~IsJob(down[1])
    BY <1>2, <1>7, MessageFacts
  <2>5. ASSUME NEW p \in DOMAIN down, IsJob(down[p]), Told(p)
        PROVE  Prepared'
    <3>1. p # 1 /\ p - 1 \in DOMAIN down' /\ down'[p - 1] = down[p] /\ p \in Nat
      BY <1>4, <1>7, <2>4, <2>5
    <3>2. (p - 1) + 1 = p
      BY <3>1
    <3>3. PICK q : q = p - 1
      OBVIOUS
    <3>4. q \in DOMAIN down' /\ IsJob(down'[q]) /\ Told(q)'
      BY <2>2, <2>5, <3>1, <3>2, <3>3
    <3> QED BY <2>1, <3>4 DEF Prepared
  <2>6. ASSUME Own(Held), \A p \in DOMAIN down : IsJob(down[p]) => Told(p)
        PROVE  Prepared'
    <3>1. Held' = Held
      BY <1>1, <1>7 DEF Held
    <3>2. \A p \in DOMAIN down' : IsJob(down'[p]) => Told(p)'
      BY <1>4, <1>7, <2>2, <2>6
    <3> QED BY <1>5, <2>6, <3>1, <3>2 DEF Prepared
  <2>7. handler = "read" => Prepared'
    BY <2>3, <2>5, <2>6 DEF Prepared
  <2> QED BY <1>1, <2>1, <2>7 DEF Shaking, AnsweredLast
<1>8. ASSUME ~IsResponse(Head(down)), HandleNotification(Head(down)), down' = Tail(down),
             UNCHANGED <<phase, extraNonce1, link>>
      PROVE  Shaking'
  <2>1. /\ Head(down) = SetDifficulty => target' = "share"
        /\ target = "share" => target' = "share"
    BY <1>8 DEF HandleNotification, SetDifficulty
  <2>2. \A p \in DOMAIN down' : Told(p + 1) => Told(p)'
    BY <1>1, <1>8, <2>1, TakenFacts
  <2>3. Subscription' => Subscription
    BY <1>4, <1>8 DEF Subscription
  <2>4. phase = "authorize" => AnsweredLast'
    <3> SUFFICES ASSUME phase = "authorize", NEW r \in DOMAIN down', IsResponse(down'[r])
                 PROVE  handler = "read"
                        /\ (target' = "share" \/ \E d \in DOMAIN down' : d < r /\ down'[d] = SetDifficulty)
      BY <1>1 DEF AnsweredLast
    <3>1. r + 1 \in DOMAIN down /\ IsResponse(down[r + 1]) /\ r \in Nat
      BY <1>4, <1>8
    <3>2. AnsweredLast
      BY <1>1 DEF Shaking
    <3>3. CASE target = "share"
      BY <2>1, <3>1, <3>2, <3>3 DEF AnsweredLast
    <3>4. ASSUME NEW d \in DOMAIN down, d < r + 1, down[d] = SetDifficulty
          PROVE  target' = "share" \/ \E e \in DOMAIN down' : e < r /\ down'[e] = SetDifficulty
      <4>1. CASE d = 1
        BY <1>2, <2>1, <3>4, <4>1
      <4>2. CASE d # 1
        <5>1. d - 1 \in DOMAIN down' /\ down'[d - 1] = SetDifficulty /\ d \in Nat
          BY <1>4, <1>8, <3>4, <4>2
        <5>2. d - 1 < r
          BY <3>1, <3>4, <5>1
        <5> QED BY <5>1, <5>2
      <4> QED BY <4>1, <4>2
    <3> QED BY <3>1, <3>2, <3>3, <3>4 DEF AnsweredLast
  <2>5. ASSUME IsJob(down[1]), Told(1)
        PROVE  Prepared'
    <3>1. phase = "authorize" /\ target = "share"
      BY <1>1, <1>2, <2>5 DEF Told
    <3>2. Head(down) # SetDifficulty
      BY <1>2, <2>5, MessageFacts
    <3>3. target' = "share" /\ HandleNotify(down[1].job)
      BY <1>2, <1>8, <2>5, <3>1, <3>2 DEF HandleNotification, IsJob, SetDifficulty
    <3>4. built' = [id |-> down[1].job, extraNonce1 |-> session, target |-> "share"]
      BY <1>3, <3>1, <3>3 DEF HandleNotify
    <3>5. Own(built)
      BY <1>1 DEF Own
    <3>6. built'.extraNonce1 = session' /\ built'.target = "share" /\ session' # 0
      BY <1>1, <1>3, <3>1, <3>4
    <3>7. built' # NoJob
      BY <3>6 DEF NoJob
    <3>8. Own(Held)'
      BY <3>6, <3>7 DEF Own, Held
    <3>9. \A p \in DOMAIN down' : Told(p)'
      BY <1>8, <3>1, <3>3 DEF Told
    <3> QED BY <3>8, <3>9 DEF Prepared
  <2>6. ASSUME NEW p \in DOMAIN down, IsJob(down[p]), Told(p), p # 1,
               phase = "authorize" => \A r \in DOMAIN down : IsResponse(down[r]) => p < r
        PROVE  Prepared'
    <3>1. p - 1 \in DOMAIN down' /\ down'[p - 1] = down[p] /\ p \in Nat
      BY <1>4, <1>8, <2>6
    <3>2. (p - 1) + 1 = p
      BY <3>1
    <3>3. PICK q : q = p - 1
      OBVIOUS
    <3>4. q \in DOMAIN down' /\ IsJob(down'[q]) /\ Told(q)'
      BY <2>2, <2>6, <3>1, <3>2, <3>3
    <3>5. ASSUME phase' = "authorize", NEW r \in DOMAIN down', IsResponse(down'[r])
          PROVE  q < r
      <4>1. r + 1 \in DOMAIN down /\ IsResponse(down[r + 1]) /\ r \in Nat
        BY <1>4, <1>8, <3>5
      <4>2. p < r + 1
        BY <1>8, <2>6, <3>5, <4>1
      <4> QED BY <3>1, <3>3, <4>1, <4>2
    <3> QED BY <3>4, <3>5 DEF Prepared
  <2>7. ASSUME Own(Held), \A p \in DOMAIN down : IsJob(down[p]) => Told(p), ~IsJob(down[1])
        PROVE  Prepared'
    <3>1. built' = built
      BY <1>2, <1>8, <2>7 DEF HandleNotification, IsJob
    <3>2. Held' = Held
      BY <1>1, <3>1 DEF Held
    <3>3. \A p \in DOMAIN down' : IsJob(down'[p]) => Told(p)'
      BY <1>4, <1>8, <2>2, <2>7
    <3> QED BY <1>5, <2>7, <3>2, <3>3 DEF Prepared
  <2>8. Prepared => Prepared'
    BY <1>2, <2>5, <2>6, <2>7 DEF Prepared
  <2> QED BY <1>1, <1>8, <2>3, <2>4, <2>8 DEF Shaking
<1>9. CASE ~IsResponse(Head(down))
  <2>1. /\ HandleNotification(Head(down)) /\ down' = Tail(down)
        /\ UNCHANGED <<phase, extraNonce1, link>>
    BY <1>9 DEF Handshake, IsResponse
  <2> QED BY <1>1, <1>8, <1>9, <2>1
<1>10. CASE IsResponse(Head(down))
  <2>1. \/ link' = "closed" /\ phase' = "wait"
        \/ /\ down' = Tail(down) /\ UNCHANGED <<link, target, built>>
           /\ \/ phase = "subscribe" /\ extraNonce1' = session /\ phase' = "authorize"
              \/ phase = "authorize" /\ phase' = "mining" /\ extraNonce1' = extraNonce1
    BY <1>1, <1>10 DEF Handshake, IsResponse
  <2>2. CASE phase' \in {"wait", "mining"}
    <3>1. Shaking'
      BY <2>2 DEF Shaking
    <3>2. ASSUME phase' = "mining"
          PROVE  target' = "share" /\ extraNonce1' = session' /\ Own(currentJob)' /\ Own(built)'
      <4>1. /\ phase = "authorize" /\ extraNonce1' = extraNonce1 /\ UNCHANGED <<target, built>>
        BY <2>1, <3>2
      <4>2. Own(currentJob)' /\ Own(built)'
        BY <1>1, <1>6, <1>10, <4>1 DEF Own
      <4> QED BY <1>1, <1>3, <1>6, <1>10, <4>1, <4>2
    <3> QED BY <3>1, <3>2
  <2>3. CASE phase' = "authorize"
    BY <1>1, <1>7, <1>10, <2>1, <2>3
  <2> QED BY <2>1, <2>2, <2>3
<1> QED BY <1>9, <1>10

LEMMA ShakingStep ==
    Wired /\ PoolTyped /\ Settling /\ Idle /\ Shaking /\ [Next]_vars => Shaking'
<1> SUFFICES ASSUME Wired, PoolTyped, Settling, Idle, Shaking, [Next]_vars PROVE Shaking'
  OBVIOUS
<1> USE DEF poolVars, linkVars, mainVars, jobVars
<1>1. CASE UNCHANGED <<link, phase, session, handler, down, target, Held>>
  BY <1>1 DEF Shaking, Subscription, Prepared, AnsweredLast, Told, Own
<1>2. CASE phase' \notin {"subscribe", "authorize"} \/ link' # "up"
  BY <1>2 DEF Shaking
<1>3. CASE PoolStep \/ Issue \/ BroadcastStep
  BY <1>3, PoolShakes
<1>4. CASE Handshake
  BY <1>4, HandshakeShakes
<1>5. CASE Dial
  <2>1. link # "up" /\ down' = down /\ DOMAIN down = {}
    BY <1>5, WiredFacts DEF Dial, Ends
  <2>2. phase' \in {"subscribe", "wait"}
    BY <1>5 DEF Dial, Connect
  <2>3. phase' = "subscribe" => ~Subscription'
    BY <2>1 DEF Subscription
  <2> QED BY <2>2, <2>3 DEF Shaking
<1>6. CASE StoreJob
  <2>1. Held' = Held
    BY <1>6 DEF StoreJob, Held
  <2> QED BY <1>1, <1>6, <2>1 DEF StoreJob
<1>7. CASE Read
  BY <1>2, <1>7, WiredFacts DEF Read, Ends
<1>8. ASSUME ReadLock \/ ReadFails \/ UNCHANGED vars
      PROVE  UNCHANGED <<link, phase, session, handler, down, target, Held>>
  BY <1>8 DEF ReadLock, ReadFails, vars, Held
<1>9. ASSUME NEW w \in Workers, WorkerStep(w)
      PROVE  UNCHANGED <<link, phase, session, handler, down, target, Held>>
  BY <1>9 DEF WorkerStep, LoadJob, LoadGeneration, Check, Miss, Hit, LockConn, Write, Register,
              NoShare, Held
<1>10. HandshakeFails \/ Cancel \/ Joined \/ Again => phase' \notin {"subscribe", "authorize"}
  BY DEF HandshakeFails, Cancel, Joined, Again
<1>11. Lose \/ Stop => link' # "up" \/ UNCHANGED <<link, phase, session, handler, down, target, Held>>
  BY DEF Lose, Stop, Drop, Held
<1> QED
  BY <1>1, <1>2, <1>3, <1>4, <1>5, <1>6, <1>7, <1>8, <1>9, <1>10, <1>11
  DEF Next, MainStep, ReaderStep, Finished

LEMMA MiningStep ==
    Wired /\ PoolTyped /\ Settling /\ Shaking /\ Mining /\ [Next]_vars => Mining'
<1> SUFFICES ASSUME Wired, PoolTyped, Settling, Shaking, Mining, [Next]_vars PROVE Mining'
  OBVIOUS
<1> USE DEF poolVars, linkVars, mainVars, jobVars, workerVars
<1>1. CASE UNCHANGED <<phase, target, extraNonce1, session, currentJob, built, wpc, wjob>>
  BY <1>1 DEF Mining, Own
<1>2. CASE phase' \notin {"mining", "unwind"}
  BY <1>2 DEF Mining
<1>3. CASE Dial \/ HandshakeFails \/ Joined \/ Again
  BY <1>2, <1>3 DEF Dial, Connect, HandshakeFails, Joined, Again
<1>4. CASE Cancel
  <2>1. phase = "mining" /\ UNCHANGED <<target, extraNonce1, session, currentJob, built, wpc, wjob>>
    BY <1>4 DEF Cancel
  <2> QED BY <2>1 DEF Mining, Own
<1>5. CASE Handshake
  <2>1. phase' = "mining" => \A w \in Workers : wpc'[w] = "load"
    <3>1. phase' = "mining" => wpc' = [w \in Workers |-> "load"]
      BY <1>5 DEF Handshake
    <3> QED BY <3>1
  <2>2. phase' # "unwind"
    BY <1>5 DEF Handshake
  <2> QED BY <1>5, <2>1, <2>2, HandshakeShakes DEF Mining
<1>6. CASE Read
  <2>1. /\ UNCHANGED <<phase, extraNonce1, session, currentJob, wpc, wjob>>
        /\ (HandleNotification(Head(down)) \/ UNCHANGED <<target, built>>)
    BY <1>6 DEF Read
  <2>2. CASE phase \in {"mining", "unwind"}
    <3>1. target' = "share"
      BY <2>1, <2>2 DEF HandleNotification, Mining
    <3>2. \/ built' = built
          \/ \E id : built' = [id |-> id, extraNonce1 |-> session, target |-> "share"]
      BY <2>1, <2>2 DEF HandleNotification, HandleNotify, Mining
    <3>3. Own(built)'
      BY <2>1, <2>2, <3>2 DEF Own, Mining
    <3> QED BY <2>1, <2>2, <3>1, <3>3 DEF Mining, Own
  <2> QED BY <1>2, <2>1, <2>2
<1>7. CASE StoreJob
  BY <1>7 DEF StoreJob, Mining, Own
<1>8. CASE PoolStep \/ Issue \/ BroadcastStep
  BY <1>1, <1>8, PoolSent
<1>9. ASSUME NEW w \in Workers, WorkerStep(w)
      PROVE  Mining'
  <2>1. UNCHANGED <<phase, target, extraNonce1, session, currentJob, built>>
    BY <1>9 DEF WorkerStep, LoadJob, LoadGeneration, Check, Miss, Hit, LockConn, Write, Register,
                NoShare
  <2>2. wpc \in [Workers -> {"off", "load", "generation", "check", "hash",
                             "lock", "write", "register"}]
        /\ wjob \in [Workers -> Job]
    BY WiredFacts DEF TypedWorkers, TypedJobs
  <2>3. \A v \in Workers : v # w => wpc'[v] = wpc[v] /\ wjob'[v] = wjob[v]
    BY <1>9, <2>2 DEF WorkerStep, LoadJob, LoadGeneration, Check, Miss, Hit, LockConn, Write,
                      Register, Submitted, NoShare, Leave, Goto
  <2>4. \/ wpc'[w] \in {"off", "load"}
        \/ wjob'[w] = currentJob /\ currentJob # NoJob
        \/ wjob'[w] = wjob[w] /\ wpc[w] \notin {"off", "load"}
    BY <1>9, <2>2 DEF WorkerStep, LoadJob, LoadGeneration, Check, Miss, Hit, LockConn, Write,
                      Register, Submitted, NoShare, Leave, Goto
  <2> QED BY <2>1, <2>3, <2>4 DEF Mining, Own
<1>10. ASSUME ReadLock \/ ReadFails \/ UNCHANGED vars \/ Lose \/ Stop
       PROVE  UNCHANGED <<phase, target, extraNonce1, session, currentJob, built, wpc, wjob>>
  BY <1>10 DEF ReadLock, ReadFails, vars, Lose, Stop, Drop
<1> QED
  BY <1>1, <1>3, <1>4, <1>5, <1>6, <1>7, <1>8, <1>9, <1>10
  DEF Next, MainStep, ReaderStep, Finished

\* miner.go and stratum.go: no worker mines, or submits for, a job with an earlier
\* connection's extraNonce1 or without this connection's share target, although both
\* jobs and extraNonce1 outlive a connection: the handshake ends only after this
\* connection's job, if the pool has one, has replaced the old.
THEOREM WorkersMineThisConnection == Spec => []MinesForThisConnection
<1>1. Init => Settling /\ Stored /\ Idle /\ Shaking /\ Mining
  <2> SUFFICES ASSUME Init PROVE Settling /\ Stored /\ Idle /\ Shaking /\ Mining
    OBVIOUS
  <2>1. DOMAIN down = {}
    BY DEF Init
  <2> QED BY <2>1 DEF Init, Settling, Stored, Idle, Shaking, Mining
<1>2. Wired /\ Mining => MinesForThisConnection
  <2> SUFFICES ASSUME Wired, Mining, NEW w \in Workers, wpc[w] \notin {"off", "load"}
               PROVE  wjob[w].extraNonce1 = session /\ wjob[w].target = "share"
    BY DEF MinesForThisConnection
  <2>1. phase \in {"mining", "unwind"}
    BY WiredFacts DEF Ends
  <2> QED BY <2>1 DEF Mining, Own
<1> QED
  BY <1>1, <1>2, WiredHolds, SettlingStep, StoredStep, IdleStep, ShakingStep, MiningStep, PTL
  DEF Spec
=============================================================================
