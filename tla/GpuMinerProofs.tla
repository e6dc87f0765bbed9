--------------------------- MODULE GpuMinerProofs ----------------------------
(***************************************************************************)
(* Proofs about the GPU miner and its host, for any number of connections, *)
(* notifications and requests: what is typed stays typed, and answers are  *)
(* paired with requests by order alone exactly as long as no search was    *)
(* abandoned.                                                              *)
(***************************************************************************)
EXTENDS GpuMiner, SequenceTheorems, TLAPS

Waiting == IF wpc = "wait" THEN 1 ELSE 0

\* Every request sent is under way, taken, or given up; the rounds of a job are
\* among them, and a request is only sent while there is room for one.
Requests ==
    /\ abandoned + submitted + discarded + Waiting <= sent
    /\ extraNonce2 + Waiting <= sent
    /\ failed + Len(stdin) <= sent
    /\ wpc = "send" => sent < MaxRequests

\* The worker runs within its connection only.
Running == wpc # "off" => phase \in {"mining", "unwind"}

\* Errors are counted, and not handed on; a channel holds answers of its kind.
Errors ==
    /\ failed = 0 => \A i \in DOMAIN stdout : stdout[i].type # "error"
    /\ line # None => line.type # "error"

\* The pipes and channels hold no more answers to come than were abandoned,
\* counting the one the worker waits for; and no fewer while the host answers.
Counted ==
    /\ Count <= abandoned + Waiting
    /\ host = "run" /\ failed = 0 => Count = abandoned + Waiting

\* Until a search is abandoned all of them belong to the current request.
OwnAnswers ==
    abandoned = 0 =>
        /\ discarded = 0
        /\ \A i \in DOMAIN stdin : stdin[i] = Current
        /\ \A i \in DOMAIN stdout : stdout[i].of = Current
        /\ line # None => line.of = Current
        /\ solutions # << >> => solutions[1].of = Current
        /\ searched # << >> => searched[1].of = Current

Pairing == TypeOK /\ Requests /\ Running /\ Errors /\ Counted /\ OwnAnswers

-----------------------------------------------------------------------------
\* What Append and Tail do to the places of a sequence.
LEMMA AppendPlaces ==
    ASSUME NEW S, NEW s \in Seq(S), NEW e \in S
    PROVE  /\ Append(s, e) \in Seq(S) /\ Len(Append(s, e)) = Len(s) + 1
           /\ DOMAIN s = 1..Len(s) /\ Len(s) \in Nat
           /\ DOMAIN Append(s, e) = 1..(Len(s) + 1)
           /\ Append(s, e)[Len(s) + 1] = e
           /\ \A i \in 1..Len(s) : Append(s, e)[i] = s[i]
<1>1. DOMAIN s = 1..Len(s) /\ Len(s) \in Nat
  BY LenProperties
<1>2. /\ Append(s, e) \in Seq(S) /\ Len(Append(s, e)) = Len(s) + 1
      /\ Append(s, e)[Len(s) + 1] = e
      /\ \A i \in 1..Len(s) : Append(s, e)[i] = s[i]
  BY AppendProperties
<1>3. DOMAIN Append(s, e) = 1..(Len(s) + 1)
  BY <1>2, LenProperties
<1> QED BY <1>1, <1>2, <1>3

LEMMA TailPlaces ==
    ASSUME NEW S, NEW s \in Seq(S), s # << >>
    PROVE  /\ Tail(s) \in Seq(S) /\ Len(Tail(s)) = Len(s) - 1
           /\ DOMAIN s = 1..Len(s) /\ Len(s) \in Nat \ {0}
           /\ DOMAIN Tail(s) = 1..(Len(s) - 1)
           /\ Head(s) = s[1] /\ Head(s) \in S
           /\ \A i \in 1..(Len(s) - 1) : Tail(s)[i] = s[i + 1]
<1>1. DOMAIN s = 1..Len(s) /\ Len(s) \in Nat \ {0}
  BY LenProperties, EmptySeq
<1>2. /\ Tail(s) \in Seq(S) /\ Len(Tail(s)) = Len(s) - 1 /\ Head(s) \in S
      /\ \A i \in 1..(Len(s) - 1) : Tail(s)[i] = s[i + 1]
  BY HeadTailProperties
<1>3. DOMAIN Tail(s) = 1..(Len(s) - 1)
  BY <1>2, LenProperties
<1> QED BY <1>1, <1>2, <1>3

\* Both readings of a typed answer and of the job a request is for.
LEMMA AnswerFacts ==
    /\ \A a \in Answer : a # None /\ a.type \in {"solution", "searched", "error"} /\ a.of \in Request
    /\ \A type \in {"solution", "searched", "error"}, request \in Request :
          LET a == [type |-> type, of |-> request]
          IN  a \in Answer /\ a.type = type /\ a.of = request
BY NoAnswerAssumption DEF Answer

\* What the conjuncts of Pairing say together, in the form the steps use.
LEMMA PairingTyped ==
    ASSUME Pairing
    PROVE  /\ TypeOK /\ Requests /\ Running /\ Errors /\ Counted /\ OwnAnswers
           /\ MaxSessions \in Nat /\ MaxJobs \in Nat /\ MaxRequests \in Nat
           /\ stdin \in Seq(Request) /\ stdout \in Seq(Answer)
           /\ solutions \in Seq(Answer) /\ searched \in Seq(Answer)
           /\ Len(solutions) \in 0..1 /\ Len(searched) \in 0..1
           /\ Len(solutions) <= 1 /\ Len(searched) <= 1
           /\ DOMAIN stdin = 1..Len(stdin) /\ Len(stdin) \in Nat
           /\ DOMAIN stdout = 1..Len(stdout) /\ Len(stdout) \in Nat
           /\ line = None => Len(Lined) = 0
           /\ line # None => Len(Lined) = 1
           /\ solutions = << >> <=> Len(solutions) = 0
           /\ searched = << >> <=> Len(searched) = 0
           /\ Waiting \in 0..1 /\ Current \in Request
           /\ sent \in Nat /\ abandoned \in Nat /\ failed \in Nat
           /\ submitted \in Nat /\ discarded \in Nat /\ extraNonce2 \in Nat
<1>1. TypeOK /\ Requests /\ Running /\ Errors /\ Counted /\ OwnAnswers
  BY DEF Pairing
<1>2. /\ stdin \in Seq(Request) /\ stdout \in Seq(Answer)
      /\ solutions \in Seq(Answer) /\ searched \in Seq(Answer)
      /\ Len(solutions) <= 1 /\ Len(searched) <= 1
  BY <1>1 DEF TypeOK
<1>3. /\ DOMAIN stdin = 1..Len(stdin) /\ Len(stdin) \in Nat
      /\ DOMAIN stdout = 1..Len(stdout) /\ Len(stdout) \in Nat
      /\ Len(solutions) \in Nat /\ Len(searched) \in Nat
  BY <1>2, LenProperties
<1>3a. /\ solutions = << >> <=> Len(solutions) = 0
       /\ searched = << >> <=> Len(searched) = 0
  BY <1>2, EmptySeq
<1>3b. Len(solutions) \in 0..1 /\ Len(searched) \in 0..1
  <2>1. \A n \in Nat : n <= 1 => n \in 0..1
    OBVIOUS
  <2> QED BY <1>2, <1>3, <2>1
<1>4. (line = None => Len(Lined) = 0) /\ (line # None => Len(Lined) = 1)
  BY DEF Lined
<1>5. Waiting \in 0..1
  BY DEF Waiting
<1>6. Current \in Request
  BY <1>1 DEF TypeOK, Current, Request
<1>7. /\ sent \in Nat /\ abandoned \in Nat /\ failed \in Nat
      /\ submitted \in Nat /\ discarded \in Nat /\ extraNonce2 \in Nat
  BY <1>1 DEF TypeOK
<1> QED
  BY <1>1, <1>2, <1>3, <1>3a, <1>3b, <1>4, <1>5, <1>6, <1>7, BoundsAssumption

LEMMA PairingInit == Init => Pairing
<1> SUFFICES ASSUME Init PROVE Pairing
  OBVIOUS
<1>1. TypeOK
  <2>1. NoJob \in Job /\ << >> \in Seq(Request) /\ << >> \in Seq(Answer) /\ Len(<< >>) = 0
    BY BoundsAssumption DEF Job, NoJob
  <2>2. \A c \in {solutions, searched} : c \in Seq(Answer) /\ Len(c) <= 1
    <3>1. solutions = << >> /\ searched = << >>
      BY DEF Init
    <3>2. << >> \in Seq(Answer) /\ Len(<< >>) <= 1
      BY <2>1
    <3> QED BY <3>1, <3>2
  <2>3. stopping \in BOOLEAN /\ line \in Answer \cup {None}
    BY DEF Init
  <2> QED BY <2>1, <2>2, <2>3, BoundsAssumption DEF Init, TypeOK
<1>2. DOMAIN stdin = {} /\ DOMAIN stdout = {} /\ Count = 0 /\ Waiting = 0
  BY DEF Init, Count, Lined, Waiting
<1>3. Requests /\ Running /\ Errors /\ Counted /\ OwnAnswers
  BY <1>2, BoundsAssumption DEF Init, Requests, Running, Errors, Counted, OwnAnswers
<1> QED BY <1>1, <1>3 DEF Pairing

-----------------------------------------------------------------------------
\* Steps that leave the pipes, the channels and the counts alone, and what the
\* worker waits for: the worker may be started, or go on to a request.
LEMMA NothingPaired ==
    ASSUME Pairing, TypeOK', Running',
           UNCHANGED <<stdin, stdout, line, solutions, searched, failed>>,
           UNCHANGED <<sent, abandoned, submitted, discarded>>,
           host' = "run" => host = "run",
           wpc = "wait" <=> wpc' = "wait",
           wpc' = "send" => sent < MaxRequests,
           extraNonce2' \in {0, extraNonce2},
           (wpc = "wait" \/ Count > 0) /\ abandoned = 0 => Current' = Current
    PROVE  Pairing'
<1>1. Waiting' = Waiting /\ Count' = Count
  BY DEF Waiting, Count, Lined
<1>2. Requests'
  <2>1. /\ Requests /\ Waiting \in 0..1 /\ sent \in Nat /\ extraNonce2 \in Nat
    BY PairingTyped
  <2>2. extraNonce2' \in Nat /\ extraNonce2' <= extraNonce2
    BY <2>1
  <2>3. extraNonce2 + Waiting <= sent
    BY <2>1 DEF Requests
  <2>4. extraNonce2' + Waiting <= sent
    <3>1. \A a, b, n, m \in Nat : a <= b /\ b + n <= m => a + n <= m
      OBVIOUS
    <3>2. Waiting \in Nat
      BY DEF Waiting
    <3> QED BY <2>1, <2>2, <2>3, <3>1, <3>2
  <2> QED BY <1>1, <2>1, <2>4 DEF Requests
<1>3. Errors' /\ Counted'
  BY <1>1, PairingTyped DEF Errors, Counted
<1>4. OwnAnswers'
  <2> USE PairingTyped
  <2>1. CASE abandoned # 0
    BY <2>1 DEF OwnAnswers
  <2>2. CASE abandoned = 0 /\ Current' = Current
    BY <2>2 DEF OwnAnswers
  <2>3. CASE abandoned = 0 /\ Count <= 0
    <3>1. /\ Len(stdin) = 0 /\ Len(stdout) = 0 /\ Len(Lined) = 0
          /\ Len(solutions) = 0 /\ Len(searched) = 0
      <4>1. Len(Lined) \in 0..1
        OBVIOUS
      <4> QED BY <2>3, <4>1 DEF Count
    <3>2. /\ DOMAIN stdin = {} /\ DOMAIN stdout = {} /\ line = None
          /\ solutions = << >> /\ searched = << >>
      BY <3>1
    <3> QED BY <3>1, <3>2 DEF OwnAnswers
  <2>4. Count \in Int
    BY DEF Count
  <2> QED BY <2>1, <2>2, <2>3, <2>4
<1> QED BY <1>2, <1>3, <1>4 DEF Pairing

\* The connection, the jobs and the generation.
LEMMA ConnectionKeeps ==
    ASSUME Pairing, MainStep \/ PoolStep \/ StoreJob \/ Notify \/ Lose \/ Stop
    PROVE  Pairing'
<1> USE DEF connVars, mainVars, jobVars, workerVars, pipeVars, channelVars, countVars,
            UnchangedMiner, UnchangedHost
<1>0. TypeOK /\ MaxSessions \in Nat /\ MaxJobs \in Nat
  BY PairingTyped
<1>1. /\ UNCHANGED <<stdin, stdout, line, solutions, searched, failed>>
      /\ UNCHANGED <<wjob, wgen, extraNonce2, submitted, sent, abandoned, discarded>>
      /\ host' = "run" => host = "run"
      /\ host' \in {host, "closing"}
      /\ wpc = "wait" <=> wpc' = "wait"
      /\ wpc' \in {wpc, "load"} /\ Running'
  <2> USE PairingTyped DEF Running
  <2>1. CASE MainStep
    BY <2>1 DEF MainStep, Dial, ConnectionLost, Joined, Again, StopHost, HostStopped
  <2>2. CASE PoolStep
    BY <2>2 DEF PoolStep, Subscribe, Authorize
  <2>3. CASE StoreJob \/ Notify \/ Lose \/ Stop
    BY <2>3 DEF StoreJob, Notify, Lose, Stop
  <2> QED BY <2>1, <2>2, <2>3
<1>2. /\ session' \in 0..MaxSessions /\ extraNonce1' \in 0..session'
      /\ issued' \in 0..MaxJobs /\ gen' \in Nat
  <2>1. CASE Dial
    BY <1>0, <2>1 DEF Dial, TypeOK
  <2>2. CASE Subscribe
    BY <1>0, <2>2 DEF Subscribe, TypeOK
  <2>3. CASE Notify
    BY <1>0, <2>3 DEF Notify, TypeOK
  <2>4. CASE UNCHANGED <<session, extraNonce1, issued, gen>>
    BY <1>0, <2>4 DEF TypeOK
  <2> QED
    BY <2>1, <2>2, <2>3, <2>4
    DEF MainStep, ConnectionLost, Joined, Again, StopHost, HostStopped, PoolStep, Authorize,
        StoreJob, Lose, Stop
<1>2a. /\ link' \in {"none", "up", "closed"}
       /\ phase' \in {"dial", "subscribe", "authorize", "mining", "unwind", "wait", "host",
                      "stopped"}
  <2> USE <1>0 DEF TypeOK
  <2>1. CASE MainStep
    BY <2>1 DEF MainStep, Dial, ConnectionLost, Joined, Again, StopHost, HostStopped
  <2>2. CASE PoolStep
    BY <2>2 DEF PoolStep, Subscribe, Authorize
  <2>3. CASE StoreJob \/ Notify \/ Lose \/ Stop
    BY <2>3 DEF StoreJob, Notify, Lose, Stop
  <2> QED BY <2>1, <2>2, <2>3
<1>3. currentJob' \in Job /\ built' \in Job
  <2> USE <1>0 DEF TypeOK
  <2>1. CASE MainStep
    BY <2>1 DEF MainStep, Dial, ConnectionLost, Joined, Again, StopHost, HostStopped
  <2>2. CASE PoolStep \/ Lose \/ Stop
    BY <2>2 DEF PoolStep, Subscribe, Authorize, Lose, Stop
  <2>3. CASE StoreJob
    BY <2>3, BoundsAssumption DEF StoreJob, Job, NoJob
  <2>4. CASE Notify
    <3>1. ASSUME extraNonce1 # 0
          PROVE  [id |-> issued + 1, extraNonce1 |-> extraNonce1] \in Job
      BY <2>4 DEF Notify, Job
    <3> QED BY <2>4, <3>1 DEF Notify
  <2> QED BY <2>1, <2>2, <2>3, <2>4
<1>4. stopping' \in BOOLEAN
  <2>1. UNCHANGED stopping \/ stopping' = TRUE
    BY DEF MainStep, Dial, ConnectionLost, Joined, Again, StopHost, HostStopped, PoolStep,
       Subscribe, Authorize, StoreJob, Notify, Lose, Stop
  <2>2. stopping \in BOOLEAN
    BY <1>0 DEF TypeOK
  <2> QED BY <2>1, <2>2
<1>4a. TypeOK'
  BY <1>1, <1>2, <1>2a, <1>3, <1>4, PairingTyped DEF TypeOK
<1>5. wpc' = "send" => sent < MaxRequests
  BY <1>1, PairingTyped DEF Requests
<1>6. Current' = Current
  BY <1>1 DEF Current
<1> QED BY <1>1, <1>4a, <1>5, <1>6, NothingPaired

-----------------------------------------------------------------------------
\* The worker's loads and its look at the context and the generation.
LEMMA WorkerChecks ==
    ASSUME Pairing, LoadJob \/ LoadGeneration \/ Check
    PROVE  Pairing'
<1> USE DEF connVars, mainVars, jobVars, workerVars, pipeVars, channelVars, countVars,
            UnchangedRest, UnchangedHost, Leave
<1>0. TypeOK /\ NoJob \in Job /\ Running
  BY PairingTyped DEF Job, NoJob
<1>1. /\ UNCHANGED <<stdin, stdout, line, solutions, searched, failed, host>>
      /\ UNCHANGED <<sent, abandoned, submitted, discarded>>
      /\ wpc # "wait" /\ wpc' # "wait"
      /\ extraNonce2' \in {0, extraNonce2}
      /\ wpc' = "send" => sent < MaxRequests
  BY DEF LoadJob, LoadGeneration, Check
<1>2. TypeOK'
  <2>1. wjob' \in Job /\ wgen' \in Nat
    BY <1>0, SMTT(30) DEF LoadJob, LoadGeneration, Check, TypeOK
  <2>2. wpc' \in {"off", "load", "generation", "check", "send", "wait"}
    BY DEF LoadJob, LoadGeneration, Check
  <2>3. UNCHANGED <<connVars, mainVars, jobVars>>
    BY DEF LoadJob, LoadGeneration, Check
  <2> QED BY <1>1, <2>1, <2>2, <2>3, PairingTyped, SMTT(30) DEF TypeOK
<1>2a. Running'
  BY <1>0 DEF LoadJob, LoadGeneration, Check, Running
<1>3. abandoned = 0 => Count <= 0
  BY <1>1, PairingTyped DEF Counted, Waiting
<1>4. (wpc = "wait" \/ Count > 0) /\ abandoned = 0 => Current' = Current
  BY <1>1, <1>3, PairingTyped DEF Count
<1> QED BY <1>1, <1>2, <1>2a, <1>4, NothingPaired

\* The worker writes a request, or finds the host gone.
LEMMA SendKeeps ==
    ASSUME Pairing, Send
    PROVE  Pairing'
<1> USE DEF connVars, mainVars, jobVars, workerVars, pipeVars, channelVars, countVars,
            UnchangedRest
<1>1. /\ wpc = "send" /\ Waiting = 0 /\ sent < MaxRequests
      /\ UNCHANGED <<stdout, line, solutions, searched, failed, host>>
      /\ UNCHANGED <<abandoned, submitted, discarded>>
      /\ UNCHANGED <<connVars, mainVars, jobVars>>
  BY PairingTyped DEF Send, Requests, Waiting
<1>2. CASE Leave /\ UNCHANGED <<sent, stdin>>
  <2>1. TypeOK'
    <3>1. NoJob \in Job
      BY BoundsAssumption DEF Job, NoJob
    <3> QED BY <1>1, <1>2, <3>1, PairingTyped DEF Leave, TypeOK
  <2>2. abandoned = 0 => Count <= 0
    BY <1>1, PairingTyped DEF Counted
  <2>3. Running'
    BY <1>1, <1>2, PairingTyped DEF Leave, Running
  <2> QED
    BY <1>1, <1>2, <2>1, <2>2, <2>3, NothingPaired, PairingTyped DEF Leave, Count
<1>3. CASE /\ sent' = sent + 1 /\ stdin' = Append(stdin, Current) /\ wpc' = "wait"
           /\ UNCHANGED <<wjob, wgen, extraNonce2>>
  <2>1. /\ stdin' \in Seq(Request) /\ Len(stdin') = Len(stdin) + 1
        /\ DOMAIN stdin' = 1..(Len(stdin) + 1) /\ stdin'[Len(stdin) + 1] = Current
        /\ \A i \in 1..Len(stdin) : stdin'[i] = stdin[i]
    BY <1>3, PairingTyped, AppendPlaces
  <2>2. Waiting' = 1 /\ Current' = Current /\ Count' = Count + 1
    BY <1>1, <1>3, <2>1, PairingTyped DEF Waiting, Current, Count, Lined
  <2>3. TypeOK'
    <3>1. /\ sent' \in 0..MaxRequests /\ abandoned' \in 0..sent' /\ failed' \in 0..sent'
          /\ submitted' \in 0..sent' /\ discarded' \in 0..sent'
      <4>1. /\ sent \in 0..MaxRequests /\ abandoned \in 0..sent /\ failed \in 0..sent
            /\ submitted \in 0..sent /\ discarded \in 0..sent /\ MaxRequests \in Nat
        BY PairingTyped DEF TypeOK
      <4> QED BY <1>1, <1>3, <4>1
    <3> QED BY <1>1, <1>3, <2>1, <3>1, PairingTyped DEF TypeOK
  <2>4. Requests'
    <3>1. /\ abandoned + submitted + discarded <= sent /\ extraNonce2 <= sent
          /\ failed + Len(stdin) <= sent
      BY <1>1, PairingTyped DEF Requests
    <3>2. /\ abandoned \in Nat /\ submitted \in Nat /\ discarded \in Nat
          /\ extraNonce2 \in Nat /\ failed \in Nat /\ Len(stdin) \in Nat /\ sent \in Nat
      BY PairingTyped
    <3> QED BY <1>1, <1>3, <2>1, <2>2, <3>1, <3>2 DEF Requests
  <2>4a. Running'
    BY <1>1, PairingTyped DEF Running
  <2>5. Errors'
    BY <1>1, PairingTyped DEF Errors
  <2>6. Counted'
    <3>1. /\ Counted /\ abandoned \in Nat /\ Waiting = 0 /\ Waiting' = 1
          /\ Count' = Count + 1 /\ abandoned' = abandoned
          /\ failed' = failed /\ host' = host
      BY <1>1, <2>2, PairingTyped
    <3>2. Count \in Int
      <4>1. /\ Len(stdin) \in Nat /\ Len(stdout) \in Nat
            /\ Len(Lined) \in Nat /\ Len(solutions) \in Nat /\ Len(searched) \in Nat
        <5>1. \A n \in 0..1 : n \in Nat
          OBVIOUS
        <5>2. Len(Lined) = 0 \/ Len(Lined) = 1
          BY PairingTyped
        <5> QED BY <5>1, <5>2, PairingTyped
      <4> QED BY <4>1 DEF Count
    <3> QED BY <3>1, <3>2 DEF Counted
  <2>7. OwnAnswers'
    <3>1. SUFFICES ASSUME abandoned = 0 PROVE OwnAnswers'
      BY <1>1 DEF OwnAnswers
    <3>2. \A i \in DOMAIN stdin' : stdin'[i] = Current
      <4>1. Len(stdin) \in Nat /\ \A i \in 1..Len(stdin) : stdin[i] = Current
        BY <3>1, PairingTyped DEF OwnAnswers
      <4>2. \A i \in 1..(Len(stdin) + 1) : i = Len(stdin) + 1 \/ i \in 1..Len(stdin)
        BY <4>1
      <4> QED BY <2>1, <4>1, <4>2
    <3> QED BY <1>1, <2>2, <3>1, <3>2, PairingTyped DEF OwnAnswers
  <2> QED BY <2>3, <2>4, <2>4a, <2>5, <2>6, <2>7 DEF Pairing
<1> QED BY <1>2, <1>3 DEF Send

\* The search under way is given up: one more answer will come unawaited.
LEMMA AbandonKeeps ==
    ASSUME Pairing, Abandon
    PROVE  Pairing'
<1> USE DEF connVars, mainVars, jobVars, pipeVars, channelVars, UnchangedRest, UnchangedHost
<1>1. /\ wpc = "wait" /\ Waiting = 1 /\ wpc' = "load" /\ Waiting' = 0
      /\ UNCHANGED <<stdin, stdout, line, solutions, searched, failed, host>>
      /\ UNCHANGED <<sent, submitted, discarded, connVars, mainVars, jobVars>>
      /\ abandoned' = abandoned + 1 /\ extraNonce2' = 0 /\ wjob' = NoJob /\ wgen' = 0
  BY DEF Abandon, Leave, Waiting
<1>2. /\ abandoned \in Nat /\ submitted \in Nat /\ discarded \in Nat /\ sent \in Nat
      /\ failed \in Nat /\ Len(stdin) \in Nat /\ Count \in Nat
      /\ abandoned + submitted + discarded + 1 <= sent /\ failed + Len(stdin) <= sent
  BY <1>1, PairingTyped DEF Requests, Count
<1>3. Count' = Count
  BY <1>1 DEF Count, Lined
<1>4. Requests'
  BY <1>1, <1>2 DEF Requests
<1>5. TypeOK'
  <2>1. NoJob \in Job /\ abandoned' \in 0..sent /\ 0 \in 0..MaxRequests
    BY <1>1, <1>2, BoundsAssumption DEF Job, NoJob
  <2> QED BY <1>1, <2>1, PairingTyped DEF TypeOK
<1>6. Running' /\ Errors'
  BY <1>1, PairingTyped DEF Running, Errors
<1>7. Counted'
  BY <1>1, <1>2, <1>3, PairingTyped DEF Counted
<1>8. OwnAnswers'
  BY <1>1, <1>2 DEF OwnAnswers
<1> QED BY <1>4, <1>5, <1>6, <1>7, <1>8 DEF Pairing

\* The round ends with an answer: any answer of the channel that has one.
LEMMA RoundEnds ==
    ASSUME Pairing, wpc = "wait", NextRound,
           UNCHANGED <<stdin, stdout, line, failed, host, sent, abandoned>>,
           UNCHANGED <<connVars, mainVars, jobVars>>,
           solutions' \in Seq(Answer) /\ Len(solutions') <= 1,
           searched' \in Seq(Answer) /\ Len(searched') <= 1,
           Count' = Count - 1, Count > 0,
           submitted' \in Nat, discarded' \in Nat,
           submitted' + discarded' <= submitted + discarded + 1,
           abandoned = 0 => discarded' = discarded
    PROVE  Pairing'
<1> USE DEF connVars, mainVars, jobVars
<1>1. /\ Waiting = 1 /\ Waiting' = 0 /\ wpc' = "check" /\ extraNonce2' = extraNonce2 + 1
      /\ UNCHANGED <<wjob, wgen>>
  BY DEF NextRound, Waiting
<1>2. /\ abandoned \in Nat /\ submitted \in Nat /\ discarded \in Nat /\ sent \in Nat
      /\ failed \in Nat /\ Len(stdin) \in Nat /\ Count \in Nat /\ extraNonce2 \in Nat
      /\ abandoned + submitted + discarded + 1 <= sent /\ failed + Len(stdin) <= sent
      /\ extraNonce2 + 1 <= sent /\ sent <= MaxRequests /\ MaxRequests \in Nat
  <2>1. sent <= MaxRequests
    BY PairingTyped DEF TypeOK
  <2> QED BY <1>1, <2>1, PairingTyped DEF Requests, Count
<1>2a. /\ abandoned + submitted' + discarded' <= sent
       /\ submitted' \in 0..sent /\ discarded' \in 0..sent
  <2>1. \A a, s, d, p, q, n \in Nat :
          a + s + d + 1 <= n /\ p + q <= s + d + 1
            => a + p + q <= n /\ p \in 0..n /\ q \in 0..n
    OBVIOUS
  <2>2. /\ abandoned \in Nat /\ submitted \in Nat /\ discarded \in Nat /\ sent \in Nat
        /\ abandoned + submitted + discarded + 1 <= sent
    BY <1>2
  <2> QED BY <2>1, <2>2, ZenonT(60)
<1>3. Requests'
  <2>1. /\ abandoned' = abandoned /\ sent' = sent /\ failed' = failed
        /\ Len(stdin') = Len(stdin)
    OBVIOUS
  <2>2. abandoned + submitted' + discarded' + 0 <= sent /\ extraNonce2' + 0 <= sent
    <3>1. \A a, p, q, n \in Nat : a + p + q <= n => a + p + q + 0 <= n
      OBVIOUS
    <3>2. abandoned + submitted' + discarded' + 0 <= sent
      BY <1>2, <1>2a, <3>1, Zenon
    <3>3. extraNonce2' + 0 <= sent
      BY <1>1, <1>2
    <3> QED BY <3>2, <3>3
  <2> QED BY <1>1, <1>2, <2>1, <2>2 DEF Requests
<1>4. TypeOK'
  <2>1. extraNonce2' \in 0..MaxRequests
    BY <1>1, <1>2
  <2> QED BY <1>1, <1>2a, <2>1, PairingTyped DEF TypeOK
<1>5. Running' /\ Errors'
  BY <1>1, PairingTyped DEF Running, Errors
<1>6. Counted'
  BY <1>1, <1>2, PairingTyped DEF Counted
<1>7. OwnAnswers'
  <2>1. SUFFICES ASSUME abandoned = 0 PROVE OwnAnswers'
    BY DEF OwnAnswers
  <2>2. Count' = 0
    BY <1>1, <1>2, <2>1, PairingTyped DEF Counted
  <2>3. /\ Len(stdin') \in Nat /\ Len(stdout') \in Nat /\ Len(Lined') \in Nat
        /\ Len(solutions') \in Nat /\ Len(searched') \in Nat
    BY PairingTyped, LenProperties DEF Lined
  <2>4. /\ Len(stdin') = 0 /\ Len(stdout') = 0 /\ Len(Lined') = 0
        /\ Len(solutions') = 0 /\ Len(searched') = 0
    BY <2>2, <2>3 DEF Count
  <2>5. /\ DOMAIN stdin' = {} /\ DOMAIN stdout' = {} /\ line' = None
        /\ solutions' = << >> /\ searched' = << >>
    <3>1. solutions' = << >> /\ searched' = << >>
      BY <2>4, EmptySeq
    <3> QED BY <2>4, <3>1, PairingTyped DEF Lined
  <2>6. discarded' = 0
    BY <2>1, PairingTyped DEF OwnAnswers
  <2> QED BY <2>5, <2>6 DEF OwnAnswers
<1> QED BY <1>3, <1>4, <1>5, <1>6, <1>7 DEF Pairing

LEMMA TakeKeeps ==
    ASSUME Pairing, TakeSearched \/ TakeSolution
    PROVE  Pairing'
<1> USE DEF connVars, mainVars, jobVars, pipeVars, countVars, UnchangedRest
<1>1. << >> \in Seq(Answer) /\ Len(<< >>) = 0
  OBVIOUS
<1>2. CASE TakeSearched
  <2>1. /\ wpc = "wait" /\ NextRound /\ searched # << >> /\ searched' = << >>
        /\ UNCHANGED <<stdin, stdout, line, solutions, failed, host, sent, abandoned>>
        /\ UNCHANGED <<submitted, discarded, connVars, mainVars, jobVars>>
    BY <1>2 DEF TakeSearched
  <2>2. Len(searched) = 1 /\ Len(searched') = 0 /\ Lined' = Lined
    BY <1>1, <2>1, PairingTyped DEF Lined
  <2>3. Count' = Count - 1 /\ Count > 0
    BY <2>1, <2>2, PairingTyped DEF Count
  <2>4. /\ solutions' \in Seq(Answer) /\ Len(solutions') <= 1
        /\ searched' \in Seq(Answer) /\ Len(searched') <= 1
    <3>1. Len(solutions) <= 1 /\ Len(searched) <= 1
      BY PairingTyped, Zenon
    <3>2. 0 <= 1
      OBVIOUS
    <3>3. solutions \in Seq(Answer) /\ searched \in Seq(Answer)
      BY PairingTyped
    <3> QED BY <1>1, <2>1, <2>2, <3>1, <3>2, <3>3, Zenon
  <2>5. /\ submitted' \in Nat /\ discarded' \in Nat /\ discarded' = discarded
        /\ submitted' + discarded' <= submitted + discarded + 1
    BY <2>1, PairingTyped
  <2> QED BY <2>1, <2>3, <2>4, <2>5, RoundEnds
<1>3. CASE TakeSolution
  <2>1. /\ wpc = "wait" /\ NextRound /\ solutions # << >> /\ solutions' = << >>
        /\ UNCHANGED <<stdin, stdout, line, searched, failed, host, sent, abandoned>>
        /\ UNCHANGED <<connVars, mainVars, jobVars>>
        /\ OnSolution(Head(solutions))
    BY <1>3 DEF TakeSolution
  <2>2. Len(solutions) = 1 /\ Len(solutions') = 0 /\ Lined' = Lined
    BY <1>1, <2>1, PairingTyped DEF Lined
  <2>3. Count' = Count - 1 /\ Count > 0
    BY <2>1, <2>2, PairingTyped DEF Count
  <2>4. Head(solutions) = solutions[1]
    BY <2>1, PairingTyped, TailPlaces
  <2>5. abandoned = 0 => discarded' = discarded
    BY <2>1, <2>4, PairingTyped DEF OnSolution, OwnAnswers
  <2>6. /\ submitted' \in Nat /\ discarded' \in Nat
        /\ submitted' + discarded' <= submitted + discarded + 1
    BY <2>1, PairingTyped, SMTT(30) DEF OnSolution
  <2>7. /\ solutions' \in Seq(Answer) /\ Len(solutions') <= 1
        /\ searched' \in Seq(Answer) /\ Len(searched') <= 1
    <3>1. Len(solutions) <= 1 /\ Len(searched) <= 1
      BY PairingTyped, Zenon
    <3>2. 0 <= 1
      OBVIOUS
    <3>3. solutions \in Seq(Answer) /\ searched \in Seq(Answer)
      BY PairingTyped
    <3> QED BY <1>1, <2>1, <2>2, <3>1, <3>2, <3>3, Zenon
  <2> QED BY <2>1, <2>3, <2>5, <2>6, <2>7, RoundEnds
<1> QED BY <1>2, <1>3

-----------------------------------------------------------------------------
\* A host that searches: the request becomes an answer.
LEMMA SweepKeeps ==
    ASSUME Pairing, Sweep
    PROVE  Pairing'
<1> USE DEF connVars, mainVars, jobVars, workerVars, channelVars, countVars, UnchangedMiner
<1>1. PICK type \in {"solution", "searched", "error"} :
         /\ stdout' = Append(stdout, [type |-> type, of |-> Head(stdin)])
         /\ failed' = IF type = "error" THEN failed + 1 ELSE failed
  BY DEF Sweep
<1>2. /\ stdin # << >> /\ stdin' = Tail(stdin)
      /\ UNCHANGED <<host, line, solutions, searched, connVars, mainVars, jobVars>>
      /\ UNCHANGED <<wpc, wjob, wgen, extraNonce2, submitted, sent, abandoned, discarded>>
  BY DEF Sweep
<1> DEFINE answer == [type |-> type, of |-> Head(stdin)]
<1>3. /\ Tail(stdin) \in Seq(Request) /\ Len(Tail(stdin)) = Len(stdin) - 1
      /\ Len(stdin) \in Nat \ {0} /\ DOMAIN Tail(stdin) = 1..(Len(stdin) - 1)
      /\ Head(stdin) = stdin[1] /\ Head(stdin) \in Request
      /\ \A i \in 1..(Len(stdin) - 1) : Tail(stdin)[i] = stdin[i + 1]
  BY <1>2, PairingTyped, TailPlaces
<1>4. answer \in Answer /\ answer.type = type /\ answer.of = stdin[1]
  BY <1>3, AnswerFacts
<1> HIDE DEF answer
<1>5. /\ stdout' \in Seq(Answer) /\ Len(stdout') = Len(stdout) + 1
      /\ Len(stdout) \in Nat /\ DOMAIN stdout' = 1..(Len(stdout) + 1)
      /\ stdout'[Len(stdout) + 1] = answer
      /\ \A i \in 1..Len(stdout) : stdout'[i] = stdout[i]
  BY <1>1, <1>4, PairingTyped, AppendPlaces DEF answer
<1>6. \A i \in 1..(Len(stdout) + 1) : i = Len(stdout) + 1 \/ i \in 1..Len(stdout)
  BY <1>5
<1>7. Waiting' = Waiting /\ Current' = Current /\ Lined' = Lined
  BY <1>2 DEF Waiting, Current, Lined
<1>8. Count' = Count
  BY <1>2, <1>3, <1>5, <1>7, PairingTyped DEF Count
<1>9. /\ failed' \in Nat /\ failed' + Len(stdin') <= sent
      /\ failed' <= sent /\ (failed' = 0 => failed = 0 /\ type # "error")
  <2>1. failed + Len(stdin) <= sent /\ failed \in Nat /\ Len(stdin) \in Nat /\ sent \in Nat
    BY PairingTyped DEF Requests
  <2>2. failed' \in {failed, failed + 1} /\ (type = "error" => failed' = failed + 1)
    BY <1>1
  <2> QED BY <1>2, <1>3, <2>1, <2>2
<1>10. TypeOK'
  <2>1. failed' \in 0..sent
    BY <1>9, PairingTyped
  <2> QED BY <1>2, <1>3, <1>5, <2>1, PairingTyped DEF TypeOK
<1>11. Requests'
  BY <1>2, <1>7, <1>9, PairingTyped DEF Requests
<1>12. Running'
  BY <1>2, PairingTyped DEF Running
<1>13. Errors'
  <2>1. ASSUME failed' = 0, NEW i \in DOMAIN stdout'
        PROVE  stdout'[i].type # "error"
    BY <1>4, <1>5, <1>6, <1>9, <2>1, PairingTyped DEF Errors
  <2> QED BY <1>2, <2>1, PairingTyped DEF Errors
<1>14. Counted'
  BY <1>2, <1>7, <1>8, <1>9, PairingTyped DEF Counted
<1>15. OwnAnswers'
  <2>1. SUFFICES ASSUME abandoned = 0 PROVE OwnAnswers'
    BY <1>2 DEF OwnAnswers
  <2>2. /\ \A i \in 1..Len(stdin) : stdin[i] = Current
        /\ \A i \in 1..Len(stdout) : stdout[i].of = Current
    BY <2>1, PairingTyped DEF OwnAnswers
  <2>3. \A i \in DOMAIN stdout' : stdout'[i].of = Current
    BY <1>3, <1>4, <1>5, <1>6, <2>2
  <2>4. \A i \in DOMAIN stdin' : stdin'[i] = Current
    <3>1. \A i \in 1..(Len(stdin) - 1) : i + 1 \in 1..Len(stdin)
      BY <1>3
    <3> QED BY <1>2, <1>3, <2>2, <3>1
  <2> QED BY <1>2, <1>7, <2>1, <2>3, <2>4, PairingTyped DEF OwnAnswers
<1> QED BY <1>10, <1>11, <1>12, <1>13, <1>14, <1>15 DEF Pairing

\* What shrinks without being taken: a host that dies loses its requests, a closed
\* pipe its answers, and an error is read for nothing.
LEMMA LosesAnswers ==
    ASSUME Pairing, TypeOK',
           UNCHANGED <<connVars, mainVars, jobVars, workerVars, countVars>>,
           UNCHANGED <<channelVars, line>>,
           host' # "run" \/ failed # 0, failed' = failed,
           host' = "run" => host = "run",
           Len(stdin') <= Len(stdin), Len(stdout') <= Len(stdout),
           Len(stdin') \in Nat, Len(stdout') \in Nat,
           \A i \in DOMAIN stdin' : \E j \in DOMAIN stdin : stdin'[i] = stdin[j],
           \A i \in DOMAIN stdout' : \E j \in DOMAIN stdout : stdout'[i] = stdout[j]
    PROVE  Pairing'
<1> USE DEF connVars, mainVars, jobVars, workerVars, countVars, channelVars
<1>1. Waiting' = Waiting /\ Current' = Current /\ Lined' = Lined
  BY DEF Waiting, Current, Lined
<1>2. Count' <= Count /\ Count \in Nat /\ Count' \in Nat
  <2>1. /\ Len(Lined) \in Nat /\ Len(solutions) \in Nat /\ Len(searched) \in Nat
        /\ Len(stdin) \in Nat /\ Len(stdout) \in Nat
    BY PairingTyped
  <2> QED BY <1>1, <2>1 DEF Count
<1>3. Requests'
  <2>1. /\ failed + Len(stdin) <= sent /\ failed \in Nat /\ Len(stdin) \in Nat /\ sent \in Nat
    BY PairingTyped DEF Requests
  <2>2. failed + Len(stdin') <= sent
    BY <2>1
  <2> QED BY <1>1, <2>2, PairingTyped DEF Requests
<1>4. Running' /\ Errors'
  BY PairingTyped DEF Running, Errors
<1>5. Counted'
  BY <1>1, <1>2, PairingTyped, SMTT(30) DEF Counted
<1>6. OwnAnswers'
  BY <1>1, PairingTyped DEF OwnAnswers
<1> QED BY <1>3, <1>4, <1>5, <1>6 DEF Pairing

LEMMA HostEndKeeps ==
    ASSUME Pairing, HostExits \/ HostDies \/ PipeClosed
    PROVE  Pairing'
<1> USE DEF connVars, mainVars, jobVars, workerVars, countVars, channelVars, UnchangedMiner
<1>1. /\ UNCHANGED <<connVars, mainVars, jobVars, workerVars, countVars>>
      /\ UNCHANGED <<channelVars, line, failed>> /\ host' = "exited"
      /\ stdin' \in {stdin, << >>} /\ stdout' \in {stdout, << >>}
  BY DEF HostExits, HostDies, PipeClosed
<1>2. /\ << >> \in Seq(Request) /\ << >> \in Seq(Answer)
      /\ Len(<< >>) = 0 /\ DOMAIN << >> = {}
  OBVIOUS
<1>3. TypeOK'
  <2>1. stdin' \in Seq(Request) /\ stdout' \in Seq(Answer)
    BY <1>1, <1>2, PairingTyped
  <2>2. /\ UNCHANGED <<link, session, issued, phase, stopping, extraNonce1>>
        /\ UNCHANGED <<gen, currentJob, built, wpc, wjob, wgen, extraNonce2>>
        /\ UNCHANGED <<line, solutions, searched, sent, abandoned, failed, submitted, discarded>>
    BY <1>1
  <2>3. TypeOK /\ host' \in {"run", "closing", "exited"}
    BY <1>1, PairingTyped
  <2> HIDE DEF connVars, mainVars, jobVars, workerVars, countVars, channelVars, UnchangedMiner
  <2> QED BY <2>1, <2>2, <2>3, SMTT(30) DEF TypeOK
<1>4. /\ Len(stdin') \in Nat /\ Len(stdin') <= Len(stdin)
      /\ \A i \in DOMAIN stdin' : \E j \in DOMAIN stdin : stdin'[i] = stdin[j]
  <2>1. CASE stdin' = stdin
    BY <2>1, PairingTyped
  <2>2. CASE stdin' = << >>
    BY <1>2, <2>2, PairingTyped
  <2> QED BY <1>1, <2>1, <2>2
<1>5. /\ Len(stdout') \in Nat /\ Len(stdout') <= Len(stdout)
      /\ \A i \in DOMAIN stdout' : \E j \in DOMAIN stdout : stdout'[i] = stdout[j]
  <2>1. CASE stdout' = stdout
    BY <2>1, PairingTyped
  <2>2. CASE stdout' = << >>
    BY <1>2, <2>2, PairingTyped
  <2> QED BY <1>1, <2>1, <2>2
<1> QED BY <1>1, <1>3, <1>4, <1>5, LosesAnswers

\* The read loop takes a line: an error is dropped, an answer moves on.
LEMMA ReadLineKeeps ==
    ASSUME Pairing, ReadLine
    PROVE  Pairing'
<1> USE DEF connVars, mainVars, jobVars, workerVars, countVars, channelVars, UnchangedMiner
<1>1. /\ line = None /\ stdout # << >> /\ stdout' = Tail(stdout)
      /\ line' = IF Head(stdout).type = "error" THEN None ELSE Head(stdout)
      /\ UNCHANGED <<connVars, mainVars, jobVars, workerVars, countVars>>
      /\ UNCHANGED <<channelVars, failed, host, stdin>>
  BY DEF ReadLine
<1>2. /\ stdout' \in Seq(Answer) /\ Len(stdout') = Len(stdout) - 1
      /\ Len(stdout) \in Nat \ {0} /\ DOMAIN stdout = 1..Len(stdout)
      /\ DOMAIN stdout' = 1..(Len(stdout) - 1)
      /\ Head(stdout) = stdout[1] /\ Head(stdout) \in Answer
      /\ \A i \in 1..(Len(stdout) - 1) : stdout'[i] = stdout[i + 1]
  BY <1>1, PairingTyped, TailPlaces
<1>3. \A i \in 1..(Len(stdout) - 1) : i + 1 \in 1..Len(stdout)
  BY <1>2
<1>4. TypeOK'
  BY <1>1, <1>2, PairingTyped DEF TypeOK
<1>5. CASE Head(stdout).type = "error"
  <2>1. line' = line
    BY <1>1, <1>5
  <2>1a. failed # 0
    <3>1. 1 \in DOMAIN stdout /\ stdout[1].type = "error"
      BY <1>2, <1>5
    <3>2. Errors
      BY PairingTyped
    <3> QED BY <3>1, <3>2 DEF Errors
  <2>2. /\ Len(stdin') \in Nat /\ Len(stdin') <= Len(stdin)
        /\ \A i \in DOMAIN stdin' : \E j \in DOMAIN stdin : stdin'[i] = stdin[j]
    BY <1>1, PairingTyped
  <2>3. Len(stdout') \in Nat /\ Len(stdout') <= Len(stdout)
    BY <1>2
  <2>4. \A i \in DOMAIN stdout' : \E j \in DOMAIN stdout : stdout'[i] = stdout[j]
    BY <1>2, <1>3
  <2> QED BY <1>1, <1>4, <2>1, <2>1a, <2>2, <2>3, <2>4, LosesAnswers
<1>6. CASE Head(stdout).type # "error"
  <2>1. /\ line' = stdout[1] /\ line' # None /\ line'.type # "error"
        /\ Len(Lined) = 0 /\ Len(Lined') = 1
    BY <1>1, <1>2, <1>6, AnswerFacts DEF Lined
  <2>2. Waiting' = Waiting /\ Current' = Current
    BY <1>1 DEF Waiting, Current
  <2>3. Count' = Count
    BY <1>1, <1>2, <2>1, PairingTyped DEF Count
  <2>4. Requests' /\ Running'
    BY <1>1, <2>2, PairingTyped DEF Requests, Running
  <2>5. Errors'
    <3>1. failed' = failed /\ (failed = 0 => \A i \in DOMAIN stdout : stdout[i].type # "error")
      BY <1>1, PairingTyped DEF Errors
    <3>2. failed = 0 => \A i \in DOMAIN stdout' : stdout'[i].type # "error"
      BY <1>2, <1>3, <3>1
    <3> QED BY <2>1, <3>1, <3>2 DEF Errors
  <2>6. Counted'
    BY <1>1, <2>2, <2>3, PairingTyped DEF Counted
  <2>7. OwnAnswers'
    <3>1. SUFFICES ASSUME abandoned = 0 PROVE OwnAnswers'
      BY <1>1 DEF OwnAnswers
    <3>2. \A i \in 1..Len(stdout) : stdout[i].of = Current
      BY <3>1, PairingTyped DEF OwnAnswers
    <3>3. line'.of = Current /\ \A i \in DOMAIN stdout' : stdout'[i].of = Current
      BY <1>2, <1>3, <2>1, <3>2
    <3> QED BY <1>1, <2>2, <3>1, <3>3, PairingTyped DEF OwnAnswers
  <2> QED BY <1>4, <2>4, <2>5, <2>6, <2>7 DEF Pairing
<1> QED BY <1>5, <1>6

\* An answer goes to the channel of its kind, when that is empty.
LEMMA HandOverKeeps ==
    ASSUME Pairing, HandOver
    PROVE  Pairing'
<1> USE DEF connVars, mainVars, jobVars, workerVars, countVars, UnchangedMiner
<1>1. /\ line # None /\ line' = None
      /\ \/ solutions = << >> /\ solutions' = <<line>> /\ searched' = searched
         \/ searched = << >> /\ searched' = <<line>> /\ solutions' = solutions
      /\ UNCHANGED <<connVars, mainVars, jobVars, workerVars, countVars>>
      /\ UNCHANGED <<failed, host, stdin, stdout>>
  BY DEF HandOver
<1>2. line \in Answer
  BY <1>1, PairingTyped DEF TypeOK
<1>3. <<line>> \in Seq(Answer) /\ Len(<<line>>) = 1 /\ <<line>>[1] = line
      /\ Len(<< >>) = 0
  BY <1>2
<1>4. /\ solutions' \in Seq(Answer) /\ Len(solutions') <= 1
      /\ searched' \in Seq(Answer) /\ Len(searched') <= 1
      /\ Len(solutions') + Len(searched') = Len(solutions) + Len(searched) + 1
      /\ Len(solutions') \in Nat /\ Len(searched') \in Nat
  <2>1. /\ Len(solutions) \in Nat /\ Len(searched) \in Nat
        /\ Len(solutions) <= 1 /\ Len(searched) <= 1
        /\ solutions \in Seq(Answer) /\ searched \in Seq(Answer)
    BY PairingTyped
  <2>2. CASE solutions = << >> /\ solutions' = <<line>> /\ searched' = searched
    <3>1. Len(solutions) = 0 /\ Len(solutions') = 1
      BY <1>3, <2>2
    <3> QED BY <1>3, <2>1, <2>2, <3>1
  <2>3. CASE searched = << >> /\ searched' = <<line>> /\ solutions' = solutions
    <3>1. Len(searched) = 0 /\ Len(searched') = 1
      BY <1>3, <2>3
    <3> QED BY <1>3, <2>1, <2>3, <3>1
  <2> QED BY <1>1, <2>2, <2>3
<1>5. Len(Lined) = 1 /\ Len(Lined') = 0
  BY <1>1 DEF Lined
<1>6. Waiting' = Waiting /\ Current' = Current
  BY <1>1 DEF Waiting, Current
<1>7. Count' = Count
  <2>1. /\ Len(solutions) \in Nat /\ Len(searched) \in Nat
        /\ Len(stdin) \in Nat /\ Len(stdout) \in Nat
        /\ Len(stdin') = Len(stdin) /\ Len(stdout') = Len(stdout)
    BY <1>1, PairingTyped
  <2> QED BY <1>4, <1>5, <2>1 DEF Count
<1>8. TypeOK'
  BY <1>1, <1>4, PairingTyped DEF TypeOK
<1>9. Requests' /\ Running'
  BY <1>1, <1>6, PairingTyped DEF Requests, Running
<1>10. Errors' /\ Counted'
  BY <1>1, <1>6, <1>7, PairingTyped DEF Errors, Counted
<1>11. OwnAnswers'
  <2>1. SUFFICES ASSUME abandoned = 0 PROVE OwnAnswers'
    BY <1>1 DEF OwnAnswers
  <2>2. /\ solutions' # << >> => solutions'[1].of = Current
        /\ searched' # << >> => searched'[1].of = Current
    BY <1>1, <1>3, <2>1, PairingTyped DEF OwnAnswers
  <2> QED BY <1>1, <1>6, <2>1, <2>2, PairingTyped DEF OwnAnswers
<1> QED BY <1>8, <1>9, <1>10, <1>11 DEF Pairing

-----------------------------------------------------------------------------
LEMMA PairingStep == Pairing /\ [Next]_vars => Pairing'
<1> SUFFICES ASSUME Pairing, [Next]_vars PROVE Pairing'
  OBVIOUS
<1>1. CASE UNCHANGED vars
  <2> USE DEF vars, connVars, mainVars, jobVars, workerVars, pipeVars, channelVars, countVars
  <2>1. TypeOK' /\ Running'
    BY <1>1, PairingTyped DEF TypeOK, Running
  <2> QED
    BY <1>1, <2>1, NothingPaired, PairingTyped DEF Current, Requests
<1>2. CASE WorkerStep
  BY <1>2, WorkerChecks, SendKeeps, AbandonKeeps, TakeKeeps DEF WorkerStep
<1>3. CASE HostStep \/ HostReader \/ HostDies
  BY <1>3, SweepKeeps, HostEndKeeps, ReadLineKeeps, HandOverKeeps DEF HostStep, HostReader
<1> QED BY <1>1, <1>2, <1>3, ConnectionKeeps DEF Next, Finished

LEMMA PairingHolds == Spec => []Pairing
BY PairingInit, PairingStep, PTL DEF Spec

\* No counter passes its bound, no channel its one place, and what the pipes carry
\* are requests and answers, for any number of connections, jobs and requests.
THEOREM GpuTypeCorrect == Spec => []TypeOK
<1>1. Pairing => TypeOK
  BY DEF Pairing
<1> QED BY <1>1, PairingHolds, PTL

\* miner.go:621-664, host.go:105-147: order alone pairs the host's answers with
\* the worker's requests while no search is abandoned, and every one abandoned
\* leaves exactly one more answer ahead of a worker whose host does not fail.
THEOREM AnswersPairedByOrder == Spec => []Paired
<1>1. Pairing => Paired
  <2> SUFFICES ASSUME Pairing PROVE Paired
    OBVIOUS
  <2>1. host = "run" /\ failed = 0 => Count = abandoned + (IF wpc = "wait" THEN 1 ELSE 0)
    BY PairingTyped DEF Counted, Waiting
  <2>2. ASSUME abandoned = 0
        PROVE  Outstanding \subseteq {Current} /\ discarded = 0
    <3>1. OwnAnswers
      BY PairingTyped
    <3>2. line # None => <<line>>[1].of = Current
      BY <2>2, <3>1 DEF OwnAnswers
    <3>3. \A c \in {Lined, solutions, searched} : c # << >> => c[1].of = Current
      BY <2>2, <3>1, <3>2 DEF OwnAnswers, Lined
    <3> QED BY <2>2, <3>1, <3>3 DEF OwnAnswers, Outstanding
  <2> QED BY <2>1, <2>2 DEF Paired
<1> QED BY <1>1, PairingHolds, PTL
=============================================================================
