------------------------------- MODULE GpuMiner -------------------------------
(***************************************************************************)
(* The GPU miner (cmd/gpuminer) and its host process (cl/host.cpp,         *)
(* cuda/host.cpp).  One host outlives every connection: mineJob writes it  *)
(* requests, it answers each in turn, and a read loop sorts the answers    *)
(* into channels.  Nothing in an answer is used to tell its request, so    *)
(* the two are paired by order alone, across reconnections too.            *)
(*                                                                         *)
(* The connection is the CPU miner's (CpuMiner has its queues); here the   *)
(* pool's messages are handled as they are sent.  Progress messages only   *)
(* feed a statistic, never block the host's read loop, and are left out.   *)
(***************************************************************************)
EXTENDS Integers, Sequences

CONSTANTS
    None,          \* no answer
    MaxSessions,   \* bound of the model: connections
    MaxJobs,       \* bound of the model: notifications
    MaxRequests    \* bound of the model: requests to the host

ASSUME BoundsAssumption ==
    MaxSessions \in Nat /\ MaxJobs \in Nat /\ MaxRequests \in Nat

VARIABLES
    link,          \* the connection: "none", "up" or "closed"
    session,       \* connections so far; the pool's extraNonce1 of this one
    issued,        \* notifications so far
    phase,         \* where Run is
    stopping,      \* the context is cancelled
    extraNonce1,   \* 0 before the first subscription
    gen, currentJob,
    built,         \* the job handleNotify is about to store
    wpc, wjob, wgen, extraNonce2,   \* the hash worker's place and locals
    submitted,     \* calls of submitShare
    host,          \* the process: "run", "closing" (its stdin is closed) or "exited"
    stdin, stdout, \* the pipes
    line,          \* the answer the read loop is about to hand over
    solutions, searched,   \* its channels, of one element each
    sent,          \* requests so far (history)
    abandoned,     \* requests left because the connection ended (history)
    failed,        \* requests the host answered with an error (history)
    discarded      \* solutions that were not submitted (history)

connVars == <<link, session, issued>>
mainVars == <<phase, stopping, extraNonce1>>
jobVars == <<gen, currentJob, built>>
workerVars == <<wpc, wjob, wgen, extraNonce2>>
pipeVars == <<host, stdin, stdout, line>>
channelVars == <<solutions, searched>>
countVars == <<submitted, sent, abandoned, discarded>>
vars == <<connVars, mainVars, jobVars, workerVars, pipeVars, channelVars, failed, countVars>>

Job == [id : 0..MaxJobs, extraNonce1 : 0..MaxSessions]
NoJob == [id |-> 0, extraNonce1 |-> 0]
Request == [job : Job, extraNonce2 : 0..MaxRequests]
Answer == [type : {"solution", "searched", "error"}, of : Request]

ASSUME NoAnswerAssumption == None \notin Answer

TypeOK ==
    /\ link \in {"none", "up", "closed"}
    /\ session \in 0..MaxSessions /\ issued \in 0..MaxJobs
    /\ phase \in {"dial", "subscribe", "authorize", "mining", "unwind", "wait", "host", "stopped"}
    /\ stopping \in BOOLEAN /\ extraNonce1 \in 0..session
    /\ gen \in Nat /\ currentJob \in Job /\ built \in Job
    /\ wpc \in {"off", "load", "generation", "check", "send", "wait"}
    /\ wjob \in Job /\ wgen \in Nat /\ extraNonce2 \in 0..MaxRequests
    /\ host \in {"run", "closing", "exited"}
    /\ stdin \in Seq(Request) /\ stdout \in Seq(Answer)
    /\ line \in Answer \cup {None}
    /\ \A c \in {solutions, searched} : c \in Seq(Answer) /\ Len(c) <= 1
    /\ sent \in 0..MaxRequests /\ abandoned \in 0..sent /\ failed \in 0..sent
    /\ submitted \in 0..sent /\ discarded \in 0..sent

Init ==
    /\ link = "none" /\ session = 0 /\ issued = 0
    /\ phase = "dial" /\ stopping = FALSE /\ extraNonce1 = 0
    /\ gen = 0 /\ currentJob = NoJob /\ built = NoJob
    /\ wpc = "off" /\ wjob = NoJob /\ wgen = 0 /\ extraNonce2 = 0
    /\ host = "run" /\ stdin = << >> /\ stdout = << >> /\ line = None
    /\ solutions = << >> /\ searched = << >>
    /\ submitted = 0 /\ sent = 0 /\ abandoned = 0 /\ failed = 0 /\ discarded = 0

-----------------------------------------------------------------------------
UnchangedMiner == UNCHANGED <<jobVars, workerVars, countVars>>
UnchangedHost == UNCHANGED <<pipeVars, channelVars, failed>>

\* connectAndMine: a new connection is a new generation; or the dial fails.
Dial ==
    /\ phase = "dial"
    /\ \/ /\ session < MaxSessions
          /\ session' = session + 1
          /\ link' = IF stopping THEN "closed" ELSE "up"
          /\ gen' = gen + 1
          /\ phase' = "subscribe"
       \/ phase' = "wait" /\ UNCHANGED <<session, link, gen>>
    /\ UNCHANGED <<issued, stopping, extraNonce1, currentJob, built, workerVars, countVars>>
    /\ UnchangedHost

\* subscribe's result,
Subscribe ==
    /\ phase = "subscribe" /\ link = "up" /\ built = NoJob
    /\ extraNonce1' = session
    /\ phase' = "authorize"
    /\ UNCHANGED <<connVars, stopping>> /\ UnchangedMiner /\ UnchangedHost

\* and authorize's: the worker starts, or the connection is given up.
Authorize ==
    /\ phase = "authorize" /\ link = "up" /\ built = NoJob
    /\ \/ phase' = "mining" /\ wpc' = "load" /\ UNCHANGED link
       \/ phase' = "wait" /\ link' = "closed" /\ UNCHANGED wpc
    /\ UNCHANGED <<session, issued, stopping, extraNonce1, jobVars, wjob, wgen, extraNonce2,
                   countVars>>
    /\ UnchangedHost

\* A read fails: the handshake returns, or the read loop does and the
\* connection's context is cancelled.
ConnectionLost ==
    /\ link = "closed" /\ phase \in {"subscribe", "authorize", "mining"} /\ built = NoJob
    /\ phase' = IF phase = "mining" THEN "unwind" ELSE "wait"
    /\ UNCHANGED <<connVars, stopping, extraNonce1>> /\ UnchangedMiner /\ UnchangedHost

\* connectAndMine waits for its goroutines, Run returns or dials again; when it
\* returns, the deferred host.stop runs.
Joined ==
    /\ phase = "unwind" /\ wpc = "off"
    /\ phase' = "wait"
    /\ UNCHANGED <<connVars, stopping, extraNonce1>> /\ UnchangedMiner /\ UnchangedHost

Again ==
    /\ phase = "wait"
    /\ phase' = IF stopping THEN "host" ELSE "dial"
    /\ UNCHANGED <<connVars, stopping, extraNonce1>> /\ UnchangedMiner /\ UnchangedHost

\* host.stop closes stdin,
StopHost ==
    /\ phase = "host" /\ host = "run"
    /\ host' = "closing"
    /\ UNCHANGED <<connVars, mainVars, stdin, stdout, line, channelVars, failed>>
    /\ UnchangedMiner

\* and waits for the process, and for the read loop to end.
HostStopped ==
    /\ phase = "host" /\ host = "exited" /\ stdout = << >> /\ line = None
    /\ phase' = "stopped"
    /\ UNCHANGED <<connVars, stopping, extraNonce1>> /\ UnchangedMiner /\ UnchangedHost

\* The pool or the network closes the connection, or the miner is told to stop.
Lose ==
    /\ link = "up"
    /\ link' = "closed"
    /\ UNCHANGED <<session, issued, mainVars>> /\ UnchangedMiner /\ UnchangedHost

Stop ==
    /\ ~stopping
    /\ stopping' = TRUE
    /\ link' = IF link = "up" THEN "closed" ELSE link
    /\ UNCHANGED <<session, issued, phase, extraNonce1>> /\ UnchangedMiner /\ UnchangedHost

\* handleNotify as far as the generation (it is dropped without an extraNonce1),
Notify ==
    /\ link = "up" /\ phase \in {"subscribe", "authorize", "mining"}
    /\ issued < MaxJobs /\ built = NoJob
    /\ issued' = issued + 1
    /\ IF extraNonce1 = 0 THEN UNCHANGED <<gen, built>>
       ELSE gen' = gen + 1 /\ built' = [id |-> issued + 1, extraNonce1 |-> extraNonce1]
    /\ UNCHANGED <<link, session, mainVars, currentJob, workerVars, countVars>>
    /\ UnchangedHost

\* and the job is stored.
StoreJob ==
    /\ built # NoJob
    /\ currentJob' = built /\ built' = NoJob
    /\ UNCHANGED <<connVars, mainVars, gen, workerVars, countVars>>
    /\ UnchangedHost

-----------------------------------------------------------------------------
Cancelled == phase = "unwind" \/ stopping
UnchangedRest == UNCHANGED <<connVars, mainVars, jobVars>>

LoadJob ==
    /\ wpc = "load"
    /\ IF Cancelled THEN wpc' = "off" /\ UNCHANGED wjob
       ELSE currentJob # NoJob /\ wpc' = "generation" /\ wjob' = currentJob
    /\ UNCHANGED <<wgen, extraNonce2, countVars>> /\ UnchangedRest /\ UnchangedHost

LoadGeneration ==
    /\ wpc = "generation"
    /\ wgen' = gen /\ extraNonce2' = 0
    /\ wpc' = "check"
    /\ UNCHANGED <<wjob, countVars>> /\ UnchangedRest /\ UnchangedHost

Leave == wpc' = "load" /\ wjob' = NoJob /\ wgen' = 0 /\ extraNonce2' = 0

\* mineJob looks at the context and the generation between two sweeps only,
Check ==
    /\ wpc = "check"
    /\ IF Cancelled \/ wgen # gen THEN Leave
       ELSE sent < MaxRequests /\ wpc' = "send" /\ UNCHANGED <<wjob, wgen, extraNonce2>>
    /\ UNCHANGED countVars /\ UnchangedRest /\ UnchangedHost

Current == [job |-> wjob, extraNonce2 |-> extraNonce2]

\* then hands the host the header with this extraNonce2.  A write to a host that
\* is gone fails, and the worker starts over.
Send ==
    /\ wpc = "send"
    /\ \/ /\ host # "exited"
          /\ sent' = sent + 1
          /\ stdin' = Append(stdin, Current)
          /\ wpc' = "wait" /\ UNCHANGED <<wjob, wgen, extraNonce2>>
       \/ host = "exited" /\ Leave /\ UNCHANGED <<sent, stdin>>
    /\ UNCHANGED <<host, stdout, line, channelVars, failed, submitted, abandoned, discarded>>
    /\ UnchangedRest

\* Mutant of Abandon: the context is looked at when an answer is there.
AbandonAfterAnswer ==
    /\ wpc = "wait" /\ Cancelled /\ solutions \o searched # << >>
    /\ abandoned' = abandoned + 1
    /\ Leave
    /\ UNCHANGED <<submitted, sent, discarded>> /\ UnchangedRest /\ UnchangedHost

\* The context is cancelled while the host searches.
Abandon ==
    /\ wpc = "wait" /\ Cancelled
    /\ abandoned' = abandoned + 1
    /\ Leave
    /\ UNCHANGED <<submitted, sent, discarded>> /\ UnchangedRest /\ UnchangedHost

\* A finished sweep or a solution ends the round.
NextRound == wpc' = "check" /\ extraNonce2' = extraNonce2 + 1 /\ UNCHANGED <<wjob, wgen>>

TakeSearched ==
    /\ wpc = "wait" /\ searched # << >>
    /\ searched' = << >>
    /\ NextRound
    /\ UNCHANGED <<pipeVars, solutions, failed, countVars>> /\ UnchangedRest

\* Mutant of OnSolution: the header is rebuilt with the next extraNonce2.
OnSolutionRolled(answer) ==
    IF answer.of = [Current EXCEPT !.extraNonce2 = @ + 1]
    THEN submitted' = submitted + 1 /\ UNCHANGED discarded
    ELSE discarded' = discarded + 1 /\ UNCHANGED submitted

\* onSolution puts the nonce in the current header and submits it if that hash
\* meets the target: the nonce of another header practically never does.
OnSolution(answer) ==
    IF answer.of = Current
    THEN submitted' = submitted + 1 /\ UNCHANGED discarded
    ELSE discarded' = discarded + 1 /\ UNCHANGED submitted

TakeSolution ==
    /\ wpc = "wait" /\ solutions # << >>
    /\ solutions' = << >>
    /\ OnSolution(Head(solutions))
    /\ NextRound
    /\ UNCHANGED <<pipeVars, searched, failed, sent, abandoned>> /\ UnchangedRest

-----------------------------------------------------------------------------
\* Mutant of Sweep: a sweep without a solution is not reported.
SweepUnreported ==
    /\ host # "exited" /\ stdin # << >>
    /\ \/ stdout' = Append(stdout, [type |-> "solution", of |-> Head(stdin)])
       \/ UNCHANGED stdout
    /\ stdin' = Tail(stdin)
    /\ UNCHANGED <<connVars, mainVars, host, line, channelVars, failed>> /\ UnchangedMiner

\* The host takes a request and sweeps its nonces: a solution, none, or an error.
Sweep ==
    /\ host # "exited" /\ stdin # << >>
    /\ \E type \in {"solution", "searched", "error"} :
          /\ stdout' = Append(stdout, [type |-> type, of |-> Head(stdin)])
          /\ failed' = IF type = "error" THEN failed + 1 ELSE failed
    /\ stdin' = Tail(stdin)
    /\ UNCHANGED <<connVars, mainVars, host, line, channelVars>> /\ UnchangedMiner

\* It ends when it has read all of its closed stdin, or crashes.
HostExits ==
    /\ host = "closing" /\ stdin = << >>
    /\ host' = "exited"
    /\ UNCHANGED <<connVars, mainVars, stdin, stdout, line, channelVars, failed>>
    /\ UnchangedMiner

HostDies ==
    /\ host # "exited"
    /\ host' = "exited" /\ stdin' = << >>
    /\ UNCHANGED <<connVars, mainVars, stdout, line, channelVars, failed>>
    /\ UnchangedMiner

\* The host's read loop reads a line; only solutions and searched are handed on.
ReadLine ==
    /\ line = None /\ stdout # << >>
    /\ line' = IF Head(stdout).type = "error" THEN None ELSE Head(stdout)
    /\ stdout' = Tail(stdout)
    /\ UNCHANGED <<connVars, mainVars, host, stdin, channelVars, failed>>
    /\ UnchangedMiner

\* Mutant of HandOver: the channels have no bound.
HandOverUnbounded ==
    /\ line # None
    /\ \/ line.type = "solution" /\ solutions' = Append(solutions, line) /\ UNCHANGED searched
       \/ line.type = "searched" /\ searched' = Append(searched, line) /\ UNCHANGED solutions
    /\ line' = None
    /\ UNCHANGED <<connVars, mainVars, host, stdin, stdout, failed>> /\ UnchangedMiner

\* A channel that is full holds the read loop up.
HandOver ==
    /\ line # None
    /\ \/ line.type = "solution" /\ solutions = << >> /\ solutions' = <<line>> /\ UNCHANGED searched
       \/ line.type = "searched" /\ searched = << >> /\ searched' = <<line>> /\ UNCHANGED solutions
    /\ line' = None
    /\ UNCHANGED <<connVars, mainVars, host, stdin, stdout, failed>>
    /\ UnchangedMiner

\* host.stop's Wait closes the pipe, read or not.
PipeClosed ==
    /\ phase = "host" /\ host = "exited" /\ stdout # << >>
    /\ stdout' = << >>
    /\ UNCHANGED <<connVars, mainVars, host, stdin, line, channelVars, failed>>
    /\ UnchangedMiner

-----------------------------------------------------------------------------
MainStep == Dial \/ ConnectionLost \/ Joined \/ Again \/ StopHost \/ HostStopped
PoolStep == Subscribe \/ Authorize
WorkerStep ==
    \/ LoadJob \/ LoadGeneration \/ Check \/ Send
    \/ Abandon \/ TakeSearched \/ TakeSolution
HostStep == Sweep \/ HostExits
HostReader == ReadLine \/ HandOver \/ PipeClosed

\* An answer nobody will take keeps the host's read loop, which host.stop waits
\* for, in its send: the miner stays like this for ever.
Blocked ==
    /\ phase = "host" /\ host = "exited" /\ stdout = << >> /\ line # None
    /\ IF line.type = "solution" THEN solutions # << >> ELSE searched # << >>

Finished == (phase = "stopped" \/ Blocked) /\ UNCHANGED vars

Next ==
    \/ MainStep \/ PoolStep \/ StoreJob \/ WorkerStep \/ HostStep \/ HostReader
    \/ Notify \/ Lose \/ Stop \/ HostDies \/ Finished

Spec == Init /\ [][Next]_vars

\* The goroutines and the host run and the pool answers; the pool need not notify
\* anything, and neither connection nor host need fail.
Fairness ==
    /\ WF_vars(MainStep) /\ WF_vars(PoolStep) /\ WF_vars(StoreJob)
    /\ WF_vars(WorkerStep) /\ WF_vars(HostStep) /\ WF_vars(HostReader)

FairSpec == Spec /\ Fairness

-----------------------------------------------------------------------------
Lined == IF line = None THEN << >> ELSE <<line>>

\* Requests that have no answer yet, and answers that the worker has not taken.
Outstanding ==
    {stdin[i] : i \in DOMAIN stdin} \cup {stdout[i].of : i \in DOMAIN stdout}
        \cup {c[1].of : c \in {s \in {Lined, solutions, searched} : s # << >>}}
Count == Len(stdin) + Len(stdout) + Len(Lined) + Len(solutions) + Len(searched)

\* While a host that runs and has answered every request without an error serves
\* connections that never ended during a search, what is outstanding is the
\* worker's current request and no solution is lost; but one more answer stays
\* ahead of the worker for every search abandoned, and is never made up for.
Paired ==
    /\ host = "run" /\ failed = 0 => Count = abandoned + (IF wpc = "wait" THEN 1 ELSE 0)
    /\ abandoned = 0 => Outstanding \subseteq {Current} /\ discarded = 0

\* The host answered the worker's request with an error, or died over it.
Silent == failed > 0 \/ host = "exited"

\* The host has the newest job; or the worker is at its Check with that job and
\* would hand it over but for the bound on requests.
GpuHasNewest ==
    wjob = currentJob /\ (wpc = "wait" \/ (wpc = "check" /\ sent = MaxRequests))

\* The worker loaded the job before a notification stored the next one, and its
\* generation after: no later Check can tell it that its job is old.
Raced == wpc \in {"check", "send", "wait"} /\ wgen = gen /\ wjob # currentJob /\ built = NoJob

\* While the miner mines, a stored job is handed to the GPU before it is replaced,
\* however many sweeps of older work, answers left over from abandoned searches
\* and full channels come first: unless the host failed, or the worker read its
\* job and generation around the notification (and then the new job waits for the
\* next notification or connection).
NewWorkReachesHost ==
    []<>(phase # "mining" \/ currentJob = NoJob \/ GpuHasNewest \/ Raced \/ Silent)

\* A miner that is told to stop does, whatever the worker, the host and the
\* connection are doing: unless two searches were abandoned, the last one by the
\* stop itself perhaps, and their answers are of one kind and fill its channel.
StopEndsOrBlocks ==
    stopping ~> phase = "stopped" \/ (Blocked /\ abandoned > 1)
=============================================================================
