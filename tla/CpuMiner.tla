------------------------------- MODULE CpuMiner -------------------------------
(***************************************************************************)
(* The CPU miner (cmd/cpuminer) on its connection to the pool: Run         *)
(* reconnects, connectAndMine shakes hands and then runs a read loop and   *)
(* the hash workers, which share the current job and its generation, the   *)
(* pending submissions, and connMu, held across a blocking Write.  The     *)
(* pool's end is one connection of internal/stratum: registered at accept, *)
(* its requests answered in order.  The pool's other goroutines set new    *)
(* jobs and broadcast them: each sets its job, copies the list of clients, *)
(* and then sends, so that sends of several of them and of the connection's*)
(* own handler come in any order.                                          *)
(*                                                                         *)
(* Both directions are bounded queues (socket buffers, and the pool's send *)
(* channel).  A pool that finds the queue to the miner full stops before   *)
(* it takes a request instead of after; the statistics loop is left out.   *)
(***************************************************************************)
EXTENDS Integers, Sequences, FiniteSets

CONSTANTS
    Workers,       \* the hash threads (cfg.Threads)
    Nobody,        \* no worker holds connMu
    UpCap,         \* requests the connection holds
    DownCap,       \* messages of the pool it holds
    MaxJobs,       \* bound of the model: jobs of the pool
    MaxSessions,   \* bound of the model: connections
    MaxShares      \* bound of the model: shares found

ASSUME WorkersAssumption == Nobody \notin Workers /\ IsFiniteSet(Workers)
ASSUME CapsAssumption == UpCap \in Nat \ {0} /\ DownCap \in Nat \ {0}
ASSUME BoundsAssumption == MaxJobs \in Nat /\ MaxSessions \in Nat /\ MaxShares \in Nat

VARIABLES
    issued,        \* the pool's newest job, 0 before
    handler,       \* where the pool's handler of the connection is
    toSend,        \* the job it has read, to send it
    broadcasts,    \* set jobs whose broadcast has not copied the clients yet
    serving,       \* broadcasts that have, and with this connection
    newest, last,  \* the newest and the last job sent to it (history)
    link,          \* the connection: "none", "up" or "closed"
    up, down,      \* requests and messages on their way
    session,       \* connections so far; the pool's extraNonce1 of this one
    phase,         \* where Run is
    stopping,      \* the context is cancelled
    nextID,
    extraNonce1,   \* 0 before the first subscription
    target,        \* the share target: "powLimit" or "share"
    pending,       \* submissions registered and not answered
    gen, currentJob,
    built,         \* the job handleNotify is about to store
    reader,        \* the read loop: "off", "lock" (wants connMu) or "recv"
    writer,        \* the worker that holds connMu, or Nobody
    wpc, wjob, wgen, wid,  \* of each worker: place, job, generation, request
    counted,       \* accepted + rejected
    found,         \* shares found (history)
    lost,          \* shares whose answer cannot be counted any more (history)
    raced          \* workers that loaded job and generation apart (history)

sentVars == <<newest, last>>
broadcastVars == <<issued, broadcasts, serving>>
poolVars == <<handler, toSend, sentVars, broadcastVars>>
linkVars == <<link, up, down, session>>
mainVars == <<phase, stopping, extraNonce1, target>>
jobVars == <<gen, currentJob, built>>
workerVars == <<wpc, wjob, wgen, wid>>
shareVars == <<nextID, pending, counted, found, lost>>
vars == <<poolVars, linkVars, mainVars, jobVars, reader, writer, workerVars, shareVars, raced>>

Job == [id : 0..MaxJobs, extraNonce1 : 0..MaxSessions, target : {"powLimit", "share"}]
NoJob == [id |-> 0, extraNonce1 |-> 0, target |-> "powLimit"]
Requests == [method : {"subscribe", "authorize", "submit"}, id : Nat]
Responses == [id : Nat, ok : BOOLEAN]
Broadcast == [by : 1..MaxJobs, job : 1..MaxJobs, session : 1..MaxSessions]
Notifications == [method : {"set_difficulty"}] \cup [method : {"notify"}, job : 1..MaxJobs]

TypeOK ==
    /\ issued \in 0..MaxJobs /\ handler \in {"read", "difficulty", "work", "send"}
    /\ toSend \in 0..issued /\ newest \in 0..issued /\ last \in 0..newest
    /\ broadcasts \subseteq 1..issued /\ serving \subseteq Broadcast
    /\ link \in {"none", "up", "closed"}
    /\ up \in Seq(Requests) /\ Len(up) <= UpCap
    /\ down \in Seq(Responses \cup Notifications) /\ Len(down) <= DownCap
    /\ session \in 0..MaxSessions /\ extraNonce1 \in 0..session
    /\ phase \in {"dial", "subscribe", "authorize", "mining", "unwind", "wait", "stopped"}
    /\ stopping \in BOOLEAN /\ target \in {"powLimit", "share"}
    /\ nextID \in Nat /\ pending \subseteq 1..nextID
    /\ gen \in Nat /\ currentJob \in Job /\ built \in Job
    /\ reader \in {"off", "lock", "recv"} /\ writer \in Workers \cup {Nobody}
    /\ wpc \in [Workers -> {"off", "load", "generation", "check", "hash",
                            "lock", "write", "register"}]
    /\ wjob \in [Workers -> Job] /\ wgen \in [Workers -> Nat] /\ wid \in [Workers -> Nat]
    /\ counted \in 0..found /\ found \in 0..MaxShares /\ lost \in 0..found
    /\ raced \subseteq Workers

Init ==
    /\ issued = 0 /\ handler = "read" /\ toSend = 0
    /\ broadcasts = {} /\ serving = {} /\ newest = 0 /\ last = 0
    /\ link = "none" /\ up = << >> /\ down = << >> /\ session = 0
    /\ phase = "dial" /\ stopping = FALSE
    /\ nextID = 0 /\ extraNonce1 = 0 /\ target = "powLimit" /\ pending = {}
    /\ gen = 0 /\ currentJob = NoJob /\ built = NoJob
    /\ reader = "off" /\ writer = Nobody
    /\ wpc = [w \in Workers |-> "off"] /\ wjob = [w \in Workers |-> NoJob]
    /\ wgen = [w \in Workers |-> 0] /\ wid = [w \in Workers |-> 0]
    /\ counted = 0 /\ found = 0 /\ lost = 0 /\ raced = {}

-----------------------------------------------------------------------------
\* Mutant of PoolSends: the queue has no bound.
PoolSendsUnbounded(msg) == down' = Append(down, msg)

\* The pool's end of the connection: it waits for room.
PoolSends(msg) == Len(down) < DownCap /\ down' = Append(down, msg)

PoolSendsJob(job) ==
    /\ PoolSends([method |-> "notify", job |-> job])
    /\ last' = job /\ newest' = IF job > newest THEN job ELSE newest

UnchangedMiner ==
    UNCHANGED <<link, up, session, mainVars, jobVars, reader, writer, workerVars, shareVars, raced>>

\* Mutant of Subscribed: the current job goes out before the difficulty.
SubscribedJobFirst ==
    /\ link = "up"
    /\ \/ /\ handler = "difficulty" /\ toSend' = issued
          /\ handler' = IF issued = 0 THEN "send" ELSE "work"
          /\ UNCHANGED <<down, sentVars>>
       \/ /\ handler = "work" /\ PoolSendsJob(toSend)
          /\ handler' = "send" /\ UNCHANGED toSend
       \/ /\ handler = "send" /\ PoolSends([method |-> "set_difficulty"])
          /\ handler' = "read" /\ toSend' = 0 /\ UNCHANGED sentVars
    /\ UNCHANGED broadcastVars /\ UnchangedMiner

\* handleSubscribe after its result: set_difficulty, then the current job is read,
\* and sent if there is one.  What it sends after its connection has ended goes
\* nowhere.
Subscribed ==
    /\ link = "up"
    /\ \/ /\ handler = "difficulty" /\ PoolSends([method |-> "set_difficulty"])
          /\ handler' = "work" /\ UNCHANGED <<toSend, sentVars>>
       \/ /\ handler = "work" /\ toSend' = issued
          /\ handler' = IF issued = 0 THEN "read" ELSE "send"
          /\ UNCHANGED <<down, sentVars>>
       \/ /\ handler = "send" /\ PoolSendsJob(toSend)
          /\ handler' = "read" /\ toSend' = 0
    /\ UNCHANGED broadcastVars /\ UnchangedMiner

\* handleMessage: a subscription's result carries the connection's extraNonce1;
\* an authorization and a share are accepted or refused.
Answer ==
    /\ handler = "read" /\ up # << >>
    /\ \E ok \in IF Head(up).method = "subscribe" THEN {TRUE} ELSE BOOLEAN :
          PoolSends([id |-> Head(up).id, ok |-> ok])
    /\ up' = Tail(up)
    /\ handler' = IF Head(up).method = "subscribe" THEN "difficulty" ELSE "read"
    /\ UNCHANGED <<toSend, sentVars, broadcastVars, link, session, mainVars, jobVars, reader,
                   writer, workerVars, shareVars, raced>>

\* ProcessWork and RefreshWork: a job is set,
Issue ==
    /\ issued < MaxJobs
    /\ issued' = issued + 1 /\ broadcasts' = broadcasts \cup {issued + 1}
    /\ UNCHANGED <<handler, toSend, sentVars, serving, down>> /\ UnchangedMiner

\* Mutant of Snapshot: a connection that has not been given a job is left out.
SnapshotSubscribedOnly(j) ==
    /\ j \in broadcasts
    /\ broadcasts' = broadcasts \ {j}
    /\ \E job \in j..issued :
          serving' = IF link = "up" /\ last # 0
                     THEN serving \cup {[by |-> j, job |-> job, session |-> session]} ELSE serving
    /\ UNCHANGED <<issued, handler, toSend, sentVars, down>> /\ UnchangedMiner

\* the clients of the moment are copied (BroadcastWork reads the current job, which
\* may be a newer one by now, before it does),
Snapshot(j) ==
    /\ j \in broadcasts
    /\ broadcasts' = broadcasts \ {j}
    /\ \E job \in j..issued :
          serving' = IF link = "up"
                     THEN serving \cup {[by |-> j, job |-> job, session |-> session]} ELSE serving
    /\ UNCHANGED <<issued, handler, toSend, sentVars, down>> /\ UnchangedMiner

\* and each of them is sent the job, subscribed or not: unless it is closed by then.
Deliver(b) ==
    /\ b \in serving
    /\ serving' = serving \ {b}
    /\ IF link = "up" /\ b.session = session THEN PoolSendsJob(b.job)
       ELSE UNCHANGED <<down, sentVars>>
    /\ UNCHANGED <<issued, broadcasts, handler, toSend>> /\ UnchangedMiner

-----------------------------------------------------------------------------
\* The submissions whose request or answer is on its way.
InFlight ==
    {up[i].id : i \in {n \in DOMAIN up : up[n].method = "submit"}}
        \cup {down[i].id : i \in {n \in DOMAIN down : "id" \in DOMAIN down[n] /\ phase = "mining"}}

\* The connection ends, with what was on its way.
Drop ==
    /\ link' = "closed" /\ up' = << >> /\ down' = << >>
    /\ lost' = lost + Cardinality(InFlight)

\* The network or the pool closes it.
Lose ==
    /\ link = "up"
    /\ Drop
    /\ UNCHANGED <<poolVars, session, mainVars, jobVars, reader, writer, workerVars,
                   nextID, pending, counted, found, raced>>

\* Mutant of Stop: the socket stays open.
StopKeepsSocket ==
    /\ ~stopping
    /\ stopping' = TRUE
    /\ UNCHANGED <<poolVars, linkVars, phase, extraNonce1, target, jobVars, reader, writer,
                   workerVars, shareVars, raced>>

\* The context is cancelled; the closing goroutine closes the socket.
Stop ==
    /\ ~stopping
    /\ stopping' = TRUE
    /\ IF link = "up" THEN Drop ELSE UNCHANGED <<link, up, down, lost>>
    /\ UNCHANGED <<poolVars, session, phase, extraNonce1, target, jobVars, reader, writer,
                   workerVars, nextID, pending, counted, found, raced>>

\* connectAndMine dials, resets what belongs to a connection (not the job, its
\* generation or extraNonce1) and sends mining.subscribe,
Connect ==
    /\ session < MaxSessions
    /\ session' = session + 1
    /\ nextID' = nextID + 1
    /\ IF stopping THEN link' = "closed" /\ UNCHANGED up
       ELSE link' = "up" /\ up' = <<[method |-> "subscribe", id |-> nextID + 1]>>
    /\ pending' = {} /\ target' = "powLimit"
    /\ handler' = "read" /\ toSend' = 0 /\ newest' = 0 /\ last' = 0
    /\ phase' = "subscribe"

\* or gives up after a time-out.
Dial ==
    /\ phase = "dial"
    /\ \/ Connect
       \/ phase' = "wait" /\ UNCHANGED <<session, nextID, link, up, pending, target, handler, toSend, sentVars>>
    /\ UNCHANGED <<broadcastVars, down, stopping, extraNonce1, jobVars, reader, writer, workerVars,
                   counted, found, lost, raced>>

-----------------------------------------------------------------------------
\* Mutant of HandleNotify: the generation stays.
HandleNotifySameGen(id) ==
    IF extraNonce1 = 0 THEN UNCHANGED <<gen, built>>
    ELSE /\ UNCHANGED gen
         /\ built' = [id |-> id, extraNonce1 |-> extraNonce1, target |-> target]

\* handleNotify as far as the generation: a job is built from the extraNonce1
\* and the share target of the moment; without an extraNonce1 it is dropped.
HandleNotify(id) ==
    IF extraNonce1 = 0 THEN UNCHANGED <<gen, built>>
    ELSE /\ gen' = gen + 1
         /\ built' = [id |-> id, extraNonce1 |-> extraNonce1, target |-> target]

\* ... and it stores the job.
StoreJob ==
    /\ built # NoJob
    /\ currentJob' = built /\ built' = NoJob
    /\ UNCHANGED <<poolVars, linkVars, mainVars, gen, reader, writer, workerVars,
                   shareVars, raced>>

\* handleNotification: anything else is ignored.
HandleNotification(msg) ==
    /\ target' = IF msg = [method |-> "set_difficulty"] THEN "share" ELSE target
    /\ IF "job" \in DOMAIN msg THEN HandleNotify(msg.job) ELSE UNCHANGED <<gen, built>>

\* subscribe and authorize read on until the answer to their request.
Handshake ==
    /\ phase \in {"subscribe", "authorize"} /\ built = NoJob /\ down # << >>
    /\ LET msg == Head(down)
       IN  IF "id" \notin DOMAIN msg
           THEN /\ HandleNotification(msg)
                /\ down' = Tail(down)
                /\ UNCHANGED <<phase, extraNonce1, nextID, link, up, reader, wpc>>
           ELSE /\ CASE phase = "subscribe" ->
                          /\ extraNonce1' = session
                          /\ phase' = "authorize"
                          /\ nextID' = nextID + 1
                          /\ up' = Append(up, [method |-> "authorize", id |-> nextID + 1])
                          /\ down' = Tail(down)
                          /\ UNCHANGED <<link, reader, wpc>>
                     [] phase = "authorize" /\ msg.ok ->
                          /\ phase' = "mining" /\ reader' = "lock"
                          /\ wpc' = [w \in Workers |-> "load"]
                          /\ down' = Tail(down)
                          /\ UNCHANGED <<extraNonce1, nextID, link, up>>
                     [] OTHER ->
                          /\ link' = "closed" /\ phase' = "wait"
                          /\ down' = << >> /\ up' = << >>
                          /\ UNCHANGED <<extraNonce1, nextID, reader, wpc>>
                /\ UNCHANGED <<target, gen, built>>
    /\ UNCHANGED <<poolVars, session, stopping, currentJob, writer, wjob, wgen, wid,
                   pending, counted, found, lost, raced>>

\* A read or write error ends the handshake.
HandshakeFails ==
    /\ phase \in {"subscribe", "authorize"} /\ link = "closed" /\ built = NoJob
    /\ phase' = "wait"
    /\ UNCHANGED <<poolVars, linkVars, stopping, extraNonce1, target, jobVars, reader, writer,
                   workerVars, shareVars, raced>>

-----------------------------------------------------------------------------
\* readMessage takes connMu to get the reader, then reads without it.
ReadLock ==
    /\ reader = "lock" /\ built = NoJob /\ writer = Nobody
    /\ reader' = "recv"
    /\ UNCHANGED <<poolVars, linkVars, mainVars, jobVars, writer, workerVars, shareVars, raced>>

\* handleResponse: an answer counts once, and only if its request is registered.
\* It comes before that only while its worker is on the way there.
HandleResponse(id) ==
    IF id \in pending
    THEN pending' = pending \ {id} /\ counted' = counted + 1 /\ UNCHANGED lost
    ELSE /\ lost' = IF \E w \in Workers : wpc[w] = "register" /\ wid[w] = id
                    THEN lost + 1 ELSE lost
         /\ UNCHANGED <<pending, counted>>

\* readLoop handles a message,
Read ==
    /\ reader = "recv" /\ down # << >>
    /\ LET msg == Head(down)
       IN  IF "id" \in DOMAIN msg
           THEN HandleResponse(msg.id) /\ UNCHANGED <<target, gen, built>>
           ELSE HandleNotification(msg) /\ UNCHANGED <<pending, counted, lost>>
    /\ down' = Tail(down)
    /\ reader' = "lock"
    /\ UNCHANGED <<poolVars, link, up, session, phase, stopping, extraNonce1, currentJob,
                   writer, workerVars, nextID, found, raced>>

\* or ends with the connection.
ReadFails ==
    /\ reader = "recv" /\ link = "closed"
    /\ reader' = "off"
    /\ UNCHANGED <<poolVars, linkVars, mainVars, jobVars, writer, workerVars, shareVars, raced>>

\* connectAndMine cancels the connection's context when the read loop ended or
\* the miner stops,
Cancel ==
    /\ phase = "mining" /\ (reader = "off" \/ stopping)
    /\ phase' = "unwind"
    /\ UNCHANGED <<poolVars, linkVars, stopping, extraNonce1, target, jobVars, reader, writer,
                   workerVars, shareVars, raced>>

\* and waits for its goroutines.
Joined ==
    /\ phase = "unwind" /\ reader = "off" /\ \A w \in Workers : wpc[w] = "off"
    /\ phase' = IF stopping THEN "stopped" ELSE "wait"
    /\ UNCHANGED <<poolVars, linkVars, stopping, extraNonce1, target, jobVars, reader, writer,
                   workerVars, shareVars, raced>>

\* Run: five seconds later, or never.
Again ==
    /\ phase = "wait"
    /\ phase' = IF stopping THEN "stopped" ELSE "dial"
    /\ UNCHANGED <<poolVars, linkVars, stopping, extraNonce1, target, jobVars, reader, writer,
                   workerVars, shareVars, raced>>

-----------------------------------------------------------------------------
Cancelled == phase = "unwind" \/ stopping
Goto(w, label) == wpc' = [wpc EXCEPT ![w] = label]
NoShare == UNCHANGED <<poolVars, linkVars, mainVars, jobVars, reader, writer, wid, shareVars>>

\* hashWorker loads the job (without one it sleeps and asks again),
LoadJob(w) ==
    /\ wpc[w] = "load"
    /\ IF Cancelled THEN Goto(w, "off") /\ UNCHANGED wjob
       ELSE currentJob # NoJob /\ Goto(w, "generation") /\ wjob' = [wjob EXCEPT ![w] = currentJob]
    /\ NoShare /\ UNCHANGED <<wgen, raced>>

\* then the generation.
LoadGeneration(w) ==
    /\ wpc[w] = "generation"
    /\ wgen' = [wgen EXCEPT ![w] = gen]
    /\ raced' = IF wjob[w] = currentJob /\ built = NoJob THEN raced \ {w} ELSE raced \cup {w}
    /\ Goto(w, "check")
    /\ NoShare /\ UNCHANGED wjob

\* mineJob returns, and its locals are gone.
Leave(w) ==
    /\ Goto(w, "load")
    /\ wjob' = [wjob EXCEPT ![w] = NoJob] /\ wgen' = [wgen EXCEPT ![w] = 0]
    /\ raced' = raced \ {w}

\* Mutant of Check: the generation is not looked at.
CheckContextOnly(w) ==
    /\ wpc[w] = "check"
    /\ IF Cancelled THEN Leave(w) ELSE Goto(w, "hash") /\ UNCHANGED <<wjob, wgen, raced>>
    /\ NoShare

\* mineJob ends when the context is cancelled or the generation has changed,
Check(w) ==
    /\ wpc[w] = "check"
    /\ IF Cancelled \/ wgen[w] # gen THEN Leave(w)
       ELSE Goto(w, "hash") /\ UNCHANGED <<wjob, wgen, raced>>
    /\ NoShare

\* else hashes: no share,
Miss(w) ==
    /\ wpc[w] = "hash"
    /\ Goto(w, "check")
    /\ NoShare /\ UNCHANGED <<wjob, wgen, raced>>

\* or one, block or not, that submitShare gives an identifier.
Hit(w) ==
    /\ wpc[w] = "hash" /\ found < MaxShares
    /\ found' = found + 1
    /\ nextID' = nextID + 1
    /\ wid' = [wid EXCEPT ![w] = nextID + 1]
    /\ Goto(w, "lock")
    /\ UNCHANGED <<poolVars, linkVars, mainVars, jobVars, reader, writer, wjob, wgen,
                   pending, counted, lost, raced>>

\* sendRequest: connMu is held
LockConn(w) ==
    /\ wpc[w] = "lock" /\ writer = Nobody
    /\ writer' = w
    /\ Goto(w, "write")
    /\ UNCHANGED <<poolVars, linkVars, mainVars, jobVars, reader, wjob, wgen, wid, shareVars, raced>>

\* submitShare returns to the search.
Submitted(w) == Goto(w, "check") /\ wid' = [wid EXCEPT ![w] = 0]

\* Mutant of Write: a failed submission is not counted.
WriteUncounted(w) ==
    /\ wpc[w] = "write"
    /\ \/ /\ link = "up" /\ Len(up) < UpCap
          /\ up' = Append(up, [method |-> "submit", id |-> wid[w]])
          /\ Goto(w, "register")
          /\ UNCHANGED wid
       \/ link = "closed" /\ Submitted(w) /\ UNCHANGED up
    /\ writer' = Nobody
    /\ UNCHANGED <<poolVars, link, down, session, mainVars, jobVars, reader, wjob, wgen,
                   nextID, pending, counted, found, lost, raced>>

\* until the connection takes the request, or fails, which counts as rejected.
Write(w) ==
    /\ wpc[w] = "write"
    /\ \/ /\ link = "up" /\ Len(up) < UpCap
          /\ up' = Append(up, [method |-> "submit", id |-> wid[w]])
          /\ Goto(w, "register")
          /\ UNCHANGED <<counted, wid>>
       \/ /\ link = "closed"
          /\ counted' = counted + 1
          /\ Submitted(w)
          /\ UNCHANGED up
    /\ writer' = Nobody
    /\ UNCHANGED <<poolVars, link, down, session, mainVars, jobVars, reader, wjob, wgen,
                   nextID, pending, found, lost, raced>>

\* registerPending, after the request is out.
Register(w) ==
    /\ wpc[w] = "register"
    /\ pending' = pending \cup {wid[w]}
    /\ Submitted(w)
    /\ UNCHANGED <<poolVars, linkVars, mainVars, jobVars, reader, writer, wjob, wgen,
                   nextID, counted, found, lost, raced>>

-----------------------------------------------------------------------------
MainStep == Dial \/ Handshake \/ HandshakeFails \/ Cancel \/ Joined \/ Again
ReaderStep == ReadLock \/ Read \/ ReadFails
WorkerStep(w) ==
    LoadJob(w) \/ LoadGeneration(w) \/ Check(w) \/ Miss(w) \/ Hit(w)
        \/ LockConn(w) \/ Write(w) \/ Register(w)
PoolStep == Answer \/ Subscribed
BroadcastStep == \/ \E j \in broadcasts : Snapshot(j)
                 \/ \E b \in serving : Deliver(b)

Finished == phase = "stopped" /\ UNCHANGED vars

Next ==
    \/ MainStep \/ ReaderStep \/ StoreJob \/ \E w \in Workers : WorkerStep(w)
    \/ PoolStep \/ Issue \/ BroadcastStep \/ Lose \/ Stop \/ Finished

Spec == Init /\ [][Next]_vars

\* The goroutines run and the pool answers; it need not issue or broadcast work, and
\* the connection need not fail.
Fairness ==
    /\ WF_vars(MainStep) /\ WF_vars(ReaderStep) /\ WF_vars(StoreJob) /\ WF_vars(PoolStep)
    /\ \A w \in Workers : WF_vars(WorkerStep(w))

FairSpec == Spec /\ Fairness

-----------------------------------------------------------------------------
\* When the pool has nothing more under way, the connection was sent the pool's
\* newest job, whatever the broadcasts and its own subscription did to each other;
\* and the job the workers are left with is the last one it was sent, built for this
\* connection's extraNonce1 and share target, although a broadcast may reach the
\* miner before either is known and a reconnecting miner brings the job and
\* extraNonce1 of its last session along.  The two jobs differ when an older job
\* was sent after a newer one: the miner then stays on the older.
SettledJob ==
    link = "up" /\ phase = "mining" /\ handler = "read" /\ broadcasts = {} /\ serving = {}
        /\ down = << >> /\ built = NoJob /\ issued # 0
    => newest = issued /\ currentJob = [id |-> last, extraNonce1 |-> session, target |-> "share"]

\* No worker ever mines, or submits for, a job built with an earlier connection's
\* extraNonce1 or without this one's share target.
MinesForThisConnection ==
    \A w \in Workers : wpc[w] \notin {"off", "load"} =>
        wjob[w].extraNonce1 = session /\ wjob[w].target = "share"

Unsent == {w \in Workers : wpc[w] \in {"lock", "write"}}

\* Every share found is counted once as accepted or rejected, unless it is on its
\* way, or the connection ended before its answer, or the answer overtook
\* registerPending: no other answer is missed or counted twice, across
\* reconnections that reset the pending requests.
SharesAccounted == found = counted + lost + Cardinality(Unsent) + Cardinality(InFlight)

\* The one way a worker keeps mining an old job under the current generation is
\* that a notification came between its two loads, or was between its own two
\* stores then.
OnlyRacersAreStale ==
    \A w \in Workers :
        wpc[w] \in {"check", "hash"} /\ wgen[w] = gen /\ wjob[w] # currentJob /\ built = NoJob
            => w \in raced

\* Each side waits for the other to read: the worker in Write for the pool, the
\* pool for the read loop, and the read loop for connMu.
Jammed ==
    /\ writer # Nobody /\ reader = "lock"
    /\ Len(up) = UpCap /\ Len(down) = DownCap

\* A worker whose generation is over starts again on the newest job, even from
\* within a submission, unless the two ends of the connection block each other.
NewWorkIsNoticed ==
    \A w \in Workers :
        []<>(wpc[w] \in {"off", "load", "generation"} \/ wgen[w] = gen \/ Jammed)

\* stratum.go:144-147: a connection that ends, or a miner that stops, unwinds and
\* never hangs, whatever its goroutines are waiting for.
Unwinds ==
    /\ []<>(link # "closed" \/ phase \in {"wait", "dial", "stopped"})
    /\ []<>(~stopping \/ phase = "stopped")

-----------------------------------------------------------------------------
\* miner.go:155-159 and 182-186: mineJob "returns when the job generation changes
\* (new work arrives)" and "New work supersedes the job regardless", so a worker
\* at the current generation hashes the current job.
NewWorkSupersedes ==
    \A w \in Workers :
        wpc[w] = "hash" /\ wgen[w] = gen /\ built = NoJob => wjob[w] = currentJob
=============================================================================
