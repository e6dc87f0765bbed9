---------------------------- MODULE StratumPool -----------------------------
(***************************************************************************)
(* The pool's shared work under its goroutines: the main loop that applies *)
(* node work (main.go, Server.ProcessWork) and one handler goroutine per   *)
(* miner connection (client.go: subscribe and submit; RefreshWork and      *)
(* BroadcastWork after a throttled block).  WorkManager and BlockThrottle  *)
(* give the operations that run under their mutexes.  No lock is held from *)
(* one of these to the next, so each is a step of its own and goroutines   *)
(* interleave between them as the Go scheduler lets them.                  *)
(*                                                                         *)
(* Sending queues deliver in order and are not bounded here: enqueueing a  *)
(* message to an open connection is delivering it.                         *)
(***************************************************************************)
EXTENDS Integers, Sequences, FiniteSets

CONSTANTS
    Miners,        \* miner connections, each opened at most once
    Main,          \* the goroutine of main.go's event loop
    NoWork,        \* the nil *Work
    MaxJobs,       \* capacity of the registry
    Configured,    \* block divisors the operator may have configured
    MaxEvents,     \* bound of the model: work events of the node
    MaxFinds,      \* bound of the model: solved blocks
    Times,         \* timestamps the node gives its templates
    Revs           \* revisions of a parent's votes and transactions

ASSUME MainAssumption == Main \notin Miners
ASSUME MinersAssumption == IsFiniteSet(Miners)
ASSUME BoundsAssumption ==
    MaxEvents \in Nat /\ MaxFinds \in Nat /\ Times \subseteq Nat /\ Revs \subseteq Nat

\* What a getwork template carries that matters here: the block it builds on
\* (best blocks numbered as the node adopts them), the revision of its votes and
\* transactions, and its timestamp.
Template == [parent : Nat, rev : Nat, ts : Nat]

\* The assumptions of the work manager, instantiated below.
ASSUME RegistryAssumption ==
    MaxJobs \in Nat \ {0} /\ NoWork \notin [jobID : Nat, data : Template]
\* The node has not announced anything yet.
ASSUME NilTemplateAssumption == NoWork \notin Template

VARIABLES
    current, jobs, order, seq,                       \* the work manager
    divisor, foundBlocks, submitted, throttled,      \* the block throttle
    clients,       \* the registered connections
    gone,          \* the connections that were closed
    pc,            \* where each goroutine is
    work,          \* the job a goroutine is about to send or refresh
    job,           \* the job a submit handler resolved
    todo,          \* connections a broadcast has still to send to
    clean,         \* the clean flag of the main loop's broadcast
    owed,          \* requests read minus responses enqueued, per connection
    told,          \* the jobs enqueued for each connection so far
    subscribed,    \* connections whose subscribe handler has run (history)
    nodeWork,      \* the node's last template (external)
    announced,     \* parent of the node's last announcement, 0 before (external)
    fetched,       \* parent of the template Connect fetched, 0 before (external)
    events,        \* work events taken from the node (external)
    nodeCalls      \* SubmitWork calls made to the node (external)

workVars == <<current, jobs, order, seq>>
throttleVars == <<divisor, foundBlocks, submitted, throttled>>
connVars == <<clients, gone, owed, subscribed>>
eventVars == <<nodeWork, announced, fetched, events>>
nodeVars == <<eventVars, nodeCalls>>
localVars == <<work, job, todo, clean>>
vars == <<workVars, throttleVars, connVars, pc, localVars, told, nodeVars>>

WM == INSTANCE WorkManager WITH
          Data <- Template,
          ValidData <- Template,
          MaxSeq <- MaxEvents + MaxFinds
BT == INSTANCE BlockThrottle WITH MaxFound <- MaxFinds

Procs == Miners \cup {Main}
PCs == {"read", "sendCurrent", "allow", "submitWork", "throttled", "setCurrent",
        "broadcast", "snapshot", "send"}

TypeOK ==
    /\ WM!TypeOK
    /\ BT!TypeOK
    /\ clients \subseteq Miners /\ gone \subseteq Miners /\ clients \cap gone = {}
    /\ subscribed \subseteq Miners
    /\ pc \in [Procs -> PCs]
    /\ work \in [Procs -> WM!Work \cup {NoWork}] /\ todo \in [Procs -> SUBSET Miners]
    /\ job \in [Miners -> WM!Work \cup {NoWork}]
    /\ owed \in [Miners -> Nat]
    /\ clean \in BOOLEAN
    /\ told \in [Miners -> SUBSET WM!Work]
    /\ nodeWork \in Template \cup {NoWork}
    /\ announced \in Nat /\ fetched \in Nat
    /\ events \in 0..MaxEvents /\ nodeCalls \in Nat

Init ==
    /\ WM!Init
    /\ BT!Init
    /\ clients = {} /\ gone = {} /\ subscribed = {}
    /\ pc = [p \in Procs |-> "read"]
    /\ work = [p \in Procs |-> NoWork]
    /\ job = [m \in Miners |-> NoWork]
    /\ todo = [p \in Procs |-> {}]
    /\ owed = [m \in Miners |-> 0]
    /\ clean = FALSE
    /\ told = [m \in Miners |-> {}]
    /\ nodeWork = NoWork /\ announced = 0 /\ fetched = 0
    /\ events = 0 /\ nodeCalls = 0

-----------------------------------------------------------------------------
Goto(p, label) == pc' = [pc EXCEPT ![p] = label]

\* A request of m is read and answered with that many responses at once.
Serve(m, responses) == owed' = [owed EXCEPT ![m] = @ + 1 - responses]

\* Mutant of Respond: an error path goes on to the next response.
RespondTwice(m) == owed' = [owed EXCEPT ![m] = @ - 2]

\* sendResult or sendError for a request read earlier.
Respond(m) == owed' = [owed EXCEPT ![m] = @ - 1]

\* sendWork: the notification is enqueued, or dropped if the connection closed.
SendWork(m, w) ==
    told' = IF m \in gone THEN told ELSE [told EXCEPT ![m] = @ \cup {w}]

\* acceptLoop: the connection is registered and its loops started.
Connect(m) ==
    /\ m \notin clients \cup gone
    /\ clients' = clients \cup {m}
    /\ UNCHANGED <<workVars, throttleVars, gone, owed, subscribed,
                   pc, localVars, told, nodeVars>>

\* Mutant of Disconnect: the connection stays registered.
DisconnectRegistered(m) ==
    /\ m \in clients \ gone /\ pc[m] = "read"
    /\ gone' = gone \cup {m}
    /\ UNCHANGED <<workVars, throttleVars, clients, owed, subscribed,
                   pc, localVars, told, nodeVars>>

\* The read loop ends between two requests and closes the connection.
Disconnect(m) ==
    /\ m \in clients /\ pc[m] = "read"
    /\ clients' = clients \ {m}
    /\ gone' = gone \cup {m}
    /\ UNCHANGED <<workVars, throttleVars, owed, subscribed,
                   pc, localVars, told, nodeVars>>

-----------------------------------------------------------------------------
\* handleSubscribe: reply, read the current job (the reply only touches the
\* connection's own queue, so the two are one step), then send it.
Subscribe(m) ==
    /\ m \in clients /\ pc[m] = "read"
    /\ Serve(m, 1)
    /\ subscribed' = subscribed \cup {m}
    /\ work' = [work EXCEPT ![m] = current]
    /\ Goto(m, IF current = NoWork THEN "read" ELSE "sendCurrent")
    /\ UNCHANGED <<workVars, throttleVars, clients, gone, job, todo, clean,
                   told, nodeVars>>

SubscribeSend(m) ==
    /\ pc[m] = "sendCurrent"
    /\ SendWork(m, work[m])
    /\ work' = [work EXCEPT ![m] = NoWork]
    /\ Goto(m, "read")
    /\ UNCHANGED <<workVars, throttleVars, connVars, job, todo, clean, nodeVars>>

-----------------------------------------------------------------------------
\* Blocks that were found and that the throttle has yet to see.
Undecided == {m \in Miners : pc[m] = "allow"}

\* handleSubmit as far as the evaluation of the header.  Job(jobID) is its only
\* read of shared state; the job identifier is the miner's, and so is whether
\* the solution is a block.  Otherwise it is answered at once: refused for
\* another worker's name, for parameters that do not decode or fit the header
\* or for a hash above the share target, accepted as a plain share (a statistic
\* that nothing reads), or refused as stale.
SubmitAnswered(m, id, isBlock) ==
    /\ ~WM!Resolves(id) \/ ~isBlock
    /\ Serve(m, 1)
    /\ UNCHANGED <<job, pc>>

SubmitBlock(m, id, isBlock) ==
    /\ WM!Resolves(id) /\ isBlock
    /\ foundBlocks + Cardinality(Undecided) < MaxFinds
    /\ job' = [job EXCEPT ![m] = jobs[id]]
    /\ Serve(m, 0)
    /\ Goto(m, "allow")

Submit(m, id, isBlock) ==
    /\ m \in clients /\ pc[m] = "read"
    /\ SubmitAnswered(m, id, isBlock) \/ SubmitBlock(m, id, isBlock)
    /\ UNCHANGED <<workVars, throttleVars, clients, gone, subscribed, work, todo,
                   clean, told, nodeVars>>

\* The throttle decides about the block.
SubmitAllow(m) ==
    /\ pc[m] = "allow"
    /\ BT!Allow
    /\ Goto(m, IF BT!Allows(foundBlocks + 1) THEN "submitWork" ELSE "throttled")
    /\ UNCHANGED <<workVars, connVars, localVars, told, nodeVars>>

\* Mutant of SubmitToNode: a failed submission is tried again.
SubmitToNodeRetry(m) ==
    /\ pc[m] = "submitWork"
    /\ nodeCalls < MaxFinds + 1
    /\ nodeCalls' = nodeCalls + 1
    /\ UNCHANGED <<workVars, throttleVars, connVars, pc, localVars, told, eventVars>>

\* Mutant of SubmitToNode: the work is refreshed after every block.
SubmitToNodeRefresh(m) ==
    /\ pc[m] = "submitWork"
    /\ nodeCalls' = nodeCalls + 1
    /\ Respond(m)
    /\ work' = [work EXCEPT ![m] = current]
    /\ Goto(m, "setCurrent")
    /\ UNCHANGED <<workVars, throttleVars, clients, gone, subscribed, job, todo, clean,
                   told, eventVars>>

\* SubmitWork: accepted, refused or failed, the handler replies and is done.
SubmitToNode(m) ==
    /\ pc[m] = "submitWork"
    /\ nodeCalls' = nodeCalls + 1
    /\ Respond(m)
    /\ job' = [job EXCEPT ![m] = NoWork]
    /\ Goto(m, "read")
    /\ UNCHANGED <<workVars, throttleVars, clients, gone, subscribed,
                   work, todo, clean, told, eventVars>>

-----------------------------------------------------------------------------
\* A discarded block is a share for its miner, which hears success.  Then
\* RefreshWork begins: it reads the current job, sets its template with a later
\* timestamp and broadcasts, with no lock held from one step to the next.  There
\* is a current job: the handler resolved one.
SubmitThrottled(m) ==
    /\ pc[m] = "throttled"
    /\ Respond(m)
    /\ work' = [work EXCEPT ![m] = current]
    /\ Goto(m, "setCurrent")
    /\ UNCHANGED <<workVars, throttleVars, clients, gone, subscribed, job, todo, clean,
                   told, nodeVars>>

\* RefreshTimestamp keeps everything but the timestamp.
Refreshed(template, now) == [template EXCEPT !.ts = now]

\* A clock that is not past the template's time gives old + 1.
RefreshSet(m) ==
    /\ pc[m] = "setCurrent"
    /\ LET old == work[m].data
       IN  \E now \in {old.ts, old.ts + 2} :
              WM!SetCurrent(Refreshed(old, IF now <= old.ts THEN old.ts + 1 ELSE now))
    /\ work' = [work EXCEPT ![m] = NoWork]
    /\ Goto(m, "broadcast")
    /\ UNCHANGED <<throttleVars, connVars, job, todo, clean, told, nodeVars>>

\* Mutant of BroadcastRead: the job that was solved is broadcast.
BroadcastSolved(m) ==
    /\ pc[m] = "broadcast"
    /\ work' = [work EXCEPT ![m] = job[m]]
    /\ Goto(m, "snapshot")
    /\ UNCHANGED <<workVars, throttleVars, connVars, job, todo, clean, told, nodeVars>>

\* BroadcastWork reads the current job again, which need not be the one that
\* RefreshSet installed.
BroadcastRead(m) ==
    /\ pc[m] = "broadcast"
    /\ work' = [work EXCEPT ![m] = current]
    /\ Goto(m, "snapshot")
    /\ UNCHANGED <<workVars, throttleVars, connVars, job, todo, clean,
                   told, nodeVars>>

-----------------------------------------------------------------------------
\* What the node may announce when its best block is the given one: its parents
\* never go back, new votes or transactions keep the parent, and the same
\* template may come again.
Announcements(parent, reason) ==
    IF reason = "NewParent" THEN [parent : {parent + 1}, rev : Revs, ts : Times]
    ELSE [parent : {parent} \ {0}, rev : Revs, ts : Times]

\* ProcessWork: the main loop takes an event and sets the current job.  The
\* data has the getwork length (WorkManager has the other case), so there is a
\* job to broadcast afterwards.
ProcessWork(data, reason) ==
    /\ pc[Main] = "read" /\ events < MaxEvents
    /\ events' = events + 1
    /\ nodeWork' = data
    /\ WM!SetCurrent(data)
    /\ work' = [work EXCEPT ![Main] = current']
    /\ clean' = WM!Clean(data, reason)
    /\ Goto(Main, "snapshot")
    /\ UNCHANGED <<throttleVars, connVars, job, todo, told, nodeCalls>>

\* An announcement of the node.  Before the first one its best block may be new
\* to the pool or the one Connect fetched a template of.
ProcessAnnouncement(reason) ==
    \E parent \in IF announced = 0 THEN {0, 1} ELSE {announced} :
        \E data \in Announcements(parent, reason) :
            /\ ProcessWork(data, reason)
            /\ announced' = data.parent
            /\ UNCHANGED fetched

\* The template Connect fetched and queued as if for new transactions: it may
\* come behind newer announcements, or before the one of its own parent.
ProcessInitial ==
    /\ fetched = 0
    /\ \E data \in [parent : 1..announced + 1, rev : Revs, ts : Times] :
          /\ ProcessWork(data, "NewTxns")
          /\ fetched' = data.parent
          /\ UNCHANGED announced

\* Mutant of Snapshot: a handler leaves out its own connection.
SnapshotOthers(p) ==
    /\ pc[p] = "snapshot"
    /\ todo' = [todo EXCEPT ![p] = clients \ {p}]
    /\ Goto(p, "send")
    /\ UNCHANGED <<workVars, throttleVars, connVars, work, job, clean, told, nodeVars>>

\* BroadcastWork and ProcessWork: the registered connections are copied under
\* the lock.
Snapshot(p) ==
    /\ pc[p] = "snapshot"
    /\ todo' = [todo EXCEPT ![p] = clients]
    /\ Goto(p, "send")
    /\ UNCHANGED <<workVars, throttleVars, connVars, work, job, clean,
                   told, nodeVars>>

\* ... and served one by one, in the order of a map iteration.
Send(p, m) ==
    /\ pc[p] = "send" /\ m \in todo[p]
    /\ todo' = [todo EXCEPT ![p] = @ \ {m}]
    /\ SendWork(m, work[p])
    /\ UNCHANGED <<workVars, throttleVars, connVars, pc, work, job, clean,
                   nodeVars>>

\* The broadcast is over; a submit handler returns to its read loop.
SendDone(p) ==
    /\ pc[p] = "send" /\ todo[p] = {}
    /\ work' = [work EXCEPT ![p] = NoWork]
    /\ job' = [m \in Miners |-> IF m = p THEN NoWork ELSE job[m]]
    /\ clean' = (clean /\ p # Main)
    /\ Goto(p, "read")
    /\ UNCHANGED <<workVars, throttleVars, connVars, todo, told, nodeVars>>

-----------------------------------------------------------------------------
\* Nothing runs and the node and the miners have nothing more to send.
Quiet == \A p \in Procs : pc[p] = "read"
Finished == Quiet /\ UNCHANGED vars

HandlerStep(m) ==
    \/ Subscribe(m) \/ SubscribeSend(m)
    \/ \E id \in 1..seq, isBlock \in BOOLEAN : Submit(m, id, isBlock)
    \/ SubmitAllow(m) \/ SubmitThrottled(m) \/ SubmitToNode(m)
    \/ RefreshSet(m) \/ BroadcastRead(m)

Next ==
    \/ \E m \in Miners : Connect(m) \/ Disconnect(m) \/ HandlerStep(m)
    \/ \E reason \in WM!Reasons : ProcessAnnouncement(reason)
    \/ ProcessInitial
    \/ \E p \in Procs : Snapshot(p) \/ SendDone(p) \/ \E m \in Miners : Send(p, m)
    \/ Finished

Spec == Init /\ [][Next]_vars

-----------------------------------------------------------------------------
\* A miner that was sent a job can submit against it until MaxJobs further
\* identifiers were drawn, and what its submission is checked against is then,
\* as at any later time, the very template it was sent.
ToldJobsResolve ==
    \A m \in Miners : \A w \in told[m] :
        /\ seq < w.jobID + MaxJobs => WM!Resolves(w.jobID)
        /\ WM!Resolves(w.jobID) => jobs[w.jobID] = w

\* No subscriber misses work: whatever the order in which a subscription, the
\* main loop's broadcast and the refreshes of throttled blocks run, once they
\* are over every subscriber still connected was sent the current job.
NoMissedWork ==
    Quiet /\ current # NoWork => \A m \in clients \cap subscribed : current \in told[m]

\* Every request is answered exactly once, on every path of its handler.
OneResponse ==
    \A m \in Miners :
        owed[m] = IF pc[m] \in {"allow", "throttled", "submitWork"} THEN 1 ELSE 0

\* Every block let through the throttle was handed to the node or is on its
\* way there, and every one found is decided exactly once.
BlocksAccounted ==
    /\ foundBlocks = submitted + throttled
    /\ submitted = nodeCalls + Cardinality({m \in Miners : pc[m] = "submitWork"})

\* As long as no block was discarded nobody but the node changes the work: the
\* current job is the node's last template.
CurrentFollowsNode ==
    throttled = 0 => IF nodeWork = NoWork THEN current = NoWork
                     ELSE current # NoWork /\ current.data = nodeWork

\* When the handler of a discarded block returns, its miner has been sent a job
\* newer than the one it solved, so it has work to go on with.
FreshWorkAfterThrottle ==
    [][\A m \in Miners :
          pc[m] = "send" /\ pc'[m] = "read" =>
              \E w \in told[m] : w.jobID > job[m].jobID]_vars

\* A notification with the clean flag discards only older jobs: when the main
\* loop sends it, every job its miner was sent has an earlier parent or was issued
\* later, whatever subscriptions and refreshes ran in between.  The exception is
\* the parent of the template Connect fetched, which may have been at work before
\* its announcement came.
CleanDiscardsOnlyOlder ==
    [][\A m \in Miners :
          clean /\ Send(Main, m) =>
              \A w \in told[m] : \/ w.data.parent < work[Main].data.parent
                                 \/ w.data.parent = work[Main].data.parent
                                    /\ w.data.parent = fetched
                                 \/ w.jobID >= work[Main].jobID]_vars

\* work.go:43-44: SetCurrent returns "a flag indicating whether it is a template
\* for a new parent block (clean jobs)".  When the node announces a parent, and some
\* miner has a job of an earlier one, the job is broadcast as clean, whatever
\* handlers refreshed in between.  The exception is again the parent of the template
\* Connect fetched: an announcement equal to it is taken for a duplicate, and no
\* miner is told that its older jobs are stale.
NewParentIsClean ==
    [][announced' > announced /\ (\E m \in clients : \E w \in told[m] : w.data.parent < announced')
          => clean' \/ announced' = fetched]_vars

-----------------------------------------------------------------------------
\* work.go:11-12: with a new parent "miners should consider previous jobs
\* stale", so the pool itself does not go back to the previous parent (the node's
\* events apart, of which the one Connect queued may be late).
ParentNeverRegresses ==
    [][UNCHANGED events /\ current # NoWork =>
          current'.data.parent >= current.data.parent]_vars

\* The same for one miner: a job that is new to it is never of an earlier parent
\* than a job it already has and than the pool's current job.
NotifiedParentsAdvance ==
    [][\A m \in Miners : \A w \in told'[m] \ told[m], v \in told[m] :
          \/ w.data.parent >= v.data.parent
          \/ w.data.parent >= current.data.parent]_vars
=============================================================================
