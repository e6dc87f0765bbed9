------------------------------ MODULE NodeLink ------------------------------
(***************************************************************************)
(* The pool's link to its node (internal/node/client.go) under the         *)
(* goroutines of main.go: Connect, the websocket reader that hands replies *)
(* to their callers and notifications to handleWork, the bounded workCh,   *)
(* the event loop that drains it once Connect is done, and handlers that   *)
(* submit blocks.  The reader runs handleWork itself, so a full channel    *)
(* keeps it from the replies behind (client.go:129-131).                   *)
(*                                                                         *)
(* The node's templates are numbered in the order it builds them.  The     *)
(* connection is not lost here: rpcclient's reconnects are out of scope.   *)
(***************************************************************************)
EXTENDS Integers, Sequences

CONSTANTS
    Setup,         \* the goroutine that runs Connect
    Handlers,      \* submit handlers
    QueueCap,      \* workEventBuffer (8 in main.go)
    MaxTemplates   \* bound of the model: templates the node builds

ASSUME CallersAssumption == Setup \notin Handlers
ASSUME LinkBoundsAssumption == QueueCap \in Nat \ {0} /\ MaxTemplates \in Nat \ {0}

VARIABLES
    tip,           \* the node's newest template (external)
    announced,     \* the newest it announced, or built before registration (external)
    synced,        \* the node serves getwork: it has peers and is up to date (external)
    registered,    \* its newest template when NotifyWork reached it, 0 before (external)
    wire,          \* messages on their way from the node
    call,          \* what each caller waits for
    connect,       \* where Connect is
    fetched,       \* the template Connect fetched, 0 before
    reader,        \* the template the reader is queueing, 0 when it reads
    queue,         \* workCh
    main,          \* "off" until Connect is done, "select" or "stopped"
    current        \* the template the event loop processed last, 0 before

nodeVars == <<tip, announced, synced, registered>>
poolVars == <<connect, fetched, main, current>>
vars == <<nodeVars, wire, call, poolVars, reader, queue>>

Callers == Handlers \cup {Setup}
Replies == [to : Callers, ok : BOOLEAN, retry : BOOLEAN, template : 0..MaxTemplates]
Notifications == [template : 1..MaxTemplates]

TypeOK ==
    /\ tip \in 1..MaxTemplates /\ announced \in 0..tip
    /\ synced \in BOOLEAN /\ registered \in 0..tip
    /\ wire \in Seq(Replies \cup Notifications)
    /\ call \in [Callers -> {"none", "wait", "notify", "fetch", "submit", "answered"}]
    /\ connect \in {"wait", "sleep", "notify", "fetch", "queue", "done", "failed"}
    /\ fetched \in 0..MaxTemplates /\ current \in 0..MaxTemplates
    /\ reader \in 0..MaxTemplates
    /\ queue \in Seq(1..MaxTemplates) /\ Len(queue) <= QueueCap
    /\ main \in {"off", "select", "stopped"}

-----------------------------------------------------------------------------
\* Mutant of Calls: the notifications are asked for before the wait.
CallsNotifyFirst == <<"notify", "wait", "fetch">>

\* Mutant of Calls: the reply that ended the wait is the initial work.
CallsReuse == <<"wait", "notify">>

\* Connect's calls: wait for a node that serves work, register, fetch.
Calls == <<"wait", "notify", "fetch">>

\* What Connect does when a call has succeeded.
After(c) ==
    LET i == CHOOSE n \in DOMAIN Calls : Calls[n] = c
    IN  IF i = Len(Calls) THEN "queue" ELSE Calls[i + 1]

Init ==
    /\ tip = 1 /\ announced = 0 /\ registered = 0
    /\ synced \in BOOLEAN
    /\ wire = << >>
    /\ call = [p \in Callers |-> IF p = Setup THEN Head(Calls) ELSE "none"]
    /\ connect = Head(Calls)
    /\ fetched = 0 /\ current = 0 /\ reader = 0
    /\ queue = << >>
    /\ main = "off"

-----------------------------------------------------------------------------
\* The node builds a template, and announces each one built after registration.
Build ==
    /\ tip < MaxTemplates
    /\ tip' = tip + 1
    /\ UNCHANGED <<announced, synced, registered, wire, call, poolVars, reader, queue>>

Announce ==
    /\ registered # 0 /\ announced < tip /\ main # "stopped"
    /\ announced' = announced + 1
    /\ wire' = Append(wire, [template |-> announced + 1])
    /\ UNCHANGED <<tip, synced, registered, call, poolVars, reader, queue>>

\* It loses its peers, or finds them again.
SyncChanges ==
    /\ synced' = ~synced
    /\ UNCHANGED <<tip, announced, registered, wire, call, poolVars, reader, queue>>

Reply(p, ok, retry, template) ==
    /\ wire' = Append(wire, [to |-> p, ok |-> ok, retry |-> retry, template |-> template])
    /\ call' = [call EXCEPT ![p] = "answered"]

\* getwork: the newest template, a refusal that is worth a retry while the node
\* is not synced, or another error.
AnswerGetWork ==
    /\ call[Setup] \in {"wait", "fetch"}
    /\ \/ synced /\ Reply(Setup, TRUE, FALSE, tip)
       \/ ~synced /\ Reply(Setup, FALSE, TRUE, 0)
       \/ Reply(Setup, FALSE, FALSE, 0)
    /\ UNCHANGED <<nodeVars, poolVars, reader, queue>>

\* notifywork: what was built before is never announced.
AnswerNotifyWork ==
    /\ call[Setup] = "notify"
    /\ \/ /\ registered' = tip /\ announced' = tip
          /\ Reply(Setup, TRUE, FALSE, 0)
       \/ /\ Reply(Setup, FALSE, FALSE, 0)
          /\ UNCHANGED <<registered, announced>>
    /\ UNCHANGED <<tip, synced, poolVars, reader, queue>>

\* A submission: accepted or not makes no difference to the link.
AnswerSubmit(h) ==
    /\ call[h] = "submit"
    /\ Reply(h, TRUE, FALSE, 0)
    /\ UNCHANGED <<nodeVars, poolVars, reader, queue>>

-----------------------------------------------------------------------------
\* Connect goes on with a reply: waitForNode sleeps over the errors of a node
\* that is not ready, every other error ends the pool.
Resume(msg) ==
    /\ connect' = IF msg.ok THEN After(connect)
                  ELSE IF connect = "wait" /\ msg.retry THEN "sleep" ELSE "failed"
    /\ call' = [call EXCEPT ![Setup] =
                   IF connect' \in {"notify", "fetch", "wait"} THEN connect' ELSE "none"]
    /\ fetched' = IF msg.ok /\ msg.template # 0 THEN msg.template ELSE fetched

\* The websocket reader hands a reply to its caller,
ReadReply ==
    /\ reader = 0 /\ wire # << >> /\ "to" \in DOMAIN Head(wire)
    /\ LET msg == Head(wire)
       IN  IF msg.to = Setup THEN Resume(msg)
           ELSE /\ call' = [call EXCEPT ![msg.to] = "none"]
                /\ UNCHANGED <<connect, fetched>>
    /\ wire' = Tail(wire)
    /\ UNCHANGED <<nodeVars, main, current, reader, queue>>

\* or runs OnWork,
ReadNotification ==
    /\ reader = 0 /\ wire # << >> /\ "to" \notin DOMAIN Head(wire)
    /\ reader' = Head(wire).template
    /\ wire' = Tail(wire)
    /\ UNCHANGED <<nodeVars, call, poolVars, queue>>

\* Mutant of HandleWork: the channel has no bound.
HandleWorkUnbounded ==
    /\ reader # 0
    /\ queue' = Append(queue, reader)
    /\ reader' = 0
    /\ UNCHANGED <<nodeVars, wire, call, poolVars>>

\* which queues the event, or drops it when the context is cancelled.
HandleWork ==
    /\ reader # 0
    /\ \/ Len(queue) < QueueCap /\ queue' = Append(queue, reader)
       \/ main = "stopped" /\ UNCHANGED queue
    /\ reader' = 0
    /\ UNCHANGED <<nodeVars, wire, call, poolVars>>

\* waitForNode: the interval is over.
Retry ==
    /\ connect = "sleep"
    /\ connect' = "wait"
    /\ call' = [call EXCEPT ![Setup] = "wait"]
    /\ UNCHANGED <<nodeVars, wire, fetched, main, current, reader, queue>>

\* Mutant of QueueInitial: the event is handed over, not queued.
QueueInitialUnbuffered ==
    /\ connect = "queue" /\ main = "select"
    /\ queue' = Append(queue, fetched)
    /\ connect' = "done"
    /\ UNCHANGED <<nodeVars, wire, call, fetched, main, current, reader>>

\* Connect's own handleWork; it returns and the event loop starts.
QueueInitial ==
    /\ connect = "queue" /\ Len(queue) < QueueCap
    /\ queue' = Append(queue, fetched)
    /\ connect' = "done" /\ main' = "select"
    /\ UNCHANGED <<nodeVars, wire, call, fetched, current, reader>>

-----------------------------------------------------------------------------
\* The event loop takes an event (ProcessWork).
TakeEvent ==
    /\ main = "select" /\ queue # << >>
    /\ current' = Head(queue)
    /\ queue' = Tail(queue)
    /\ UNCHANGED <<nodeVars, wire, call, connect, fetched, main, reader>>

\* A handler submits a block; there is work to solve.
Submit(h) ==
    /\ current # 0 /\ main = "select" /\ call[h] = "none"
    /\ call' = [call EXCEPT ![h] = "submit"]
    /\ UNCHANGED <<nodeVars, wire, poolVars, reader, queue>>

\* Mutant of Shutdown: the calls in flight are forgotten.
ShutdownKeepsCalls ==
    /\ main = "select"
    /\ main' = "stopped" /\ wire' = << >>
    /\ UNCHANGED <<nodeVars, connect, fetched, current, reader, queue, call>>

\* A signal ends the event loop; Shutdown cancels the context, closes the
\* connection and fails the calls in flight.
Shutdown ==
    /\ main = "select"
    /\ main' = "stopped"
    /\ wire' = << >>
    /\ call' = [p \in Callers |-> "none"]
    /\ UNCHANGED <<nodeVars, connect, fetched, current, reader, queue>>

-----------------------------------------------------------------------------
NodeStep == Announce \/ AnswerGetWork \/ AnswerNotifyWork \/ \E h \in Handlers : AnswerSubmit(h)
ReaderStep == ReadReply \/ ReadNotification \/ HandleWork
ConnectStep == Retry \/ QueueInitial

Next ==
    \/ Build \/ SyncChanges \/ NodeStep
    \/ ReaderStep \/ ConnectStep \/ TakeEvent
    \/ Shutdown \/ \E h \in Handlers : Submit(h)

Spec == Init /\ [][Next]_vars

\* The goroutines run, and a node that is connected answers every call; it need
\* not sync, build or announce anything.
Fairness ==
    /\ WF_vars(ReaderStep) /\ WF_vars(ConnectStep) /\ WF_vars(TakeEvent)
    /\ WF_vars(AnswerGetWork) /\ WF_vars(AnswerNotifyWork)
    /\ \A h \in Handlers : WF_vars(AnswerSubmit(h))

FairSpec == Spec /\ Fairness

-----------------------------------------------------------------------------
\* client.go:129-131: however long the node takes to sync and however many
\* templates it builds meanwhile, nothing is queued that could block the reader
\* and with it the replies Connect waits for.
WaitIsQuiet == connect \in {"wait", "sleep"} => queue = << >> /\ reader = 0

Idle ==
    /\ main = "select" /\ wire = << >> /\ queue = << >> /\ reader = 0
    /\ announced = tip

\* No template is missed (client.go:140-142): when nothing is under way the pool
\* works on the node's newest template.  The one exception is the template that
\* Connect fetched, which may be queued after a newer one was announced and then
\* stays current until the next announcement; it is never one older than the
\* registration, whose successors might not have been announced.
OnlyInitialWorkIsLate ==
    Idle => current = tip \/ (current = fetched /\ fetched >= registered)

\* The start-up can get stuck in one way only: announcements fill the channel
\* before the event loop runs, so that Connect cannot queue its own event, or the
\* reader cannot get past theirs to Connect's reply.
Jammed == main = "off" /\ Len(queue) = QueueCap /\ (reader # 0 \/ connect = "queue")
ConnectEndsOrJams == connect \in {"fetch", "queue"} ~> connect \in {"done", "failed"} \/ Jammed

\* Every submission returns, with the node's answer or because of the shutdown:
\* the reader never stays blocked while the event loop runs.
SubmissionsReturn ==
    \A h \in Handlers : call[h] \in {"submit", "answered"} ~> call[h] = "none"
=============================================================================
