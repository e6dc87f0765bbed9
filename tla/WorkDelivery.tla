---------------------------- MODULE WorkDelivery ----------------------------
(***************************************************************************)
(* How notifications and responses reach the miners: the accept loop, and  *)
(* for every connection a read loop that runs the handlers, a bounded send *)
(* queue and a write loop (client.go), served by broadcasts of the main    *)
(* loop and of the handlers of throttled blocks (server.go).  Enqueueing   *)
(* on a full queue blocks the sender until the writer takes a message or   *)
(* the connection is closed; the model is about who can wait for whom.     *)
(*                                                                         *)
(* Messages are counted, not told apart, and the socket buffers nothing it *)
(* sends: a Write returns when the peer has read, which it need not ever   *)
(* do.  A connection slot may be used again once nothing refers to its     *)
(* previous connection, so behaviours are infinite and no counter is       *)
(* needed.                                                                 *)
(***************************************************************************)
EXTENDS Integers, SequencesExt

CONSTANTS
    Conns,         \* connection slots
    Main,          \* the goroutine of the main loop
    NoConn,        \* no connection is being accepted
    Replies,       \* the numbers of messages a handler enqueues: {1, 3}
    SendCap,       \* capacity of a send queue (128 in client.go)
    MaxClients,    \* the configured bound on connected miners
    MayStop        \* bound of the model: whether the operator may stop the pool

ASSUME ConnsAssumption == IsFiniteSet(Conns) /\ Main \notin Conns /\ NoConn \notin Conns
ASSUME CapAssumption == SendCap \in Nat \ {0} /\ MaxClients \in Nat /\ Replies \subseteq Nat

VARIABLES
    listening,     \* the listener is open
    acceptor,      \* where the accept loop is
    joining,       \* the connection it is setting up, or NoConn
    clients,       \* the registered connections
    up,            \* connections whose socket works: the peer is there, not closed here
    closing,       \* how far Client.close has got; "done" if the slot is unused
    reader,        \* where each read loop is; "off" from its deferred close on
    out,           \* messages its handler has still to enqueue for its miner
    writer,        \* where each write loop is
    queue,         \* messages in each send queue
    main,          \* where the main loop is
    todo           \* per broadcaster: the connections still to be served, in order

acceptVars == <<listening, acceptor, joining>>
connVars == <<clients, up, closing>>
loopVars == <<reader, out, writer>>
vars == <<acceptVars, connVars, loopVars, queue, main, todo>>

Procs == Conns \cup {Main}

TypeOK ==
    /\ listening \in BOOLEAN
    /\ acceptor \in {"accept", "add", "start", "done"}
    /\ joining \in Conns \cup {NoConn}
    /\ clients \subseteq Conns /\ up \subseteq Conns
    /\ closing \in [Conns -> {"open", "quit", "socket", "done"}]
    /\ reader \in [Conns -> {"off", "read", "reply", "broadcast"}]
    /\ out \in [Conns -> Nat]
    /\ writer \in [Conns -> {"off", "select", "write"}]
    /\ queue \in [Conns -> 0..SendCap]
    /\ main \in {"select", "send", "stop", "stopped"}
    /\ todo \in [Procs -> Seq(Conns)]

Init ==
    /\ listening = TRUE /\ acceptor = "accept" /\ joining = NoConn
    /\ clients = {} /\ up = {}
    /\ closing = [c \in Conns |-> "done"]
    /\ reader = [c \in Conns |-> "off"]
    /\ out = [c \in Conns |-> 0]
    /\ writer = [c \in Conns |-> "off"]
    /\ queue = [c \in Conns |-> 0]
    /\ main = "select"
    /\ todo = [p \in Procs |-> << >>]

-----------------------------------------------------------------------------
\* Mutant: enqueueing waits for the writer even when the connection is closed.
EnqueueOpenOnly(c) == queue[c] < SendCap /\ queue' = [queue EXCEPT ![c] = @ + 1]

\* enqueue: the message enters the queue, or is dropped on a closed connection.
\* With both possible, select picks either.
Enqueue(c) ==
    \/ queue[c] < SendCap /\ queue' = [queue EXCEPT ![c] = @ + 1]
    \/ closing[c] # "open" /\ UNCHANGED queue

\* The registered connections, in the order the map is iterated.
TakeClients(p) == \E order \in SetToSeqs(clients) : todo' = [todo EXCEPT ![p] = order]

\* The socket fails: the peer reset the connection or it was closed here.
Broken(c) == c \notin up

\* Nothing refers to the slot's previous connection any more.
Free(c) ==
    /\ reader[c] = "off" /\ writer[c] = "off" /\ joining # c /\ closing[c] = "done"
    /\ \A p \in Procs : c \notin ToSet(todo[p])

-----------------------------------------------------------------------------
\* acceptLoop: a miner connects and is turned away at the bound.
Reject ==
    /\ acceptor = "accept" /\ listening
    /\ Cardinality(clients) >= MaxClients
    /\ UNCHANGED vars

\* Mutant of Accept: the backlog is served after the listener was closed.
AcceptBacklog(c) ==
    /\ acceptor = "accept" /\ Free(c)
    /\ Cardinality(clients) < MaxClients
    /\ joining' = c /\ acceptor' = "add"
    /\ up' = up \cup {c}
    /\ closing' = [closing EXCEPT ![c] = "open"]
    /\ queue' = [queue EXCEPT ![c] = 0]
    /\ UNCHANGED <<listening, clients, loopVars, main, todo>>

\* acceptLoop: a miner connects below the bound; newClient.
Accept(c) ==
    /\ acceptor = "accept" /\ listening /\ Free(c)
    /\ Cardinality(clients) < MaxClients
    /\ joining' = c /\ acceptor' = "add"
    /\ up' = up \cup {c}
    /\ closing' = [closing EXCEPT ![c] = "open"]
    /\ queue' = [queue EXCEPT ![c] = 0]
    /\ UNCHANGED <<listening, clients, loopVars, main, todo>>

\* addClient.
Add ==
    /\ acceptor = "add"
    /\ clients' = clients \cup {joining}
    /\ acceptor' = "start"
    /\ UNCHANGED <<listening, joining, up, closing, loopVars, queue, main, todo>>

\* client.start.
Start ==
    /\ acceptor = "start"
    /\ reader' = [reader EXCEPT ![joining] = "read"]
    /\ writer' = [writer EXCEPT ![joining] = "select"]
    /\ joining' = NoConn /\ acceptor' = "accept"
    /\ UNCHANGED <<listening, connVars, out, queue, main, todo>>

\* The accept loop ends when the listener is closed.
AcceptEnds ==
    /\ acceptor = "accept" /\ ~listening
    /\ acceptor' = "done"
    /\ UNCHANGED <<listening, joining, connVars, loopVars, queue, main, todo>>

-----------------------------------------------------------------------------
\* The peer's side fails at any time, with an answer or without.
Reset(c) ==
    /\ c \in up
    /\ up' = up \ {c}
    /\ UNCHANGED <<acceptVars, clients, closing, loopVars, queue, main, todo>>

\* readLoop: a request arrives, or one that was buffered before the connection
\* failed is read; its handler enqueues a response (and two notifications for a
\* subscription).
Read(c) ==
    /\ reader[c] = "read"
    /\ reader' = [reader EXCEPT ![c] = "reply"]
    /\ \E messages \in Replies : out' = [out EXCEPT ![c] = messages]
    /\ UNCHANGED <<acceptVars, connVars, writer, queue, main, todo>>

\* Mutant: a read loop that ends leaves the connection open.
ReadFailsLeaks(c) ==
    /\ reader[c] = "read" /\ Broken(c)
    /\ reader' = [reader EXCEPT ![c] = "off"]
    /\ UNCHANGED <<acceptVars, connVars, out, writer, queue, main, todo>>

\* Client.close runs once (sync.Once), in three calls with no lock held from one to
\* the next: close(quit),
CloseQuit(c) ==
    closing' = [closing EXCEPT ![c] = IF @ = "open" THEN "quit" ELSE @]

\* conn.Close
CloseSocket(c) ==
    /\ closing[c] = "quit"
    /\ closing' = [closing EXCEPT ![c] = "socket"]
    /\ up' = up \ {c}
    /\ UNCHANGED <<acceptVars, clients, loopVars, queue, main, todo>>

\* and removeClient.
Unregister(c) ==
    /\ closing[c] = "socket"
    /\ closing' = [closing EXCEPT ![c] = "done"]
    /\ clients' = clients \ {c}
    /\ UNCHANGED <<acceptVars, up, loopVars, queue, main, todo>>

\* readLoop: the read fails and the goroutine ends with the deferred close, or
\* waits there for the close that Stop has begun.
ReadFails(c) ==
    /\ reader[c] = "read" /\ Broken(c)
    /\ CloseQuit(c)
    /\ reader' = [reader EXCEPT ![c] = "off"]
    /\ UNCHANGED <<acceptVars, clients, up, out, writer, queue, main, todo>>

\* The handler enqueues a message for its own miner.
Reply(c) ==
    /\ reader[c] = "reply" /\ out[c] > 0
    /\ Enqueue(c)
    /\ out' = [out EXCEPT ![c] = @ - 1]
    /\ UNCHANGED <<acceptVars, connVars, reader, writer, main, todo>>

\* The handler has replied and returns,
Return(c) ==
    /\ reader[c] = "reply" /\ out[c] = 0
    /\ reader' = [reader EXCEPT ![c] = "read"]
    /\ UNCHANGED <<acceptVars, connVars, out, writer, queue, main, todo>>

\* or, after a throttled block, takes the registered connections to broadcast.
Refresh(c) ==
    /\ reader[c] = "reply" /\ out[c] = 0
    /\ TakeClients(c)
    /\ reader' = [reader EXCEPT ![c] = "broadcast"]
    /\ UNCHANGED <<acceptVars, connVars, out, writer, queue, main>>

\* A broadcaster enqueues the work for one connection; sending is the state of
\* the main loop and of the read loops that broadcast.
Sending(p) == IF p = Main THEN main = "send" ELSE reader[p] = "broadcast"

SendWork(p) ==
    /\ Sending(p) /\ todo[p] # << >>
    /\ Enqueue(Head(todo[p]))
    /\ todo' = [todo EXCEPT ![p] = Tail(@)]
    /\ UNCHANGED <<acceptVars, connVars, loopVars, main>>

\* The handler's broadcast is over.
BroadcastDone(c) ==
    /\ reader[c] = "broadcast" /\ todo[c] = << >>
    /\ reader' = [reader EXCEPT ![c] = "read"]
    /\ UNCHANGED <<acceptVars, connVars, out, writer, queue, main, todo>>

-----------------------------------------------------------------------------
\* Mutant: the writer takes from an empty queue.
TakeEmpty(c) ==
    /\ writer[c] = "select"
    /\ queue' = [queue EXCEPT ![c] = @ - 1]
    /\ writer' = [writer EXCEPT ![c] = "write"]
    /\ UNCHANGED <<acceptVars, connVars, reader, out, main, todo>>

\* writeLoop: a message is taken from the queue.
Take(c) ==
    /\ writer[c] = "select" /\ queue[c] > 0
    /\ queue' = [queue EXCEPT ![c] = @ - 1]
    /\ writer' = [writer EXCEPT ![c] = "write"]
    /\ UNCHANGED <<acceptVars, connVars, reader, out, main, todo>>

\* The peer reads it and Write returns.
Written(c) ==
    /\ writer[c] = "write" /\ ~Broken(c)
    /\ writer' = [writer EXCEPT ![c] = "select"]
    /\ UNCHANGED <<acceptVars, connVars, reader, out, queue, main, todo>>

\* Write fails: the goroutine ends and the connection is not closed.
WriteFails(c) ==
    /\ writer[c] = "write" /\ Broken(c)
    /\ writer' = [writer EXCEPT ![c] = "off"]
    /\ UNCHANGED <<acceptVars, connVars, reader, out, queue, main, todo>>

\* writeLoop: quit is closed.
WriterQuits(c) ==
    /\ writer[c] = "select" /\ closing[c] # "open"
    /\ writer' = [writer EXCEPT ![c] = "off"]
    /\ UNCHANGED <<acceptVars, connVars, reader, out, queue, main, todo>>

-----------------------------------------------------------------------------
\* ProcessWork: the main loop takes an event and the registered connections.
TakeEvent ==
    /\ main = "select"
    /\ main' = "send"
    /\ TakeClients(Main)
    /\ UNCHANGED <<acceptVars, connVars, loopVars, queue>>

EventDone ==
    /\ main = "send" /\ todo[Main] = << >>
    /\ main' = "select"
    /\ UNCHANGED <<acceptVars, connVars, loopVars, queue, todo>>

\* A signal ends the event loop; Stop closes the listener and takes the
\* registered connections,
Stop ==
    /\ main = "select" /\ MayStop
    /\ main' = "stop"
    /\ listening' = FALSE
    /\ TakeClients(Main)
    /\ UNCHANGED <<acceptor, joining, connVars, loopVars, queue>>

\* closes them one by one, waiting for a close that a read loop has begun,
StopClose ==
    /\ main = "stop" /\ todo[Main] # << >> /\ closing[Head(todo[Main])] = "open"
    /\ CloseQuit(Head(todo[Main]))
    /\ UNCHANGED <<acceptVars, clients, up, loopVars, queue, main, todo>>

StopClosed ==
    /\ main = "stop" /\ todo[Main] # << >> /\ closing[Head(todo[Main])] = "done"
    /\ todo' = [todo EXCEPT ![Main] = Tail(@)]
    /\ UNCHANGED <<acceptVars, connVars, loopVars, queue, main>>

\* and waits for the accept loop.
StopWait ==
    /\ main = "stop" /\ todo[Main] = << >> /\ acceptor = "done"
    /\ main' = "stopped"
    /\ UNCHANGED <<acceptVars, connVars, loopVars, queue, todo>>

-----------------------------------------------------------------------------
\* A goroutine waiting to enqueue: it waits for one connection at a time.
Deliver(p) == SendWork(p) \/ (p \in Conns /\ Reply(p))

ReaderStep(c) == Return(c) \/ Refresh(c) \/ BroadcastDone(c)
CloseStep(c) == CloseSocket(c) \/ Unregister(c)
WriterStep(c) == Take(c) \/ WriteFails(c) \/ WriterQuits(c)
MainStep == EventDone \/ StopClose \/ StopClosed \/ StopWait
AcceptStep == Add \/ Start \/ AcceptEnds

\* The process is about to exit.
Stopped == main = "stopped" /\ UNCHANGED vars

Next ==
    \/ Reject \/ AcceptStep \/ \E c \in Conns : Accept(c)
    \/ \E c \in Conns : Reset(c) \/ Read(c) \/ ReadFails(c) \/ ReaderStep(c)
    \/ \E c \in Conns : CloseStep(c) \/ Written(c) \/ WriterStep(c)
    \/ \E p \in Procs : Deliver(p)
    \/ TakeEvent \/ Stop \/ MainStep \/ Stopped

Spec == Init /\ [][Next]_vars

\* Every goroutine that can go on does.  Go serves the senders that wait for a
\* channel in turn, hence strong fairness for enqueueing, and what was buffered
\* for a broken connection is finite, hence strong fairness for the error behind
\* it.  The peer need neither send requests nor read what it is sent (Written is
\* not fair), and the node need not send work.
Fairness ==
    /\ WF_vars(AcceptStep)
    /\ WF_vars(MainStep)
    /\ \A c \in Conns : /\ SF_vars(ReadFails(c)) /\ WF_vars(ReaderStep(c))
                        /\ WF_vars(CloseStep(c)) /\ WF_vars(WriterStep(c))
    /\ \A p \in Procs : SF_vars(Deliver(p))

FairSpec == Spec /\ Fairness

-----------------------------------------------------------------------------
\* Never more than MaxClients miners, the one being accepted included: the
\* accept loop checks and registers in two steps, but it is alone to register.
CapRespected ==
    Cardinality(clients \cup ({joining} \ {NoConn})) <= MaxClients

\* A registered connection has a read loop (or is about to get it), the only
\* goroutine that notices that the miner left, until its close has taken it out
\* of the registry; and no open connection is left out of the broadcasts.
RegisteredHasReader ==
    /\ \A c \in clients : closing[c] = "open" => reader[c] # "off" \/ joining = c
    /\ \A c \in Conns : closing[c] # "done" /\ joining # c => c \in clients

\* Stop does not wait for the connections and misses one that is registered after
\* it took the list.  It is one at most: the accept loop sets up one at a time and
\* accepts nothing once the listener is closed.
StopMissesAtMostOne ==
    main = "stopped" => \A c, d \in Conns : closing[c] = "open" /\ closing[d] = "open" => c = d

\* A dead end: the writer ended on a failed Write, the queue is full, and the
\* read loop is inside a handler instead of reading the error that would make it
\* close the connection.
Zombie(c) ==
    /\ closing[c] = "open" /\ joining # c
    /\ writer[c] = "off" /\ queue[c] = SendCap
    /\ reader[c] \in {"reply", "broadcast"}

\* A peer that is there and does not read: no deadline ends the Write.
Deaf(c) == writer[c] = "write" /\ ~Broken(c)

\* What can hold up others for ever, and nothing else can.
DeadEnd == <>[](\E c \in Conns : Zombie(c)) \/ \E c \in Conns : <>[]Deaf(c)

\* A broadcast of node work ends, whatever miners connect, ask for or reset in
\* the meantime; only zombies and peers that never read can hold it up for ever,
\* never handlers that broadcast to each other's live connections.
OnlyDeadEndsBlockBroadcasts == <>[](main = "send") => DeadEnd

\* Nor does anything else keep a handler from getting back to its socket.
OnlyDeadEndsBlockHandlers ==
    \A c \in Conns : <>[](reader[c] \in {"reply", "broadcast"}) => DeadEnd

\* Once begun, Stop ends, dead ends or not.  It does not wait for the goroutines of
\* the connections it closed: these end as well, in the middle of a Write, an enqueue
\* or a broadcast, unless they send to a dead end that Stop has missed.
StopReleases ==
    <>[](\/ main = "stop"
         \/ \E c \in Conns : main = "stopped" /\ closing[c] = "done"
                              /\ (reader[c] # "off" \/ writer[c] # "off"))
    => \/ <>[](main = "stopped" /\ \E c \in Conns : Zombie(c))
       \/ \E c \in Conns : <>[](main = "stopped" /\ Deaf(c))

-----------------------------------------------------------------------------
\* server.go:195 "ProcessWork receives new work from the node and broadcasts
\* it": every broadcast of the main loop ends.
EveryBroadcastEnds == main = "send" ~> main # "send"
=============================================================================
