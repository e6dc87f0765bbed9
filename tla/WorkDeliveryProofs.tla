------------------------- MODULE WorkDeliveryProofs -------------------------
(***************************************************************************)
(* Proofs about the accept loop and the connections' life, for any number  *)
(* of connections, any capacity of the send queues and any bound on the    *)
(* miners: types, that the registered connections are those with a read    *)
(* loop or an unfinished close, that the bound holds although it is        *)
(* checked before a connection is registered, and what Stop can miss.  The *)
(* invariant behind them is JoiningIsNew: the connection the accept loop   *)
(* sets up is known to nobody else.                                        *)
(***************************************************************************)
EXTENDS WorkDelivery, FiniteSetTheorems, TLAPS

\* Where the accept loop is, and that the connection it adds is new: not
\* registered and in nobody's hands, and that it starts it once.
JoiningIsNew ==
    /\ acceptor \in {"accept", "done"} => joining = NoConn
    /\ acceptor \in {"add", "start"} => joining \in Conns /\ reader[joining] = "off"
    /\ acceptor = "start" => joining \in clients \/ closing[joining] = "done"
    /\ acceptor = "add" =>
          /\ joining \notin clients /\ closing[joining] = "open"
          /\ \A p \in Procs : joining \notin ToSet(todo[p])
    /\ clients \subseteq {c \in Conns : closing[c] # "done"}

\* Once Stop has taken the registered connections, the only open connection that
\* is not on its list is the one the accept loop was setting up.
Missed == {c \in Conns : closing[c] = "open"} \ ToSet(todo[Main])
StopList ==
    main \in {"stop", "stopped"} =>
        /\ ~listening
        /\ main = "stopped" => todo[Main] = << >>
        /\ \A c, d \in Missed : c = d
        /\ joining # NoConn => Missed \subseteq {joining}

\* The inductive invariant.
IInv == TypeOK /\ JoiningIsNew /\ RegisteredHasReader /\ StopList /\ CapRespected

\* An iteration order of a set of connections is a sequence of its elements.
LEMMA OrderOfClients ==
    ASSUME NEW S, S \subseteq Conns, NEW order \in SetToSeqs(S)
    PROVE  order \in Seq(Conns) /\ ToSet(order) = S
<1>1. IsFiniteSet(S)
  BY ConnsAssumption, FS_Subset
<1>2. Cardinality(S) \in Nat
  BY <1>1, FS_CardinalityType
<1>3. order \in [1..Cardinality(S) -> S]
  BY DEF SetToSeqs
<1>4. order \in Seq(Conns)
  BY <1>2, <1>3
<1>5. ToSet(order) \subseteq S
  BY <1>3 DEF ToSet
<1>6. S \subseteq ToSet(order)
  <2> DEFINE D == 1..Cardinality(S)
  <2>1. order \in Injection(D, S)
    BY DEF SetToSeqs, Injection, IsInjective
  <2>2. IsFiniteSet(D) /\ Cardinality(D) = Cardinality(S)
    BY <1>2, FS_Interval
  <2>3. order \in Surjection(D, S)
    BY <1>1, <2>1, <2>2, FS_Injection
  <2> QED BY <1>3, <2>3 DEF Surjection, ToSet
<1> QED BY <1>4, <1>5, <1>6

\* What is left to serve was to be served.
LEMMA RestOfOrder ==
    ASSUME NEW s \in Seq(Conns), s # << >>
    PROVE  Head(s) \in Conns /\ Tail(s) \in Seq(Conns) /\ ToSet(Tail(s)) \subseteq ToSet(s)
<1>1. Head(s) \in Conns /\ Tail(s) \in Seq(Conns) /\ Len(s) \in Nat \ {0}
  OBVIOUS
<1>2. ASSUME NEW i \in DOMAIN Tail(s)
      PROVE  i + 1 \in DOMAIN s /\ Tail(s)[i] = s[i + 1]
  OBVIOUS
<1>3. ToSet(Tail(s)) \subseteq ToSet(s)
  BY <1>2 DEF ToSet
<1> QED BY <1>1, <1>3

LEMMA HeadAndRest ==
    ASSUME NEW s \in Seq(Conns), s # << >>
    PROVE  \A c \in ToSet(s) : c = Head(s) \/ c \in ToSet(Tail(s))
<1> SUFFICES ASSUME NEW i \in 1..Len(s) PROVE s[i] = Head(s) \/ s[i] \in ToSet(Tail(s))
  BY DEF ToSet
<1>1. CASE i = 1
  BY <1>1
<1>2. CASE i # 1
  <2>1. i - 1 \in DOMAIN Tail(s) /\ Tail(s)[i - 1] = s[i]
    BY <1>2
  <2> QED BY <2>1 DEF ToSet
<1> QED BY <1>1, <1>2

\* The state after each kind of step that takes or consumes an order.
LEMMA OrdersStayTyped ==
    ASSUME TypeOK, NEW p \in Procs
    PROVE  /\ TakeClients(p) => /\ todo' \in [Procs -> Seq(Conns)]
                                /\ ToSet(todo'[p]) = clients
                                /\ \A q \in Procs : q # p => todo'[q] = todo[q]
                                /\ \A q \in Procs : ToSet(todo'[q]) \subseteq ToSet(todo[q]) \cup clients
           /\ (todo[p] # << >> /\ todo' = [todo EXCEPT ![p] = Tail(@)]) =>
                  /\ todo' \in [Procs -> Seq(Conns)]
                  /\ Head(todo[p]) \in Conns
                  /\ \A q \in Procs : ToSet(todo'[q]) \subseteq ToSet(todo[q])
<1>1. ASSUME TakeClients(p)
      PROVE  /\ todo' \in [Procs -> Seq(Conns)]
             /\ ToSet(todo'[p]) = clients
             /\ \A q \in Procs : q # p => todo'[q] = todo[q]
             /\ \A q \in Procs : ToSet(todo'[q]) \subseteq ToSet(todo[q]) \cup clients
  <2>1. PICK order \in SetToSeqs(clients) : todo' = [todo EXCEPT ![p] = order]
    BY <1>1 DEF TakeClients
  <2>2. order \in Seq(Conns) /\ ToSet(order) = clients
    BY OrderOfClients DEF TypeOK
  <2>3. todo' \in [Procs -> Seq(Conns)]
    BY <2>1, <2>2 DEF TypeOK
  <2>4. ASSUME NEW q \in Procs PROVE ToSet(todo'[q]) \subseteq ToSet(todo[q]) \cup clients
    <3>1. CASE q = p
      <4>1. todo'[q] = order
        BY <2>1, <3>1 DEF TypeOK
      <4> QED BY <4>1, <2>2
    <3>2. CASE q # p
      <4>1. todo'[q] = todo[q]
        BY <2>1, <3>2 DEF TypeOK
      <4> QED BY <4>1
    <3> QED BY <3>1, <3>2
  <2>5. todo'[p] = order /\ \A q \in Procs : q # p => todo'[q] = todo[q]
    BY <2>1 DEF TypeOK
  <2> QED BY <2>2, <2>3, <2>4, <2>5
<1>2. ASSUME todo[p] # << >>, todo' = [todo EXCEPT ![p] = Tail(@)]
      PROVE  /\ todo' \in [Procs -> Seq(Conns)]
             /\ Head(todo[p]) \in Conns
             /\ \A q \in Procs : ToSet(todo'[q]) \subseteq ToSet(todo[q])
  <2>1. todo[p] \in Seq(Conns)
    BY DEF TypeOK
  <2>2. Head(todo[p]) \in Conns /\ Tail(todo[p]) \in Seq(Conns) /\ ToSet(Tail(todo[p])) \subseteq ToSet(todo[p])
    BY <2>1, <1>2, RestOfOrder
  <2>3. todo' \in [Procs -> Seq(Conns)]
    BY <1>2, <2>2 DEF TypeOK
  <2>4. ASSUME NEW q \in Procs PROVE ToSet(todo'[q]) \subseteq ToSet(todo[q])
    <3>1. CASE q = p
      <4>1. todo'[q] = Tail(todo[p])
        BY <1>2, <3>1 DEF TypeOK
      <4> QED BY <4>1, <2>2, <3>1
    <3>2. CASE q # p
      <4>1. todo'[q] = todo[q]
        BY <1>2, <3>2 DEF TypeOK
      <4> QED BY <4>1
    <3> QED BY <3>1, <3>2
  <2> QED BY <2>2, <2>3, <2>4
<1> QED BY <1>1, <1>2

\* Enqueueing keeps the queues within their capacity.
LEMMA EnqueueTyped ==
    ASSUME TypeOK, NEW c \in Conns, Enqueue(c)
    PROVE  queue' \in [Conns -> 0..SendCap]
<1>1. CASE UNCHANGED queue
  BY <1>1 DEF TypeOK
<1>2. CASE queue[c] < SendCap /\ queue' = [queue EXCEPT ![c] = @ + 1]
  <2>1. queue[c] + 1 \in 0..SendCap
    BY <1>2, CapAssumption DEF TypeOK
  <2> QED BY <1>2, <2>1 DEF TypeOK
<1> QED BY <1>1, <1>2 DEF Enqueue

-----------------------------------------------------------------------------
LEMMA TypeStep == IInv /\ [Next]_vars => TypeOK'
<1> SUFFICES ASSUME TypeOK, JoiningIsNew, [Next]_vars PROVE TypeOK'
  BY DEF IInv
<1> USE ConnsAssumption, CapAssumption
<1>1. CASE AcceptStep \/ \E c \in Conns : Accept(c)
  <2>1. ASSUME NEW c \in Conns, Accept(c) PROVE TypeOK'
    BY <2>1 DEF TypeOK, Accept, loopVars
  <2>2. CASE Add
    BY <2>2 DEF TypeOK, JoiningIsNew, Add, loopVars
  <2>3. CASE Start
    BY <2>3 DEF TypeOK, JoiningIsNew, Start, connVars
  <2>4. CASE AcceptEnds
    BY <2>4 DEF TypeOK, AcceptEnds, connVars, loopVars
  <2> QED BY <1>1, <2>1, <2>2, <2>3, <2>4 DEF AcceptStep
<1>2. ASSUME NEW c \in Conns, Reset(c) \/ Read(c) \/ ReadFails(c) \/ CloseStep(c)
      PROVE  TypeOK'
  <2>1. CASE Reset(c)
    BY <2>1 DEF TypeOK, Reset, acceptVars, loopVars
  <2>2. CASE Read(c)
    BY <2>2 DEF TypeOK, Read, acceptVars, connVars
  <2>3. CASE ReadFails(c)
    BY <2>3 DEF TypeOK, ReadFails, CloseQuit, acceptVars
  <2>4. CASE CloseStep(c)
    BY <2>4 DEF TypeOK, CloseStep, CloseSocket, Unregister, acceptVars, loopVars
  <2> QED BY <1>2, <2>1, <2>2, <2>3, <2>4
<1>3. ASSUME NEW c \in Conns, ReaderStep(c)
      PROVE  TypeOK'
  <2>1. CASE Return(c)
    BY <2>1 DEF TypeOK, Return, acceptVars, connVars
  <2>2. CASE Refresh(c)
    <3>1. todo' \in [Procs -> Seq(Conns)]
      BY <2>2, OrdersStayTyped DEF Refresh, Procs
    <3> QED BY <2>2, <3>1 DEF TypeOK, Refresh, acceptVars, connVars
  <2>3. CASE BroadcastDone(c)
    BY <2>3 DEF TypeOK, BroadcastDone, acceptVars, connVars
  <2> QED BY <1>3, <2>1, <2>2, <2>3 DEF ReaderStep
<1>4. ASSUME NEW c \in Conns, WriterStep(c) \/ Written(c)
      PROVE  TypeOK'
  <2>1. CASE Take(c)
    BY <2>1 DEF TypeOK, Take, acceptVars, connVars
  <2>2. CASE Written(c) \/ WriteFails(c) \/ WriterQuits(c)
    BY <2>2 DEF TypeOK, Written, WriteFails, WriterQuits, acceptVars, connVars
  <2> QED BY <1>4, <2>1, <2>2 DEF WriterStep
<1>5. ASSUME NEW p \in Procs, Deliver(p)
      PROVE  TypeOK'
  <2>1. CASE SendWork(p)
    <3>1. todo' \in [Procs -> Seq(Conns)] /\ Head(todo[p]) \in Conns
      BY <2>1, OrdersStayTyped DEF SendWork
    <3>2. queue' \in [Conns -> 0..SendCap]
      BY <2>1, <3>1, EnqueueTyped DEF SendWork
    <3> QED BY <2>1, <3>1, <3>2 DEF TypeOK, SendWork, acceptVars, connVars, loopVars
  <2>2. CASE p \in Conns /\ Reply(p)
    <3>1. queue' \in [Conns -> 0..SendCap]
      BY <2>2, EnqueueTyped DEF Reply
    <3>2. out' \in [Conns -> Nat]
      <4>1. out[p] - 1 \in Nat
        BY <2>2 DEF TypeOK, Reply
      <4> QED BY <2>2, <4>1 DEF TypeOK, Reply
    <3> QED BY <2>2, <3>1, <3>2 DEF TypeOK, Reply, acceptVars, connVars
  <2> QED BY <1>5, <2>1, <2>2 DEF Deliver
<1>6. CASE TakeEvent \/ Stop
  <2>1. todo' \in [Procs -> Seq(Conns)]
    BY <1>6, OrdersStayTyped DEF TakeEvent, Stop, Procs
  <2> QED BY <1>6, <2>1 DEF TypeOK, TakeEvent, Stop, acceptVars, connVars, loopVars
<1>7. CASE MainStep
  <2>1. CASE StopClose
    BY <2>1 DEF TypeOK, StopClose, CloseQuit, acceptVars, loopVars
  <2>2. CASE StopClosed
    <3>1. todo' \in [Procs -> Seq(Conns)]
      BY <2>2, OrdersStayTyped DEF StopClosed, Procs
    <3> QED BY <2>2, <3>1 DEF TypeOK, StopClosed, acceptVars, connVars, loopVars
  <2>3. CASE EventDone \/ StopWait
    BY <2>3 DEF TypeOK, EventDone, StopWait, acceptVars, connVars, loopVars
  <2> QED BY <1>7, <2>1, <2>2, <2>3 DEF MainStep
<1>8. CASE UNCHANGED vars
  BY <1>8 DEF TypeOK, vars, acceptVars, connVars, loopVars
<1> QED
  BY <1>1, <1>2, <1>3, <1>4, <1>5, <1>6, <1>7, <1>8 DEF Next, Reject, Stopped

-----------------------------------------------------------------------------
LEMMA ReaderStepInv == IInv /\ [Next]_vars => (JoiningIsNew /\ RegisteredHasReader)'
<1> SUFFICES ASSUME TypeOK, JoiningIsNew, RegisteredHasReader, [Next]_vars
             PROVE  (JoiningIsNew /\ RegisteredHasReader)'
  BY DEF IInv
<1> USE ConnsAssumption
<1>1. CASE AcceptStep \/ \E c \in Conns : Accept(c)
  <2>1. ASSUME NEW c \in Conns, Accept(c) PROVE (JoiningIsNew /\ RegisteredHasReader)'
    BY <2>1 DEF TypeOK, JoiningIsNew, RegisteredHasReader, Accept, Free, loopVars
  <2>2. CASE Add
    BY <2>2 DEF TypeOK, JoiningIsNew, RegisteredHasReader, Add, loopVars
  <2>3. CASE Start
    BY <2>3 DEF TypeOK, JoiningIsNew, RegisteredHasReader, Start, connVars
  <2>4. CASE AcceptEnds
    BY <2>4 DEF TypeOK, JoiningIsNew, RegisteredHasReader, AcceptEnds, connVars, loopVars
  <2> QED BY <1>1, <2>1, <2>2, <2>3, <2>4 DEF AcceptStep
<1>2. ASSUME NEW c \in Conns, Reset(c) \/ Read(c)
      PROVE  (JoiningIsNew /\ RegisteredHasReader)'
  BY <1>2 DEF TypeOK, JoiningIsNew, RegisteredHasReader, Reset, Read, acceptVars, connVars, loopVars
<1>3. ASSUME NEW c \in Conns, ReadFails(c)
      PROVE  (JoiningIsNew /\ RegisteredHasReader)'
  BY <1>3 DEF TypeOK, JoiningIsNew, RegisteredHasReader, ReadFails, CloseQuit, acceptVars
<1>4. ASSUME NEW c \in Conns, CloseStep(c)
      PROVE  (JoiningIsNew /\ RegisteredHasReader)'
  <2>1. CASE CloseSocket(c)
    BY <2>1 DEF TypeOK, JoiningIsNew, RegisteredHasReader, CloseSocket, acceptVars, loopVars
  <2>2. CASE Unregister(c)
    BY <2>2 DEF TypeOK, JoiningIsNew, RegisteredHasReader, Unregister, acceptVars, loopVars
  <2> QED BY <1>4, <2>1, <2>2 DEF CloseStep
<1>5. ASSUME NEW c \in Conns, ReaderStep(c)
      PROVE  (JoiningIsNew /\ RegisteredHasReader)'
  <2>1. CASE Return(c) \/ BroadcastDone(c)
    BY <2>1 DEF TypeOK, JoiningIsNew, RegisteredHasReader, Return, BroadcastDone, acceptVars, connVars
  <2>2. CASE Refresh(c)
    <3>1. \A q \in Procs : ToSet(todo'[q]) \subseteq ToSet(todo[q]) \cup clients
      BY <2>2, OrdersStayTyped DEF Refresh, Procs
    <3> QED BY <2>2, <3>1 DEF TypeOK, JoiningIsNew, RegisteredHasReader, Refresh, acceptVars, connVars
  <2> QED BY <1>5, <2>1, <2>2 DEF ReaderStep
<1>6. ASSUME NEW c \in Conns, WriterStep(c) \/ Written(c)
      PROVE  (JoiningIsNew /\ RegisteredHasReader)'
  BY <1>6 DEF TypeOK, JoiningIsNew, RegisteredHasReader, WriterStep, Take, Written, WriteFails, WriterQuits,
     acceptVars, connVars
<1>7. ASSUME NEW p \in Procs, Deliver(p)
      PROVE  (JoiningIsNew /\ RegisteredHasReader)'
  <2>1. CASE SendWork(p)
    <3>1. \A q \in Procs : ToSet(todo'[q]) \subseteq ToSet(todo[q])
      BY <2>1, OrdersStayTyped DEF SendWork
    <3> QED BY <2>1, <3>1 DEF TypeOK, JoiningIsNew, RegisteredHasReader, SendWork, acceptVars, connVars, loopVars
  <2>2. CASE p \in Conns /\ Reply(p)
    BY <2>2 DEF TypeOK, JoiningIsNew, RegisteredHasReader, Reply, acceptVars, connVars
  <2> QED BY <1>7, <2>1, <2>2 DEF Deliver
<1>8. CASE TakeEvent \/ Stop
  <2>1. \A q \in Procs : ToSet(todo'[q]) \subseteq ToSet(todo[q]) \cup clients
    BY <1>8, OrdersStayTyped DEF TakeEvent, Stop, Procs
  <2> QED BY <1>8, <2>1 DEF TypeOK, JoiningIsNew, RegisteredHasReader, TakeEvent, Stop, acceptVars, connVars, loopVars
<1>9. CASE MainStep
  <2>1. CASE StopClose
    <3>1. Head(todo[Main]) \in ToSet(todo[Main])
      BY <2>1 DEF TypeOK, StopClose, Procs, ToSet
    <3> QED BY <2>1, <3>1 DEF TypeOK, JoiningIsNew, RegisteredHasReader, StopClose, CloseQuit, acceptVars, loopVars, Procs
  <2>2. CASE StopClosed
    <3>1. \A q \in Procs : ToSet(todo'[q]) \subseteq ToSet(todo[q])
      BY <2>2, OrdersStayTyped DEF StopClosed, Procs
    <3> QED BY <2>2, <3>1 DEF TypeOK, JoiningIsNew, RegisteredHasReader, StopClosed, acceptVars, connVars, loopVars
  <2>3. CASE EventDone \/ StopWait
    BY <2>3 DEF TypeOK, JoiningIsNew, RegisteredHasReader, EventDone, StopWait, acceptVars, connVars, loopVars
  <2> QED BY <1>9, <2>1, <2>2, <2>3 DEF MainStep
<1>10. CASE UNCHANGED vars
  BY <1>10 DEF JoiningIsNew, RegisteredHasReader, vars, acceptVars, connVars, loopVars
<1> QED
  BY <1>1, <1>2, <1>3, <1>4, <1>5, <1>6, <1>7, <1>8, <1>9, <1>10 DEF Next, Reject, Stopped

-----------------------------------------------------------------------------
LEMMA StopStep == IInv /\ [Next]_vars => StopList'
<1> SUFFICES ASSUME TypeOK, JoiningIsNew, RegisteredHasReader, StopList, [Next]_vars
             PROVE  StopList'
  BY DEF IInv
<1> USE ConnsAssumption
\* Nothing opens, and Stop's list stays.
<1>1. ASSUME \A c \in Conns : closing'[c] = "open" => closing[c] = "open",
             todo'[Main] = todo[Main], UNCHANGED <<main, listening>>,
             joining' = joining \/ joining' = NoConn
      PROVE  StopList'
  BY <1>1 DEF StopList, Missed
<1>2. ASSUME NEW c \in Conns, Accept(c) PROVE StopList'
  BY <1>2 DEF StopList, Accept
<1>3. CASE Add \/ Start \/ AcceptEnds
  BY <1>1, <1>3 DEF Add, Start, AcceptEnds, connVars
<1>4. ASSUME NEW c \in Conns, Reset(c) \/ Read(c) PROVE StopList'
  BY <1>1, <1>4 DEF Reset, Read, acceptVars, connVars
<1>5. ASSUME NEW c \in Conns, ReadFails(c) PROVE StopList'
  BY <1>1, <1>5 DEF ReadFails, CloseQuit, acceptVars, TypeOK
<1>6. ASSUME NEW c \in Conns, CloseStep(c) PROVE StopList'
  BY <1>1, <1>6 DEF CloseStep, CloseSocket, Unregister, acceptVars, TypeOK
<1>7. ASSUME NEW c \in Conns, Return(c) \/ BroadcastDone(c) PROVE StopList'
  BY <1>1, <1>7 DEF Return, BroadcastDone, acceptVars, connVars
<1>8. ASSUME NEW c \in Conns, Refresh(c) PROVE StopList'
  <2>1. todo'[Main] = todo[Main]
    BY <1>8, OrdersStayTyped DEF Refresh, Procs
  <2> QED BY <1>1, <1>8, <2>1 DEF Refresh, acceptVars, connVars
<1>9. ASSUME NEW c \in Conns, WriterStep(c) \/ Written(c) PROVE StopList'
  BY <1>1, <1>9 DEF WriterStep, Take, Written, WriteFails, WriterQuits, acceptVars, connVars
<1>10. ASSUME NEW p \in Procs, Deliver(p) PROVE StopList'
  <2>1. CASE p = Main
    <3>1. SendWork(Main) /\ main = "send"
      BY <1>10, <2>1 DEF Deliver, SendWork, Sending
    <3> QED BY <3>1 DEF StopList, SendWork
  <2>2. CASE p # Main
    BY <1>1, <1>10, <2>2 DEF Deliver, SendWork, Reply, acceptVars, connVars, TypeOK, Procs
  <2> QED BY <2>1, <2>2
<1>11. CASE Stop
  <2>1. ToSet(todo'[Main]) = clients
    BY <1>11, OrdersStayTyped DEF Stop, Procs
  <2>2. /\ main' = "stop" /\ listening' = FALSE /\ UNCHANGED <<joining, closing, clients>>
    BY <1>11 DEF Stop, connVars
  <2>3. Missed' \subseteq {joining}
    BY <2>1, <2>2 DEF Missed, RegisteredHasReader
  <2> QED BY <2>2, <2>3 DEF StopList
<1>12. CASE StopClose
  BY <1>1, <1>12 DEF StopClose, CloseQuit, acceptVars, TypeOK
<1>13. CASE StopClosed
  <2>1. todo[Main] \in Seq(Conns) /\ todo[Main] # << >> /\ todo'[Main] = Tail(todo[Main])
    BY <1>13 DEF StopClosed, TypeOK, Procs
  <2>2. \A c \in ToSet(todo[Main]) : c = Head(todo[Main]) \/ c \in ToSet(todo'[Main])
    BY <2>1, HeadAndRest
  <2>3. closing' = closing /\ closing[Head(todo[Main])] = "done"
        /\ UNCHANGED <<main, listening, joining>> /\ main = "stop"
    BY <1>13 DEF StopClosed, connVars, acceptVars
  <2>4. Missed' \subseteq Missed
    BY <2>2, <2>3 DEF Missed
  <2> QED BY <2>3, <2>4 DEF StopList
<1>14. CASE StopWait
  <2>1. main = "stop" /\ main' = "stopped" /\ todo[Main] = << >> /\ UNCHANGED <<todo, closing, listening, joining>>
    BY <1>14 DEF StopWait, connVars, acceptVars
  <2> QED BY <2>1 DEF StopList, Missed
<1>15. CASE TakeEvent \/ EventDone
  BY <1>15 DEF StopList, TakeEvent, EventDone
<1>16. CASE UNCHANGED vars
  BY <1>1, <1>16 DEF vars, acceptVars, connVars
<1> QED
  BY <1>2, <1>3, <1>4, <1>5, <1>6, <1>7, <1>8, <1>9, <1>10, <1>11, <1>12, <1>13, <1>14, <1>15, <1>16
     DEF Next, AcceptStep, ReaderStep, MainStep, Reject, Stopped

-----------------------------------------------------------------------------
\* The connections that count: the registered ones and the one being added.
Admitted == clients \cup ({joining} \ {NoConn})

LEMMA CapStep == IInv /\ [Next]_vars => CapRespected'
<1> SUFFICES ASSUME IInv, [Next]_vars PROVE CapRespected'
  OBVIOUS
<1> USE ConnsAssumption, CapAssumption
<1>1. IsFiniteSet(Admitted) /\ IsFiniteSet(clients) /\ Cardinality(Admitted) <= MaxClients
  <2>1. Admitted \subseteq Conns
    BY DEF Admitted, IInv, TypeOK
  <2> QED BY <2>1, FS_Subset DEF IInv, TypeOK, CapRespected, Admitted
<1>2. ASSUME Admitted' \subseteq Admitted PROVE CapRespected'
  <2>1. IsFiniteSet(Admitted') /\ Cardinality(Admitted') <= Cardinality(Admitted)
    BY <1>1, <1>2, FS_Subset
  <2>2. Cardinality(Admitted') \in Nat /\ Cardinality(Admitted) \in Nat
    BY <1>1, <2>1, FS_CardinalityType
  <2>3. Cardinality(Admitted') <= MaxClients
    BY <1>1, <2>1, <2>2
  <2> QED BY <2>3 DEF CapRespected, Admitted
<1>3. ASSUME NEW c \in Conns, Accept(c) PROVE CapRespected'
  <2>1. Admitted' = clients \cup {c}
    BY <1>3 DEF Accept, Admitted
  <2>2. Cardinality(clients) \in Nat /\ Cardinality(clients) < MaxClients
    BY <1>1, <1>3, FS_CardinalityType DEF Accept
  <2>3. Cardinality(clients \cup {c}) <= Cardinality(clients) + 1
    <3>1. Cardinality(clients \cup {c}) = Cardinality(clients)
             \/ Cardinality(clients \cup {c}) = Cardinality(clients) + 1
      BY <1>1, FS_AddElement, Zenon
    <3> QED BY <2>2, <3>1
  <2>4. Cardinality(clients \cup {c}) \in Nat
    BY <1>1, FS_AddElement, FS_CardinalityType
  <2>5. Cardinality(Admitted') <= MaxClients
    BY <2>1, <2>2, <2>3, <2>4
  <2> QED BY <2>5 DEF CapRespected, Admitted
<1>4. ASSUME clients' \subseteq clients, UNCHANGED joining PROVE CapRespected'
  BY <1>2, <1>4 DEF Admitted
<1>5. CASE AcceptStep
  <2>1. CASE Add
    BY <1>2, <2>1 DEF Add, Admitted, IInv, TypeOK, JoiningIsNew
  <2>2. CASE Start
    BY <1>2, <2>2 DEF Start, Admitted, connVars
  <2>3. CASE AcceptEnds
    BY <1>4, <2>3 DEF AcceptEnds, connVars
  <2> QED BY <1>5, <2>1, <2>2, <2>3 DEF AcceptStep
<1>6. ASSUME NEW c \in Conns,
             Reset(c) \/ Read(c) \/ ReadFails(c) \/ ReaderStep(c) \/ CloseStep(c) \/ Written(c) \/ WriterStep(c)
      PROVE  CapRespected'
  BY <1>4, <1>6 DEF Reset, Read, ReaderStep, ReadFails, Return, Refresh, BroadcastDone,
     CloseStep, CloseSocket, Unregister, WriterStep, Take, Written, WriteFails, WriterQuits, acceptVars, connVars
<1>7. ASSUME NEW p \in Procs, Deliver(p) PROVE CapRespected'
  BY <1>4, <1>7 DEF Deliver, SendWork, Reply, acceptVars, connVars
<1>8. CASE TakeEvent \/ Stop \/ MainStep
  BY <1>4, <1>8 DEF TakeEvent, Stop, MainStep, EventDone, StopClose, StopClosed, StopWait, acceptVars, connVars
<1>9. CASE UNCHANGED vars
  BY <1>4, <1>9 DEF vars, acceptVars, connVars
<1> QED
  BY <1>3, <1>5, <1>6, <1>7, <1>8, <1>9 DEF Next, Reject, Stopped

-----------------------------------------------------------------------------
LEMMA InitInv == Init => IInv
<1> SUFFICES ASSUME Init PROVE IInv
  OBVIOUS
<1> USE ConnsAssumption, CapAssumption DEF Init
<1>1. TypeOK
  BY DEF TypeOK
<1>2. JoiningIsNew /\ RegisteredHasReader /\ StopList
  BY DEF JoiningIsNew, RegisteredHasReader, StopList
<1>3. clients \cup ({joining} \ {NoConn}) = {}
  OBVIOUS
<1>4. CapRespected
  <2>1. Cardinality({}) = 0
    BY FS_EmptySet
  <2>2. Cardinality(clients \cup ({joining} \ {NoConn})) = 0
    BY <1>3, <2>1
  <2> QED BY <2>2 DEF CapRespected
<1> QED BY <1>1, <1>2, <1>4 DEF IInv

LEMMA Invariance == Spec => []IInv
<1>1. IInv /\ [Next]_vars => IInv'
  BY TypeStep, ReaderStepInv, StopStep, CapStep DEF IInv
<1> QED BY InitInv, <1>1, PTL DEF Spec

\* Types, and queues within their capacity (client.go's sends, 128 messages).
THEOREM DeliveryTypeCorrect == Spec => []TypeOK
<1>1. IInv => TypeOK
  BY DEF IInv
<1> QED BY Invariance, <1>1, PTL

\* A registered connection has the read loop that will notice that its miner left
\* until it begins to close, and no connection leaves the registry before the last
\* of the three steps of its close (client.go, readLoop and close).
THEOREM RegisteredConnectionsAreRead == Spec => []RegisteredHasReader
<1>1. IInv => RegisteredHasReader
  BY DEF IInv
<1> QED BY Invariance, <1>1, PTL

\* However many miners are connected and whatever their handlers do meanwhile, Stop
\* leaves one connection open at most (server.go, Stop against acceptLoop).
THEOREM StopIsNearlyComplete == Spec => []StopMissesAtMostOne
<1>1. IInv => StopMissesAtMostOne
  <2> SUFFICES ASSUME StopList, main = "stopped",
                      NEW c \in Conns, NEW d \in Conns, closing[c] = "open", closing[d] = "open"
               PROVE  c = d
    BY DEF IInv, StopMissesAtMostOne
  <2>1. ToSet(todo[Main]) = {}
    BY DEF StopList, ToSet
  <2>2. c \in Missed /\ d \in Missed
    BY <2>1 DEF Missed
  <2> QED BY <2>2 DEF StopList
<1> QED BY Invariance, <1>1, PTL

\* Never more than MaxClients miners (server.go, acceptLoop), whatever bound and
\* however connections come and go between the check and the registration.
THEOREM AdmissionBounded == Spec => []CapRespected
<1>1. IInv => CapRespected
  BY DEF IInv
<1> QED BY Invariance, <1>1, PTL
=============================================================================
