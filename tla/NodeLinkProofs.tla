-------------------------- MODULE NodeLinkProofs ---------------------------
(***************************************************************************)
(* Proofs about the link to the node, for any number of handlers, any      *)
(* capacity of the work channel and any number of templates.  The          *)
(* invariants of NodeLink are not inductive by themselves; Link adds where *)
(* Connect is while its one reply is on the wire, and what the last        *)
(* template of the pipeline from the node to the event loop is.            *)
(***************************************************************************)
EXTENDS NodeLink, SequenceTheorems, TLAPS

IsReply(msg) == "to" \in DOMAIN msg

\* Connect's calls, in their order.
LEMMA CallOrder ==
    After("wait") = "notify" /\ After("notify") = "fetch" /\ After("fetch") = "queue"
<1>1. DOMAIN Calls = 1..3 /\ Len(Calls) = 3
      /\ Calls[1] = "wait" /\ Calls[2] = "notify" /\ Calls[3] = "fetch"
  BY DEF Calls
<1>2. (CHOOSE n \in DOMAIN Calls : Calls[n] = "wait") = 1
  BY <1>1
<1>3. (CHOOSE n \in DOMAIN Calls : Calls[n] = "notify") = 2
  BY <1>1
<1>4. (CHOOSE n \in DOMAIN Calls : Calls[n] = "fetch") = 3
  BY <1>1
<1> QED BY <1>1, <1>2, <1>3, <1>4 DEF After

LEMMA MessageFacts ==
    /\ \A msg \in Notifications : ~IsReply(msg) /\ msg.template \in 1..MaxTemplates
    /\ \A msg \in Replies : /\ IsReply(msg) /\ msg.to \in Callers /\ msg.ok \in BOOLEAN
                            /\ msg.retry \in BOOLEAN /\ msg.template \in 0..MaxTemplates
BY DEF Notifications, Replies, IsReply

\* What Append and Tail do to the places of a sequence.
LEMMA AppendFacts ==
    ASSUME NEW S, NEW s \in Seq(S), NEW e \in S
    PROVE  /\ Append(s, e) \in Seq(S) /\ Len(Append(s, e)) = Len(s) + 1
           /\ DOMAIN s = 1..Len(s) /\ Len(s) \in Nat
           /\ DOMAIN Append(s, e) = 1..(Len(s) + 1)
           /\ Append(s, e)[Len(s) + 1] = e
           /\ \A i \in 1..Len(s) : Append(s, e)[i] = s[i]
<1>1. DOMAIN s = 1..Len(s) /\ Len(s) \in Nat
  BY LenProperties
<1>2. /\ Append(s, e) \in Seq(S) /\ Len(Append(s, e)) = Len(s) + 1
      /\ Append(s, e)[Len(s) + 1] = e
      /\ \A i \in 1..Len(s) : Append(s, e)[i] = s[i]
  BY AppendProperties
<1>3. DOMAIN Append(s, e) = 1..(Len(s) + 1)
  BY <1>2, LenProperties
<1> QED BY <1>1, <1>2, <1>3

LEMMA TailFacts ==
    ASSUME NEW S, NEW s \in Seq(S), s # << >>
    PROVE  /\ Tail(s) \in Seq(S) /\ Len(Tail(s)) = Len(s) - 1
           /\ DOMAIN s = 1..Len(s) /\ Len(s) \in Nat \ {0}
           /\ DOMAIN Tail(s) = 1..(Len(s) - 1)
           /\ Head(s) = s[1] /\ Head(s) \in S
           /\ \A i \in 1..(Len(s) - 1) : Tail(s)[i] = s[i + 1]
<1>1. DOMAIN s = 1..Len(s) /\ Len(s) \in Nat \ {0}
  BY LenProperties, EmptySeq
<1>2. /\ Tail(s) \in Seq(S) /\ Len(Tail(s)) = Len(s) - 1 /\ Head(s) \in S
      /\ \A i \in 1..(Len(s) - 1) : Tail(s)[i] = s[i + 1]
  BY HeadTailProperties
<1>3. DOMAIN Tail(s) = 1..(Len(s) - 1)
  BY <1>2, LenProperties
<1> QED BY <1>1, <1>2, <1>3

-----------------------------------------------------------------------------
\* A reply that lets Connect go on, by the call it answers.
Fits(msg) ==
    /\ connect = "wait" => msg.template # 0
    /\ connect = "notify" => msg.template = 0 /\ registered # 0
    /\ connect = "fetch" => msg.template # 0 /\ msg.template >= registered

\* Where Connect is tells what it waits for, what is registered and fetched.
Stages ==
    /\ main = "off" <=> connect # "done"
    /\ IF connect \in {"wait", "notify", "fetch"} THEN call[Setup] \in {connect, "answered"}
       ELSE call[Setup] = "none"
    /\ connect \in {"wait", "sleep"} => registered = 0
    /\ call[Setup] = "notify" => registered = 0
    /\ connect \in {"fetch", "queue", "done"} => registered # 0
    /\ connect \in {"notify", "fetch", "queue", "done"} => fetched # 0
    /\ connect \in {"queue", "done"} => fetched >= registered

ToSetup(msg) == IsReply(msg) /\ msg.to = Setup

\* At most one reply is on its way to Connect, and it answers its last call.
Answers ==
    \A i \in DOMAIN wire : ToSetup(wire[i]) =>
        /\ call[Setup] = "answered"
        /\ wire[i].ok => Fits(wire[i])
        /\ \A j \in DOMAIN wire : ToSetup(wire[j]) => j = i

NoNotification == \A i \in DOMAIN wire : IsReply(wire[i])

\* Nothing is announced before the registration.
NothingBefore == registered = 0 => queue = << >> /\ reader = 0 /\ NoNotification

\* The last template between the node and the event loop is the last announced,
\* unless Connect's own event went into the channel after it.
Pipeline ==
    main # "stopped" =>
        /\ \A i \in DOMAIN wire :
              ~IsReply(wire[i]) /\ (\A j \in DOMAIN wire : j > i => IsReply(wire[j]))
                  => wire[i].template = announced
        /\ NoNotification =>
              /\ reader # 0 => reader = announced
              /\ reader = 0 /\ queue # << >> =>
                    \/ queue[Len(queue)] = announced
                    \/ main = "select" /\ queue[Len(queue)] = fetched
              /\ reader = 0 /\ queue = << >> /\ main = "select" =>
                    current \in {announced, fetched}

Link == TypeOK /\ Stages /\ Answers /\ NothingBefore /\ Pipeline

LEMMA LinkInit == Init => Link
<1> SUFFICES ASSUME Init PROVE Link
  OBVIOUS
<1>1. Head(Calls) = "wait" /\ Setup \in Callers
  BY DEF Calls, Callers
<1>2. TypeOK
  BY <1>1, LinkBoundsAssumption DEF Init, TypeOK
<1>3. Stages
  BY <1>1 DEF Init, Stages
<1>4. DOMAIN wire = {}
  BY DEF Init
<1>5. Answers /\ NothingBefore /\ Pipeline
  BY <1>4 DEF Init, Answers, NothingBefore, NoNotification, Pipeline
<1> QED BY <1>2, <1>3, <1>5 DEF Link

-----------------------------------------------------------------------------
LEMMA LinkTyped ==
    ASSUME Link
    PROVE  /\ TypeOK /\ Stages /\ Answers /\ NothingBefore /\ Pipeline
           /\ MaxTemplates \in Nat /\ tip \in 1..MaxTemplates /\ announced \in 0..tip
           /\ registered \in 0..tip
           /\ wire \in Seq(Replies \cup Notifications) /\ queue \in Seq(1..MaxTemplates)
           /\ call \in [Callers -> {"none", "wait", "notify", "fetch", "submit", "answered"}]
           /\ Setup \in Callers /\ Handlers \subseteq Callers /\ Setup \notin Handlers
           /\ DOMAIN wire = 1..Len(wire) /\ Len(wire) \in Nat
           /\ DOMAIN queue = 1..Len(queue) /\ Len(queue) \in Nat
<1>1. TypeOK /\ Stages /\ Answers /\ NothingBefore /\ Pipeline
  BY DEF Link
<1>2. wire \in Seq(Replies \cup Notifications) /\ queue \in Seq(1..MaxTemplates)
  BY <1>1 DEF TypeOK
<1>3. /\ DOMAIN wire = 1..Len(wire) /\ Len(wire) \in Nat
      /\ DOMAIN queue = 1..Len(queue) /\ Len(queue) \in Nat
  BY <1>2, LenProperties
<1> QED BY <1>1, <1>2, <1>3, CallersAssumption, LinkBoundsAssumption DEF TypeOK, Callers

\* The messages on the wire after one more was sent, and after one was read.
LEMMA Sent ==
    ASSUME Link, NEW msg \in Replies \cup Notifications, wire' = Append(wire, msg)
    PROVE  /\ wire' \in Seq(Replies \cup Notifications)
           /\ DOMAIN wire' = 1..(Len(wire) + 1) /\ wire'[Len(wire) + 1] = msg
           /\ \A i \in 1..Len(wire) : wire'[i] = wire[i]
  BY LinkTyped, AppendFacts

LEMMA Read ==
    ASSUME Link, wire # << >>, wire' = Tail(wire)
    PROVE  /\ wire' \in Seq(Replies \cup Notifications)
           /\ Head(wire) = wire[1] /\ wire[1] \in Replies \cup Notifications
           /\ Len(wire) \in Nat \ {0} /\ DOMAIN wire' = 1..(Len(wire) - 1)
           /\ \A i \in 1..(Len(wire) - 1) : wire'[i] = wire[i + 1]
  BY LinkTyped, TailFacts

\* A reply changes nothing for the notifications before it.
LEMMA ReplyKeepsPipeline ==
    ASSUME Link, UNCHANGED <<reader, queue, announced, main, current, fetched>>,
           NEW msg \in Replies, wire' = Append(wire, msg)
    PROVE  Pipeline' /\ (NoNotification <=> NoNotification')
<1> PICK n \in Nat : n = Len(wire)
  BY LinkTyped
<1>1. DOMAIN wire = 1..n /\ DOMAIN wire' = 1..(n + 1) /\ IsReply(wire'[n + 1])
      /\ \A i \in 1..n : wire'[i] = wire[i]
  BY LinkTyped, Sent, MessageFacts
<1>2. \A i \in 1..(n + 1) : i = n + 1 \/ i \in 1..n
  OBVIOUS
<1>3. \A i \in 1..n : i \in 1..(n + 1) /\ i # n + 1
  OBVIOUS
<1>4. NoNotification <=> NoNotification'
  BY <1>1, <1>2, <1>3 DEF NoNotification
<1>5. ASSUME NEW i \in DOMAIN wire', ~IsReply(wire'[i]),
             \A j \in DOMAIN wire' : j > i => IsReply(wire'[j])
      PROVE  /\ i \in DOMAIN wire /\ ~IsReply(wire[i]) /\ wire'[i] = wire[i]
             /\ \A j \in DOMAIN wire : j > i => IsReply(wire[j])
  <2>1. i \in DOMAIN wire /\ wire'[i] = wire[i]
    BY <1>1, <1>2, <1>5
  <2>2. ASSUME NEW j \in DOMAIN wire, j > i PROVE IsReply(wire[j])
    BY <1>1, <1>3, <1>5, <2>2
  <2> QED BY <1>5, <2>1, <2>2
<1> QED BY <1>4, <1>5, LinkTyped DEF Pipeline

\* Reading a message leaves the last notification where it was, unless it was the one.
LEMMA ReadKeepsPipeline ==
    ASSUME Link, wire # << >>, wire' = Tail(wire), announced' = announced
    PROVE  /\ IsReply(wire[1]) => (NoNotification' <=> NoNotification)
           /\ main # "stopped" =>
                 /\ \A i \in DOMAIN wire' :
                       ~IsReply(wire'[i]) /\ (\A j \in DOMAIN wire' : j > i => IsReply(wire'[j]))
                           => wire'[i].template = announced'
                 /\ ~IsReply(wire[1]) /\ NoNotification' => wire[1].template = announced
<1> PICK n \in Nat \ {0} : n = Len(wire)
  BY Read
<1>1. DOMAIN wire = 1..n /\ DOMAIN wire' = 1..(n - 1)
      /\ \A i \in 1..(n - 1) : wire'[i] = wire[i + 1]
  BY LinkTyped, Read
<1>2. \A i \in 1..(n - 1) : i + 1 \in 1..n
  OBVIOUS
<1>3. \A j \in 1..n : j = 1 \/ (\E k \in 1..(n - 1) : j = k + 1)
  <2> SUFFICES ASSUME NEW j \in 1..n, j # 1 PROVE \E k \in 1..(n - 1) : j = k + 1
    OBVIOUS
  <2>1. j - 1 \in 1..(n - 1) /\ j = (j - 1) + 1
    OBVIOUS
  <2> QED BY <2>1
<1>4. ASSUME main # "stopped", NEW i \in DOMAIN wire', ~IsReply(wire'[i]),
             \A j \in DOMAIN wire' : j > i => IsReply(wire'[j])
      PROVE  wire'[i].template = announced'
  <2>1. PICK k \in 1..n : k = i + 1 /\ wire[k] = wire'[i]
    BY <1>1, <1>2
  <2>2. ASSUME NEW j \in 1..n, j > k PROVE IsReply(wire[j])
    <3>1. PICK l \in 1..(n - 1) : j = l + 1
      BY <1>3, <2>1, <2>2
    <3>2. l > i /\ wire'[l] = wire[j]
      BY <1>1, <2>1, <2>2, <3>1
    <3> QED BY <1>1, <1>4, <3>2
  <2>3. wire[k].template = announced
    BY <1>1, <1>4, <2>1, <2>2, LinkTyped DEF Pipeline
  <2> QED BY <2>1, <2>3
<1>5. NoNotification' => \A j \in 1..n : j # 1 => IsReply(wire[j])
  <2> SUFFICES ASSUME NoNotification', NEW j \in 1..n, j # 1 PROVE IsReply(wire[j])
    OBVIOUS
  <2>1. PICK k \in 1..(n - 1) : j = k + 1
    BY <1>3
  <2>2. wire'[k] = wire[j]
    BY <1>1, <2>1
  <2> QED BY <1>1, <2>2 DEF NoNotification
<1>6. NoNotification => NoNotification'
  BY <1>1, <1>2 DEF NoNotification
<1>7. IsReply(wire[1]) => (NoNotification' <=> NoNotification)
  BY <1>1, <1>5, <1>6 DEF NoNotification
<1>8. ASSUME main # "stopped", ~IsReply(wire[1]), NoNotification'
      PROVE  wire[1].template = announced
  <2>1. 1 \in 1..n /\ \A j \in 1..n : j > 1 => IsReply(wire[j])
    BY <1>5, <1>8
  <2> QED BY <1>1, <1>8, <2>1, LinkTyped DEF Pipeline
<1> QED BY <1>4, <1>7, <1>8

LEMMA LinkStep == Link /\ [Next]_vars => Link'
<1> SUFFICES ASSUME Link, [Next]_vars PROVE Link'
  OBVIOUS
<1> USE LinkTyped
<1>1. ASSUME Build PROVE Link'
  <2>1. TypeOK'
    BY <1>1 DEF TypeOK, Stages, Build, nodeVars, poolVars
  <2>2. Stages'
    BY <1>1 DEF Stages, Build, nodeVars, poolVars
  <2>3. Answers'
    BY <1>1 DEF Answers, Fits, Stages, Build, nodeVars, poolVars
  <2>4. NothingBefore'
    BY <1>1 DEF NothingBefore, NoNotification, Stages, Build, nodeVars, poolVars
  <2>5. Pipeline'
    BY <1>1 DEF Pipeline, NoNotification, Stages, Build, nodeVars, poolVars
  <2> QED BY <2>1, <2>2, <2>3, <2>4, <2>5 DEF Link
<1>2. ASSUME SyncChanges PROVE Link'
  <2>1. TypeOK'
    BY <1>2 DEF TypeOK, Stages, SyncChanges, nodeVars, poolVars
  <2>2. Stages'
    BY <1>2 DEF Stages, SyncChanges, nodeVars, poolVars
  <2>3. Answers'
    BY <1>2 DEF Answers, Fits, Stages, SyncChanges, nodeVars, poolVars
  <2>4. NothingBefore'
    BY <1>2 DEF NothingBefore, NoNotification, Stages, SyncChanges, nodeVars, poolVars
  <2>5. Pipeline'
    BY <1>2 DEF Pipeline, NoNotification, Stages, SyncChanges, nodeVars, poolVars
  <2> QED BY <2>1, <2>2, <2>3, <2>4, <2>5 DEF Link
<1>3. ASSUME Retry PROVE Link'
  <2>1. TypeOK'
    BY <1>3 DEF TypeOK, Stages, Retry, nodeVars, poolVars
  <2>2. Stages'
    BY <1>3 DEF Stages, Retry, nodeVars, poolVars
  <2>3. Answers'
    BY <1>3 DEF Answers, Fits, Stages, Retry, nodeVars, poolVars
  <2>4. NothingBefore'
    BY <1>3 DEF NothingBefore, NoNotification, Stages, Retry, nodeVars, poolVars
  <2>5. Pipeline'
    BY <1>3 DEF Pipeline, NoNotification, Stages, Retry, nodeVars, poolVars
  <2> QED BY <2>1, <2>2, <2>3, <2>4, <2>5 DEF Link
<1>4. ASSUME NEW h \in Handlers, Submit(h) PROVE Link'
  <2>1. TypeOK'
    BY <1>4 DEF TypeOK, Stages, Submit, nodeVars, poolVars
  <2>2. Stages'
    BY <1>4 DEF Stages, Submit, nodeVars, poolVars
  <2>3. Answers'
    BY <1>4 DEF Answers, Fits, Stages, Submit, nodeVars, poolVars
  <2>4. NothingBefore'
    BY <1>4 DEF NothingBefore, NoNotification, Stages, Submit, nodeVars, poolVars
  <2>5. Pipeline'
    BY <1>4 DEF Pipeline, NoNotification, Stages, Submit, nodeVars, poolVars
  <2> QED BY <2>1, <2>2, <2>3, <2>4, <2>5 DEF Link
<1>5. ASSUME NEW h \in Handlers, AnswerSubmit(h) PROVE Link'
  <2> DEFINE msg == [to |-> h, ok |-> TRUE, retry |-> FALSE, template |-> 0]
  <2>1. /\ msg \in Replies /\ msg.to = h
        /\ wire' = Append(wire, msg) /\ call' = [call EXCEPT ![h] = "answered"]
    BY <1>5 DEF AnswerSubmit, Reply, Replies
  <2>2. UNCHANGED <<nodeVars, poolVars, reader, queue>> /\ h \in Callers /\ h # Setup
    BY <1>5 DEF AnswerSubmit
  <2> HIDE DEF msg
  <2>3. PICK n \in Nat : n = Len(wire)
    OBVIOUS
  <2>4. /\ wire' \in Seq(Replies \cup Notifications)
        /\ DOMAIN wire = 1..n /\ DOMAIN wire' = 1..(n + 1) /\ wire'[n + 1] = msg
        /\ \A i \in 1..n : wire'[i] = wire[i]
    BY <2>1, <2>3, Sent
  <2>5. Pipeline' /\ (NoNotification <=> NoNotification')
    BY <2>1, <2>2, ReplyKeepsPipeline DEF nodeVars, poolVars
  <2>6. TypeOK' /\ Stages'
    BY <2>1, <2>2, <2>4 DEF TypeOK, Stages, nodeVars, poolVars
  <2>7. Answers'
    <3>1. \A i \in 1..(n + 1) : ToSetup(wire'[i]) => i \in 1..n /\ wire'[i] = wire[i]
      BY <2>1, <2>2, <2>4 DEF ToSetup
    <3>2. call'[Setup] = call[Setup] /\ UNCHANGED <<connect, registered>>
      BY <2>1, <2>2 DEF nodeVars, poolVars
    <3> QED BY <2>4, <3>1, <3>2 DEF Answers, ToSetup, Fits
  <2>8. NothingBefore'
    BY <2>2, <2>5 DEF NothingBefore, nodeVars
  <2> QED BY <2>5, <2>6, <2>7, <2>8 DEF Link
<1>6. ASSUME NEW msg \in Replies, msg.to = Setup, wire' = Append(wire, msg),
             call' = [call EXCEPT ![Setup] = "answered"],
             connect \in {"wait", "notify", "fetch"}, call[Setup] = connect,
             UNCHANGED <<tip, synced, poolVars, reader, queue>>,
             \/ UNCHANGED <<registered, announced>>
             \/ connect = "notify" /\ registered' = tip /\ announced' = tip,
             msg.ok => /\ connect = "wait" => msg.template # 0
                       /\ connect = "notify" => msg.template = 0 /\ registered' # 0
                       /\ connect = "fetch" => msg.template # 0 /\ msg.template >= registered'
      PROVE  Link'
  <2>1. PICK n \in Nat : n = Len(wire)
    OBVIOUS
  <2>2. /\ wire' \in Seq(Replies \cup Notifications)
        /\ DOMAIN wire = 1..n /\ DOMAIN wire' = 1..(n + 1) /\ wire'[n + 1] = msg
        /\ \A i \in 1..n : wire'[i] = wire[i]
    BY <1>6, <2>1, Sent
  <2>3. TypeOK'
    BY <1>6, <2>2 DEF TypeOK, poolVars
  <2>4. Stages'
    BY <1>6 DEF Stages, poolVars
  <2>5. Answers'
    <3>1. \A i \in 1..n : ~ToSetup(wire[i])
      BY <1>6, <2>2 DEF Answers
    <3>2. \A i \in 1..(n + 1) : ToSetup(wire'[i]) => i = n + 1
      <4>1. \A i \in 1..(n + 1) : i = n + 1 \/ i \in 1..n
        OBVIOUS
      <4> QED BY <2>2, <3>1, <4>1 DEF ToSetup
    <3>3. msg.ok => Fits(msg)'
      BY <1>6 DEF Fits, poolVars
    <3>4. call'[Setup] = "answered"
      BY <1>6
    <3> QED BY <2>2, <3>2, <3>3, <3>4 DEF Answers, ToSetup
  <2>6. NoNotification <=> NoNotification'
    <3>1. \A i \in 1..(n + 1) : i = n + 1 \/ i \in 1..n
      OBVIOUS
    <3>2. \A i \in 1..n : i \in 1..(n + 1)
      OBVIOUS
    <3> QED BY <2>2, <3>1, <3>2, MessageFacts DEF NoNotification
  <2>7. NothingBefore'
    <3>1. registered' = 0 => registered = 0
      BY <1>6
    <3> QED BY <1>6, <2>6, <3>1 DEF NothingBefore
  <2>8. CASE UNCHANGED <<registered, announced>>
    <3>1. Pipeline'
      BY <1>6, <2>8, ReplyKeepsPipeline DEF poolVars
    <3> QED BY <2>3, <2>4, <2>5, <2>7, <3>1 DEF Link
  <2>9. CASE connect = "notify" /\ registered' = tip /\ announced' = tip
    <3>1. queue' = << >> /\ reader' = 0 /\ NoNotification' /\ main' = "off"
      BY <1>6, <2>6, <2>9 DEF Stages, NothingBefore, poolVars
    <3>2. Pipeline'
      BY <3>1 DEF Pipeline, NoNotification
    <3> QED BY <2>3, <2>4, <2>5, <2>7, <3>2 DEF Link
  <2> QED BY <1>6, <2>8, <2>9
<1>7. ASSUME AnswerGetWork PROVE Link'
  <2>1. call[Setup] = connect /\ connect \in {"wait", "fetch"}
        /\ UNCHANGED <<nodeVars, poolVars, reader, queue>>
    BY <1>7 DEF AnswerGetWork, Stages
  <2>2. ASSUME NEW msg \in Replies, msg.to = Setup, wire' = Append(wire, msg),
               call' = [call EXCEPT ![Setup] = "answered"], msg.ok => msg.template = tip
        PROVE  Link'
    BY <1>6, <2>1, <2>2 DEF nodeVars
  <2>3. CASE Reply(Setup, TRUE, FALSE, tip)
    <3> DEFINE msg == [to |-> Setup, ok |-> TRUE, retry |-> FALSE, template |-> tip]
    <3>1. /\ msg \in Replies /\ msg.to = Setup /\ (msg.ok => msg.template = tip)
          /\ wire' = Append(wire, msg) /\ call' = [call EXCEPT ![Setup] = "answered"]
      BY <2>3 DEF Reply, Replies
    <3> HIDE DEF msg
    <3> QED BY <2>2, <3>1
  <2>4. CASE Reply(Setup, FALSE, TRUE, 0)
    <3> DEFINE msg == [to |-> Setup, ok |-> FALSE, retry |-> TRUE, template |-> 0]
    <3>1. /\ msg \in Replies /\ msg.to = Setup /\ (msg.ok => msg.template = tip)
          /\ wire' = Append(wire, msg) /\ call' = [call EXCEPT ![Setup] = "answered"]
      BY <2>4 DEF Reply, Replies
    <3> HIDE DEF msg
    <3> QED BY <2>2, <3>1
  <2>5. CASE Reply(Setup, FALSE, FALSE, 0)
    <3> DEFINE msg == [to |-> Setup, ok |-> FALSE, retry |-> FALSE, template |-> 0]
    <3>1. /\ msg \in Replies /\ msg.to = Setup /\ (msg.ok => msg.template = tip)
          /\ wire' = Append(wire, msg) /\ call' = [call EXCEPT ![Setup] = "answered"]
      BY <2>5 DEF Reply, Replies
    <3> HIDE DEF msg
    <3> QED BY <2>2, <3>1
  <2> QED BY <1>7, <2>3, <2>4, <2>5 DEF AnswerGetWork
<1>8. ASSUME AnswerNotifyWork PROVE Link'
  <2>1. call[Setup] = connect /\ connect = "notify"
        /\ UNCHANGED <<tip, synced, poolVars, reader, queue>>
    BY <1>8 DEF AnswerNotifyWork, Stages
  <2>2. CASE registered' = tip /\ announced' = tip /\ Reply(Setup, TRUE, FALSE, 0)
    <3> DEFINE msg == [to |-> Setup, ok |-> TRUE, retry |-> FALSE, template |-> 0]
    <3>1. /\ msg \in Replies /\ msg.to = Setup /\ msg.template = 0
          /\ wire' = Append(wire, msg) /\ call' = [call EXCEPT ![Setup] = "answered"]
      BY <2>2 DEF Reply, Replies
    <3> HIDE DEF msg
    <3> QED BY <1>6, <2>1, <2>2, <3>1
  <2>3. CASE Reply(Setup, FALSE, FALSE, 0) /\ UNCHANGED <<registered, announced>>
    <3> DEFINE msg == [to |-> Setup, ok |-> FALSE, retry |-> FALSE, template |-> 0]
    <3>1. /\ msg \in Replies /\ msg.to = Setup /\ ~msg.ok
          /\ wire' = Append(wire, msg) /\ call' = [call EXCEPT ![Setup] = "answered"]
      BY <2>3 DEF Reply, Replies
    <3> HIDE DEF msg
    <3> QED BY <1>6, <2>1, <2>3, <3>1
  <2> QED BY <1>8, <2>2, <2>3 DEF AnswerNotifyWork
<1>9. ASSUME Announce PROVE Link'
  <2> DEFINE msg == [template |-> announced + 1]
  <2>1. msg \in Notifications /\ wire' = Append(wire, msg) /\ announced' = announced + 1
        /\ registered # 0 /\ announced < tip
        /\ UNCHANGED <<tip, synced, registered, call, poolVars, reader, queue>>
    BY <1>9 DEF Announce, Notifications
  <2>2. ~IsReply(msg) /\ msg.template = announced'
    BY <2>1, MessageFacts
  <2> HIDE DEF msg
  <2>3. /\ wire' \in Seq(Replies \cup Notifications)
        /\ DOMAIN wire' = 1..(Len(wire) + 1) /\ wire'[Len(wire) + 1] = msg
        /\ \A i \in 1..Len(wire) : wire'[i] = wire[i]
    BY <2>1, Sent
  <2>4. TypeOK'
    BY <2>1, <2>3 DEF TypeOK, poolVars
  <2>5. Stages' /\ NothingBefore'
    BY <2>1 DEF Stages, NothingBefore, poolVars
  <2>6. Answers'
    BY <2>1, <2>2, <2>3 DEF Answers, ToSetup, Fits, poolVars
  <2>7. Pipeline'
    <3>1. ~NoNotification'
      BY <2>2, <2>3 DEF NoNotification
    <3>2. ASSUME NEW i \in DOMAIN wire', ~IsReply(wire'[i]),
                 \A j \in DOMAIN wire' : j > i => IsReply(wire'[j])
          PROVE  wire'[i].template = announced'
      <4>1. i = Len(wire) + 1
        BY <2>2, <2>3, <3>2
      <4> QED BY <2>2, <2>3, <4>1
    <3> QED BY <3>1, <3>2 DEF Pipeline
  <2> QED BY <2>4, <2>5, <2>6, <2>7 DEF Link
<1>10. ASSUME ReadReply PROVE Link'
  <2>1. /\ reader = 0 /\ wire # << >> /\ wire' = Tail(wire)
        /\ UNCHANGED <<nodeVars, main, current, reader, queue>>
    BY <1>10 DEF ReadReply
  <2>2. PICK n \in Nat \ {0} : n = Len(wire)
    BY <2>1, Read
  <2>3. /\ wire' \in Seq(Replies \cup Notifications)
        /\ DOMAIN wire = 1..n /\ DOMAIN wire' = 1..(n - 1)
        /\ \A i \in 1..(n - 1) : i + 1 \in 1..n /\ i + 1 # 1 /\ wire'[i] = wire[i + 1]
    BY <2>1, <2>2, Read
  <2>4. PICK msg \in Replies : msg = wire[1] /\ msg = Head(wire) /\ IsReply(msg)
    BY <1>10, <2>1, Read, MessageFacts DEF ReadReply, IsReply
  <2>5. NoNotification' <=> NoNotification
    BY <2>1, <2>4, ReadKeepsPipeline DEF nodeVars
  <2>6. NothingBefore'
    BY <2>1, <2>5 DEF NothingBefore, nodeVars
  <2>7. ASSUME UNCHANGED <<connect, fetched>> \/ main # "select" PROVE Pipeline'
    <3>1. main' # "stopped" =>
            \A i \in DOMAIN wire' :
              ~IsReply(wire'[i]) /\ (\A j \in DOMAIN wire' : j > i => IsReply(wire'[j]))
                  => wire'[i].template = announced'
      BY <2>1, ReadKeepsPipeline DEF nodeVars
    <3> QED BY <2>1, <2>5, <2>7, <3>1 DEF Pipeline, nodeVars
  <2>8. CASE msg.to # Setup
    <3>1. call' = [call EXCEPT ![msg.to] = "none"] /\ UNCHANGED <<connect, fetched>>
      BY <1>10, <2>4, <2>8 DEF ReadReply
    <3>2. msg.to \in Callers /\ call'[Setup] = call[Setup]
      BY <2>4, <2>8, <3>1, MessageFacts
    <3>3. TypeOK' /\ Stages'
      BY <2>1, <2>3, <3>1, <3>2 DEF TypeOK, Stages, nodeVars
    <3>4. Answers'
      BY <2>1, <2>3, <3>1, <3>2 DEF Answers, Fits, nodeVars
    <3> QED BY <2>6, <2>7, <3>1, <3>3, <3>4 DEF Link
  <2>9. CASE msg.to = Setup
    <3>1. Resume(msg)
      BY <1>10, <2>4, <2>9 DEF ReadReply
    <3>2. /\ ToSetup(wire[1]) /\ 1 \in DOMAIN wire
      BY <2>3, <2>4, <2>9 DEF ToSetup
    <3>3. call[Setup] = "answered" /\ (msg.ok => Fits(msg))
          /\ \A j \in 1..n : ToSetup(wire[j]) => j = 1
      BY <2>3, <2>4, <3>2 DEF Answers
    <3>4. connect \in {"wait", "notify", "fetch"} /\ main = "off" /\ main' = "off"
      BY <2>1, <3>3 DEF Stages
    <3>5. /\ msg.ok /\ connect = "wait" => connect' = "notify"
          /\ msg.ok /\ connect = "notify" => connect' = "fetch"
          /\ msg.ok /\ connect = "fetch" => connect' = "queue"
          /\ ~msg.ok => connect' = "failed" \/ (connect = "wait" /\ connect' = "sleep")
      BY <3>1, <3>4, CallOrder DEF Resume
    <3>6. /\ call'[Setup] = IF connect' \in {"notify", "fetch", "wait"} THEN connect' ELSE "none"
          /\ \A p \in Callers : p # Setup => call'[p] = call[p]
          /\ call' \in [Callers -> {"none", "wait", "notify", "fetch", "submit", "answered"}]
      BY <3>1, <3>5 DEF Resume
    <3>7. fetched' = IF msg.ok /\ msg.template # 0 THEN msg.template ELSE fetched
      BY <3>1 DEF Resume
    <3>8. msg.template \in 0..MaxTemplates
      BY MessageFacts
    <3>9. TypeOK'
      <4>1. connect' \in {"wait", "sleep", "notify", "fetch", "queue", "done", "failed"}
        BY <3>4, <3>5
      <4>2. fetched' \in 0..MaxTemplates
        BY <3>7, <3>8 DEF TypeOK
      <4> QED BY <2>1, <2>3, <3>6, <4>1, <4>2 DEF TypeOK, nodeVars
    <3>10. Stages'
      BY <2>1, <3>3, <3>4, <3>5, <3>6, <3>7, <3>8 DEF Stages, Fits, nodeVars
    <3>11. Answers'
      <4>1. \A i \in 1..(n - 1) : ~ToSetup(wire'[i])
        BY <2>3, <3>3
      <4> QED BY <2>3, <4>1 DEF Answers
    <3> QED BY <2>6, <2>7, <3>4, <3>9, <3>10, <3>11 DEF Link
  <2> QED BY <2>8, <2>9
<1>11. ASSUME ReadNotification PROVE Link'
  <2>1. /\ reader = 0 /\ wire # << >> /\ wire' = Tail(wire)
        /\ UNCHANGED <<nodeVars, call, poolVars, queue>>
    BY <1>11 DEF ReadNotification
  <2>2. PICK n \in Nat \ {0} : n = Len(wire)
    BY <2>1, Read
  <2>3. /\ wire' \in Seq(Replies \cup Notifications)
        /\ DOMAIN wire = 1..n /\ DOMAIN wire' = 1..(n - 1)
        /\ \A i \in 1..(n - 1) : i + 1 \in 1..n /\ wire'[i] = wire[i + 1]
    BY <2>1, <2>2, Read
  <2>4. /\ wire[1] \in Notifications /\ ~IsReply(wire[1])
        /\ reader' = wire[1].template /\ reader' \in 1..MaxTemplates
    BY <1>11, <2>1, Read, MessageFacts DEF ReadNotification, IsReply
  <2>5. TypeOK'
    BY <2>1, <2>3, <2>4 DEF TypeOK, nodeVars, poolVars
  <2>6. Stages'
    BY <2>1 DEF Stages, nodeVars, poolVars
  <2>7. Answers'
    <3>1. ASSUME NEW i \in 1..(n - 1), ToSetup(wire'[i])
          PROVE  /\ call[Setup] = "answered" /\ (wire'[i].ok => Fits(wire'[i]))
                 /\ \A j \in 1..(n - 1) : ToSetup(wire'[j]) => j = i
      <4>1. PICK k \in 1..n : k = i + 1 /\ wire[k] = wire'[i]
        BY <2>3
      <4>2. /\ call[Setup] = "answered" /\ (wire[k].ok => Fits(wire[k]))
            /\ \A j \in 1..n : ToSetup(wire[j]) => j = k
        BY <2>3, <3>1, <4>1 DEF Answers
      <4>3. ASSUME NEW j \in 1..(n - 1), ToSetup(wire'[j]) PROVE j = i
        <5>1. PICK l \in 1..n : l = j + 1 /\ wire[l] = wire'[j]
          BY <2>3
        <5> QED BY <4>1, <4>2, <4>3, <5>1
      <4> QED BY <4>1, <4>2, <4>3
    <3>2. UNCHANGED <<call, connect, registered>>
      BY <2>1 DEF nodeVars, poolVars
    <3> QED BY <2>3, <3>1, <3>2 DEF Answers, Fits
  <2>8. NothingBefore'
    <3>1. 1 \in 1..n
      OBVIOUS
    <3>2. ~NoNotification
      BY <2>3, <2>4, <3>1 DEF NoNotification
    <3> QED BY <2>1, <3>2 DEF NothingBefore, nodeVars
  <2>9. Pipeline'
    <3>1. main' # "stopped" =>
            /\ \A i \in DOMAIN wire' :
                 ~IsReply(wire'[i]) /\ (\A j \in DOMAIN wire' : j > i => IsReply(wire'[j]))
                     => wire'[i].template = announced'
            /\ NoNotification' => reader' = announced'
      BY <2>1, <2>4, ReadKeepsPipeline DEF nodeVars, poolVars
    <3> QED BY <2>4, <3>1 DEF Pipeline
  <2> QED BY <2>5, <2>6, <2>7, <2>8, <2>9 DEF Link
<1>12. ASSUME HandleWork PROVE Link'
  <2>1. /\ reader # 0 /\ reader' = 0 /\ reader \in 1..MaxTemplates
        /\ UNCHANGED <<nodeVars, wire, call, poolVars>>
    BY <1>12 DEF HandleWork, TypeOK
  <2>2. registered # 0
    BY <2>1 DEF NothingBefore
  <2>3. Stages' /\ Answers' /\ NothingBefore'
    BY <2>1, <2>2 DEF Stages, Answers, Fits, NothingBefore, nodeVars, poolVars
  <2>4. CASE Len(queue) < QueueCap /\ queue' = Append(queue, reader)
    <3>1. /\ queue' \in Seq(1..MaxTemplates) /\ Len(queue') = Len(queue) + 1
          /\ queue'[Len(queue')] = reader /\ queue' # << >>
      BY <2>1, <2>4, AppendFacts
    <3>2. TypeOK'
      BY <2>1, <2>4, <3>1, LinkBoundsAssumption DEF TypeOK, nodeVars, poolVars
    <3>3. Pipeline'
      BY <2>1, <3>1 DEF Pipeline, NoNotification, nodeVars, poolVars
    <3> QED BY <2>3, <3>2, <3>3 DEF Link
  <2>5. CASE main = "stopped" /\ UNCHANGED queue
    BY <2>1, <2>3, <2>5 DEF Link, TypeOK, Pipeline, nodeVars, poolVars
  <2> QED BY <1>12, <2>4, <2>5 DEF HandleWork
<1>13. ASSUME QueueInitial PROVE Link'
  <2>1. /\ connect = "queue" /\ Len(queue) < QueueCap /\ queue' = Append(queue, fetched)
        /\ connect' = "done" /\ main' = "select" /\ main = "off"
        /\ UNCHANGED <<nodeVars, wire, call, fetched, current, reader>>
    BY <1>13 DEF QueueInitial, Stages
  <2>2. registered # 0 /\ fetched \in 1..MaxTemplates /\ call[Setup] = "none"
    BY <2>1 DEF Stages, TypeOK
  <2>3. /\ queue' \in Seq(1..MaxTemplates) /\ Len(queue') = Len(queue) + 1
        /\ queue'[Len(queue')] = fetched /\ queue' # << >>
    <3>1. /\ queue' \in Seq(1..MaxTemplates) /\ Len(queue') = Len(queue) + 1
          /\ queue'[Len(queue) + 1] = fetched
      BY <2>1, <2>2, AppendFacts
    <3>2. queue' # << >>
      BY <2>1
    <3> QED BY <3>1, <3>2
  <2>4. TypeOK'
    BY <2>1, <2>3, LinkBoundsAssumption DEF TypeOK, nodeVars
  <2>5. Stages' /\ NothingBefore'
    BY <2>1, <2>2 DEF Stages, NothingBefore, nodeVars
  <2>6. Answers'
    BY <2>1, <2>2 DEF Answers
  <2>7. Pipeline'
    BY <2>1, <2>3 DEF Pipeline, NoNotification, nodeVars
  <2> QED BY <2>4, <2>5, <2>6, <2>7 DEF Link
<1>14. ASSUME TakeEvent PROVE Link'
  <2>1. /\ main = "select" /\ queue # << >> /\ current' = Head(queue) /\ queue' = Tail(queue)
        /\ UNCHANGED <<nodeVars, wire, call, connect, fetched, main, reader>>
    BY <1>14 DEF TakeEvent
  <2>2. PICK n \in Nat \ {0} : n = Len(queue)
    BY <2>1, TailFacts
  <2>3. /\ queue' \in Seq(1..MaxTemplates) /\ Len(queue') = n - 1
        /\ current' = queue[1] /\ current' \in 1..MaxTemplates
        /\ \A i \in 1..(n - 1) : queue'[i] = queue[i + 1]
    BY <2>1, <2>2, TailFacts
  <2>4. TypeOK'
    BY <2>1, <2>2, <2>3, LinkBoundsAssumption, SMTT(30) DEF TypeOK, nodeVars
  <2>5. Stages' /\ Answers'
    BY <2>1 DEF Stages, Answers, Fits, nodeVars
  <2>6. NothingBefore'
    BY <2>1 DEF NothingBefore, nodeVars
  <2>7. NoNotification /\ reader = 0 => queue[n] = announced \/ queue[n] = fetched
    BY <2>1, <2>2 DEF Pipeline
  <2>8. queue' # << >> => queue'[n - 1] = queue[n]
    <3>1. queue' # << >> => n - 1 \in 1..(n - 1) /\ (n - 1) + 1 = n
      BY <2>2, <2>3
    <3> QED BY <2>3, <3>1
  <2>9. queue' = << >> => current' = queue[n]
    <3>1. queue' = << >> => n = 1
      <4>1. queue' = << >> => Len(queue') = 0
        OBVIOUS
      <4> QED BY <2>3, <4>1
    <3> QED BY <2>3, <3>1
  <2>10. Pipeline'
    BY <2>1, <2>3, <2>7, <2>8, <2>9 DEF Pipeline, NoNotification, nodeVars
  <2> QED BY <2>4, <2>5, <2>6, <2>10 DEF Link
<1>15. ASSUME Shutdown PROVE Link'
  <2>1. /\ main = "select" /\ main' = "stopped" /\ wire' = << >>
        /\ call' = [p \in Callers |-> "none"] /\ DOMAIN wire' = {}
        /\ UNCHANGED <<nodeVars, connect, fetched, current, reader, queue>>
    BY <1>15 DEF Shutdown
  <2>2. TypeOK'
    BY <2>1 DEF TypeOK, nodeVars
  <2>3. Stages'
    BY <2>1 DEF Stages, nodeVars
  <2>4. Answers' /\ NothingBefore' /\ Pipeline'
    BY <2>1 DEF Answers, NothingBefore, NoNotification, Pipeline, nodeVars
  <2> QED BY <2>2, <2>3, <2>4 DEF Link
<1>16. CASE UNCHANGED vars
  BY <1>16 DEF Link, vars, nodeVars, poolVars, TypeOK, Stages, Answers, ToSetup, Fits,
               NothingBefore, NoNotification, Pipeline
<1> QED BY <1>1, <1>2, <1>3, <1>4, <1>5, <1>7, <1>8, <1>9, <1>10, <1>11, <1>12, <1>13,
           <1>14, <1>15, <1>16 DEF Next, NodeStep, ReaderStep, ConnectStep

LEMMA LinkHolds == Spec => []Link
  BY LinkInit, LinkStep, PTL DEF Spec

\* The link's state keeps its types: the channel never holds more than QueueCap events
\* and Connect never goes on with a reply to an earlier call.
THEOREM LinkTypeCorrect == Spec => []TypeOK
<1>1. Link => TypeOK
  BY DEF Link
<1> QED BY LinkHolds, <1>1, PTL

\* While Connect waits for the node nothing is queued that could block the reader.
THEOREM WaitIsAlwaysQuiet == Spec => []WaitIsQuiet
<1>1. Link => WaitIsQuiet
  BY DEF Link, Stages, NothingBefore, WaitIsQuiet
<1> QED BY LinkHolds, <1>1, PTL

\* No template is missed but by the one late event that Connect queues itself, for any
\* number of templates and any capacity of the channel.
THEOREM NoTemplateMissed == Spec => []OnlyInitialWorkIsLate
<1>1. Link => OnlyInitialWorkIsLate
  <2> SUFFICES ASSUME Link, Idle
               PROVE  current = tip \/ (current = fetched /\ fetched >= registered)
    BY DEF OnlyInitialWorkIsLate
  <2>1. NoNotification /\ connect = "done"
    BY DEF Idle, NoNotification, Link, Stages
  <2>2. current \in {announced, fetched} /\ fetched >= registered
    BY <2>1 DEF Idle, Link, Pipeline, Stages
  <2> QED BY <2>2 DEF Idle
<1> QED BY LinkHolds, <1>1, PTL
=============================================================================
